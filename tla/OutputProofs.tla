---------------------------- MODULE OutputProofs ----------------------------
(***************************************************************************)
(* The passes of asm_assemble, for every program, every base address and   *)
(* every capacity: types and buffers, the agreement of symbol array and    *)
(* hash table, and what the passes leave behind: where the displacement    *)
(* fields are, which of them resolve_fixups may patch, when a rel8 branch  *)
(* that was written from the symbol table of the moment is still right at  *)
(* the end, where lines and labels lie, and that the rows of the listing   *)
(* are those of the image.                                                 *)
(***************************************************************************)
EXTENDS Listing, TLAPS

LEMMA BaseInt == BaseAddress \in Int
  BY LimitsAssumption

(* Alignment padding is a byte count.                                      *)
LEMMA PaddingNat ==
    ASSUME NEW a \in Int, NEW m \in Int
    PROVE  Padding(a, m) \in Nat
  <1>1. CASE m > 1
    <2>1. a % m \in Int /\ 0 <= a % m /\ a % m < m
      BY <1>1
    <2>2. m - (a % m) \in Int
      BY <2>1
    <2>3. (m - (a % m)) % m \in Nat
      BY <2>2, <1>1
    <2> QED BY <1>1, <2>3 DEF Padding
  <1>2. CASE ~(m > 1)
    BY <1>2 DEF Padding
  <1> QED BY <1>1, <1>2

(* Encoders never report a negative length for operands they accept.       *)
LEMMA EncodedLengthNat ==
    ASSUME NEW inst \in Inst, NEW a \in Int, ~BadOperands(inst)
    PROVE  EncodedLength(inst, a) \in Nat
  <1>1. inst.off \in Nat /\ inst.tail \in Nat /\ inst.n \in Int /\ inst.type \in InstTypes
    BY DEF Inst
  <1>2. inst.type = "op" => inst.n \in Nat
    BY DEF Inst
  <1>3. \A m \in Int : Padding(a, m) \in Nat
    BY PaddingNat
  <1>4. Padding(a, inst.off) \in Nat /\ Padding(a, inst.n) \in Nat
    BY <1>1, <1>3
  <1> QED
    BY <1>1, <1>2, <1>4 DEF EncodedLength, BadOperands, NearLength, InstTypes

-----------------------------------------------------------------------------
(* What the symbol table operations return.                                *)

HashType(h) == DOMAIN h \subseteq Names /\ h \in [DOMAIN h -> HashEntry]

LEMMA PutType ==
    ASSUME NEW h, HashType(h), NEW name \in Names, NEW e \in HashEntry
    PROVE  HashType(Put(h, name, e))
  BY DEF HashType, Put

LEMMA NewSymbolType ==
    ASSUME NEW name \in Names, NEW addr \in Int, NEW glob \in BOOLEAN, NEW ext \in BOOLEAN,
           NEW sec \in Sections, NEW fun \in BOOLEAN
    PROVE  NewSymbol(name, addr, glob, ext, sec, fun) \in Symbol
  BY DEF NewSymbol, Symbol

(* A table of known type within its bound keeps both when a symbol is      *)
(* added, and when a label moves.                                          *)
LEMMA AddType ==
    ASSUME symbols \in Seq(Symbol), Len(symbols) <= MaxSymbols, HashType(hash),
           NEW name \in Names, NEW addr \in Int, NEW glob \in BOOLEAN, NEW ext \in BOOLEAN,
           NEW sec \in Sections, NEW fun \in BOOLEAN
    PROVE  /\ AddToArray(name, addr, glob, ext, sec, fun) \in Seq(Symbol)
           /\ Len(AddToArray(name, addr, glob, ext, sec, fun)) <= MaxSymbols
           /\ HashType(AddToHash(name, addr, ext, sec))
  <1>1. NewSymbol(name, addr, glob, ext, sec, fun) \in Symbol
    BY NewSymbolType
  <1>2. [address |-> addr, section |-> sec, is_external |-> ext] \in HashEntry
    BY DEF HashEntry
  <1>3. HashType(Put(hash, name, [address |-> addr, section |-> sec, is_external |-> ext]))
    BY <1>2, PutType
  <1> QED
    BY <1>1, <1>3, LimitsAssumption DEF AddToArray, AddToHash, CanAdd

(* A function over the positions of a sequence is again a sequence.        *)
LEMMA FieldsType ==
    ASSUME refs \in Seq(Ref), NEW f \in [DOMAIN refs -> Ref]
    PROVE  f \in Seq(Ref) /\ Len(f) = Len(refs)
  OBVIOUS

LEMMA ArrayType ==
    ASSUME symbols \in Seq(Symbol), NEW f \in [DOMAIN symbols -> Symbol]
    PROVE  f \in Seq(Symbol) /\ Len(f) = Len(symbols)
  OBVIOUS

LEMMA MoveType ==
    ASSUME symbols \in Seq(Symbol), HashType(hash), NEW name \in Names, NEW addr \in Int
    PROVE  /\ MoveInArray(name, addr) \in Seq(Symbol)
           /\ Len(MoveInArray(name, addr)) = Len(symbols)
           /\ HashType(MoveInHash(name, addr))
  <1>1. MoveInArray(name, addr) \in Seq(Symbol) /\ Len(MoveInArray(name, addr)) = Len(symbols)
    <2>1. \A j \in DOMAIN symbols : symbols[j] \in Symbol
      OBVIOUS
    <2>2. \A s \in Symbol : [s EXCEPT !.address = addr] \in Symbol
      BY DEF Symbol
    <2>3. MoveInArray(name, addr) \in [DOMAIN symbols -> Symbol]
      BY <2>1, <2>2 DEF MoveInArray
    <2> QED BY <2>3, ArrayType
  <1>2. CASE Known(name) /\ InArray(name)
    <2>1. find_symbol_entry(name) \in Symbol
      BY <1>2 DEF find_symbol_entry, InArray
    <2>2. [address |-> addr, section |-> find_symbol_entry(name).section,
           is_external |-> find_symbol_entry(name).is_external] \in HashEntry
      BY <2>1 DEF Symbol, HashEntry
    <2> QED BY <1>1, <1>2, <2>2, PutType DEF MoveInHash
  <1>3. CASE ~(Known(name) /\ InArray(name))
    BY <1>1, <1>3 DEF MoveInHash
  <1> QED BY <1>2, <1>3

(* Rewriting a constant operand keeps the instruction well formed, and its *)
(* kind, label and target as they were.                                    *)
LEMMA RewrittenInst ==
    ASSUME NEW inst \in Inst, NEW h, HashType(h)
    PROVE  /\ Rewritten(inst, h) \in Inst
           /\ Rewritten(inst, h).type = inst.type
           /\ Rewritten(inst, h).label = inst.label
           /\ Rewritten(inst, h).target = inst.target
           /\ inst.type = "section" => Rewritten(inst, h) = inst
  <1>1. CASE inst.form = "label" /\ inst.target \in DOMAIN h /\ h[inst.target].section = -1
    <2>1. h[inst.target].address \in Int
      BY <1>1 DEF HashType, HashEntry
    <2> QED BY <1>1, <2>1 DEF Rewritten, Inst, Forms
  <1>2. CASE ~(inst.form = "label" /\ inst.target \in DOMAIN h /\ h[inst.target].section = -1)
    BY <1>2 DEF Rewritten
  <1> QED BY <1>1, <1>2

(* A displacement field of an encoded instruction.                         *)
LEMMA RefType ==
    ASSUME HashType(hash), NEW inst \in Inst, NEW a \in Int, ~BadOperands(inst), HasRef(inst)
    PROVE  /\ RefAt(inst, a) \in Ref
           /\ FixupFor(RefAt(inst, a)) \in Fixup
           /\ RefOffset(inst, a) \in Nat
  <1>1. inst.off \in Nat /\ inst.n \in Int /\ inst.target \in NameOpt
    BY DEF Inst
  <1>2. RefOffset(inst, a) \in Nat
    BY <1>1 DEF RefOffset
  <1>3. EncodedLength(inst, a) \in Nat
    BY EncodedLengthNat
  <1>4. ShortBranch(inst, a) => hash[inst.target].address \in Int
    BY DEF ShortBranch, Known, HashType, HashEntry
  <1>5. RefAt(inst, a) \in Ref
    BY <1>1, <1>2, <1>3, <1>4 DEF RefAt, Ref
  <1>6. FixupFor(RefAt(inst, a)) \in Fixup
    BY <1>5 DEF FixupFor, Ref, Fixup
  <1> QED BY <1>2, <1>5, <1>6

-----------------------------------------------------------------------------
(* Types and capacities.  They are proved together: that text_size stays   *)
(* a natural number needs the room left in the buffer to be one.           *)

Typed == TypeOK /\ WithinCapacity

LEMMA CurInstTyped ==
    ASSUME Typed, HasInst
    PROVE  CurInst \in Inst /\ current_address \in Int /\ HashType(hash)
  BY DEF Typed, TypeOK, HasInst, CurInst, HashType

LEMMA TypedInit == Init => Typed
  <1> SUFFICES ASSUME Init PROVE Typed
    OBVIOUS
  <1>1. insts \in Seq(Inst)
    BY ProgramsAssumption DEF Init
  <1>2. DOMAIN hash \subseteq Names /\ hash \in [DOMAIN hash -> HashEntry]
    BY DEF Init
  <1>3. symbols \in Seq(Symbol) /\ refs \in Seq(Ref) /\ fixups \in Seq(Fixup)
        /\ line_map \in Seq(Int) /\ weak_attrs \in Seq(Names) /\ hidden_attrs \in Seq(Names)
        /\ Len(symbols) = 0 /\ Len(fixups) = 0 /\ Len(line_map) = 0
    BY DEF Init
  <1>4. current_address \in Int /\ data_address \in Int
    BY LimitsAssumption DEF Init
  <1>5. pc \in Phases /\ err \in Errors
    BY DEF Init, Phases, Errors
  <1>6. /\ i \in Nat \ {0} /\ iter \in Nat /\ mode_iter \in {0, 1}
        /\ current_section \in {0, 1} /\ text_size \in Nat /\ data_size \in Nat
    BY DEF Init
  <1>7. changed \in BOOLEAN /\ converged \in BOOLEAN
    BY DEF Init
  <1>8. TypeOK
    BY <1>1, <1>2, <1>3, <1>4, <1>5, <1>6, <1>7 DEF TypeOK
  <1>9. WithinCapacity
    BY <1>3, LimitsAssumption DEF Init, WithinCapacity
  <1> QED BY <1>8, <1>9 DEF Typed

(* The size estimates of the passes are integers.                          *)
LEMMA EstimatesInt ==
    ASSUME NEW inst \in Inst, NEW a \in Int, NEW h
    PROVE  /\ TextEstimate(inst) \in Int
           /\ LabelPassSize(inst, a) \in Int
           /\ RelaxedSize(inst, h, a) \in Int
  <1>1. inst.off \in Nat /\ inst.tail \in Nat /\ inst.n \in Int /\ inst.est \in Nat
    BY DEF Inst
  <1>2. \A m \in Int : Padding(a, m) \in Nat
    BY PaddingNat
  <1>3. Padding(a, inst.off) \in Nat /\ Padding(a, inst.n) \in Nat
    BY <1>1, <1>2
  <1>4. estimate_instruction_size(inst) \in Int /\ DataSize(inst) \in Int /\ NearLength(inst) \in Int
    BY <1>1 DEF estimate_instruction_size, DataSize, NearLength
  <1>5. TextEstimate(inst) \in Int
    BY <1>1, <1>4 DEF TextEstimate
  <1>6. LabelPassSize(inst, a) \in Int
    BY <1>1, <1>3, <1>4 DEF LabelPassSize
  <1>7. RelaxedSize(inst, h, a) \in Int
    BY <1>1, <1>4 DEF RelaxedSize
  <1> QED BY <1>5, <1>6, <1>7

LEMMA TypedEstimate ==
    ASSUME Typed, EstimateText \/ EndEstimate
    PROVE  Typed'
  <1> USE DEF Typed, TypeOK, WithinCapacity, table, output, attrs, control, Phases
  <1>1. CASE EstimateText
    <2>1. CurInst \in Inst
      BY <1>1, CurInstTyped DEF EstimateText
    <2>2. TextEstimate(CurInst) \in Int /\ (CurInst.type = "section" => CurInst.n \in {0, 1})
      BY <2>1, EstimatesInt DEF Inst
    <2> QED BY <1>1, <2>2, SMTT(30) DEF EstimateText, apply_section_directive
  <1>2. CASE EndEstimate
    BY <1>2, BaseInt DEF EndEstimate
  <1> QED BY <1>1, <1>2

LEMMA TypedLabels ==
    ASSUME Typed, LabelPass \/ EndLabelPass
    PROVE  Typed'
  <1> USE DEF Typed, TypeOK, WithinCapacity, table, output, attrs, control, Phases
  <1>1. CASE LabelPass
    <2>1. CurInst \in Inst
      BY <1>1, CurInstTyped DEF LabelPass
    <2>2. CurInst.type = "section" => CurInst.n \in {0, 1}
      BY <2>1 DEF Inst
    <2>3. CASE apply_section_directive /\ UNCHANGED <<pc, err, current_address, data_address, table>>
      BY <1>1, <2>2, <2>3 DEF LabelPass, apply_section_directive
    <2>4. CASE RecordLabel
      <3> DEFINE here == IF current_section = 0 THEN current_address ELSE data_address
                 size == LabelPassSize(CurInst, here)
                 fun == current_section = 0 /\ CurInst.label = StartName
      <3>1. here \in Int
        OBVIOUS
      <3>2. size \in Int
        <4> HIDE DEF here
        <4> QED BY <2>1, <3>1, EstimatesInt
      <3>3. symbols' \in Seq(Symbol) /\ Len(symbols') <= MaxSymbols /\ HashType(hash')
        <4>1. CASE CurInst.label # NoName
          <5>1. CurInst.label \in Names
            BY <2>1, <4>1 DEF Inst, NameOpt
          <5>2. current_section \in Sections /\ fun \in BOOLEAN
            BY DEF Sections
          <5>3. /\ AddToArray(CurInst.label, here, FALSE, FALSE, current_section, fun) \in Seq(Symbol)
                /\ Len(AddToArray(CurInst.label, here, FALSE, FALSE, current_section, fun)) <= MaxSymbols
                /\ HashType(AddToHash(CurInst.label, here, FALSE, current_section))
            <6> HIDE DEF here, fun
            <6> QED BY <3>1, <5>1, <5>2, AddType DEF HashType
          <5> QED BY <2>4, <4>1, <5>3 DEF RecordLabel
        <4>2. CASE CurInst.label = NoName
          BY <2>4, <4>2 DEF RecordLabel, HashType
        <4> QED BY <4>1, <4>2
      <3>4. current_address' \in Int /\ data_address' \in Int /\ i' \in Nat \ {0}
            /\ pc' \in Phases /\ err' \in Errors /\ current_section' = current_section
        <4> HIDE DEF size, here
        <4>1. size \in Int
          BY <3>2
        <4>2. \/ Fail("reserve") /\ UNCHANGED <<i, current_address, data_address>>
              \/ /\ i' = i + 1
                 /\ current_address' = current_address + IF current_section = 0 THEN size ELSE 0
                 /\ data_address' = data_address + IF current_section = 0 THEN 0 ELSE size
                 /\ UNCHANGED <<pc, err>>
          BY <2>4 DEF RecordLabel, size, here
        <4>3. current_section' = current_section
          BY <2>4 DEF RecordLabel
        <4>4. CASE Fail("reserve") /\ UNCHANGED <<i, current_address, data_address>>
          BY <4>3, <4>4 DEF Fail, Errors
        <4>5. CASE /\ i' = i + 1
                   /\ current_address' = current_address + IF current_section = 0 THEN size ELSE 0
                   /\ data_address' = data_address + IF current_section = 0 THEN 0 ELSE size
                   /\ UNCHANGED <<pc, err>>
          <5>1. /\ current_address \in Int /\ data_address \in Int /\ i \in Nat \ {0}
                /\ pc \in Phases /\ err \in Errors
            OBVIOUS
          <5> HIDE DEF Typed, TypeOK, WithinCapacity, Phases
          <5> QED BY <4>1, <4>3, <4>5, <5>1
        <4> QED BY <4>2, <4>4, <4>5
      <3> QED BY <1>1, <3>3, <3>4 DEF LabelPass, HashType
    <2> QED BY <1>1, <2>3, <2>4 DEF LabelPass
  <1>2. CASE EndLabelPass
    BY <1>2 DEF EndLabelPass
  <1> QED BY <1>1, <1>2

LEMMA TypedEqu ==
    ASSUME Typed, ResolveEqu \/ EndEqu
    PROVE  Typed'
  <1> USE DEF Typed, TypeOK, WithinCapacity, table, output, attrs, control, Phases
  <1>1. CASE ResolveEqu
    <2> DEFINE name == CurInst.label
               value == EquValue(CurInst)
    <2>1. CurInst \in Inst
      BY <1>1, CurInstTyped DEF ResolveEqu
    <2>2. i' \in Nat \ {0} /\ pc' \in Phases /\ err' \in Errors
      <3>1. \/ i' = i + 1 /\ UNCHANGED <<pc, err>>
            \/ \E reason \in Errors : Fail(reason) /\ i' = i
        BY <1>1 DEF ResolveEqu, upsert_constant_symbol, Errors
      <3> QED BY <3>1, SMTT(30) DEF Fail
    <2>3. symbols' \in Seq(Symbol) /\ Len(symbols') <= MaxSymbols /\ HashType(hash')
      <3>1. CASE UNCHANGED table
        BY <3>1 DEF HashType
      <3>2. CASE IsEqu(CurInst) /\ EquDefined(CurInst) /\ EquSupported(CurInst)
                 /\ upsert_constant_symbol(name, value)
        <4>1. name \in Names
          BY <2>1, <3>2 DEF IsEqu, Inst, NameOpt
        <4>2. value \in Int
          <5>1. \A m \in DOMAIN hash : hash[m].address \in Int
            BY DEF HashEntry
          <5>2. CASE CurInst.form = "label"
            BY <3>2, <5>1, <5>2 DEF EquValue, EquDefined, Known
          <5>3. CASE CurInst.form = "diff"
            BY <3>2, <5>1, <5>3, SMTT(30) DEF EquValue, EquDefined, Known
          <5>4. CASE CurInst.form = "imm"
            BY <2>1, <5>4 DEF EquValue, Inst
          <5> QED BY <3>2, <5>2, <5>3, <5>4 DEF EquSupported
        <4>3. -1 \in Sections
          BY DEF Sections
        <4> HIDE DEF name, value
        <4>4. CASE UNCHANGED table
          BY <4>4 DEF HashType
        <4>5. CASE /\ hash' = Put(hash, name, [address |-> value, section |-> -1,
                                               is_external |-> FALSE])
                   /\ symbols' = [j \in DOMAIN symbols |->
                        IF symbols[j].name = name
                          THEN [symbols[j] EXCEPT !.address = value, !.section = -1,
                                                  !.is_external = FALSE]
                          ELSE symbols[j]]
          <5>1. [address |-> value, section |-> -1, is_external |-> FALSE] \in HashEntry
            BY <4>2, <4>3 DEF HashEntry
          <5>2. \A s \in Symbol : [s EXCEPT !.address = value, !.section = -1,
                                            !.is_external = FALSE] \in Symbol
            BY <4>2, <4>3 DEF Symbol
          <5>3. \A j \in DOMAIN symbols : symbols[j] \in Symbol
            OBVIOUS
          <5>4. symbols' \in [DOMAIN symbols -> Symbol]
            BY <4>5, <5>2, <5>3
          <5> QED BY <4>1, <4>5, <5>1, <5>4, PutType, ArrayType DEF HashType
        <4>6. CASE /\ symbols' = AddToArray(name, value, FALSE, FALSE, -1, FALSE)
                   /\ hash' = AddToHash(name, value, FALSE, -1)
          BY <4>1, <4>2, <4>3, <4>6, AddType DEF HashType
        <4> QED BY <3>2, <4>4, <4>5, <4>6 DEF upsert_constant_symbol
      <3> QED BY <1>1, <3>1, <3>2 DEF ResolveEqu
    <2> QED BY <1>1, <2>2, <2>3 DEF ResolveEqu, HashType
  <1>2. CASE EndEqu
    <2>1. iter' \in Nat /\ pc' \in Phases /\ i' = 1 /\ current_section' \in {0, 1}
          /\ current_address' \in Int
      BY <1>2, BaseInt DEF EndEqu
    <2>2. changed' \in BOOLEAN
      BY <1>2 DEF EndEqu
    <2> QED BY <1>2, <2>1, <2>2, SMTT(30) DEF EndEqu
  <1> QED BY <1>1, <1>2

LEMMA TypedRelax ==
    ASSUME Typed, Relax \/ EndRelax
    PROVE  Typed'
  <1> USE DEF Typed, TypeOK, WithinCapacity, table, output, attrs, control, Phases
  <1>1. CASE Relax
    <2>1. CurInst \in Inst
      BY <1>1, CurInstTyped DEF Relax
    <2>2. CurInst.type = "section" => CurInst.n \in {0, 1}
      BY <2>1 DEF Inst
    <2>3. CASE apply_section_directive /\ UNCHANGED <<current_address, table, changed>>
      BY <1>1, <2>2, <2>3 DEF Relax, apply_section_directive
    <2>4. CASE RelaxText
      <3>1. HashType(hash') /\ symbols' \in Seq(Symbol) /\ Len(symbols') <= MaxSymbols
        <4>1. CASE CurInst.label # NoName
          <5>1. CurInst.label \in Names
            BY <2>1, <4>1 DEF Inst, NameOpt
          <5>2. /\ MoveInArray(CurInst.label, current_address) \in Seq(Symbol)
                /\ Len(MoveInArray(CurInst.label, current_address)) = Len(symbols)
                /\ HashType(MoveInHash(CurInst.label, current_address))
            BY <5>1, MoveType DEF HashType
          <5> QED BY <2>4, <4>1, <5>2 DEF RelaxText
        <4>2. CASE CurInst.label = NoName
          BY <2>4, <4>2 DEF RelaxText, HashType
        <4> QED BY <4>1, <4>2
      <3>2. current_address' \in Int
        <4>1. RelaxedSize(CurInst, hash', current_address) \in Int
          BY <2>1, EstimatesInt
        <4> QED BY <2>4, <4>1 DEF RelaxText
      <3>3. changed' \in BOOLEAN
        BY <2>4 DEF RelaxText, Moves
      <3> QED BY <1>1, <2>4, <3>1, <3>2, <3>3, SMTT(30) DEF Relax, RelaxText, HashType
    <2>5. CASE CurInst.type # "section" /\ current_section = 1 /\ i' = i + 1
               /\ UNCHANGED <<current_section, current_address, table, changed>>
      BY <1>1, <2>5, SMTT(30) DEF Relax
    <2> QED BY <1>1, <2>3, <2>4, <2>5 DEF Relax
  <1>2. CASE EndRelax
    <2>1. iter' \in Nat /\ pc' \in Phases /\ i' = 1 /\ current_section' = 0
          /\ current_address' \in Int
      BY <1>2, BaseInt, SMTT(30) DEF EndRelax
    <2>2. changed' \in BOOLEAN
      BY <1>2 DEF EndRelax
    <2> QED BY <1>2, <2>1, <2>2, SMTT(30) DEF EndRelax
  <1> QED BY <1>1, <1>2

(* The label and operand step shared by the text and the data pass.        *)
LEMMA SettleType ==
    ASSUME Typed, HasInst, SettleOperands
    PROVE  /\ symbols' \in Seq(Symbol) /\ Len(symbols') = Len(symbols)
           /\ HashType(hash')
           /\ insts' \in Seq(Inst) /\ Len(insts') = Len(insts)
           /\ \A j \in DOMAIN insts :
                 /\ insts'[j].type = insts[j].type
                 /\ insts'[j].label = insts[j].label /\ insts'[j].target = insts[j].target
                 /\ insts[j].type = "section" => insts'[j] = insts[j]
  <1> USE DEF Typed, TypeOK
  <1>1. CurInst \in Inst /\ i \in DOMAIN insts
    BY DEF HasInst, CurInst
  <1>2. symbols' \in Seq(Symbol) /\ Len(symbols') = Len(symbols) /\ HashType(hash')
    <2>1. CASE CurInst.label # NoName
      <3>1. CurInst.label \in Names
        BY <1>1, <2>1 DEF Inst, NameOpt
      <3>2. /\ MoveInArray(CurInst.label, current_address) \in Seq(Symbol)
            /\ Len(MoveInArray(CurInst.label, current_address)) = Len(symbols)
            /\ HashType(MoveInHash(CurInst.label, current_address))
        BY <3>1, MoveType DEF HashType
      <3> QED BY <2>1, <3>2 DEF SettleOperands
    <2>2. CASE CurInst.label = NoName
      BY <2>2 DEF SettleOperands, HashType
    <2> QED BY <2>1, <2>2
  <1>3. insts' = [insts EXCEPT ![i] = Rewritten(CurInst, hash')]
    BY DEF SettleOperands
  <1>4. /\ Rewritten(CurInst, hash') \in Inst
        /\ Rewritten(CurInst, hash').type = CurInst.type
        /\ Rewritten(CurInst, hash').label = CurInst.label
        /\ Rewritten(CurInst, hash').target = CurInst.target
        /\ CurInst.type = "section" => Rewritten(CurInst, hash') = CurInst
    BY <1>1, <1>2, RewrittenInst
  <1>5. insts' \in Seq(Inst) /\ Len(insts') = Len(insts)
    BY <1>1, <1>3, <1>4
  <1>6. \A j \in DOMAIN insts :
                 /\ insts'[j].type = insts[j].type
                 /\ insts'[j].label = insts[j].label /\ insts'[j].target = insts[j].target
                 /\ insts[j].type = "section" => insts'[j] = insts[j]
    BY <1>1, <1>3, <1>4 DEF CurInst
  <1> QED BY <1>2, <1>5, <1>6

LEMMA TypedText ==
    ASSUME Typed, StartTextPass \/ TextPass
    PROVE  Typed'
  <1> USE DEF Typed, TypeOK, WithinCapacity, table, output, attrs, control, Phases
  <1>1. CASE StartTextPass
    <2>1. Len(fixups') <= MaxSymbols /\ Len(line_map') <= MaxLineMap /\ text_size' <= TextCapacity
      BY <1>1, LimitsAssumption DEF StartTextPass
    <2>2. changed' \in BOOLEAN
      BY <1>1 DEF StartTextPass
    <2>3. /\ fixups' \in Seq(Fixup) /\ refs' \in Seq(Ref) /\ line_map' \in Seq(Int)
          /\ weak_attrs' \in Seq(Names) /\ hidden_attrs' \in Seq(Names)
      BY <1>1 DEF StartTextPass
    <2> QED BY <1>1, <2>1, <2>2, <2>3, BaseInt DEF StartTextPass
  <1>2. CASE TextPass
    <2>1. CurInst \in Inst
      BY <1>2, SMTT(30) DEF TextPass, HasInst, CurInst
    <2>2. CurInst.type = "section" => CurInst.n \in {0, 1}
      BY <2>1 DEF Inst
    <2>3. CASE apply_section_directive /\ UNCHANGED <<insts, pc, err, table, attrs, changed>>
      BY <1>2, <2>2, <2>3 DEF TextPass, apply_section_directive
    <2>4. CASE CollectAttribute /\ UNCHANGED <<insts, current_section, table, changed>>
      <3>1. CurInst.target \in Names
        BY <2>1, <2>4 DEF CollectAttribute, Inst
      <3>2. weak_attrs' \in Seq(Names) /\ hidden_attrs' \in Seq(Names)
        <4>1. /\ Append(weak_attrs, CurInst.target) \in Seq(Names)
              /\ Append(hidden_attrs, CurInst.target) \in Seq(Names)
          BY <3>1
        <4>2. /\ weak_attrs' \in {weak_attrs, Append(weak_attrs, CurInst.target)}
              /\ hidden_attrs' \in {hidden_attrs, Append(hidden_attrs, CurInst.target)}
          BY <2>4 DEF CollectAttribute
        <4> QED BY <4>1, <4>2
      <3>3. i' \in Nat \ {0} /\ pc' \in Phases /\ err' \in Errors
        <4>1. \/ i' = i + 1 /\ UNCHANGED <<pc, err>>
              \/ \E reason \in Errors : Fail(reason) /\ i' = i
          BY <2>4 DEF CollectAttribute, Errors
        <4> QED BY <4>1, SMTT(30) DEF Fail
      <3> QED BY <1>2, <2>4, <3>2, <3>3 DEF TextPass
    <2>5. CASE /\ PlainInst /\ current_section = 1 /\ i' = i + 1
               /\ UNCHANGED <<insts, pc, err, current_section, table, attrs, changed>>
      BY <1>2, <2>5, SMTT(30) DEF TextPass
    <2>6. CASE /\ PlainInst /\ current_section = 0 /\ SettleOperands
               /\ changed' = (changed \/ (CurInst.label # NoName
                                            /\ Moves(CurInst.label, current_address)))
               /\ pc' = "encode"
               /\ UNCHANGED <<i, err, current_section, attrs>>
      <3>1. changed' \in BOOLEAN
        BY <2>6
      <3>2. /\ symbols' \in Seq(Symbol) /\ Len(symbols') = Len(symbols)
            /\ HashType(hash') /\ insts' \in Seq(Inst)
        BY <1>2, <2>6, SettleType DEF TextPass
      <3> QED BY <1>2, <2>6, <3>1, <3>2 DEF TextPass, HashType
    <2> QED BY <1>2, <2>3, <2>4, <2>5, <2>6 DEF TextPass
  <1> QED BY <1>1, <1>2

LEMMA LimitsNat ==
    /\ MaxSymbols \in Nat /\ MaxLineMap \in Nat
    /\ TextCapacity \in Nat /\ DataCapacity \in Nat
  BY LimitsAssumption

LEMMA TypedMark ==
    ASSUME Typed, HasInst, MarkGlobal \/ DeclareExtern \/ SkipLabelOnly
    PROVE  Typed'
  <1> USE DEF Typed, TypeOK, WithinCapacity, table, output, attrs, control, Phases,
              NextInst, NothingEmitted, EncodeFrame
  <1>0. CurInst \in Inst
    BY DEF HasInst, CurInst
  <1>1. CASE MarkGlobal
    <2>1. \A s \in Symbol : [s EXCEPT !.is_global = TRUE, !.is_function = @ \/ s.section = 0] \in Symbol
      BY DEF Symbol
    <2>2. \A j \in DOMAIN symbols : symbols[j] \in Symbol
      OBVIOUS
    <2>3. symbols' \in [DOMAIN symbols -> Symbol]
      BY <1>1, <2>1, <2>2 DEF MarkGlobal
    <2>4. symbols' \in Seq(Symbol) /\ Len(symbols') = Len(symbols)
      BY <2>3, ArrayType
    <2>5. /\ pc' = "text" /\ i' = i + 1 /\ err' = err
          /\ UNCHANGED <<current_address, output, insts, current_section, data_address,
                         data_size, attrs, control, hash>>
      BY <1>1 DEF MarkGlobal
    <2> QED BY <2>4, <2>5
  <1>2. CASE DeclareExtern
    <2>1. symbols' \in Seq(Symbol) /\ Len(symbols') <= MaxSymbols /\ HashType(hash')
      <3>1. CASE CurInst.form = "label"
        <4>1. CurInst.target \in Names
          BY <1>0, <3>1 DEF Inst
        <4>2. 0 \in Sections /\ 0 \in Int /\ FALSE \in BOOLEAN /\ TRUE \in BOOLEAN
          BY DEF Sections
        <4>3. symbols \in Seq(Symbol) /\ Len(symbols) <= MaxSymbols /\ HashType(hash)
          BY DEF HashType
        <4>4. /\ AddToArray(CurInst.target, 0, FALSE, TRUE, 0, FALSE) \in Seq(Symbol)
              /\ Len(AddToArray(CurInst.target, 0, FALSE, TRUE, 0, FALSE)) <= MaxSymbols
              /\ HashType(AddToHash(CurInst.target, 0, TRUE, 0))
          BY <4>1, <4>2, <4>3, AddType
        <4> QED BY <1>2, <3>1, <4>4 DEF DeclareExtern
      <3>2. CASE CurInst.form # "label"
        BY <1>2, <3>2 DEF DeclareExtern, HashType
      <3> QED BY <3>1, <3>2
    <2>2. /\ pc' = "text" /\ i' = i + 1 /\ err' = err
          /\ UNCHANGED <<current_address, output, insts, current_section, data_address,
                         data_size, attrs, control>>
      BY <1>2 DEF DeclareExtern
    <2> QED BY <2>1, <2>2, SMTT(30) DEF HashType
  <1>3. CASE SkipLabelOnly
    <2>1. /\ pc' = "text" /\ i' = i + 1 /\ err' = err
          /\ UNCHANGED <<current_address, output, insts, current_section, data_address,
                         data_size, attrs, control, table>>
      BY <1>3 DEF SkipLabelOnly
    <2> QED BY <2>1, SMTT(30)
  <1> QED BY <1>1, <1>2, <1>3

LEMMA RecordLineType ==
    ASSUME Typed, RecordLine
    PROVE  line_map' \in Seq(Int) /\ Len(line_map') <= MaxLineMap
  <1>1. line_map \in Seq(Int) /\ Len(line_map) <= MaxLineMap /\ current_address \in Int
    BY DEF Typed, TypeOK, WithinCapacity
  <1>2. /\ Append(line_map, current_address) \in Seq(Int)
        /\ Len(Append(line_map, current_address)) = Len(line_map) + 1
    BY <1>1
  <1>3. CASE Len(line_map) < MaxLineMap
    BY <1>1, <1>2, <1>3, LimitsNat DEF RecordLine
  <1>4. CASE ~(Len(line_map) < MaxLineMap)
    BY <1>1, <1>4 DEF RecordLine
  <1> QED BY <1>3, <1>4

LEMMA MarkCalleeType ==
    ASSUME Typed, MarkCallee
    PROVE  symbols' \in Seq(Symbol) /\ Len(symbols') = Len(symbols)
  <1>1. \A s \in Symbol : [s EXCEPT !.is_function = TRUE] \in Symbol
    BY DEF Symbol
  <1>2. \A j \in DOMAIN symbols : symbols[j] \in Symbol
    BY DEF Typed, TypeOK
  <1>3. symbols' \in [DOMAIN symbols -> Symbol]
    BY <1>1, <1>2 DEF MarkCallee
  <1> QED BY <1>3, ArrayType DEF Typed, TypeOK

(* The bytes of one encoding that the text section still takes.            *)
LEMMA TextRoomNat ==
    ASSUME Typed, NEW k \in Nat
    PROVE  /\ TextRoom(k) \in Nat /\ TextRoom(k) <= k
           /\ text_size + TextRoom(k) <= TextCapacity
  <1>1. text_size \in Nat /\ text_size <= TextCapacity /\ TextCapacity \in Nat
    BY LimitsNat DEF Typed, TypeOK, WithinCapacity
  <1> QED BY <1>1 DEF TextRoom, Lesser

LEMMA TypedMachine ==
    ASSUME Typed, HasInst, EncodeMachine
    PROVE  Typed'
  <1> DEFINE inst == CurInst
             a == current_address
             len == EncodedLength(inst, a)
             got == TextRoom(len)
             off == RefOffset(inst, a)
             fixes == NeedsFixup(inst, a) /\ got >= off
             full == fixes /\ Len(fixups) >= MaxSymbols
  <1>1. inst \in Inst /\ a \in Int /\ HashType(hash) /\ ~BadOperands(inst)
    BY CurInstTyped DEF EncodeMachine
  <1>2. len \in Nat
    <2> HIDE DEF inst, a
    <2> QED BY <1>1, EncodedLengthNat
  <1>3. HasRef(inst) => RefAt(inst, a) \in Ref /\ FixupFor(RefAt(inst, a)) \in Fixup
    <2> HIDE DEF inst, a
    <2> QED BY <1>1, RefType
  <1>4. off \in Nat
    <2>1. inst.off \in Nat
      BY <1>1 DEF Inst
    <2> QED BY <2>1 DEF RefOffset
  <1>5. got \in Nat /\ got <= len /\ text_size + got <= TextCapacity
    <2> HIDE DEF len
    <2> QED BY <1>2, TextRoomNat
  <1>6. /\ text_size \in Nat /\ fixups \in Seq(Fixup) /\ refs \in Seq(Ref)
        /\ Len(fixups) <= MaxSymbols /\ i \in Nat \ {0} /\ pc \in Phases /\ err \in Errors
    BY DEF Typed, TypeOK, WithinCapacity
  <1>7. /\ fixups' = IF fixes /\ ~full THEN Append(fixups, FixupFor(RefAt(inst, a))) ELSE fixups
        /\ \/ full /\ EmitText(off) /\ Fail("fixups_full") /\ UNCHANGED <<i, refs>>
           \/ EmitText(got) /\ Fail("text_full") /\ UNCHANGED <<i, refs>>
           \/ /\ got = len /\ EmitText(len) /\ NextInst
              /\ refs' = IF HasRef(inst) THEN Append(refs, RefAt(inst, a)) ELSE refs
    BY DEF EncodeMachine
  <1>8. /\ line_map' \in Seq(Int) /\ Len(line_map') <= MaxLineMap
        /\ symbols' \in Seq(Symbol) /\ Len(symbols') <= MaxSymbols
        /\ UNCHANGED <<hash, insts, current_section, data_address, data_size, attrs, control>>
    <2>1. RecordLine /\ MarkCallee
      BY DEF EncodeMachine
    <2> QED BY <2>1, RecordLineType, MarkCalleeType
            DEF EncodeMachine, EncodeFrame, Typed, WithinCapacity
  <1>9. fixes => HasRef(inst)
    BY DEF NeedsFixup
  <1> HIDE DEF inst, a, len, got, off, fixes
  <1>10. fixups' \in Seq(Fixup) /\ Len(fixups') <= MaxSymbols
    BY <1>3, <1>6, <1>7, <1>9, LimitsNat
  <1>11. refs' \in Seq(Ref)
    BY <1>3, <1>6, <1>7
  <1>12. full => off <= got
    BY DEF fixes
  <1>13. text_size' \in Nat /\ text_size' <= TextCapacity /\ current_address' \in Int
    <2>1. \E k \in {off, got} :
            k <= got /\ text_size' = text_size + k /\ current_address' = a + k
      BY <1>2, <1>5, <1>7, <1>12 DEF EmitText, a
    <2> QED BY <1>1, <1>4, <1>5, <1>6, <2>1, LimitsNat
  <1>14. i' \in Nat \ {0} /\ pc' \in Phases /\ err' \in Errors
    BY <1>6, <1>7 DEF Fail, NextInst, Phases, Errors
  <1> QED
    BY <1>8, <1>10, <1>11, <1>13, <1>14
       DEF Typed, TypeOK, WithinCapacity, HashType, attrs, control

LEMMA TypedDirective ==
    ASSUME Typed, HasInst, EncodeDirective \/ EncodeRejected
    PROVE  Typed'
  <1> USE DEF Typed, TypeOK, WithinCapacity, table, output, attrs, control
  <1>1. CASE EncodeDirective
    <2> DEFINE inst == CurInst
               a == current_address + Padding(current_address, inst.off)
               got == TextRoom(EncodedLength(inst, current_address))
    <2>1. inst \in Inst /\ ~BadOperands(inst)
      BY <1>1, SMTT(30) DEF HasInst, CurInst, EncodeDirective
    <2>2. EncodedLength(inst, current_address) \in Nat
      BY <2>1, EncodedLengthNat
    <2>3. got \in Nat /\ text_size + got <= TextCapacity
      BY <2>2, TextRoomNat
    <2>4. a \in Int
      <3>1. inst.off \in Int
        BY <2>1 DEF Inst
      <3>2. Padding(current_address, inst.off) \in Nat
        BY <3>1, PaddingNat
      <3> QED BY <3>2, SMTT(30)
    <2>5. symbols' \in Seq(Symbol) /\ Len(symbols') <= MaxSymbols /\ HashType(hash')
      <3>1. CASE inst.type \in {"comm", "lcomm"}
        <4>1. inst.target \in Names
          BY <2>1, <3>1 DEF Inst
        <4>2. 1 \in Sections /\ FALSE \in BOOLEAN /\ (inst.type = "comm") \in BOOLEAN
          BY DEF Sections
        <4>3. symbols \in Seq(Symbol) /\ Len(symbols) <= MaxSymbols /\ HashType(hash)
          BY DEF HashType
        <4>4. /\ symbols' = AddToArray(inst.target, a, inst.type = "comm", FALSE, 1, FALSE)
              /\ hash' = AddToHash(inst.target, a, FALSE, 1)
          BY <1>1, <3>1 DEF EncodeDirective
        <4> HIDE DEF a
        <4>5. \A glob \in BOOLEAN :
                /\ AddToArray(inst.target, a, glob, FALSE, 1, FALSE) \in Seq(Symbol)
                /\ Len(AddToArray(inst.target, a, glob, FALSE, 1, FALSE)) <= MaxSymbols
                /\ HashType(AddToHash(inst.target, a, FALSE, 1))
          BY <2>4, <4>1, <4>2, <4>3, AddType
        <4> QED BY <4>2, <4>4, <4>5
      <3>2. CASE inst.type \notin {"comm", "lcomm"}
        BY <1>1, <3>2 DEF EncodeDirective, HashType
      <3> QED BY <3>1, <3>2
    <2>6. line_map' \in Seq(Int) /\ Len(line_map') <= MaxLineMap
      BY <1>1, RecordLineType DEF EncodeDirective
    <2>7. /\ EmitText(got) /\ NextInst
          /\ UNCHANGED <<insts, current_section, data_address, data_size, attrs, control,
                         refs, fixups>>
      BY <1>1 DEF EncodeDirective, EncodeFrame
    <2> HIDE DEF got
    <2>8. text_size' \in Nat /\ text_size' <= TextCapacity /\ current_address' \in Int
      BY <2>3, <2>7, SMTT(30) DEF EmitText
    <2>9. i' \in Nat \ {0} /\ pc' \in Phases /\ err' \in Errors
      BY <2>7 DEF NextInst, Phases
    <2> QED BY <2>5, <2>6, <2>7, <2>8, <2>9 DEF HashType
  <1>2. CASE EncodeRejected
    <2>1. line_map' \in Seq(Int) /\ Len(line_map') <= MaxLineMap
      BY <1>2, RecordLineType DEF EncodeRejected
    <2>2. symbols' \in Seq(Symbol) /\ Len(symbols') <= MaxSymbols
      BY <1>2, MarkCalleeType DEF EncodeRejected
    <2>3. /\ pc' \in Phases /\ err' \in Errors
          /\ UNCHANGED <<i, hash, current_address, text_size, refs, fixups, insts,
                         current_section, data_address, data_size, attrs, control>>
      BY <1>2 DEF EncodeRejected, EncodeFrame, Fail, Phases, Errors
    <2> QED BY <2>1, <2>2, <2>3
  <1> QED BY <1>1, <1>2

LEMMA TypedEndText ==
    ASSUME Typed, EndTextPass
    PROVE  Typed'
  <1> USE DEF Typed, TypeOK, WithinCapacity, table, output, attrs, control
  <1>1. converged' \in BOOLEAN
    BY DEF EndTextPass
  <1>2. pc' \in Phases /\ i' = 1 /\ iter' \in Nat /\ mode_iter' \in {0, 1}
    BY SMTT(30) DEF EndTextPass, Phases
  <1>3. UNCHANGED <<insts, err, current_section, current_address, data_address, table,
                    output, attrs, changed>>
    BY DEF EndTextPass
  <1> QED BY <1>1, <1>2, <1>3, SMTT(30)

LEMMA TypedAttributes ==
    ASSUME Typed, ApplyAttribute \/ EndAttributes
    PROVE  Typed'
  <1> USE DEF Typed, TypeOK, WithinCapacity, table, output, attrs, control
  <1>1. CASE ApplyAttribute
    <2> DEFINE weak == i <= Len(weak_attrs)
    <2>1. \A s \in Symbol : [s EXCEPT !.is_weak = @ \/ weak, !.is_hidden = @ \/ ~weak] \in Symbol
      <3>1. weak \in BOOLEAN
        OBVIOUS
      <3> HIDE DEF weak
      <3> QED BY <3>1 DEF Symbol
    <2>2. \A j \in DOMAIN symbols : symbols[j] \in Symbol
      OBVIOUS
    <2>3. \/ symbols' = symbols
          \/ symbols' \in [DOMAIN symbols -> Symbol]
      <3> DEFINE name == IF weak THEN weak_attrs[i] ELSE hidden_attrs[i - Len(weak_attrs)]
                 marked == [j \in DOMAIN symbols |->
                              IF symbols[j].name = name
                                THEN [symbols[j] EXCEPT !.is_weak = @ \/ weak,
                                                        !.is_hidden = @ \/ ~weak]
                                ELSE symbols[j]]
      <3>1. symbols' = symbols \/ symbols' = marked
        BY <1>1 DEF ApplyAttribute
      <3>2. marked \in [DOMAIN symbols -> Symbol]
        <4> HIDE DEF weak, name
        <4> QED BY <2>1, <2>2
      <3> HIDE DEF marked
      <3> QED BY <3>1, <3>2
    <2>4. symbols' \in Seq(Symbol) /\ Len(symbols') = Len(symbols)
      BY <2>3, ArrayType
    <2>5. \/ i' = i + 1 /\ UNCHANGED <<pc, err>>
          \/ \E reason \in Errors : Fail(reason) /\ i' = i
      BY <1>1 DEF ApplyAttribute, Errors
    <2>6. i' \in Nat \ {0} /\ pc' \in Phases /\ err' \in Errors
      BY <2>5, SMTT(30) DEF Fail, Phases
    <2>7. UNCHANGED <<insts, current_section, current_address, data_address, hash,
                      output, attrs, control>>
      BY <1>1 DEF ApplyAttribute
    <2> QED BY <2>4, <2>6, <2>7
  <1>2. CASE EndAttributes
    <2>1. current_address' \in Int /\ current_section' \in {0, 1} /\ pc' \in Phases /\ i' = 1
      BY <1>2, BaseInt DEF EndAttributes, Phases
    <2>2. data_size' \in Nat /\ data_size' <= DataCapacity
      BY <1>2, LimitsNat DEF EndAttributes
    <2> QED BY <1>2, <2>1, <2>2, SMTT(30) DEF EndAttributes
  <1> QED BY <1>1, <1>2

LEMMA TypedData ==
    ASSUME Typed, DataPass \/ EndDataPass
    PROVE  Typed'
  <1> USE DEF Typed, TypeOK, WithinCapacity, table, output, attrs, control, Phases
  <1>1. CASE DataPass
    <2>1. CurInst \in Inst
      BY <1>1, CurInstTyped DEF DataPass
    <2>2. CurInst.type = "section" => CurInst.n \in {0, 1}
      BY <2>1 DEF Inst
    <2>3. CASE apply_section_directive /\ UNCHANGED <<insts, pc, table>>
      BY <1>1, <2>2, <2>3 DEF DataPass, apply_section_directive
    <2>4. CASE i' = i + 1 /\ UNCHANGED <<insts, pc, current_section, table>>
      BY <1>1, <2>4 DEF DataPass
    <2>5. CASE SettleOperands /\ pc' = "dataencode" /\ UNCHANGED <<i, current_section>>
      <3>1. /\ symbols' \in Seq(Symbol) /\ Len(symbols') = Len(symbols)
            /\ HashType(hash') /\ insts' \in Seq(Inst)
        BY <1>1, <2>5, SettleType DEF DataPass
      <3> QED BY <1>1, <2>5, <3>1 DEF DataPass, HashType
    <2> QED BY <1>1, <2>3, <2>4, <2>5 DEF DataPass
  <1>2. CASE EndDataPass
    BY <1>2 DEF EndDataPass
  <1> QED BY <1>1, <1>2

LEMMA TypedDataEncode ==
    ASSUME Typed, HasInst, DataEncode
    PROVE  Typed'
  <1> USE DEF Typed, TypeOK, WithinCapacity, table, output, attrs, control
  <1> DEFINE inst == CurInst
             a == current_address
             p == a + Padding(a, inst.off)
             got == IF inst.type \in DataTypes
                      THEN Lesser(EncodedLength(inst, a), DataCapacity - data_size) ELSE 0
  <1>1. inst \in Inst
    BY DEF HasInst, CurInst
  <1>2. UNCHANGED <<insts, current_section, data_address, text_size, refs, fixups,
                    line_map, attrs, control>>
    BY DEF DataEncode
  <1>3. CASE inst.type \in DataTypes /\ BadOperands(inst)
    <2>1. Fail("operand") /\ UNCHANGED <<i, table, data_size, current_address>>
      BY <1>3 DEF DataEncode
    <2>2. pc' \in Phases /\ err' \in Errors
      BY <2>1 DEF Fail, Phases, Errors
    <2> QED BY <1>2, <2>1, <2>2
  <1>4. CASE ~(inst.type \in DataTypes /\ BadOperands(inst))
    <2>1. got \in Nat /\ data_size + got <= DataCapacity
      <3>1. data_size \in Nat /\ data_size <= DataCapacity /\ DataCapacity \in Nat
        BY LimitsNat
      <3>2. CASE inst.type \in DataTypes
        <4>1. EncodedLength(inst, a) \in Nat
          BY <1>1, <1>4, <3>2, EncodedLengthNat
        <4> QED BY <3>1, <3>2, <4>1, SMTT(30) DEF Lesser
      <3>3. CASE inst.type \notin DataTypes
        BY <3>1, <3>3
      <3> QED BY <3>2, <3>3
    <2>2. /\ data_size' = data_size + got /\ current_address' = a + got
          /\ pc' = "data" /\ i' = i + 1 /\ UNCHANGED err
          /\ IF inst.type \in {"comm", "lcomm"}
               THEN /\ symbols' = AddToArray(inst.target, p, inst.type = "comm", FALSE, 1, FALSE)
                    /\ hash' = AddToHash(inst.target, p, FALSE, 1)
               ELSE UNCHANGED table
      BY <1>4 DEF DataEncode
    <2>3. symbols' \in Seq(Symbol) /\ Len(symbols') <= MaxSymbols /\ HashType(hash')
      <3>1. CASE inst.type \in {"comm", "lcomm"}
        <4>1. inst.target \in Names /\ inst.off \in Int
          BY <1>1, <3>1 DEF Inst
        <4>2. p \in Int
          <5>1. Padding(a, inst.off) \in Nat
            BY <4>1, PaddingNat
          <5> QED BY <5>1, SMTT(30)
        <4>3. 1 \in Sections /\ FALSE \in BOOLEAN /\ (inst.type = "comm") \in BOOLEAN
          BY DEF Sections
        <4>4. symbols \in Seq(Symbol) /\ Len(symbols) <= MaxSymbols /\ HashType(hash)
          BY DEF HashType
        <4> HIDE DEF p
        <4>5. \A glob \in BOOLEAN :
                /\ AddToArray(inst.target, p, glob, FALSE, 1, FALSE) \in Seq(Symbol)
                /\ Len(AddToArray(inst.target, p, glob, FALSE, 1, FALSE)) <= MaxSymbols
                /\ HashType(AddToHash(inst.target, p, FALSE, 1))
          BY <4>1, <4>2, <4>3, <4>4, AddType
        <4> QED BY <2>2, <3>1, <4>3, <4>5
      <3>2. CASE inst.type \notin {"comm", "lcomm"}
        BY <2>2, <3>2 DEF HashType
      <3> QED BY <3>1, <3>2
    <2> HIDE DEF got
    <2>4. data_size' \in Nat /\ data_size' <= DataCapacity /\ current_address' \in Int
      BY <2>1, <2>2, SMTT(30)
    <2> QED BY <1>2, <2>2, <2>3, <2>4, SMTT(30) DEF HashType, Phases
  <1> QED BY <1>3, <1>4

LEMMA TypedFixups ==
    ASSUME Typed, ResolveFixup \/ EndFixups
    PROVE  Typed'
  <1> USE DEF Typed, TypeOK, WithinCapacity, table, output, attrs, control
  <1>1. CASE ResolveFixup
    <2> DEFINE f == fixups[i]
               target == hash[f.label].address
               base == IF f.relative THEN target - (f.location + f.size) ELSE target
               patched == [k \in DOMAIN refs |->
                             IF refs[k].loc = f.location
                               THEN [refs[k] EXCEPT !.disp = base + refs[k].disp] ELSE refs[k]]
    <2>1. UNCHANGED <<insts, current_section, current_address, data_address, table,
                      text_size, data_size, fixups, line_map, attrs, control>>
      BY <1>1 DEF ResolveFixup
    <2>2. \/ i' = i + 1 /\ UNCHANGED <<pc, err>> /\ refs' = patched /\ Known(f.label)
          \/ \E reason \in Errors : Fail(reason) /\ UNCHANGED <<i, refs>>
      BY <1>1 DEF ResolveFixup, Errors
    <2>3. i' \in Nat \ {0} /\ pc' \in Phases /\ err' \in Errors
      BY <2>2, SMTT(30) DEF Fail, Phases
    <2>4. Known(f.label) => patched \in Seq(Ref)
      <3>1. SUFFICES ASSUME Known(f.label) PROVE patched \in Seq(Ref)
        OBVIOUS
      <3>2. f \in Fixup
        <4>1. i <= Len(fixups)
          BY <1>1 DEF ResolveFixup
        <4>2. i \in DOMAIN fixups
          BY <4>1
        <4> QED BY <4>2
      <3>3. base \in Int
        <4>1. target \in Int
          BY <3>1 DEF Known, HashEntry
        <4>2. f.location \in Int /\ f.size = 4
          BY <3>2 DEF Fixup
        <4>3. target - (f.location + f.size) \in Int
          <5> HIDE DEF target, f
          <5> QED BY <4>1, <4>2, SMTT(30)
        <4>4. base = target - (f.location + f.size) \/ base = target
          BY Zenon
        <4> HIDE DEF base
        <4> QED BY <4>1, <4>3, <4>4
      <3> HIDE DEF base
      <3>4. \A r \in Ref : [r EXCEPT !.disp = base + r.disp] \in Ref
        <4>1. \A r \in Ref : \A d \in Int : [r EXCEPT !.disp = d] \in Ref
          BY DEF Ref
        <4>2. \A r \in Ref : base + r.disp \in Int
          BY <3>3, SMTT(30) DEF Ref
        <4> QED BY <4>1, <4>2
      <3>5. \A k \in DOMAIN refs : refs[k] \in Ref
        OBVIOUS
      <3>6. patched \in [DOMAIN refs -> Ref]
        BY <3>4, <3>5
      <3> HIDE DEF patched
      <3> QED BY <3>6, FieldsType
    <2>5. refs' \in Seq(Ref)
      <3> HIDE DEF patched
      <3> QED BY <2>2, <2>4
    <2> QED BY <2>1, <2>3, <2>5
  <1>2. CASE EndFixups
    BY <1>2 DEF EndFixups, Phases
  <1> QED BY <1>1, <1>2

(* The second half of a loop body is about an instruction of the program.  *)
AtInst == pc \in {"encode", "dataencode"} => HasInst

LEMMA AtInstNext ==
    ASSUME Typed, AtInst, [Next]_vars
    PROVE  AtInst'
  <1> USE DEF AtInst
  <1>1. CASE TextPass
    <2>1. CASE SettleOperands /\ i' = i
      BY <1>1, <2>1, SettleType DEF TextPass, HasInst
    <2>2. CASE pc' \notin {"encode", "dataencode"}
      BY <2>2
    <2> QED BY <1>1, <2>1, <2>2 DEF TextPass, CollectAttribute, Fail
  <1>2. CASE DataPass
    <2>1. CASE SettleOperands /\ i' = i
      BY <1>2, <2>1, SettleType DEF DataPass, HasInst
    <2>2. CASE pc' \notin {"encode", "dataencode"}
      BY <2>2
    <2> QED BY <1>2, <2>1, <2>2 DEF DataPass
  <1>3. CASE UNCHANGED vars
    BY <1>3 DEF vars, HasInst
  <1>4. CASE EstimateText \/ EndEstimate \/ LabelPass \/ EndLabelPass
    <2>1. pc' \in {"estimate", "labels", "equ1", "failed"}
      BY <1>4 DEF EstimateText, EndEstimate, LabelPass, EndLabelPass, RecordLabel, Fail
    <2> QED BY <2>1
  <1>5. CASE ResolveEqu \/ EndEqu \/ Relax \/ EndRelax
    <2>1. pc' \in {"equ1", "equ2", "relax", "startpass", "failed"}
      BY <1>5 DEF ResolveEqu, upsert_constant_symbol, EndEqu, Relax, EndRelax, Fail
    <2> QED BY <2>1
  <1>6. CASE StartTextPass \/ MarkGlobal \/ DeclareExtern \/ SkipLabelOnly \/ EncodeDirective
             \/ EncodeMachine \/ EncodeRejected \/ EndTextPass
    <2>1. pc' \in {"text", "startpass", "attrs", "failed"}
      BY <1>6 DEF StartTextPass, MarkGlobal, DeclareExtern, SkipLabelOnly, EncodeDirective,
                  EncodeMachine, EncodeRejected, EndTextPass, NextInst, Fail
    <2> QED BY <2>1
  <1>7. CASE ApplyAttribute \/ EndAttributes \/ DataEncode \/ EndDataPass
             \/ ResolveFixup \/ EndFixups
    <2>1. pc' \in {"attrs", "data", "fixups", "done", "failed"}
      BY <1>7 DEF ApplyAttribute, EndAttributes, DataEncode, EndDataPass, ResolveFixup,
                  EndFixups, Fail
    <2> QED BY <2>1
  <1> QED BY <1>1, <1>2, <1>3, <1>4, <1>5, <1>6, <1>7 DEF Next, Passes, Finished

LEMMA TypedNext ==
    ASSUME Typed, AtInst, [Next]_vars
    PROVE  Typed'
  <1>1. CASE UNCHANGED vars
    BY <1>1 DEF vars, Typed, TypeOK, WithinCapacity
  <1>2. CASE MarkGlobal \/ DeclareExtern \/ SkipLabelOnly
    BY <1>2, TypedMark DEF AtInst, MarkGlobal, DeclareExtern, SkipLabelOnly
  <1>3. CASE EncodeMachine
    BY <1>3, TypedMachine DEF AtInst, EncodeMachine
  <1>4. CASE EncodeDirective \/ EncodeRejected
    BY <1>4, TypedDirective DEF AtInst, EncodeDirective, EncodeRejected
  <1>5. CASE DataEncode
    BY <1>5, TypedDataEncode DEF AtInst, DataEncode
  <1>6. CASE EstimateText \/ EndEstimate \/ LabelPass \/ EndLabelPass \/ ResolveEqu \/ EndEqu
             \/ Relax \/ EndRelax \/ StartTextPass \/ TextPass \/ EndTextPass
             \/ ApplyAttribute \/ EndAttributes \/ DataPass \/ EndDataPass
             \/ ResolveFixup \/ EndFixups
    BY <1>6, TypedEstimate, TypedLabels, TypedEqu, TypedRelax, TypedText, TypedEndText,
       TypedAttributes, TypedData, TypedFixups
  <1> QED BY <1>1, <1>2, <1>3, <1>4, <1>5, <1>6 DEF Next, Passes, Finished

(* The assembler context keeps its type: no pass of asm_assemble leaves a  *)
(* negative size, a name outside the program or an unknown phase behind,   *)
(* whatever the program and the capacities are.                            *)
THEOREM TypeCorrect == Spec => []TypeOK
  <1>1. Init => Typed /\ AtInst
    BY TypedInit DEF Init, AtInst
  <1>2. Typed /\ AtInst /\ [Next]_vars => Typed' /\ AtInst'
    BY TypedNext, AtInstNext
  <1>3. Typed => TypeOK
    BY DEF Typed
  <1> QED BY <1>1, <1>2, <1>3, PTL DEF Spec

(* No buffer of fixed capacity (text, data, symbols, fixups, line map) is  *)
(* ever overrun, whatever the program and the capacities are: emit_byte,   *)
(* add_symbol, add_fixup and the line map refuse or drop what is too much. *)
THEOREM BuffersFit == Spec => []WithinCapacity
  <1>1. Init => Typed /\ AtInst
    BY TypedInit DEF Init, AtInst
  <1>2. Typed /\ AtInst /\ [Next]_vars => Typed' /\ AtInst'
    BY TypedNext, AtInstNext
  <1>3. Typed => WithinCapacity
    BY DEF Typed
  <1> QED BY <1>1, <1>2, <1>3, PTL DEF Spec

-----------------------------------------------------------------------------
(***************************************************************************)
(* The symbol table is kept twice, as ctx->symbols and as ctx->symbol_hash.*)
(* Every pass writes both copies by hand; these proofs show that they      *)
(* never diverge.                                                          *)
(***************************************************************************)
(* What the hash holds for an array entry.                                 *)
View(sym) == [address |-> sym.address, section |-> sym.section,
              is_external |-> sym.is_external]

Agree(s, h) ==
    /\ \A j, k \in DOMAIN s : s[j].name = s[k].name => j = k
    /\ \A j \in DOMAIN s : s[j].name \in DOMAIN h /\ h[s[j].name] = View(s[j])
    /\ \A name \in DOMAIN h : \E j \in DOMAIN s : s[j].name = name

LEMMA AgreeIsHashArrayAgree == HashArrayAgree <=> Agree(symbols, hash)
  BY DEF HashArrayAgree, Agree, View, InArray

LEMMA AgreeIsHashArrayAgreeNext == HashArrayAgree' <=> Agree(symbols', hash')
  BY DEF HashArrayAgree, Agree, View, InArray

(* Attributes the hash does not hold may change freely.                    *)
LEMMA AgreeMark ==
    ASSUME NEW s, NEW t, NEW h, Agree(s, h), DOMAIN t = DOMAIN s,
           \A j \in DOMAIN s : t[j].name = s[j].name /\ View(t[j]) = View(s[j])
    PROVE  Agree(t, h)
  BY DEF Agree

(* The entries of one name change in both copies.                          *)
LEMMA AgreeMove ==
    ASSUME NEW s, NEW t, NEW h, Agree(s, h), DOMAIN t = DOMAIN s,
           NEW name, NEW e, name \in DOMAIN h,
           \A j \in DOMAIN s : /\ t[j].name = s[j].name
                               /\ View(t[j]) = IF s[j].name = name THEN e ELSE View(s[j])
    PROVE  Agree(t, Put(h, name, e))
  BY DEF Agree, Put

(* A new name enters both copies.                                          *)
LEMMA AgreeAdd ==
    ASSUME NEW s \in Seq(Symbol), NEW h, Agree(s, h), NEW sym \in Symbol,
           sym.name \notin DOMAIN h
    PROVE  Agree(Append(s, sym), Put(h, sym.name, View(sym)))
  <1> DEFINE t == Append(s, sym)
             g == Put(h, sym.name, View(sym))
  <1>1. DOMAIN t = DOMAIN s \cup {Len(s) + 1} /\ Len(s) + 1 \notin DOMAIN s
    OBVIOUS
  <1>2. t[Len(s) + 1] = sym /\ \A j \in DOMAIN s : t[j] = s[j]
    OBVIOUS
  <1>3. /\ DOMAIN g = DOMAIN h \cup {sym.name} /\ g[sym.name] = View(sym)
        /\ \A m \in DOMAIN h : m # sym.name => g[m] = h[m]
    BY DEF Put
  <1> HIDE DEF t, g
  <1>4. \A j, k \in DOMAIN t : t[j].name = t[k].name => j = k
    BY <1>1, <1>2 DEF Agree
  <1>5. \A j \in DOMAIN t : t[j].name \in DOMAIN g /\ g[t[j].name] = View(t[j])
    BY <1>1, <1>2, <1>3 DEF Agree
  <1>6. \A name \in DOMAIN g : \E j \in DOMAIN t : t[j].name = name
    BY <1>1, <1>2, <1>3 DEF Agree
  <1>7. Agree(t, g)
    BY <1>4, <1>5, <1>6 DEF Agree
  <1> QED BY <1>7 DEF t, g

-----------------------------------------------------------------------------
(* The operations of the passes.                                           *)

LEMMA AddAgrees ==
    ASSUME Typed, Agree(symbols, hash),
           NEW name \in Names, NEW addr \in Int, NEW glob \in BOOLEAN, NEW ext \in BOOLEAN,
           NEW sec \in Sections, NEW fun \in BOOLEAN
    PROVE  Agree(AddToArray(name, addr, glob, ext, sec, fun), AddToHash(name, addr, ext, sec))
  <1> DEFINE sym == NewSymbol(name, addr, glob, ext, sec, fun)
  <1>1. sym \in Symbol
    BY NewSymbolType
  <1>2. sym.name = name /\ View(sym) = [address |-> addr, section |-> sec, is_external |-> ext]
    BY DEF NewSymbol, View
  <1>3. CASE CanAdd(name)
    <2>1. symbols \in Seq(Symbol) /\ name \notin DOMAIN hash
      BY <1>3 DEF Typed, TypeOK, CanAdd, Known
    <2> HIDE DEF sym
    <2>2. Agree(Append(symbols, sym), Put(hash, sym.name, View(sym)))
      BY <1>1, <1>2, <2>1, AgreeAdd
    <2> QED BY <1>2, <1>3, <2>2 DEF AddToArray, AddToHash, sym
  <1>4. CASE ~CanAdd(name)
    BY <1>4 DEF AddToArray, AddToHash
  <1> QED BY <1>3, <1>4

LEMMA MoveAgrees ==
    ASSUME Typed, Agree(symbols, hash), NEW name, NEW addr \in Int
    PROVE  Agree(MoveInArray(name, addr), MoveInHash(name, addr))
  <1> DEFINE t == MoveInArray(name, addr)
  <1>1. \A j \in DOMAIN symbols : symbols[j] \in Symbol
    BY DEF Typed, TypeOK
  <1>2. DOMAIN t = DOMAIN symbols
    BY DEF MoveInArray
  <1>3. \A j \in DOMAIN symbols :
          /\ t[j].name = symbols[j].name
          /\ t[j].section = symbols[j].section
          /\ t[j].is_external = symbols[j].is_external
          /\ t[j].address = IF symbols[j].name = name THEN addr ELSE symbols[j].address
    BY <1>1 DEF MoveInArray, Symbol
  <1> HIDE DEF t
  <1>4. CASE Known(name)
    <2> DEFINE e == [address |-> addr, section |-> find_symbol_entry(name).section,
                     is_external |-> find_symbol_entry(name).is_external]
    <2>1. InArray(name)
      BY <1>4 DEF Known, InArray, Agree
    <2>2. \A j \in DOMAIN symbols : symbols[j].name = name => symbols[j] = find_symbol_entry(name)
      BY <2>1 DEF InArray, find_symbol_entry, Agree
    <2>3. \A j \in DOMAIN symbols :
            /\ t[j].name = symbols[j].name
            /\ View(t[j]) = IF symbols[j].name = name THEN e ELSE View(symbols[j])
      BY <1>3, <2>2 DEF View
    <2>4. name \in DOMAIN hash
      BY <1>4 DEF Known
    <2> HIDE DEF e
    <2>5. Agree(t, Put(hash, name, e))
      BY <1>2, <2>3, <2>4, AgreeMove
    <2> QED BY <1>4, <2>1, <2>5 DEF MoveInHash, e, t
  <1>5. CASE ~Known(name)
    <2>1. \A j \in DOMAIN symbols : symbols[j].name # name
      BY <1>5 DEF Known, Agree
    <2>2. \A j \in DOMAIN symbols : t[j].name = symbols[j].name /\ View(t[j]) = View(symbols[j])
      BY <1>3, <2>1 DEF View
    <2>3. Agree(t, hash)
      BY <1>2, <2>2, AgreeMark
    <2> QED BY <1>5, <2>3 DEF MoveInHash, t
  <1> QED BY <1>4, <1>5

LEMMA UpsertAgrees ==
    ASSUME Typed, Agree(symbols, hash), NEW name \in Names, NEW value \in Int,
           upsert_constant_symbol(name, value)
    PROVE  Agree(symbols', hash')
  <1>1. CASE UNCHANGED <<symbols, hash>>
    BY <1>1
  <1>2. CASE /\ Known(name)
             /\ hash' = Put(hash, name, [address |-> value, section |-> -1,
                                         is_external |-> FALSE])
             /\ symbols' = [j \in DOMAIN symbols |->
                    IF symbols[j].name = name
                      THEN [symbols[j] EXCEPT !.address = value, !.section = -1,
                                              !.is_external = FALSE]
                      ELSE symbols[j]]
    <2> DEFINE e == [address |-> value, section |-> -1, is_external |-> FALSE]
    <2>1. \A j \in DOMAIN symbols : symbols[j] \in Symbol
      BY DEF Typed, TypeOK
    <2>2. DOMAIN symbols' = DOMAIN symbols
      BY <1>2
    <2>3. \A j \in DOMAIN symbols :
            /\ symbols'[j].name = symbols[j].name
            /\ View(symbols'[j]) = IF symbols[j].name = name THEN e ELSE View(symbols[j])
      BY <1>2, <2>1 DEF View, Symbol
    <2>4. name \in DOMAIN hash
      BY <1>2 DEF Known
    <2> HIDE DEF e
    <2>5. Agree(symbols', Put(hash, name, e))
      BY <2>2, <2>3, <2>4, AgreeMove
    <2> QED BY <1>2, <2>5 DEF e
  <1>3. CASE /\ symbols' = AddToArray(name, value, FALSE, FALSE, -1, FALSE)
             /\ hash' = AddToHash(name, value, FALSE, -1)
    <2>1. -1 \in Sections /\ FALSE \in BOOLEAN
      BY DEF Sections
    <2> QED BY <1>3, <2>1, AddAgrees
  <1> QED BY <1>1, <1>2, <1>3 DEF upsert_constant_symbol

LEMMA SettleAgrees ==
    ASSUME Typed, Agree(symbols, hash), SettleOperands
    PROVE  Agree(symbols', hash')
  <1>1. current_address \in Int
    BY DEF Typed, TypeOK
  <1>2. CASE CurInst.label # NoName
    BY <1>1, <1>2, MoveAgrees DEF SettleOperands
  <1>3. CASE CurInst.label = NoName
    BY <1>3 DEF SettleOperands
  <1> QED BY <1>2, <1>3

(* comm and lcomm, in the text pass and in the data pass.                  *)
LEMMA CommonAgrees ==
    ASSUME Typed, HasInst, Agree(symbols, hash), CurInst.type \in {"comm", "lcomm"}
    PROVE  LET a == current_address + Padding(current_address, CurInst.off)
           IN  Agree(AddToArray(CurInst.target, a, CurInst.type = "comm", FALSE, 1, FALSE),
                     AddToHash(CurInst.target, a, FALSE, 1))
  <1> DEFINE a == current_address + Padding(current_address, CurInst.off)
  <1>1. CurInst \in Inst /\ current_address \in Int
    BY DEF HasInst, CurInst, Typed, TypeOK
  <1>2. CurInst.target \in Names /\ CurInst.off \in Int
    BY <1>1 DEF Inst
  <1>3. a \in Int
    <2>1. Padding(current_address, CurInst.off) \in Nat
      BY <1>1, <1>2, PaddingNat
    <2> QED BY <1>1, <2>1
  <1>4. 1 \in Sections /\ FALSE \in BOOLEAN /\ (CurInst.type = "comm") \in BOOLEAN
    BY DEF Sections
  <1> HIDE DEF a
  <1>5. \A glob \in BOOLEAN :
          Agree(AddToArray(CurInst.target, a, glob, FALSE, 1, FALSE),
                AddToHash(CurInst.target, a, FALSE, 1))
    BY <1>2, <1>3, <1>4, AddAgrees
  <1>6. Agree(AddToArray(CurInst.target, a, CurInst.type = "comm", FALSE, 1, FALSE),
              AddToHash(CurInst.target, a, FALSE, 1))
    BY <1>4, <1>5
  <1> QED BY <1>6 DEF a

(* A step that only marks array entries (global, call, weak, hidden).      *)
LEMMA MarkAgrees ==
    ASSUME Typed, Agree(symbols, hash),
           MarkGlobal \/ (MarkCallee /\ UNCHANGED hash) \/ ApplyAttribute
    PROVE  Agree(symbols', hash')
  <1>1. \A j \in DOMAIN symbols : symbols[j] \in Symbol
    BY DEF Typed, TypeOK
  <1>2. CASE symbols' = symbols /\ hash' = hash
    BY <1>2
  <1>3. CASE MarkGlobal
    <2>1. DOMAIN symbols' = DOMAIN symbols /\ hash' = hash
      BY <1>3 DEF MarkGlobal
    <2>2. \A j \in DOMAIN symbols :
            symbols'[j].name = symbols[j].name /\ View(symbols'[j]) = View(symbols[j])
      BY <1>1, <1>3 DEF MarkGlobal, View, Symbol
    <2> QED BY <2>1, <2>2, AgreeMark
  <1>4. CASE MarkCallee /\ UNCHANGED hash
    <2>1. DOMAIN symbols' = DOMAIN symbols /\ hash' = hash
      BY <1>4 DEF MarkCallee
    <2>2. \A j \in DOMAIN symbols :
            symbols'[j].name = symbols[j].name /\ View(symbols'[j]) = View(symbols[j])
      BY <1>1, <1>4 DEF MarkCallee, View, Symbol
    <2> QED BY <2>1, <2>2, AgreeMark
  <1>5. CASE ApplyAttribute /\ symbols' # symbols
    <2> DEFINE weak == i <= Len(weak_attrs)
               name == IF weak THEN weak_attrs[i] ELSE hidden_attrs[i - Len(weak_attrs)]
    <2>1. /\ hash' = hash
          /\ symbols' = [j \in DOMAIN symbols |->
                           IF symbols[j].name = name
                             THEN [symbols[j] EXCEPT !.is_weak = @ \/ weak,
                                                     !.is_hidden = @ \/ ~weak]
                             ELSE symbols[j]]
      BY <1>5 DEF ApplyAttribute
    <2> HIDE DEF weak, name
    <2>2. DOMAIN symbols' = DOMAIN symbols
      BY <2>1
    <2>3. \A j \in DOMAIN symbols :
            symbols'[j].name = symbols[j].name /\ View(symbols'[j]) = View(symbols[j])
      BY <1>1, <2>1 DEF View, Symbol
    <2> QED BY <2>1, <2>2, <2>3, AgreeMark
  <1>6. ApplyAttribute => hash' = hash
    BY DEF ApplyAttribute
  <1> QED BY <1>2, <1>3, <1>4, <1>5, <1>6

LEMMA AgreeNext ==
    ASSUME Typed, AtInst, Agree(symbols, hash), [Next]_vars
    PROVE  Agree(symbols', hash')
  <1> USE DEF table
  <1>0. HasInst => CurInst \in Inst
    BY DEF HasInst, CurInst, Typed, TypeOK
  <1>1. CASE UNCHANGED table
    BY <1>1
  <1>2. CASE LabelPass
    <2>1. CASE RecordLabel /\ CurInst.label # NoName
      <3> DEFINE here == IF current_section = 0 THEN current_address ELSE data_address
                 fun == current_section = 0 /\ CurInst.label = StartName
      <3>1. CurInst.label \in Names
        BY <1>0, <1>2, <2>1 DEF LabelPass, Inst, NameOpt
      <3>2. here \in Int /\ current_section \in Sections
        BY DEF Typed, TypeOK, Sections
      <3>3. fun \in BOOLEAN /\ FALSE \in BOOLEAN
        OBVIOUS
      <3>4. /\ symbols' = AddToArray(CurInst.label, here, FALSE, FALSE, current_section, fun)
            /\ hash' = AddToHash(CurInst.label, here, FALSE, current_section)
        BY <2>1 DEF RecordLabel
      <3> HIDE DEF here, fun
      <3> QED BY <3>1, <3>2, <3>3, <3>4, AddAgrees
    <2>2. CASE UNCHANGED table
      BY <2>2
    <2> QED BY <1>2, <2>1, <2>2 DEF LabelPass, RecordLabel
  <1>3. CASE ResolveEqu
    <2>1. CASE IsEqu(CurInst) /\ EquSupported(CurInst) /\ EquDefined(CurInst)
               /\ upsert_constant_symbol(CurInst.label, EquValue(CurInst))
      <3>1. CurInst \in Inst
        BY <1>0, <1>3 DEF ResolveEqu
      <3>2. CurInst.label \in Names
        BY <2>1, <3>1 DEF IsEqu, Inst, NameOpt
      <3>3. EquValue(CurInst) \in Int
        <4>1. \A name \in DOMAIN hash : hash[name].address \in Int
          BY DEF Typed, TypeOK, HashEntry
        <4>2. CurInst.n \in Int
          BY <3>1 DEF Inst
        <4> QED BY <2>1, <4>1, <4>2 DEF EquValue, EquDefined, EquSupported, Known
      <3> QED BY <2>1, <3>2, <3>3, UpsertAgrees
    <2>2. CASE UNCHANGED table
      BY <2>2
    <2> QED BY <1>3, <2>1, <2>2 DEF ResolveEqu
  <1>4. CASE Relax
    <2>1. CASE RelaxText /\ CurInst.label # NoName
      <3>1. current_address \in Int
        BY DEF Typed, TypeOK
      <3> QED BY <2>1, <3>1, MoveAgrees DEF RelaxText
    <2>2. CASE UNCHANGED table
      BY <2>2
    <2> QED BY <1>4, <2>1, <2>2 DEF Relax, RelaxText
  <1>5. CASE TextPass \/ DataPass
    <2>1. CASE SettleOperands
      BY <2>1, SettleAgrees
    <2>2. CASE UNCHANGED table
      BY <2>2
    <2> QED BY <1>5, <2>1, <2>2 DEF TextPass, DataPass
  <1>6. CASE DeclareExtern
    <2>1. CASE CurInst.form = "label"
      <3>1. CurInst.target \in Names
        BY <1>0, <1>6, <2>1 DEF AtInst, DeclareExtern, Inst
      <3>2. 0 \in Sections /\ 0 \in Int /\ FALSE \in BOOLEAN /\ TRUE \in BOOLEAN
        BY DEF Sections
      <3>3. Agree(AddToArray(CurInst.target, 0, FALSE, TRUE, 0, FALSE),
                  AddToHash(CurInst.target, 0, TRUE, 0))
        BY <3>1, <3>2, AddAgrees
      <3> QED BY <1>6, <2>1, <3>3 DEF DeclareExtern
    <2>2. CASE CurInst.form # "label"
      BY <1>6, <2>2 DEF DeclareExtern
    <2> QED BY <2>1, <2>2
  <1>7. CASE EncodeDirective \/ DataEncode
    <2>1. HasInst
      BY <1>7 DEF AtInst, EncodeDirective, DataEncode
    <2>2. CASE CurInst.type \in {"comm", "lcomm"} /\ ~(UNCHANGED table)
      BY <1>7, <2>1, <2>2, CommonAgrees DEF EncodeDirective, DataEncode
    <2>3. CASE UNCHANGED table
      BY <2>3
    <2> QED BY <1>7, <2>2, <2>3 DEF EncodeDirective, DataEncode
  <1>8. CASE MarkGlobal \/ EncodeMachine \/ EncodeRejected \/ ApplyAttribute
    BY <1>8, MarkAgrees DEF EncodeMachine, EncodeRejected
  <1>9. CASE \/ UNCHANGED vars \/ EstimateText \/ EndEstimate \/ EndLabelPass \/ EndEqu
             \/ EndRelax \/ StartTextPass \/ SkipLabelOnly \/ EndTextPass
             \/ EndAttributes \/ EndDataPass \/ ResolveFixup \/ EndFixups
    <2>1. UNCHANGED table
      BY <1>9 DEF vars, EstimateText, EndEstimate, EndLabelPass, EndEqu, EndRelax,
                  StartTextPass, SkipLabelOnly, EndTextPass, EndAttributes,
                  EndDataPass, ResolveFixup, EndFixups
    <2> QED BY <1>1, <2>1
  <1> QED BY <1>2, <1>3, <1>4, <1>5, <1>6, <1>7, <1>8, <1>9 DEF Next, Passes, Finished

(* The array and the hash of the symbol table agree in every state, so     *)
(* that a lookup through either sees the same address, section and         *)
(* externality, and no name is entered twice.                              *)
THEOREM TablesAgree == Spec => []HashArrayAgree
  <1>1. Init => Typed /\ AtInst /\ HashArrayAgree
    BY TypedInit DEF Init, AtInst, HashArrayAgree
  <1>2. Typed /\ AtInst /\ HashArrayAgree /\ [Next]_vars => Typed' /\ AtInst' /\ HashArrayAgree'
    BY TypedNext, AtInstNext, AgreeNext, AgreeIsHashArrayAgree, AgreeIsHashArrayAgreeNext
  <1> QED BY <1>1, <1>2, PTL DEF Spec

-----------------------------------------------------------------------------
(* What the passes leave behind.                                           *)


Emitting == pc \in {"text", "encode"}
Emitted == pc \in {"attrs", "data", "dataencode", "fixups", "done"}

(* During a text pass the address is that of the next byte emitted.        *)
AddressInv == Emitting => current_address = BaseAddress + text_size

(* Every fixup lies inside the text, every field starts inside it, and no  *)
(* fixup is about a rel8 field.                                            *)
FieldInv ==
    Emitting \/ Emitted =>
        /\ \A j \in DOMAIN fixups : fixups[j].location + 4 <= BaseAddress + text_size
        /\ \A k \in DOMAIN refs : refs[k].loc < BaseAddress + text_size
        /\ \A k \in DOMAIN refs : \A j \in DOMAIN fixups :
              refs[k].kind = "short" => refs[k].loc # fixups[j].location

(* The rel8 branch r lands on the address its label has now.               *)
Hits(r) == r.target \in DOMAIN hash /\ r.next + r.disp = hash[r.target].address

(* As long as no label has moved in this pass all its rel8 branches hit;   *)
(* after a pass in which none moved, those to text labels do for good.     *)
BranchInv ==
    /\ Emitting /\ ~changed => \A k \in DOMAIN refs : refs[k].kind = "short" => Hits(refs[k])
    /\ Emitted /\ converged =>
          \A k \in DOMAIN refs :
              refs[k].kind = "short" /\ ~DataLabel(refs[k].target) => Hits(refs[k])
    /\ converged => Emitted \/ pc = "failed"

(* The data pass follows the section directives.                           *)
SectionInv ==
    /\ pc \in {"data", "dataencode"} /\ current_section = 1 => InData(i)
    /\ pc = "dataencode" => current_section = 1 /\ CurInst.type # "section"

Base == Typed /\ AtInst /\ HashArrayAgree

LayoutInv == AddressInv /\ FieldInv /\ BranchInv /\ SectionInv /\ FixupsInBounds

-----------------------------------------------------------------------------
(* What the table operations do to the addresses already known.            *)

LEMMA AddKeeps ==
    ASSUME NEW name, NEW addr, NEW ext, NEW sec, NEW m \in DOMAIN hash
    PROVE  /\ m \in DOMAIN AddToHash(name, addr, ext, sec)
           /\ AddToHash(name, addr, ext, sec)[m] = hash[m]
  BY DEF AddToHash, CanAdd, Known, Put

LEMMA MoveKeeps ==
    ASSUME NEW name, NEW addr, NEW m \in DOMAIN hash
    PROVE  /\ m \in DOMAIN MoveInHash(name, addr)
           /\ m # name => MoveInHash(name, addr)[m] = hash[m]
  BY DEF MoveInHash, Put

(* A label found where it was leaves the hash as it was.                   *)
LEMMA StayKeeps ==
    ASSUME HashArrayAgree, NEW name, NEW addr, ~Moves(name, addr), NEW m \in DOMAIN hash
    PROVE  MoveInHash(name, addr)[m] = hash[m]
  <1>1. CASE m = name /\ Known(name) /\ InArray(name)
    <2>1. PICK j \in DOMAIN symbols : symbols[j].name = name /\ find_symbol_entry(name) = symbols[j]
      BY <1>1 DEF InArray, find_symbol_entry
    <2>2. symbols[j].address = addr
      BY <2>1 DEF Moves
    <2>3. hash[name] = [address |-> addr, section |-> find_symbol_entry(name).section,
                        is_external |-> find_symbol_entry(name).is_external]
      BY <2>1, <2>2 DEF HashArrayAgree
    <2> QED BY <1>1, <2>3 DEF MoveInHash, Put
  <1>2. CASE ~(m = name /\ Known(name) /\ InArray(name))
    BY <1>2 DEF MoveInHash, Put
  <1> QED BY <1>1, <1>2

(* Every address the hash knows is kept.                                   *)
HashKept == \A m \in DOMAIN hash : m \in DOMAIN hash' /\ hash'[m] = hash[m]

(* Rewriting operands moves no instruction to another section.             *)
LEMMA SectionsStable ==
    ASSUME Typed, insts' \in Seq(Inst), Len(insts') = Len(insts),
           \A j \in DOMAIN insts :
                 /\ insts'[j].type = insts[j].type
                 /\ insts'[j].label = insts[j].label
                 /\ insts[j].type = "section" => insts'[j] = insts[j]
    PROVE  /\ \A j \in DOMAIN insts : InData(j)' <=> InData(j)
           /\ \A name : DataLabel(name)' <=> DataLabel(name)
  <1>1. DOMAIN insts' = DOMAIN insts /\ DOMAIN insts = 1 .. Len(insts) /\ Len(insts) \in Nat
    BY DEF Typed, TypeOK
  <1>2. \A j \in DOMAIN insts : InData(j)' <=> InData(j)
    <2> SUFFICES ASSUME NEW j \in DOMAIN insts PROVE InData(j)' <=> InData(j)
      OBVIOUS
    <2>1. \A k \in 1 .. j - 1 : k \in DOMAIN insts
      BY <1>1
    <2>2. \A k \in 1 .. j - 1 :
            /\ insts'[k].type = insts[k].type
            /\ insts[k].type = "section" => insts'[k].n = insts[k].n
      BY <2>1
    <2>3. \A k \in 1 .. j - 1 : \A m \in k + 1 .. j - 1 : m \in 1 .. j - 1
      BY <1>1
    <2>4. \A k \in 1 .. j - 1 :
            (/\ insts'[k].type = "section" /\ insts'[k].n = 1
             /\ \A m \in k + 1 .. j - 1 : insts'[m].type # "section")
            <=> (/\ insts[k].type = "section" /\ insts[k].n = 1
                 /\ \A m \in k + 1 .. j - 1 : insts[m].type # "section")
      BY <2>2, <2>3, Zenon
    <2> QED BY <2>4, Zenon DEF InData
  <1>3. \A name : DataLabel(name)' <=> DataLabel(name)
    BY <1>1, <1>2 DEF DataLabel
  <1> QED BY <1>2, <1>3

LEMMA SectionsUnchanged ==
    ASSUME insts' = insts
    PROVE  /\ \A j : InData(j)' <=> InData(j)
           /\ \A name : DataLabel(name)' <=> DataLabel(name)
  BY DEF InData, DataLabel

-----------------------------------------------------------------------------
(* One lemma per phase of asm_assemble.                                    *)

LEMMA LayoutBefore ==
    ASSUME LayoutInv, EstimateText \/ EndEstimate \/ LabelPass \/ EndLabelPass \/ ResolveEqu
                      \/ EndEqu \/ Relax \/ EndRelax
    PROVE  LayoutInv'
  <1>1. /\ pc \in {"estimate", "labels", "equ1", "relax", "equ2"}
        /\ pc' \in {"estimate", "labels", "equ1", "relax", "equ2", "startpass", "failed"}
    BY DEF EstimateText, EndEstimate, LabelPass, RecordLabel, EndLabelPass, ResolveEqu,
           upsert_constant_symbol, EndEqu, Relax, EndRelax, Fail
  <1>2. converged' = converged /\ (err' = err \/ err' # "bounds")
    BY DEF EstimateText, EndEstimate, LabelPass, RecordLabel, EndLabelPass, ResolveEqu,
           upsert_constant_symbol, EndEqu, Relax, RelaxText, EndRelax, Fail, control
  <1> QED
    BY <1>1, <1>2 DEF LayoutInv, AddressInv, FieldInv, BranchInv, SectionInv, FixupsInBounds,
                      Emitting, Emitted

LEMMA LayoutStart ==
    ASSUME Base, LayoutInv, StartTextPass
    PROVE  LayoutInv'
  <1>1. /\ pc' = "text" /\ current_address' = BaseAddress /\ text_size' = 0 /\ err' = err
        /\ fixups' = <<>> /\ refs' = <<>> /\ converged' = converged /\ pc = "startpass"
    BY DEF StartTextPass
  <1>2. AddressInv'
    BY <1>1, BaseInt DEF AddressInv
  <1>3. DOMAIN fixups' = {} /\ DOMAIN refs' = {}
    BY <1>1
  <1> QED
    BY <1>1, <1>2, <1>3 DEF LayoutInv, FieldInv, BranchInv, SectionInv, FixupsInBounds,
                            Emitting, Emitted

LEMMA LayoutText ==
    ASSUME Base, LayoutInv, TextPass
    PROVE  LayoutInv'
  <1>1. /\ pc = "text" /\ pc' \in {"text", "encode", "failed"}
        /\ UNCHANGED <<current_address, text_size, refs, fixups, converged>>
        /\ (err' = err \/ err' # "bounds")
    BY DEF TextPass, CollectAttribute, Fail, output
  <1>2. ~converged
    BY <1>1 DEF LayoutInv, BranchInv, Emitted
  <1>3. ~changed' => ~changed /\ HashKept
    <2>1. CASE SettleOperands /\ changed' = (changed \/ (CurInst.label # NoName
                                               /\ Moves(CurInst.label, current_address)))
      <3>1. CASE CurInst.label # NoName
        BY <2>1, <3>1, MoveKeeps, StayKeeps DEF SettleOperands, HashKept, Base
      <3>2. CASE CurInst.label = NoName
        BY <2>1, <3>2 DEF SettleOperands, HashKept
      <3> QED BY <3>1, <3>2
    <2>2. CASE UNCHANGED <<table, changed>>
      BY <2>2 DEF HashKept, table
    <2> QED BY <2>1, <2>2 DEF TextPass
  <1>4. AddressInv' /\ FieldInv' /\ FixupsInBounds'
    BY <1>1 DEF LayoutInv, AddressInv, FieldInv, FixupsInBounds, Emitting, Emitted
  <1>5. BranchInv'
    BY <1>1, <1>2, <1>3 DEF LayoutInv, BranchInv, Emitting, Emitted, Hits, HashKept
  <1>6. SectionInv'
    BY <1>1 DEF SectionInv
  <1> QED BY <1>4, <1>5, <1>6 DEF LayoutInv

LEMMA FieldTypes ==
    ASSUME Typed
    PROVE  /\ \A j \in DOMAIN fixups : fixups[j].location \in Int
           /\ \A k \in DOMAIN refs : refs[k].loc \in Int
  <1>1. \A j \in DOMAIN fixups : fixups[j] \in Fixup
    BY DEF Typed, TypeOK
  <1>2. \A k \in DOMAIN refs : refs[k] \in Ref
    BY DEF Typed, TypeOK
  <1> QED BY <1>1, <1>2 DEF Fixup, Ref

(* The encodings without a displacement field.                             *)
LEMMA LayoutPlain ==
    ASSUME Base, LayoutInv, MarkGlobal \/ DeclareExtern \/ SkipLabelOnly \/ EncodeDirective
                            \/ EncodeRejected
    PROVE  LayoutInv'
  <1>1. /\ pc = "encode" /\ pc' \in {"text", "failed"}
        /\ UNCHANGED <<refs, fixups, converged, changed>>
        /\ (err' = err \/ err' # "bounds")
    BY DEF MarkGlobal, DeclareExtern, SkipLabelOnly, EncodeDirective, EncodeRejected,
           NextInst, Fail, NothingEmitted, EncodeFrame, output, control
  <1>2. HasInst
    BY <1>1 DEF Base, AtInst
  <1>3. ~converged
    BY <1>1 DEF LayoutInv, BranchInv, Emitted
  <1>4. HashKept
    <2>1. CASE hash' = hash
      BY <2>1 DEF HashKept
    <2>2. CASE \E name, addr, ext, sec : hash' = AddToHash(name, addr, ext, sec)
      BY <2>2, AddKeeps DEF HashKept
    <2> QED
      BY <2>1, <2>2 DEF MarkGlobal, DeclareExtern, SkipLabelOnly, EncodeDirective,
                        EncodeRejected, table
  <1>5. \E k \in Nat : text_size' = text_size + k /\ current_address' = current_address + k
    <2>1. CASE UNCHANGED <<text_size, current_address>>
      <3>1. text_size \in Nat /\ current_address \in Int
        BY DEF Base, Typed, TypeOK
      <3> QED BY <2>1, <3>1
    <2>2. CASE EncodeDirective
      <3> DEFINE len == EncodedLength(CurInst, current_address)
      <3>1. CurInst \in Inst /\ current_address \in Int /\ ~BadOperands(CurInst)
        BY <1>2, <2>2 DEF Base, Typed, TypeOK, HasInst, CurInst, EncodeDirective
      <3>2. len \in Nat
        BY <3>1, EncodedLengthNat
      <3>3. EmitText(TextRoom(len))
        BY <2>2 DEF EncodeDirective
      <3> HIDE DEF len
      <3>4. TextRoom(len) \in Nat
        BY <3>2, TextRoomNat DEF Base
      <3> QED BY <3>3, <3>4 DEF EmitText
    <2> QED
      BY <2>1, <2>2 DEF MarkGlobal, DeclareExtern, SkipLabelOnly, EncodeRejected,
                        NothingEmitted, output
  <1>6. text_size \in Nat /\ BaseAddress \in Int /\ current_address \in Int
    BY BaseInt DEF Base, Typed, TypeOK
  <1>7. AddressInv'
    BY <1>1, <1>5, <1>6 DEF LayoutInv, AddressInv, Emitting
  <1>8. FieldInv'
    <2>1. /\ \A j \in DOMAIN fixups : fixups[j].location \in Int
          /\ \A k \in DOMAIN refs : refs[k].loc \in Int
      BY FieldTypes DEF Base
    <2>2. BaseAddress + text_size <= BaseAddress + text_size'
      BY <1>5, <1>6
    <2>3. text_size' \in Int
      BY <1>5, <1>6
    <2>4. Emitting
      BY <1>1 DEF Emitting
    <2> DEFINE old == BaseAddress + text_size
               new == BaseAddress + text_size'
    <2>old. old \in Int /\ new \in Int /\ old <= new
      <3>1. old \in Int
        BY <1>6
      <3>2. new \in Int
        BY <1>6, <2>3
      <3>3. old <= new
        BY <2>2
      <3> QED BY <3>1, <3>2, <3>3
    <2>bound. /\ \A j \in DOMAIN fixups : fixups[j].location + 4 <= old
          /\ \A k \in DOMAIN refs : refs[k].loc < old
      BY <2>4 DEF LayoutInv, FieldInv
    <2> HIDE DEF old, new
    <2>5. \A j \in DOMAIN fixups : fixups[j].location + 4 <= new
      BY <2>1, <2>old, <2>bound
    <2>6. \A k \in DOMAIN refs : refs[k].loc < new
      BY <2>1, <2>old, <2>bound
    <2>7. \A k \in DOMAIN refs : \A j \in DOMAIN fixups :
              refs[k].kind = "short" => refs[k].loc # fixups[j].location
      BY <2>4 DEF LayoutInv, FieldInv
    <2> QED BY <1>1, <2>5, <2>6, <2>7 DEF FieldInv, new
  <1>9. BranchInv'
    BY <1>1, <1>3, <1>4 DEF LayoutInv, BranchInv, Emitting, Emitted, Hits, HashKept
  <1>10. SectionInv' /\ FixupsInBounds'
    BY <1>1 DEF LayoutInv, SectionInv, FixupsInBounds
  <1> QED BY <1>7, <1>8, <1>9, <1>10 DEF LayoutInv

(* A displacement field lies inside the bytes of its instruction, and one  *)
(* that is fixed up later is followed by room for its four bytes.          *)
LEMMA FieldInside ==
    ASSUME NEW inst \in Inst, NEW a \in Int, ~BadOperands(inst), HasRef(inst)
    PROVE  /\ RefOffset(inst, a) \in Nat
           /\ RefOffset(inst, a) < EncodedLength(inst, a)
           /\ ~ShortBranch(inst, a) => RefOffset(inst, a) + 4 <= EncodedLength(inst, a)
  <1>1. inst.off \in Nat /\ inst.tail \in Nat
    BY DEF Inst
  <1>2. CASE inst.type = "mem"
    BY <1>1, <1>2 DEF RefOffset, EncodedLength
  <1>3. CASE inst.type = "load" /\ inst.form = "label"
    BY <1>3 DEF RefOffset, EncodedLength
  <1>4. CASE inst.type = "call"
    BY <1>4 DEF RefOffset, EncodedLength
  <1>5. CASE inst.type \in {"jmp", "jcc"}
    BY <1>5 DEF RefOffset, EncodedLength, NearLength
  <1> QED BY <1>2, <1>3, <1>4, <1>5 DEF HasRef

LEMMA LayoutMachine ==
    ASSUME Base, LayoutInv, EncodeMachine
    PROVE  LayoutInv'
  <1> DEFINE inst == CurInst
             a == current_address
             len == EncodedLength(inst, a)
             got == TextRoom(len)
             off == RefOffset(inst, a)
             fixes == NeedsFixup(inst, a) /\ got >= off
             full == fixes /\ Len(fixups) >= MaxSymbols
             ref == RefAt(inst, a)
  <1>1. /\ pc = "encode" /\ pc' \in {"text", "failed"}
        /\ UNCHANGED <<hash, converged, changed>>
        /\ (err' = err \/ err' # "bounds")
    BY DEF EncodeMachine, NextInst, Fail, EncodeFrame, control
  <1>2. inst \in Inst /\ a \in Int /\ HashType(hash) /\ ~BadOperands(inst)
    <2>1. HasInst
      BY <1>1 DEF Base, AtInst
    <2> QED BY <2>1, CurInstTyped DEF Base, EncodeMachine
  <1>3. ~converged /\ Emitting
    BY <1>1 DEF LayoutInv, BranchInv, Emitted, Emitting
  <1>4. a = BaseAddress + text_size /\ text_size \in Nat /\ BaseAddress \in Int
    BY <1>3, BaseInt DEF LayoutInv, AddressInv, Base, Typed, TypeOK
  <1>5. CASE pc' = "failed"
    BY <1>1, <1>3, <1>5 DEF LayoutInv, AddressInv, FieldInv, BranchInv, SectionInv,
                      FixupsInBounds, Emitting, Emitted
  <1>6. CASE pc' = "text"
    <2>1. /\ got = len /\ EmitText(len) /\ ~full
          /\ refs' = IF HasRef(inst) THEN Append(refs, ref) ELSE refs
          /\ fixups' = IF fixes THEN Append(fixups, FixupFor(ref)) ELSE fixups
      BY <1>6 DEF EncodeMachine, Fail
    <2>2. len \in Nat
      <3> HIDE DEF inst, a
      <3> QED BY <1>2, EncodedLengthNat
    <2>3. HasRef(inst) => /\ off \in Nat /\ off < len
                          /\ ~ShortBranch(inst, a) => off + 4 <= len
      <3> HIDE DEF inst, a
      <3> QED BY <1>2, FieldInside
    <2>4. /\ ref.loc = a + off /\ FixupFor(ref).location = a + off
          /\ ref.kind = "short" <=> ShortBranch(inst, a)
          /\ ref.target = inst.target /\ ref.next = a + len
          /\ ShortBranch(inst, a) => ref.disp = hash[inst.target].address - (a + 2)
      BY DEF RefAt, FixupFor
    <2>5. fixes => HasRef(inst) /\ ~ShortBranch(inst, a)
      BY DEF NeedsFixup
    <2>6. HasRef(inst) /\ ShortBranch(inst, a) =>
            len = 2 /\ inst.target \in DOMAIN hash /\ hash[inst.target].address \in Int
      BY <1>2 DEF ShortBranch, EncodedLength, Known, HashType, HashEntry
    <2>7. text_size' = text_size + len /\ current_address' = a + len
      BY <2>1 DEF EmitText
    <2>8. refs \in Seq(Ref) /\ fixups \in Seq(Fixup)
      BY DEF Base, Typed, TypeOK
    <2> HIDE DEF inst, a, len, got, off, fixes, ref
    <2>9. AddressInv'
      BY <1>4, <2>2, <2>7 DEF AddressInv, a
    <2>10. \A k \in DOMAIN refs' : \/ k \in DOMAIN refs /\ refs'[k] = refs[k]
                                   \/ HasRef(inst) /\ refs'[k] = ref
      BY <2>1, <2>8
    <2>11. \A j \in DOMAIN fixups' : \/ j \in DOMAIN fixups /\ fixups'[j] = fixups[j]
                                     \/ fixes /\ fixups'[j] = FixupFor(ref)
      BY <2>1, <2>8
    <2>12. /\ \A k \in DOMAIN refs : refs[k].loc \in Int /\ refs[k].loc < a
           /\ \A j \in DOMAIN fixups : fixups[j].location \in Int /\ fixups[j].location + 4 <= a
      BY <1>3, <1>4, FieldTypes DEF LayoutInv, FieldInv, Base
    <2>13. FieldInv'
      <3>1. BaseAddress + text_size' = a + len
        BY <1>4, <2>2, <2>7
      <3>2. \A j \in DOMAIN fixups' : fixups'[j].location + 4 <= a + len
        BY <1>2, <2>2, <2>3, <2>4, <2>5, <2>11, <2>12
      <3>3. \A k \in DOMAIN refs' : refs'[k].loc < a + len
        BY <1>2, <2>2, <2>3, <2>4, <2>10, <2>12
      <3>4. \A k \in DOMAIN refs' : \A j \in DOMAIN fixups' :
              refs'[k].kind = "short" => refs'[k].loc # fixups'[j].location
        <4> SUFFICES ASSUME NEW k \in DOMAIN refs', NEW j \in DOMAIN fixups',
                            refs'[k].kind = "short"
                     PROVE  refs'[k].loc # fixups'[j].location
          OBVIOUS
        <4>1. CASE k \in DOMAIN refs /\ refs'[k] = refs[k] /\ j \in DOMAIN fixups
                   /\ fixups'[j] = fixups[j]
          BY <1>3, <4>1 DEF LayoutInv, FieldInv
        <4>2. CASE k \in DOMAIN refs /\ refs'[k] = refs[k] /\ fixes /\ fixups'[j] = FixupFor(ref)
          BY <1>2, <2>3, <2>4, <2>5, <2>12, <4>2
        <4>3. CASE HasRef(inst) /\ refs'[k] = ref /\ j \in DOMAIN fixups /\ fixups'[j] = fixups[j]
          BY <1>2, <2>3, <2>4, <2>12, <4>3
        <4>4. CASE HasRef(inst) /\ refs'[k] = ref /\ fixes
          BY <2>4, <2>5, <4>4
        <4> QED BY <2>10, <2>11, <4>1, <4>2, <4>3, <4>4
      <3> QED BY <3>1, <3>2, <3>3, <3>4 DEF FieldInv
    <2>14. BranchInv'
      <3>1. HasRef(inst) /\ ref.kind = "short" =>
              ref.target \in DOMAIN hash /\ ref.next + ref.disp = hash[ref.target].address
        BY <1>2, <2>4, <2>6
      <3>2. ~changed' => \A k \in DOMAIN refs' :
                           refs'[k].kind = "short" =>
                             /\ refs'[k].target \in DOMAIN hash'
                             /\ refs'[k].next + refs'[k].disp = hash'[refs'[k].target].address
        BY <1>1, <1>3, <2>10, <3>1 DEF LayoutInv, BranchInv, Hits
      <3> QED BY <1>1, <1>3, <1>6, <3>2 DEF BranchInv, Emitted, Hits
    <2>15. SectionInv' /\ FixupsInBounds'
      BY <1>1 DEF LayoutInv, SectionInv, FixupsInBounds
    <2> QED BY <2>9, <2>13, <2>14, <2>15 DEF LayoutInv
  <1> QED BY <1>1, <1>5, <1>6

LEMMA LayoutEndText ==
    ASSUME Base, LayoutInv, EndTextPass
    PROVE  LayoutInv'
  <1>1. /\ pc = "text" /\ pc' \in {"startpass", "attrs"}
        /\ UNCHANGED <<insts, hash, refs, fixups, text_size, err, changed>>
        /\ (converged' = converged \/ (~changed /\ converged' = TRUE /\ pc' = "attrs"))
    BY DEF EndTextPass, table, output
  <1>2. ~converged /\ Emitting
    BY <1>1 DEF LayoutInv, BranchInv, Emitted, Emitting
  <1>3. AddressInv' /\ FieldInv' /\ SectionInv' /\ FixupsInBounds'
    BY <1>1, <1>2 DEF LayoutInv, AddressInv, FieldInv, SectionInv, FixupsInBounds, Emitting
  <1>4. BranchInv'
    BY <1>1, <1>2 DEF LayoutInv, BranchInv, Emitting, Emitted, Hits
  <1> QED BY <1>3, <1>4 DEF LayoutInv

(* A step after the text passes that leaves the fields alone, and the      *)
(* address of every label that is not a data label.                        *)
LEMMA LayoutAfter ==
    ASSUME Base, LayoutInv,
           pc \in {"attrs", "data", "dataencode", "fixups"},
           pc' \in {"attrs", "data", "dataencode", "fixups", "done", "failed"},
           UNCHANGED <<refs, fixups, text_size, converged>>,
           err' = err \/ err' # "bounds",
           \A name : DataLabel(name)' <=> DataLabel(name),
           \A m \in DOMAIN hash : m \in DOMAIN hash' /\ (~DataLabel(m) => hash'[m] = hash[m])
    PROVE  AddressInv' /\ FieldInv' /\ BranchInv' /\ FixupsInBounds'
  <1>1. Emitted
    BY DEF Emitted
  <1>2. AddressInv' /\ FieldInv' /\ FixupsInBounds'
    BY <1>1 DEF LayoutInv, AddressInv, FieldInv, FixupsInBounds, Emitting
  <1>3. BranchInv'
    BY <1>1 DEF LayoutInv, BranchInv, Emitting, Emitted, Hits
  <1> QED BY <1>2, <1>3

LEMMA LayoutAttributes ==
    ASSUME Base, LayoutInv, ApplyAttribute \/ EndAttributes
    PROVE  LayoutInv'
  <1>1. /\ pc = "attrs" /\ pc' \in {"attrs", "data", "failed"}
        /\ UNCHANGED <<refs, fixups, text_size, converged, hash, insts>>
        /\ (err' = err \/ err' # "bounds")
        /\ (pc' = "data" => current_section' = 0)
    BY DEF ApplyAttribute, EndAttributes, Fail, output, control, table
  <1>2. \A name : DataLabel(name)' <=> DataLabel(name)
    BY <1>1, SectionsUnchanged
  <1>3. AddressInv' /\ FieldInv' /\ BranchInv' /\ FixupsInBounds'
    BY <1>1, <1>2, LayoutAfter
  <1>4. SectionInv'
    BY <1>1 DEF SectionInv
  <1> QED BY <1>3, <1>4 DEF LayoutInv

(* A line of the data section is followed by a line of the data section.   *)
LEMMA InDataNext ==
    ASSUME Typed, HasInst, insts[i].type # "section", InData(i)
    PROVE  InData(i + 1)
  <1>1. i \in Nat \ {0}
    BY DEF Typed, TypeOK
  <1>2. PICK k \in 1 .. i - 1 :
          /\ insts[k].type = "section" /\ insts[k].n = 1
          /\ \A m \in k + 1 .. i - 1 : insts[m].type # "section"
    BY DEF InData
  <1>3. k \in 1 .. (i + 1) - 1
    BY <1>1
  <1>4. \A m \in k + 1 .. (i + 1) - 1 : insts[m].type # "section"
    BY <1>1, <1>2
  <1> QED BY <1>2, <1>3, <1>4 DEF InData

LEMMA InDataStart ==
    ASSUME Typed, insts[i].type = "section", insts[i].n = 1
    PROVE  InData(i + 1)
  <1>1. i \in Nat \ {0}
    BY DEF Typed, TypeOK
  <1>2. i \in 1 .. (i + 1) - 1 /\ \A m \in i + 1 .. (i + 1) - 1 : FALSE
    BY <1>1
  <1> QED BY <1>2 DEF InData

LEMMA LayoutData ==
    ASSUME Base, LayoutInv, DataPass
    PROVE  LayoutInv'
  <1>1. /\ pc = "data" /\ pc' \in {"data", "dataencode"} /\ HasInst
        /\ UNCHANGED <<refs, fixups, text_size, converged, err>>
    BY DEF DataPass, output, control
  <1>2. Typed /\ i \in DOMAIN insts /\ i \in Nat
    BY <1>1, SMTT(30) DEF Base, Typed, TypeOK, HasInst
  <1>3. CASE UNCHANGED <<insts, hash>> /\ pc' = "data" /\ i' = i + 1
             /\ (apply_section_directive
                 \/ (CurInst.type # "section" /\ current_section = 0 /\ current_section' = 0))
    <2>1. /\ \A j : InData(j)' <=> InData(j)
          /\ \A name : DataLabel(name)' <=> DataLabel(name)
      BY <1>3, SectionsUnchanged
    <2>2. AddressInv' /\ FieldInv' /\ BranchInv' /\ FixupsInBounds'
      BY <1>1, <1>3, <2>1, LayoutAfter
    <2>3. current_section' = 1 => InData(i + 1)
      BY <1>2, <1>3, InDataStart DEF apply_section_directive, CurInst
    <2>4. InData(i + 1) => InData(i)'
      BY <1>3 DEF InData
    <2>5. SectionInv'
      BY <1>3, <2>3, <2>4 DEF SectionInv
    <2> QED BY <2>2, <2>5 DEF LayoutInv
  <1>4. CASE /\ CurInst.type # "section" /\ current_section = 1 /\ SettleOperands
             /\ pc' = "dataencode" /\ UNCHANGED <<i, current_section>>
    <2>1. /\ insts' \in Seq(Inst) /\ Len(insts') = Len(insts)
          /\ \A j \in DOMAIN insts :
                 /\ insts'[j].type = insts[j].type
                 /\ insts'[j].label = insts[j].label
                 /\ insts[j].type = "section" => insts'[j] = insts[j]
      BY <1>1, <1>2, <1>4, SettleType
    <2>2. /\ \A j \in DOMAIN insts : InData(j)' <=> InData(j)
          /\ \A name : DataLabel(name)' <=> DataLabel(name)
      BY <1>2, <2>1, SectionsStable
    <2>3. InData(i)
      BY <1>1, <1>4 DEF LayoutInv, SectionInv
    <2>4. DataLabel(CurInst.label)
      BY <1>2, <1>4, <2>3 DEF DataLabel, CurInst
    <2>5. \A m \in DOMAIN hash : m \in DOMAIN hash' /\ (~DataLabel(m) => hash'[m] = hash[m])
      <3>1. CASE CurInst.label # NoName
        BY <1>4, <2>4, <3>1, MoveKeeps DEF SettleOperands
      <3>2. CASE CurInst.label = NoName
        BY <1>4, <3>2 DEF SettleOperands
      <3> QED BY <3>1, <3>2
    <2>6. AddressInv' /\ FieldInv' /\ BranchInv' /\ FixupsInBounds'
      BY <1>1, <1>4, <2>2, <2>5, LayoutAfter
    <2>7. SectionInv'
      <3>1. InData(i)'
        BY <1>2, <1>4, <2>2, <2>3 DEF InData
      <3>2. insts'[i].type # "section"
        BY <1>2, <1>4, <2>1 DEF CurInst
      <3> QED BY <1>4, <3>1, <3>2 DEF SectionInv, CurInst
    <2> QED BY <2>6, <2>7 DEF LayoutInv
  <1> QED BY <1>1, <1>3, <1>4 DEF DataPass, apply_section_directive, table

LEMMA LayoutDataEncode ==
    ASSUME Base, LayoutInv, DataEncode
    PROVE  LayoutInv'
  <1>1. /\ pc = "dataencode" /\ pc' \in {"data", "failed"}
        /\ UNCHANGED <<refs, fixups, text_size, converged, insts, current_section>>
        /\ (err' = err \/ err' # "bounds") /\ (pc' = "data" => i' = i + 1)
    BY DEF DataEncode, Fail, control
  <1>2. /\ \A j : InData(j)' <=> InData(j)
        /\ \A name : DataLabel(name)' <=> DataLabel(name)
    BY <1>1, SectionsUnchanged
  <1>3. \A m \in DOMAIN hash : m \in DOMAIN hash' /\ (~DataLabel(m) => hash'[m] = hash[m])
    <2>1. CASE hash' = hash
      BY <2>1
    <2>2. CASE \E name, addr, ext, sec : hash' = AddToHash(name, addr, ext, sec)
      BY <2>2, AddKeeps
    <2> QED BY <2>1, <2>2 DEF DataEncode, table
  <1>4. AddressInv' /\ FieldInv' /\ BranchInv' /\ FixupsInBounds'
    BY <1>1, <1>2, <1>3, LayoutAfter
  <1>5. pc' = "data" => InData(i + 1)
    BY <1>1, InDataNext DEF LayoutInv, SectionInv, CurInst, Base, AtInst
  <1>6. pc' = "data" /\ InData(i + 1) => InData(i)'
    BY <1>1 DEF InData
  <1>7. SectionInv'
    BY <1>1, <1>5, <1>6 DEF SectionInv
  <1> QED BY <1>4, <1>7 DEF LayoutInv

LEMMA LayoutFixups ==
    ASSUME Base, LayoutInv, EndDataPass \/ ResolveFixup \/ EndFixups
    PROVE  LayoutInv'
  <1>1. CASE EndDataPass \/ EndFixups
    <2>1. /\ pc \in {"data", "fixups"} /\ pc' \in {"fixups", "done"}
          /\ UNCHANGED <<refs, fixups, text_size, converged, insts, hash, err>>
      BY <1>1 DEF EndDataPass, EndFixups, output, control, table
    <2>2. \A name : DataLabel(name)' <=> DataLabel(name)
      BY <2>1, SectionsUnchanged
    <2>3. AddressInv' /\ FieldInv' /\ BranchInv' /\ FixupsInBounds'
      BY <2>1, <2>2, LayoutAfter
    <2>4. SectionInv'
      BY <2>1 DEF SectionInv
    <2> QED BY <2>3, <2>4 DEF LayoutInv
  <1>2. CASE ResolveFixup
    <2> DEFINE f == fixups[i]
               target == hash[f.label].address
               base == IF f.relative THEN target - (f.location + f.size) ELSE target
    <2>1. /\ pc = "fixups" /\ i \in DOMAIN fixups /\ i \in Nat
          /\ UNCHANGED <<fixups, text_size, converged, insts, hash>>
      <3>1. /\ pc = "fixups" /\ i <= Len(fixups)
            /\ UNCHANGED <<fixups, text_size, converged, insts, hash>>
        BY <1>2 DEF ResolveFixup, control, table
      <3>2. i \in Nat \ {0} /\ fixups \in Seq(Fixup)
        BY DEF Base, Typed, TypeOK
      <3> QED BY <3>1, <3>2
    <2>2. f.location + 4 <= BaseAddress + text_size /\ f.location \in Int /\ f.size = 4
      <3>1. f \in Fixup
        BY <2>1 DEF Base, Typed, TypeOK
      <3> QED BY <2>1, <3>1 DEF LayoutInv, FieldInv, Emitted, Fixup
    <2>3. ~(f.location - BaseAddress + f.size > text_size)
      <3>1. BaseAddress \in Int /\ text_size \in Int
        BY BaseInt DEF Base, Typed, TypeOK
      <3> HIDE DEF f
      <3> QED BY <2>2, <3>1
    <2>4. \A name : DataLabel(name)' <=> DataLabel(name)
      BY <2>1, SectionsUnchanged
    <2>5. CASE UNCHANGED refs
      <3>1. pc' \in {"fixups", "failed"} /\ (err' = err \/ err' # "bounds")
        BY <1>2, <2>1, <2>3 DEF ResolveFixup, Fail
      <3>2. AddressInv' /\ FieldInv' /\ BranchInv' /\ FixupsInBounds'
        BY <2>1, <2>4, <2>5, <3>1, LayoutAfter
      <3>3. SectionInv'
        BY <3>1 DEF SectionInv
      <3> QED BY <3>2, <3>3 DEF LayoutInv
    <2>6. CASE /\ UNCHANGED <<pc, err>>
               /\ refs' = [k \in DOMAIN refs |->
                             IF refs[k].loc = f.location
                               THEN [refs[k] EXCEPT !.disp = base + refs[k].disp] ELSE refs[k]]
      <3> HIDE DEF base, f
      <3>1. \A k \in DOMAIN refs : refs[k] \in Ref
        BY DEF Base, Typed, TypeOK
      <3>2. DOMAIN refs' = DOMAIN refs
        BY <2>6
      <3>3. \A k \in DOMAIN refs :
              /\ refs'[k].loc = refs[k].loc /\ refs'[k].kind = refs[k].kind
              /\ refs'[k].target = refs[k].target /\ refs'[k].next = refs[k].next
              /\ refs[k].loc # f.location => refs'[k] = refs[k]
        BY <2>6, <3>1 DEF Ref
      <3>4. \A k \in DOMAIN refs : refs[k].kind = "short" => refs'[k] = refs[k]
        BY <2>1, <3>3 DEF LayoutInv, FieldInv, Emitted, f
      <3>5. FieldInv'
        BY <2>1, <2>6, <3>2, <3>3 DEF LayoutInv, FieldInv, Emitted, Emitting
      <3>6. BranchInv'
        <4>1. ~Emitting' /\ ~Emitting /\ Emitted /\ Emitted' /\ UNCHANGED <<pc, converged, hash>>
          BY <2>1, <2>6 DEF Emitting, Emitted
        <4>2. \A k \in DOMAIN refs : refs[k].kind = "short" => (Hits(refs[k])' <=> Hits(refs[k]))
          BY <2>1, <3>4 DEF Hits
        <4>3. converged => \A k \in DOMAIN refs :
                refs[k].kind = "short" /\ ~DataLabel(refs[k].target) => Hits(refs[k])
          BY <4>1 DEF LayoutInv, BranchInv
        <4>4. converged' => \A k \in DOMAIN refs' :
                refs'[k].kind = "short" /\ ~DataLabel(refs[k].target)' => Hits(refs[k])'
          BY <2>4, <3>2, <3>3, <4>1, <4>2, <4>3
        <4> QED BY <4>1, <4>4 DEF BranchInv
      <3>7. AddressInv' /\ SectionInv' /\ FixupsInBounds'
        BY <2>1, <2>6 DEF LayoutInv, AddressInv, SectionInv, FixupsInBounds, Emitting
      <3> QED BY <3>5, <3>6, <3>7 DEF LayoutInv
    <2> QED BY <1>2, <2>5, <2>6 DEF ResolveFixup
  <1> QED BY <1>1, <1>2

LEMMA LayoutNext ==
    ASSUME Base, LayoutInv, [Next]_vars
    PROVE  LayoutInv'
  <1>1. CASE UNCHANGED vars
    <2>1. /\ \A j : InData(j)' <=> InData(j)
          /\ \A name : DataLabel(name)' <=> DataLabel(name)
      BY <1>1, SectionsUnchanged DEF vars
    <2>2. AddressInv' /\ FieldInv' /\ FixupsInBounds'
      BY <1>1 DEF vars, LayoutInv, AddressInv, FieldInv, FixupsInBounds, Emitting, Emitted
    <2>3. BranchInv'
      BY <1>1, <2>1 DEF vars, LayoutInv, BranchInv, Emitting, Emitted, Hits
    <2>4. SectionInv'
      BY <1>1 DEF vars, LayoutInv, SectionInv, CurInst, InData
    <2> QED BY <2>2, <2>3, <2>4 DEF LayoutInv
  <1>2. CASE EstimateText \/ EndEstimate \/ LabelPass \/ EndLabelPass \/ ResolveEqu
             \/ EndEqu \/ Relax \/ EndRelax
    BY <1>2, LayoutBefore
  <1>3. CASE StartTextPass \/ TextPass \/ MarkGlobal \/ DeclareExtern \/ SkipLabelOnly
             \/ EncodeDirective \/ EncodeRejected \/ EncodeMachine \/ EndTextPass
    BY <1>3, LayoutStart, LayoutText, LayoutPlain, LayoutMachine, LayoutEndText
  <1>4. CASE ApplyAttribute \/ EndAttributes \/ DataPass \/ DataEncode \/ EndDataPass
             \/ ResolveFixup \/ EndFixups
    BY <1>4, LayoutAttributes, LayoutData, LayoutDataEncode, LayoutFixups
  <1> QED BY <1>1, <1>2, <1>3, <1>4 DEF Next, Passes, Finished

LEMMA LayoutInit == Init => LayoutInv
  BY DEF Init, LayoutInv, AddressInv, FieldInv, BranchInv, SectionInv, FixupsInBounds,
         Emitting, Emitted

LEMMA BaseInit == Init => Base
  BY TypedInit DEF Init, Base, AtInst, HashArrayAgree

LEMMA BaseNext ==
    ASSUME Base, [Next]_vars
    PROVE  Base'
  BY TypedNext, AtInstNext, AgreeNext, AgreeIsHashArrayAgree, AgreeIsHashArrayAgreeNext
     DEF Base

(* When the text passes converge, every rel8 branch to a label that is not *)
(* in the data section lands on that label in the finished output, for     *)
(* every program: "no label moved in the last pass" is a sufficient test   *)
(* although branches are sized and written before the pass is over.        *)
THEOREM BranchesConverge == Spec => []ConvergedBranchesLand
  <1>1. Init => Base /\ LayoutInv
    BY BaseInit, LayoutInit
  <1>2. Base /\ LayoutInv /\ [Next]_vars => Base' /\ LayoutInv'
    BY BaseNext, LayoutNext
  <1>3. LayoutInv => ConvergedBranchesLand
    BY DEF LayoutInv, BranchInv, Emitted, Hits, ConvergedBranchesLand
  <1> QED BY <1>1, <1>2, <1>3, PTL DEF Spec

(* resolve_fixups never meets a fixup outside the text it patches: its     *)
(* bounds error is unreachable for every program and every capacity.       *)
THEOREM FixupBoundsUnreachable == Spec => []FixupsInBounds
  <1>1. Init => Base /\ LayoutInv
    BY BaseInit, LayoutInit
  <1>2. Base /\ LayoutInv /\ [Next]_vars => Base' /\ LayoutInv'
    BY BaseNext, LayoutNext
  <1>3. LayoutInv => FixupsInBounds
    BY DEF LayoutInv
  <1> QED BY <1>1, <1>2, <1>3, PTL DEF Spec

LEMMA FrozenStep ==
    ASSUME Base, LayoutInv, Next
    PROVE  TextFrozenStep
  <1> SUFFICES ASSUME pc \in {"attrs", "data", "dataencode", "fixups"}
               PROVE  /\ text_size' = text_size /\ Len(refs') = Len(refs)
                      /\ \A k \in DOMAIN refs : refs'[k].target = refs[k].target
                                                 /\ refs'[k].next = refs[k].next
                      /\ \A name \in DOMAIN hash : ~DataLabel(name) => hash'[name] = hash[name]
    BY DEF TextFrozenStep
  <1>1. CASE ApplyAttribute \/ EndAttributes \/ EndDataPass \/ EndFixups
    BY <1>1 DEF ApplyAttribute, EndAttributes, EndDataPass, EndFixups, output, table
  <1>2. CASE DataPass
    <2>1. UNCHANGED <<text_size, refs>>
      BY <1>2 DEF DataPass, output
    <2>2. CASE UNCHANGED hash
      BY <2>1, <2>2
    <2>3. CASE CurInst.type # "section" /\ current_section = 1 /\ SettleOperands
      <3>1. InData(i) /\ i \in DOMAIN insts
        BY <1>2, <2>3 DEF LayoutInv, SectionInv, DataPass, HasInst, Base, Typed, TypeOK
      <3>2. DataLabel(CurInst.label)
        BY <2>3, <3>1 DEF DataLabel, CurInst
      <3>3. CASE CurInst.label # NoName
        BY <2>1, <2>3, <3>2, <3>3, MoveKeeps DEF SettleOperands
      <3>4. CASE CurInst.label = NoName
        BY <2>1, <2>3, <3>4 DEF SettleOperands
      <3> QED BY <3>3, <3>4
    <2> QED BY <1>2, <2>2, <2>3 DEF DataPass, table
  <1>3. CASE DataEncode
    <2>1. UNCHANGED <<text_size, refs>>
      BY <1>3 DEF DataEncode
    <2>2. CASE hash' = hash
      BY <2>1, <2>2
    <2>3. CASE \E name, addr, ext, sec : hash' = AddToHash(name, addr, ext, sec)
      BY <2>1, <2>3, AddKeeps
    <2> QED BY <1>3, <2>2, <2>3 DEF DataEncode, table
  <1>4. CASE ResolveFixup
    <2> DEFINE f == fixups[i]
               target == hash[f.label].address
               base == IF f.relative THEN target - (f.location + f.size) ELSE target
               patched == [k \in DOMAIN refs |->
                             IF refs[k].loc = f.location
                               THEN [refs[k] EXCEPT !.disp = base + refs[k].disp] ELSE refs[k]]
    <2>1. UNCHANGED <<text_size, hash>> /\ (refs' = refs \/ refs' = patched)
      BY <1>4 DEF ResolveFixup, table
    <2>2. \A k \in DOMAIN refs : refs[k] \in Ref
      BY DEF Base, Typed, TypeOK
    <2> HIDE DEF base, f
    <2>3. \A k \in DOMAIN refs : patched[k].target = refs[k].target /\ patched[k].next = refs[k].next
      BY <2>2 DEF Ref
    <2>4. Len(patched) = Len(refs)
      <3>1. refs \in Seq(Ref) /\ DOMAIN patched = 1 .. Len(refs)
        BY DEF Base, Typed, TypeOK
      <3> HIDE DEF patched
      <3> QED BY <3>1
    <2> HIDE DEF patched
    <2> QED BY <2>1, <2>3, <2>4
  <1>5. CASE \/ EstimateText \/ EndEstimate \/ LabelPass \/ EndLabelPass \/ ResolveEqu \/ EndEqu
             \/ Relax \/ EndRelax \/ StartTextPass \/ TextPass \/ MarkGlobal \/ DeclareExtern
             \/ SkipLabelOnly \/ EncodeMachine \/ EncodeDirective \/ EncodeRejected
             \/ EndTextPass \/ Finished
    <2>1. pc \notin {"attrs", "data", "dataencode", "fixups"}
      BY <1>5 DEF EstimateText, EndEstimate, LabelPass, EndLabelPass, ResolveEqu, EndEqu,
                  Relax, EndRelax, StartTextPass, TextPass, MarkGlobal, DeclareExtern,
                  SkipLabelOnly, EncodeMachine, EncodeDirective, EncodeRejected,
                  EndTextPass, Finished
    <2> QED BY <2>1
  <1> QED BY <1>1, <1>2, <1>3, <1>4, <1>5 DEF Next, Passes

(* Nothing after the text passes moves a text label or changes the size of *)
(* the text: the data pass and resolve_fixups only settle data labels and  *)
(* fill displacement fields in.                                            *)
THEOREM TextStaysFrozen == Spec => TextFrozen
  <1>1. Init => Base /\ LayoutInv
    BY BaseInit, LayoutInit
  <1>2. Base /\ LayoutInv /\ [Next]_vars => Base' /\ LayoutInv'
    BY BaseNext, LayoutNext
  <1>3. Base /\ LayoutInv /\ [Next]_vars => [TextFrozenStep]_vars
    BY FrozenStep
  <1> QED BY <1>1, <1>2, <1>3, PTL DEF Spec, TextFrozen

-----------------------------------------------------------------------------
(***************************************************************************)
(* What the finished output looks like: the order of the line map, the     *)
(* contents of the 32-bit displacement fields and the addresses of the     *)
(* labels, for every program and every capacity.                           *)
(***************************************************************************)
(* The fixup j has been applied by resolve_fixups.                         *)
Applied(j) == pc = "done" \/ (pc = "fixups" /\ j < i)

(* The field of r holds what its symbol says, measured from its own end.   *)
Landed(r) ==
    /\ r.target \in DOMAIN hash
    /\ r.kind = "rel" => r.loc + 4 + r.disp = hash[r.target].address + r.addend
    /\ r.kind = "abs" => r.disp = hash[r.target].address + r.addend

(* No two fixups patch the same field, and every field that is not a rel8  *)
(* has a fixup of its own: until that one is applied the field holds the   *)
(* addend, from then on the value.                                         *)
PatchInv ==
    Emitting \/ Emitted =>
        /\ \A j, l \in DOMAIN fixups : fixups[j].location = fixups[l].location => j = l
        /\ \A k \in DOMAIN refs : refs[k].kind # "short" =>
              \E j \in DOMAIN fixups :
                  /\ fixups[j] = FixupFor(refs[k])
                  /\ IF Applied(j) THEN Landed(refs[k]) ELSE refs[k].disp = refs[k].addend

(* A relative field ends the instruction, unless an immediate follows it.  *)
FieldEndInv ==
    \A k \in DOMAIN refs :
        refs[k].kind = "rel" =>
            refs[k].next = refs[k].loc + 4 \/ ImmediateBehind(refs[k].target)

(* The text and the data pass are in the section that the directives       *)
(* before the line say.                                                    *)
PassSectionInv ==
    /\ pc \in {"text", "encode", "data", "dataencode"} => (current_section = 1 <=> InData(i))
    /\ pc = "encode" => current_section = 0 /\ PlainInst

(* The data pass emits behind the text.                                    *)
DataAddressInv ==
    pc \in {"data", "dataencode"} => current_address = BaseAddress + text_size + data_size

(* The text pass, or the data pass, has met the label of line j.           *)
TextMet(j) == Emitted \/ (Emitting /\ (j < i \/ (pc = "encode" /\ j = i)))
DataMet(j) ==
    \/ pc \in {"fixups", "done"}
    \/ pc \in {"data", "dataencode"} /\ (j < i \/ (pc = "dataencode" /\ j = i))

InText(address) == address \in BaseAddress .. BaseAddress + text_size
InDataBytes(address) ==
    address \in BaseAddress + text_size .. BaseAddress + text_size + data_size

(* A label that a pass has met lies in the bytes emitted so far.           *)
LabelInv ==
    \A j \in DOMAIN insts : \A name \in DOMAIN hash :
        DefinedOnce(name, j) =>
            /\ ~InData(j) /\ TextMet(j) => InText(hash[name].address)
            /\ InData(j) /\ DataMet(j) => InDataBytes(hash[name].address)

OutputInv ==
    LineMapSorted /\ PatchInv /\ FieldEndInv /\ PassSectionInv /\ DataAddressInv /\ LabelInv

-----------------------------------------------------------------------------
(* The line map.                                                           *)

(* The actions that follow the head of the loop body in a text pass.       *)
EncodeStep ==
    MarkGlobal \/ DeclareExtern \/ SkipLabelOnly \/ EncodeMachine \/ EncodeDirective
      \/ EncodeRejected

(* An encoding only ever adds bytes to the text.                           *)
LEMMA TextGrows ==
    ASSUME Base, EncodeStep
    PROVE  \E k \in Nat : text_size' = text_size + k
  <1>1. CASE UNCHANGED text_size
    <2>1. text_size \in Nat
      BY DEF Base, Typed, TypeOK
    <2> QED BY <1>1, <2>1
  <1>2. CASE EncodeMachine \/ EncodeDirective
    <2> DEFINE inst == CurInst
               len == EncodedLength(inst, current_address)
    <2>1. inst \in Inst /\ current_address \in Int /\ ~BadOperands(inst)
      BY <1>2, CurInstTyped DEF Base, AtInst, EncodeMachine, EncodeDirective
    <2>2. len \in Nat
      <3> HIDE DEF inst
      <3> QED BY <2>1, EncodedLengthNat
    <2>3. RefOffset(inst, current_address) \in Nat
      <3>1. inst.off \in Nat
        BY <2>1 DEF Inst
      <3> QED BY <3>1 DEF RefOffset
    <2>4. TextRoom(len) \in Nat
      <3> HIDE DEF len
      <3> QED BY <2>2, TextRoomNat DEF Base
    <2>5. \/ EmitText(len) \/ EmitText(TextRoom(len))
          \/ EmitText(RefOffset(inst, current_address))
      BY <1>2 DEF EncodeMachine, EncodeDirective
    <2> HIDE DEF inst, len
    <2> QED BY <2>2, <2>3, <2>4, <2>5 DEF EmitText
  <1> QED BY <1>1, <1>2 DEF EncodeStep, MarkGlobal, DeclareExtern, SkipLabelOnly,
                            EncodeRejected, NothingEmitted, output

(* Every other step starts a text pass, or leaves text and line map alone. *)
LEMMA TextKept ==
    ASSUME [Next]_vars, ~EncodeStep, ~StartTextPass
    PROVE  UNCHANGED <<text_size, line_map, fixups>>
  BY DEF Next, Passes, Finished, EncodeStep, vars, output, EstimateText, EndEstimate, LabelPass,
         EndLabelPass, ResolveEqu, EndEqu, Relax, EndRelax, TextPass, EndTextPass,
         ApplyAttribute, EndAttributes, DataPass, DataEncode, EndDataPass, ResolveFixup,
         EndFixups

LEMMA LinesNext ==
    ASSUME Base, LayoutInv, LineMapSorted, [Next]_vars
    PROVE  LineMapSorted'
  <1>1. text_size \in Nat /\ line_map \in Seq(Int) /\ BaseAddress \in Int
    BY BaseInt DEF Base, Typed, TypeOK
  <1>2. CASE StartTextPass
    <2>1. line_map' = <<>>
      BY <1>2 DEF StartTextPass
    <2>2. DOMAIN line_map' = {}
      BY <2>1
    <2> QED BY <2>2 DEF LineMapSorted
  <1>3. CASE EncodeStep
    <2>1. PICK k \in Nat : text_size' = text_size + k
      BY <1>3, TextGrows
    <2>2. current_address = BaseAddress + text_size
      BY <1>3 DEF LayoutInv, AddressInv, Emitting, EncodeStep, MarkGlobal, DeclareExtern,
                  SkipLabelOnly, EncodeMachine, EncodeDirective, EncodeRejected
    <2>3. line_map' = line_map \/ line_map' = Append(line_map, current_address)
      BY <1>3 DEF EncodeStep, MarkGlobal, DeclareExtern, SkipLabelOnly, EncodeMachine,
                  EncodeDirective, EncodeRejected, RecordLine, NothingEmitted, output
    <2>4. \A j \in DOMAIN line_map : /\ line_map[j] \in Int
                                     /\ BaseAddress <= line_map[j]
                                     /\ line_map[j] <= BaseAddress + text_size
      BY <1>1 DEF LineMapSorted
    <2>5. \A j \in DOMAIN line_map' :
            \/ j \in DOMAIN line_map /\ line_map'[j] = line_map[j]
            \/ j = Len(line_map) + 1 /\ line_map'[j] = BaseAddress + text_size
      BY <1>1, <2>2, <2>3
    <2>6. DOMAIN line_map = 1 .. Len(line_map) /\ Len(line_map) \in Nat
      BY <1>1
    <2>7. \A j \in DOMAIN line_map' : line_map'[j] \in BaseAddress .. BaseAddress + text_size'
      BY <1>1, <2>1, <2>4, <2>5
    <2>8. \A j, m \in DOMAIN line_map' : j < m => line_map'[j] <= line_map'[m]
      <3> SUFFICES ASSUME NEW j \in DOMAIN line_map', NEW m \in DOMAIN line_map', j < m
                   PROVE  line_map'[j] <= line_map'[m]
        OBVIOUS
      <3>1. CASE m \in DOMAIN line_map
        BY <2>5, <2>6, <3>1 DEF LineMapSorted
      <3>2. CASE m = Len(line_map) + 1 /\ line_map'[m] = BaseAddress + text_size
        BY <1>1, <2>4, <2>5, <2>6, <3>2
      <3> QED BY <2>5, <3>1, <3>2
    <2> QED BY <2>7, <2>8 DEF LineMapSorted
  <1>4. CASE ~EncodeStep /\ ~StartTextPass
    BY <1>4, TextKept DEF LineMapSorted
  <1> QED BY <1>2, <1>3, <1>4

-----------------------------------------------------------------------------
(* The displacement fields.                                                *)

(* A step that leaves the fields and the fixups alone, and applies none.   *)
LEMMA PatchKept ==
    ASSUME PatchInv, UNCHANGED <<refs, fixups>>,
           Emitting' \/ Emitted' => Emitting \/ Emitted,
           \A j \in DOMAIN fixups : ~Applied(j) /\ ~Applied(j)'
    PROVE  PatchInv'
  BY DEF PatchInv

LEMMA PatchMachine ==
    ASSUME Base, LayoutInv, PatchInv, EncodeMachine
    PROVE  PatchInv'
  <1> DEFINE inst == CurInst
             a == current_address
             ref == RefAt(inst, a)
             fixes == NeedsFixup(inst, a) /\ TextRoom(EncodedLength(inst, a)) >= RefOffset(inst, a)
  <1>1. /\ pc = "encode" /\ pc' \in {"text", "failed"}
        /\ Encodes(inst) /\ ~BadOperands(inst)
    BY DEF EncodeMachine, NextInst, Fail
  <1>2. inst \in Inst /\ a \in Int /\ HashType(hash)
    BY <1>1, CurInstTyped DEF Base, AtInst
  <1>3. CASE pc' = "failed"
    BY <1>3 DEF PatchInv, Emitting, Emitted
  <1>4. CASE pc' = "text"
    <2>1. /\ TextRoom(EncodedLength(inst, a)) = EncodedLength(inst, a)
          /\ refs' = IF HasRef(inst) THEN Append(refs, ref) ELSE refs
          /\ fixups' = IF fixes THEN Append(fixups, FixupFor(ref)) ELSE fixups
      BY <1>4 DEF EncodeMachine, Fail
    <2>2. fixes <=> NeedsFixup(inst, a)
      <3>1. NeedsFixup(inst, a) => RefOffset(inst, a) < EncodedLength(inst, a)
                                   /\ RefOffset(inst, a) \in Nat /\ EncodedLength(inst, a) \in Nat
        <4> HIDE DEF inst, a
        <4> QED BY <1>1, <1>2, FieldInside, EncodedLengthNat DEF NeedsFixup
      <3> QED BY <2>1, <3>1
    <2>3. HasRef(inst) =>
            /\ ref.kind = "short" <=> ShortBranch(inst, a)
            /\ ref.kind # "short" => ref.disp = ref.addend
            /\ ref.loc = a + RefOffset(inst, a) /\ RefOffset(inst, a) \in Nat
            /\ FixupFor(ref).location = ref.loc
      <3>1. HasRef(inst) => RefOffset(inst, a) \in Nat
        <4> HIDE DEF inst, a
        <4> QED BY <1>1, <1>2, FieldInside
      <3> QED BY <3>1 DEF RefAt, FixupFor
    <2>4. \A j \in DOMAIN fixups : fixups[j].location \in Int /\ fixups[j].location < a
      <3>1. a = BaseAddress + text_size
        BY <1>1 DEF LayoutInv, AddressInv, Emitting
      <3>2. \A j \in DOMAIN fixups : fixups[j].location \in Int /\ fixups[j].location + 4 <= a
        BY <1>1, <3>1, FieldTypes DEF LayoutInv, FieldInv, Emitting, Base
      <3> QED BY <1>2, <3>2
    <2>5. refs \in Seq(Ref) /\ fixups \in Seq(Fixup)
      BY DEF Base, Typed, TypeOK
    <2>6. Emitting
      BY <1>1 DEF Emitting
    <2>7. \A j : ~Applied(j) /\ ~Applied(j)'
      BY <1>1 DEF Applied
    <2>8. fixes <=> HasRef(inst) /\ ~ShortBranch(inst, a)
      BY <2>2 DEF NeedsFixup
    <2> HIDE DEF inst, a, ref, fixes
    <2>9. \A k \in DOMAIN refs' : \/ k \in DOMAIN refs /\ refs'[k] = refs[k]
                                  \/ HasRef(inst) /\ refs'[k] = ref
      BY <2>1, <2>5
    <2>10. \A j \in DOMAIN fixups' :
             \/ j \in DOMAIN fixups /\ fixups'[j] = fixups[j]
             \/ fixes /\ j = Len(fixups) + 1 /\ fixups'[j] = FixupFor(ref)
      BY <2>1, <2>5
    <2>11. \A j \in DOMAIN fixups : j \in DOMAIN fixups' /\ fixups'[j] = fixups[j]
      BY <2>1, <2>5
    <2>12. fixes => \E j \in DOMAIN fixups' : fixups'[j] = FixupFor(ref)
      <3>1. fixes => Len(fixups) + 1 \in DOMAIN fixups'
                     /\ fixups'[Len(fixups) + 1] = FixupFor(ref)
        BY <2>1, <2>5
      <3> QED BY <3>1
    <2>13. \A j, l \in DOMAIN fixups' : fixups'[j].location = fixups'[l].location => j = l
      <3>1. fixes => FixupFor(ref).location \in Int /\ FixupFor(ref).location >= a
        BY <1>2, <2>3, <2>8
      <3>2. \A j, l \in DOMAIN fixups : fixups[j].location = fixups[l].location => j = l
        BY <2>6 DEF PatchInv
      <3> QED BY <1>2, <2>4, <2>10, <3>1, <3>2
    <2>14. \A k \in DOMAIN refs' : refs'[k].kind # "short" =>
             \E j \in DOMAIN fixups' :
                fixups'[j] = FixupFor(refs'[k]) /\ refs'[k].disp = refs'[k].addend
      <3> SUFFICES ASSUME NEW k \in DOMAIN refs', refs'[k].kind # "short"
                   PROVE  \E j \in DOMAIN fixups' :
                            fixups'[j] = FixupFor(refs'[k]) /\ refs'[k].disp = refs'[k].addend
        OBVIOUS
      <3>1. CASE k \in DOMAIN refs /\ refs'[k] = refs[k]
        <4>1. PICK j \in DOMAIN fixups : fixups[j] = FixupFor(refs[k])
                                         /\ refs[k].disp = refs[k].addend
          BY <2>6, <2>7, <3>1 DEF PatchInv
        <4> QED BY <2>11, <3>1, <4>1
      <3>2. CASE HasRef(inst) /\ refs'[k] = ref
        BY <2>3, <2>8, <2>12, <3>2
      <3> QED BY <2>9, <3>1, <3>2
    <2> QED BY <2>7, <2>13, <2>14 DEF PatchInv, FixupFor
  <1> QED BY <1>1, <1>3, <1>4

(* resolve_fixups adds the value to the addend of the field.               *)
LEMMA PatchFixup ==
    ASSUME Base, LayoutInv, PatchInv, ResolveFixup
    PROVE  PatchInv'
  <1> DEFINE f == fixups[i]
             target == hash[f.label].address
             base == IF f.relative THEN target - (f.location + f.size) ELSE target
  <1>1. /\ pc = "fixups" /\ i \in DOMAIN fixups /\ i \in Nat
        /\ UNCHANGED <<fixups, hash>>
    <2>1. pc = "fixups" /\ i <= Len(fixups) /\ UNCHANGED <<fixups, hash>>
      BY DEF ResolveFixup, table
    <2>2. i \in Nat \ {0} /\ fixups \in Seq(Fixup)
      BY DEF Base, Typed, TypeOK
    <2> QED BY <2>1, <2>2
  <1>2. CASE pc' = "failed"
    BY <1>2 DEF PatchInv, Emitting, Emitted
  <1>3. CASE /\ Known(f.label) /\ UNCHANGED <<pc, err>> /\ i' = i + 1
             /\ refs' = [k \in DOMAIN refs |->
                           IF refs[k].loc = f.location
                             THEN [refs[k] EXCEPT !.disp = base + refs[k].disp] ELSE refs[k]]
    <2>1. Emitted /\ Emitted'
      BY <1>1, <1>3 DEF Emitted
    <2>2. f.size = 4 /\ f.location \in Int
      <3>1. f \in Fixup
        BY <1>1 DEF Base, Typed, TypeOK
      <3> QED BY <3>1 DEF Fixup
    <2>3. target \in Int /\ f.label \in DOMAIN hash
      BY <1>3 DEF Known, Base, Typed, TypeOK, HashEntry
    <2>4. \A k \in DOMAIN refs : refs[k] \in Ref
      BY DEF Base, Typed, TypeOK
    <2>5. /\ base \in Int
          /\ f.relative => base = target - (f.location + 4)
          /\ ~f.relative => base = target
      BY <2>2, <2>3
    <2> HIDE DEF base, f
    <2>6. DOMAIN refs' = DOMAIN refs
      BY <1>3
    <2>7. \A k \in DOMAIN refs :
            /\ refs'[k].loc = refs[k].loc /\ refs'[k].kind = refs[k].kind
            /\ refs'[k].target = refs[k].target /\ refs'[k].addend = refs[k].addend
            /\ refs[k].loc = f.location => refs'[k].disp = base + refs[k].disp
            /\ refs[k].loc # f.location => refs'[k] = refs[k]
      BY <1>3, <2>4 DEF Ref
    <2>8. \A k \in DOMAIN refs : refs[k].kind # "short" =>
             \E j \in DOMAIN fixups :
                /\ fixups[j] = FixupFor(refs'[k])
                /\ IF Applied(j)' THEN Landed(refs[k])' ELSE refs'[k].disp = refs'[k].addend
      <3> SUFFICES ASSUME NEW k \in DOMAIN refs, refs[k].kind # "short"
                   PROVE  \E j \in DOMAIN fixups :
                            /\ fixups[j] = FixupFor(refs'[k])
                            /\ IF Applied(j)' THEN Landed(refs[k])'
                                              ELSE refs'[k].disp = refs'[k].addend
        OBVIOUS
      <3>1. PICK j \in DOMAIN fixups :
              /\ fixups[j] = FixupFor(refs[k])
              /\ IF Applied(j) THEN Landed(refs[k]) ELSE refs[k].disp = refs[k].addend
        BY <2>1 DEF PatchInv
      <3>2. FixupFor(refs'[k]) = FixupFor(refs[k])
        BY <2>7 DEF FixupFor
      <3>3. j \in Nat
        BY DEF Base, Typed, TypeOK
      <3>4. CASE j = i
        <4>1. refs[k].loc = f.location /\ f.label = refs[k].target
              /\ (f.relative <=> refs[k].kind = "rel")
          <5>1. f = [label |-> refs[k].target, location |-> refs[k].loc, size |-> 4,
                     relative |-> refs[k].kind = "rel"]
            BY <3>1, <3>4 DEF FixupFor, f
          <5>2. f.relative = (refs[k].kind = "rel")
            BY <5>1, Zenon
          <5> QED BY <5>1, <5>2
        <4>2. refs[k].disp = refs[k].addend
          BY <1>1, <3>1, <3>4 DEF Applied
        <4>3. refs[k].loc \in Int /\ refs[k].addend \in Int /\ refs[k].disp \in Int
          BY <2>4 DEF Ref
        <4>4. refs'[k].disp = base + refs[k].addend
          BY <2>7, <4>1, <4>2
        <4>5. Landed(refs[k])'
          <5>1. refs'[k].kind = "rel" =>
                   refs'[k].loc + 4 + refs'[k].disp = target + refs'[k].addend
            BY <2>2, <2>3, <2>5, <2>7, <4>1, <4>3, <4>4
          <5>2. refs'[k].kind = "abs" => refs'[k].disp = target + refs'[k].addend
            BY <2>5, <2>7, <4>1, <4>4
          <5> QED BY <1>1, <2>3, <2>7, <4>1, <5>1, <5>2 DEF Landed
        <4>6. Applied(j)'
          BY <1>1, <1>3, <3>4 DEF Applied
        <4> QED BY <3>1, <3>2, <4>5, <4>6
      <3>5. CASE j # i
        <4>1. fixups[j].location # f.location
          BY <1>1, <2>1, <3>5 DEF PatchInv, f
        <4>2. refs'[k] = refs[k]
          BY <2>7, <3>1, <4>1 DEF FixupFor
        <4>3. Applied(j)' <=> Applied(j)
          BY <1>1, <1>3, <3>3, <3>5 DEF Applied
        <4>4. Landed(refs[k])' <=> Landed(refs[k])
          BY <1>1, <4>2 DEF Landed
        <4> QED BY <3>1, <4>2, <4>3, <4>4
      <3> QED BY <3>4, <3>5
    <2>9. \A j, l \in DOMAIN fixups : fixups[j].location = fixups[l].location => j = l
      BY <2>1 DEF PatchInv
    <2> QED BY <1>1, <2>6, <2>7, <2>8, <2>9 DEF PatchInv
  <1> QED BY <1>1, <1>2, <1>3 DEF ResolveFixup, Fail

LEMMA PatchNext ==
    ASSUME Base, LayoutInv, PatchInv, [Next]_vars
    PROVE  PatchInv'
  <1>1. CASE EstimateText \/ EndEstimate \/ LabelPass \/ EndLabelPass \/ ResolveEqu
             \/ EndEqu \/ Relax \/ EndRelax
    <2>1. pc' \in {"estimate", "labels", "equ1", "relax", "equ2", "startpass", "failed"}
      BY <1>1 DEF EstimateText, EndEstimate, LabelPass, RecordLabel, EndLabelPass, ResolveEqu,
                  upsert_constant_symbol, EndEqu, Relax, EndRelax, Fail
    <2> QED BY <2>1 DEF PatchInv, Emitting, Emitted
  <1>2. CASE StartTextPass
    <2>1. fixups' = <<>> /\ refs' = <<>>
      BY <1>2 DEF StartTextPass
    <2>2. DOMAIN fixups' = {} /\ DOMAIN refs' = {}
      BY <2>1
    <2> QED BY <2>2 DEF PatchInv
  <1>3. CASE TextPass \/ EndTextPass \/ MarkGlobal \/ DeclareExtern \/ SkipLabelOnly
             \/ EncodeDirective \/ EncodeRejected
    <2>1. /\ pc \in {"text", "encode"} /\ pc' \notin {"fixups", "done"}
          /\ UNCHANGED <<refs, fixups>>
      BY <1>3 DEF TextPass, CollectAttribute, EndTextPass, MarkGlobal, DeclareExtern,
                  SkipLabelOnly, EncodeDirective, EncodeRejected, NextInst, Fail,
                  NothingEmitted, output
    <2>2. \A j \in DOMAIN fixups : ~Applied(j) /\ ~Applied(j)'
      BY <2>1 DEF Applied
    <2> QED BY <2>1, <2>2, PatchKept DEF Emitting
  <1>4. CASE ApplyAttribute \/ EndAttributes \/ DataPass \/ DataEncode
    <2>1. /\ pc \in {"attrs", "data", "dataencode"} /\ pc' \notin {"fixups", "done"}
          /\ UNCHANGED <<refs, fixups>>
      BY <1>4 DEF ApplyAttribute, EndAttributes, DataPass, DataEncode, Fail, output
    <2>2. \A j \in DOMAIN fixups : ~Applied(j) /\ ~Applied(j)'
      BY <2>1 DEF Applied
    <2> QED BY <2>1, <2>2, PatchKept DEF Emitted
  <1>5. CASE EndDataPass
    <2>1. pc = "data" /\ pc' = "fixups" /\ i' = 1 /\ UNCHANGED <<refs, fixups>>
      BY <1>5 DEF EndDataPass, output
    <2>2. \A j \in DOMAIN fixups : j \in Nat \ {0}
      BY DEF Base, Typed, TypeOK
    <2>3. \A j \in DOMAIN fixups : ~Applied(j) /\ ~Applied(j)'
      BY <2>1, <2>2 DEF Applied
    <2> QED BY <2>1, <2>3, PatchKept DEF Emitted
  <1>6. CASE EndFixups \/ UNCHANGED vars
    <2>1. UNCHANGED <<refs, fixups, hash, i>> /\ (Emitting' \/ Emitted' => Emitting \/ Emitted)
      BY <1>6 DEF EndFixups, vars, output, table, Emitting, Emitted
    <2>2. \A j \in DOMAIN fixups : Applied(j)' <=> Applied(j)
      <3>1. CASE EndFixups
        <4>1. pc = "fixups" /\ pc' = "done" /\ i > Len(fixups)
          BY <3>1 DEF EndFixups
        <4>2. \A j \in DOMAIN fixups : j \in Nat /\ j <= Len(fixups)
          BY DEF Base, Typed, TypeOK
        <4>3. i \in Nat /\ Len(fixups) \in Nat
          BY DEF Base, Typed, TypeOK
        <4> QED BY <4>1, <4>2, <4>3 DEF Applied
      <3>2. CASE UNCHANGED vars
        BY <3>2 DEF vars, Applied
      <3> QED BY <1>6, <3>1, <3>2
    <2>3. \A k \in DOMAIN refs : Landed(refs[k])' <=> Landed(refs[k])
      BY <2>1 DEF Landed
    <2> QED BY <2>1, <2>2, <2>3 DEF PatchInv
  <1> QED BY <1>1, <1>2, <1>3, <1>4, <1>5, <1>6, PatchMachine, PatchFixup
          DEF Next, Passes, Finished

(* Operands that a pass settles are those of labels: the memory operands   *)
(* of the program stay as they were written.                               *)
LEMMA MemKept ==
    ASSUME Typed, HasInst, SettleOperands
    PROVE  /\ DOMAIN insts' = DOMAIN insts
           /\ \A j \in DOMAIN insts : insts[j].type = "mem" => insts'[j] = insts[j]
  <1>1. CurInst \in Inst /\ i \in DOMAIN insts /\ insts \in Seq(Inst)
    BY DEF Typed, TypeOK, HasInst, CurInst
  <1>2. insts' = [insts EXCEPT ![i] = Rewritten(CurInst, hash')]
    BY DEF SettleOperands
  <1>3. CurInst.type = "mem" => Rewritten(CurInst, hash') = CurInst
    BY <1>1 DEF Inst, Rewritten
  <1> QED BY <1>1, <1>2, <1>3 DEF CurInst

LEMMA ImmediateKept ==
    ASSUME DOMAIN insts' = DOMAIN insts,
           \A j \in DOMAIN insts : insts[j].type = "mem" => insts'[j] = insts[j],
           NEW name, ImmediateBehind(name)
    PROVE  ImmediateBehind(name)'
  BY DEF ImmediateBehind

(* What follows the field of an encoded instruction.                       *)
LEMMA FieldEnds ==
    ASSUME NEW inst \in Inst, NEW a \in Int, HasRef(inst), RefAt(inst, a).kind = "rel"
    PROVE  \/ RefAt(inst, a).next = RefAt(inst, a).loc + 4
           \/ inst.type = "mem" /\ inst.form = "rip" /\ inst.tail > 0
  <1>1. ~ShortBranch(inst, a) /\ inst.form # "abs"
    BY DEF RefAt
  <1>2. /\ RefAt(inst, a).next = a + EncodedLength(inst, a)
        /\ RefAt(inst, a).loc = a + RefOffset(inst, a)
    BY DEF RefAt
  <1>3. inst.off \in Nat /\ inst.tail \in Nat
        /\ (inst.type = "mem" => inst.form \in {"rip", "abs"})
    BY DEF Inst
  <1>4. CASE inst.type = "mem"
    BY <1>1, <1>2, <1>3, <1>4 DEF EncodedLength, RefOffset
  <1>5. CASE inst.type = "load" /\ inst.form = "label"
    <2>1. EncodedLength(inst, a) = 7 /\ RefOffset(inst, a) = 3
      BY <1>5 DEF EncodedLength, RefOffset
    <2> QED BY <1>2, <2>1
  <1>6. CASE inst.type \in {"jmp", "jcc", "call"}
    <2>1. EncodedLength(inst, a) = RefOffset(inst, a) + 4 /\ RefOffset(inst, a) \in Nat
      BY <1>1, <1>6 DEF EncodedLength, RefOffset, NearLength
    <2> QED BY <1>2, <2>1
  <1> QED BY <1>4, <1>5, <1>6 DEF HasRef

LEMMA FieldEndMachine ==
    ASSUME Base, FieldEndInv, EncodeMachine
    PROVE  FieldEndInv'
  <1> DEFINE inst == CurInst
             a == current_address
             ref == RefAt(inst, a)
  <1>1. pc = "encode" /\ UNCHANGED insts
    BY DEF EncodeMachine, EncodeFrame
  <1>2. inst \in Inst /\ a \in Int /\ i \in DOMAIN insts /\ inst = insts[i]
    BY <1>1, CurInstTyped DEF Base, AtInst, Typed, TypeOK, HasInst, CurInst
  <1>3. refs' = refs \/ (HasRef(inst) /\ refs' = Append(refs, ref))
    BY DEF EncodeMachine
  <1>4. refs \in Seq(Ref)
    BY DEF Base, Typed, TypeOK
  <1>5. \A name : ImmediateBehind(name)' <=> ImmediateBehind(name)
    BY <1>1 DEF ImmediateBehind
  <1>6. HasRef(inst) /\ ref.kind = "rel" =>
            ref.next = ref.loc + 4 \/ ImmediateBehind(ref.target)
    <2> SUFFICES ASSUME HasRef(inst), ref.kind = "rel", ~(ref.next = ref.loc + 4)
                 PROVE  ImmediateBehind(ref.target)
      OBVIOUS
    <2>1. inst.type = "mem" /\ inst.form = "rip" /\ inst.tail > 0
      <3> HIDE DEF inst, a
      <3> QED BY <1>2, FieldEnds
    <2>2. ref.target = inst.target
      BY DEF RefAt
    <2> QED BY <1>2, <2>1, <2>2 DEF ImmediateBehind
  <1> HIDE DEF inst, a, ref
  <1>7. \A k \in DOMAIN refs' : \/ k \in DOMAIN refs /\ refs'[k] = refs[k]
                                \/ HasRef(inst) /\ refs'[k] = ref
    BY <1>3, <1>4
  <1> QED BY <1>5, <1>6, <1>7 DEF FieldEndInv

LEMMA FieldEndNext ==
    ASSUME Base, FieldEndInv, [Next]_vars
    PROVE  FieldEndInv'
  <1>1. CASE StartTextPass
    <2>1. refs' = <<>>
      BY <1>1 DEF StartTextPass
    <2>2. DOMAIN refs' = {}
      BY <2>1
    <2> QED BY <2>2 DEF FieldEndInv
  <1>2. CASE TextPass \/ DataPass
    <2>1. UNCHANGED refs /\ (UNCHANGED insts \/ (HasInst /\ SettleOperands))
      BY <1>2 DEF TextPass, DataPass, output
    <2>2. \A name : ImmediateBehind(name) => ImmediateBehind(name)'
      <3>1. DOMAIN insts' = DOMAIN insts
            /\ \A j \in DOMAIN insts : insts[j].type = "mem" => insts'[j] = insts[j]
        BY <2>1, MemKept DEF Base
      <3> QED BY <3>1, ImmediateKept
    <2> QED BY <2>1, <2>2 DEF FieldEndInv
  <1>3. CASE ResolveFixup
    <2>1. UNCHANGED insts
      BY <1>3 DEF ResolveFixup
    <2>2. \A k \in DOMAIN refs : refs[k] \in Ref
      BY DEF Base, Typed, TypeOK
    <2>3. /\ DOMAIN refs' = DOMAIN refs
          /\ \A k \in DOMAIN refs :
                /\ refs'[k].loc = refs[k].loc /\ refs'[k].kind = refs[k].kind
                /\ refs'[k].target = refs[k].target /\ refs'[k].next = refs[k].next
      BY <1>3, <2>2 DEF ResolveFixup, Ref
    <2>4. \A name : ImmediateBehind(name)' <=> ImmediateBehind(name)
      BY <2>1 DEF ImmediateBehind
    <2> QED BY <2>3, <2>4 DEF FieldEndInv
  <1>4. CASE UNCHANGED <<refs, insts>>
    BY <1>4 DEF FieldEndInv, ImmediateBehind
  <1>5. CASE \/ EstimateText \/ EndEstimate \/ LabelPass \/ EndLabelPass \/ ResolveEqu
             \/ EndEqu \/ Relax \/ EndRelax \/ EndTextPass \/ MarkGlobal \/ DeclareExtern
             \/ SkipLabelOnly \/ EncodeDirective \/ EncodeRejected \/ ApplyAttribute
             \/ EndAttributes \/ DataEncode \/ EndDataPass \/ EndFixups \/ UNCHANGED vars
    <2>1. UNCHANGED <<refs, insts>>
      BY <1>5 DEF vars, output, EstimateText, EndEstimate, LabelPass, EndLabelPass, ResolveEqu,
                  EndEqu, Relax, EndRelax, EndTextPass, MarkGlobal, DeclareExtern, SkipLabelOnly,
                  EncodeDirective, EncodeRejected, EncodeFrame, NothingEmitted, ApplyAttribute,
                  EndAttributes, DataEncode, EndDataPass, EndFixups
    <2> QED BY <1>4, <2>1
  <1> QED BY <1>1, <1>2, <1>3, <1>5, FieldEndMachine DEF Next, Passes, Finished

-----------------------------------------------------------------------------
(* The sections that the passes are in.                                    *)

(* A line is in the section of the line before it, or in the one that this *)
(* line switches to; the first line is in the text.                        *)
LEMMA InDataAdvance ==
    ASSUME Typed, HasInst
    PROVE  /\ insts[i].type # "section" => (InData(i + 1) <=> InData(i))
           /\ insts[i].type = "section" => (InData(i + 1) <=> insts[i].n = 1)
  <1>1. i \in Nat \ {0}
    BY DEF Typed, TypeOK
  <1>2. ASSUME InData(i + 1)
        PROVE  IF insts[i].type = "section" THEN insts[i].n = 1 ELSE InData(i)
    <2>1. PICK k \in 1 .. (i + 1) - 1 :
            /\ insts[k].type = "section" /\ insts[k].n = 1
            /\ \A m \in k + 1 .. (i + 1) - 1 : insts[m].type # "section"
      BY <1>2 DEF InData
    <2>2. CASE k = i
      BY <2>1, <2>2
    <2>3. CASE k # i
      <3>1. k \in 1 .. i - 1 /\ i \in k + 1 .. (i + 1) - 1
        BY <1>1, <2>3
      <3>2. \A m \in k + 1 .. i - 1 : m \in k + 1 .. (i + 1) - 1
        BY <1>1
      <3> QED BY <2>1, <3>1, <3>2 DEF InData
    <2> QED BY <2>2, <2>3
  <1> QED BY <1>2, InDataNext, InDataStart

LEMMA FirstInText == ~InData(1)
  BY DEF InData

(* The loop goes on to the next line.                                      *)
LEMMA SectionAdvance ==
    ASSUME Typed, HasInst, insts' = insts, i' = i + 1
    PROVE  /\ CurInst.type # "section" => (InData(i)' <=> InData(i))
           /\ CurInst.type = "section" => (InData(i)' <=> CurInst.n = 1)
  <1>1. InData(i)' <=> InData(i + 1)
    BY DEF InData
  <1> QED BY <1>1, InDataAdvance DEF CurInst

LEMMA SectionNext ==
    ASSUME Base, LayoutInv, PassSectionInv, [Next]_vars
    PROVE  PassSectionInv'
  <1>1. Typed /\ current_section \in {0, 1}
    BY DEF Base, Typed, TypeOK
  <1>2. CASE pc' \notin {"text", "encode", "data", "dataencode"}
    BY <1>2 DEF PassSectionInv
  <1>3. CASE StartTextPass \/ EndAttributes
    <2>1. pc' \in {"text", "data"} /\ i' = 1 /\ current_section' = 0
      BY <1>3 DEF StartTextPass, EndAttributes
    <2>2. ~InData(i)'
      BY <2>1, FirstInText DEF InData
    <2> QED BY <2>1, <2>2 DEF PassSectionInv
  <1>4. CASE TextPass \/ DataPass
    <2>1. HasInst /\ pc \in {"text", "data"} /\ (current_section = 1 <=> InData(i))
      BY <1>4 DEF TextPass, DataPass, PassSectionInv
    <2>2. CASE apply_section_directive /\ UNCHANGED <<insts, pc>>
      <3>1. (current_section' = 1 <=> InData(i)')
        BY <1>1, <2>1, <2>2, SectionAdvance DEF apply_section_directive
      <3> QED BY <2>1, <2>2, <3>1 DEF PassSectionInv
    <2>3. CASE /\ CurInst.type # "section" /\ i' = i + 1
               /\ UNCHANGED <<insts, pc, current_section>>
      <3>1. (current_section' = 1 <=> InData(i)')
        BY <1>1, <2>1, <2>3, SectionAdvance
      <3> QED BY <2>1, <2>3, <3>1 DEF PassSectionInv
    <2>4. CASE /\ SettleOperands /\ CurInst.type # "section"
               /\ UNCHANGED <<i, current_section>>
               /\ \/ pc' = "encode" /\ PlainInst /\ current_section = 0
                  \/ pc' = "dataencode"
      <3>1. /\ insts' \in Seq(Inst) /\ Len(insts') = Len(insts)
            /\ \A j \in DOMAIN insts :
                   /\ insts'[j].type = insts[j].type
                   /\ insts'[j].label = insts[j].label
                   /\ insts[j].type = "section" => insts'[j] = insts[j]
        BY <1>1, <2>1, <2>4, SettleType
      <3>2. i \in DOMAIN insts
        BY <1>1, <2>1 DEF Typed, TypeOK, HasInst
      <3>3. \A j \in DOMAIN insts : InData(j)' <=> InData(j)
        BY <1>1, <3>1, SectionsStable
      <3>4. InData(i)' <=> InData(i)
        BY <2>4, <3>2, <3>3 DEF InData
      <3>5. PlainInst' <=> PlainInst
        BY <2>4, <3>1, <3>2 DEF PlainInst, CurInst
      <3> QED BY <2>1, <2>4, <3>4, <3>5 DEF PassSectionInv
    <2> QED BY <1>2, <1>4, <2>2, <2>3, <2>4
            DEF TextPass, DataPass, CollectAttribute, PlainInst, Fail
  <1>5. CASE EncodeStep \/ DataEncode
    <2>1. pc \in {"encode", "dataencode"} /\ HasInst
      BY <1>5 DEF EncodeStep, MarkGlobal, DeclareExtern, SkipLabelOnly, EncodeMachine,
                  EncodeDirective, EncodeRejected, DataEncode, Base, AtInst
    <2>2. CurInst.type # "section" /\ (current_section = 1 <=> InData(i))
      BY <2>1 DEF LayoutInv, SectionInv, PassSectionInv, PlainInst
    <2>3. pc' = "failed" \/ (/\ pc' \in {"text", "data"} /\ i' = i + 1
                             /\ UNCHANGED <<insts, current_section>>)
      BY <1>5 DEF EncodeStep, MarkGlobal, DeclareExtern, SkipLabelOnly, EncodeMachine,
                  EncodeDirective, EncodeRejected, DataEncode, NextInst, Fail, EncodeFrame
    <2>4. pc' # "failed" => (current_section' = 1 <=> InData(i)')
      BY <1>1, <2>1, <2>2, <2>3, SectionAdvance
    <2> QED BY <2>3, <2>4 DEF PassSectionInv
  <1>6. CASE UNCHANGED vars
    BY <1>6 DEF vars, PassSectionInv, InData, PlainInst, CurInst
  <1>7. CASE EstimateText \/ EndEstimate \/ LabelPass \/ EndLabelPass \/ ResolveEqu
             \/ EndEqu \/ Relax \/ EndRelax \/ EndTextPass \/ ApplyAttribute \/ EndDataPass
             \/ ResolveFixup \/ EndFixups
    <2>1. pc' \notin {"text", "encode", "data", "dataencode"}
      BY <1>7 DEF EstimateText, EndEstimate, LabelPass, RecordLabel, EndLabelPass, ResolveEqu,
                  upsert_constant_symbol, EndEqu, Relax, EndRelax, EndTextPass,
                  ApplyAttribute, EndDataPass, ResolveFixup, EndFixups, Fail
    <2> QED BY <1>2, <2>1
  <1> QED BY <1>3, <1>4, <1>5, <1>6, <1>7 DEF Next, Passes, Finished, EncodeStep

(* The data pass emits what fits, and counts exactly that.                 *)
LEMMA DataGrows ==
    ASSUME Base, DataEncode, pc' # "failed"
    PROVE  \E k \in Nat : data_size' = data_size + k /\ current_address' = current_address + k
  <1> DEFINE inst == CurInst
             len == EncodedLength(inst, current_address)
             got == IF inst.type \in DataTypes THEN Lesser(len, DataCapacity - data_size) ELSE 0
  <1>1. inst \in Inst /\ current_address \in Int
    BY CurInstTyped DEF Base, AtInst, DataEncode
  <1>2. /\ ~(inst.type \in DataTypes /\ BadOperands(inst))
        /\ data_size' = data_size + got /\ current_address' = current_address + got
    BY DEF DataEncode, Fail
  <1>3. inst.type \in DataTypes => len \in Nat
    <2> HIDE DEF inst
    <2> QED BY <1>1, <1>2, EncodedLengthNat
  <1>4. data_size \in Nat /\ data_size <= DataCapacity /\ DataCapacity \in Nat
    BY LimitsNat DEF Base, Typed, TypeOK, WithinCapacity
  <1> HIDE DEF len
  <1>5. got \in Nat
    BY <1>3, <1>4 DEF Lesser
  <1> HIDE DEF got
  <1> QED BY <1>2, <1>5

LEMMA DataAddressNext ==
    ASSUME Base, DataAddressInv, [Next]_vars
    PROVE  DataAddressInv'
  <1>1. text_size \in Nat /\ data_size \in Nat /\ BaseAddress \in Int
    BY BaseInt DEF Base, Typed, TypeOK
  <1>2. CASE EndAttributes
    BY <1>1, <1>2 DEF EndAttributes, DataAddressInv
  <1>3. CASE DataPass
    <2>1. pc = "data" /\ UNCHANGED <<current_address, text_size, data_size>>
      BY <1>3 DEF DataPass, output
    <2> QED BY <2>1 DEF DataAddressInv
  <1>4. CASE DataEncode /\ pc' # "failed"
    <2>1. PICK k \in Nat : data_size' = data_size + k /\ current_address' = current_address + k
      BY <1>4, DataGrows
    <2>2. pc = "dataencode" /\ text_size' = text_size
      BY <1>4 DEF DataEncode
    <2> QED BY <1>1, <2>1, <2>2 DEF DataAddressInv
  <1>5. CASE UNCHANGED vars
    BY <1>5 DEF vars, DataAddressInv
  <1>6. CASE pc' \notin {"data", "dataencode"}
    BY <1>6 DEF DataAddressInv
  <1>7. CASE EstimateText \/ EndEstimate \/ LabelPass \/ EndLabelPass \/ ResolveEqu
             \/ EndEqu \/ Relax \/ EndRelax \/ StartTextPass \/ TextPass \/ EncodeStep
             \/ EndTextPass \/ ApplyAttribute \/ EndDataPass \/ ResolveFixup \/ EndFixups
    <2>1. pc' \notin {"data", "dataencode"}
      BY <1>7 DEF EstimateText, EndEstimate, LabelPass, RecordLabel, EndLabelPass, ResolveEqu,
                  upsert_constant_symbol, EndEqu, Relax, EndRelax, StartTextPass, TextPass,
                  CollectAttribute, EncodeStep, MarkGlobal, DeclareExtern, SkipLabelOnly,
                  EncodeMachine, EncodeDirective, EncodeRejected, NextInst, EndTextPass,
                  ApplyAttribute, EndDataPass, ResolveFixup, EndFixups, Fail
    <2> QED BY <1>6, <2>1
  <1> QED BY <1>2, <1>3, <1>4, <1>5, <1>6, <1>7 DEF Next, Passes, Finished, EncodeStep

-----------------------------------------------------------------------------
(* The labels.                                                             *)

(* No line changes its section or the names it defines.                    *)
LinesKept ==
    /\ DOMAIN insts' = DOMAIN insts
    /\ \A j \in DOMAIN insts : InData(j)' <=> InData(j)
    /\ \A j \in DOMAIN insts : \A name : DefinedOnce(name, j)' <=> DefinedOnce(name, j)

LEMMA LinesUnchanged ==
    ASSUME insts' = insts
    PROVE  LinesKept
  BY DEF LinesKept, InData, DefinedOnce

LEMMA LinesSettled ==
    ASSUME Typed, HasInst, SettleOperands
    PROVE  LinesKept
  <1>1. /\ insts' \in Seq(Inst) /\ Len(insts') = Len(insts)
        /\ \A j \in DOMAIN insts :
               /\ insts'[j].type = insts[j].type
               /\ insts'[j].label = insts[j].label /\ insts'[j].target = insts[j].target
               /\ insts[j].type = "section" => insts'[j] = insts[j]
    BY SettleType
  <1>2. DOMAIN insts' = DOMAIN insts
    BY <1>1 DEF Typed, TypeOK
  <1>3. \A j \in DOMAIN insts : InData(j)' <=> InData(j)
    BY <1>1, SectionsStable
  <1>4. \A j \in DOMAIN insts : \A name : DefinedOnce(name, j)' <=> DefinedOnce(name, j)
    BY <1>1, <1>2 DEF DefinedOnce
  <1> QED BY <1>2, <1>3, <1>4 DEF LinesKept

(* A pass that meets a label moves it to the current address, and nothing  *)
(* else.                                                                   *)
LEMMA LabelMoved ==
    ASSUME Base, HasInst, SettleOperands
    PROVE  /\ DOMAIN hash' = DOMAIN hash
           /\ \A name \in DOMAIN hash :
                 IF name = CurInst.label THEN hash'[name].address = current_address
                                         ELSE hash'[name] = hash[name]
  <1>1. NoName \notin DOMAIN hash
    BY NamesAssumption DEF Base, Typed, TypeOK
  <1>2. CASE CurInst.label = NoName
    BY <1>1, <1>2 DEF SettleOperands
  <1>3. CASE CurInst.label # NoName
    <2>1. hash' = MoveInHash(CurInst.label, current_address)
      BY <1>3 DEF SettleOperands
    <2>2. \A name \in DOMAIN hash : InArray(name)
      BY DEF Base, HashArrayAgree
    <2> QED BY <2>1, <2>2 DEF MoveInHash, Put, Known
  <1> QED BY <1>2, <1>3

(* The label of the line itself is the only one that a line defines.       *)
LEMMA OneDefinition ==
    ASSUME Typed, HasInst, NEW j \in DOMAIN insts, NEW name, DefinedOnce(name, j)
    PROVE  /\ name = CurInst.label <=> j = i
           /\ CurInst.type \in {"extern", "comm", "lcomm"} => CurInst.target # name
           /\ j = i => CurInst.type \notin {"section", "equ", "weak", "hidden"}
  <1>1. i \in DOMAIN insts
    BY DEF Typed, TypeOK, HasInst
  <1> QED BY <1>1 DEF DefinedOnce, CurInst

LEMMA AddressInt ==
    ASSUME Base, NEW name \in DOMAIN hash
    PROVE  hash[name].address \in Int
  BY DEF Base, Typed, TypeOK, HashEntry

(* Nothing is met outside the passes.                                      *)
LEMMA LabelOutside ==
    ASSUME pc' \notin {"text", "encode", "attrs", "data", "dataencode", "fixups", "done"}
    PROVE  LabelInv'
  BY DEF LabelInv, TextMet, DataMet, Emitting, Emitted

(* A step that moves no label, takes no byte away and meets no new line    *)
(* that defines one.                                                       *)
LEMMA LabelKept ==
    ASSUME Base, Base', LabelInv, LinesKept,
           text_size' >= text_size,
           \A j \in DOMAIN insts : \A name \in DOMAIN hash' :
               DefinedOnce(name, j) =>
                  /\ ~InData(j) /\ TextMet(j)' =>
                         TextMet(j) /\ name \in DOMAIN hash /\ hash'[name] = hash[name]
                  /\ InData(j) /\ DataMet(j)' =>
                         DataMet(j) /\ name \in DOMAIN hash /\ hash'[name] = hash[name]
                         /\ text_size' = text_size /\ data_size' >= data_size
    PROVE  LabelInv'
  <1>1. /\ text_size \in Nat /\ text_size' \in Nat /\ data_size \in Nat /\ data_size' \in Nat
        /\ BaseAddress \in Int
    BY BaseInt DEF Base, Typed, TypeOK
  <1> SUFFICES ASSUME NEW j \in DOMAIN insts, NEW name \in DOMAIN hash', DefinedOnce(name, j)
               PROVE  /\ ~InData(j) /\ TextMet(j)' => InText(hash[name].address)'
                      /\ InData(j) /\ DataMet(j)' => InDataBytes(hash[name].address)'
    BY DEF LabelInv, LinesKept
  <1>2. ASSUME ~InData(j), TextMet(j)' PROVE InText(hash[name].address)'
    <2>1. name \in DOMAIN hash /\ hash'[name] = hash[name] /\ TextMet(j)
      BY <1>2
    <2>2. InText(hash[name].address)
      BY <1>2, <2>1 DEF LabelInv
    <2>3. hash[name].address \in Int
      BY <2>1, AddressInt
    <2> QED BY <1>1, <2>1, <2>2, <2>3 DEF InText
  <1>3. ASSUME InData(j), DataMet(j)' PROVE InDataBytes(hash[name].address)'
    <2>1. /\ name \in DOMAIN hash /\ hash'[name] = hash[name] /\ DataMet(j)
          /\ text_size' = text_size /\ data_size' >= data_size
      BY <1>3
    <2>2. InDataBytes(hash[name].address)
      BY <1>3, <2>1 DEF LabelInv
    <2>3. hash[name].address \in Int
      BY <2>1, AddressInt
    <2> QED BY <1>1, <2>1, <2>2, <2>3 DEF InDataBytes
  <1> QED BY <1>2, <1>3

LEMMA Counts ==
    ASSUME Base
    PROVE  /\ i \in Nat \ {0} /\ \A j \in DOMAIN insts : j \in Nat \ {0} /\ j <= Len(insts)
           /\ Len(insts) \in Nat /\ current_section \in {0, 1}
           /\ text_size \in Nat /\ data_size \in Nat /\ BaseAddress \in Int
  <1>1. insts \in Seq(Inst)
    BY DEF Base, Typed, TypeOK
  <1>2. \A j \in DOMAIN insts : j \in Nat \ {0} /\ j <= Len(insts)
    BY <1>1
  <1>3. /\ i \in Nat \ {0} /\ Len(insts) \in Nat /\ current_section \in {0, 1}
        /\ text_size \in Nat /\ data_size \in Nat
    BY <1>1 DEF Base, Typed, TypeOK
  <1> QED BY <1>2, <1>3, BaseInt

LEMMA LabelText ==
    ASSUME Base, Base', LayoutInv, PassSectionInv, LabelInv, TextPass
    PROVE  LabelInv'
  <1>1. /\ pc = "text" /\ HasInst /\ Typed /\ (current_section = 1 <=> InData(i))
        /\ UNCHANGED <<text_size, data_size, current_address>>
    BY DEF TextPass, PassSectionInv, Base, output
  <1>2. /\ text_size \in Nat /\ BaseAddress \in Int /\ i \in Nat /\ (\A j \in DOMAIN insts : j \in Nat)
        /\ current_section \in {0, 1}
    BY Counts
  <1>3. CASE pc' = "failed"
    BY <1>3, LabelOutside
  <1>4. CASE /\ pc' = "text" /\ i' = i + 1 /\ UNCHANGED <<insts, hash>>
             /\ (CurInst.type \in {"section", "weak", "hidden"} \/ current_section = 1)
    <2>1. LinesKept
      BY <1>4, LinesUnchanged
    <2>2. ASSUME NEW j \in DOMAIN insts, NEW name \in DOMAIN hash', DefinedOnce(name, j)
          PROVE  /\ ~InData(j) /\ TextMet(j)' => TextMet(j)
                 /\ ~DataMet(j)'
      <3>1. j = i => InData(j)
        BY <1>1, <1>4, <2>2, OneDefinition
      <3> QED BY <1>1, <1>2, <1>4, <3>1 DEF TextMet, DataMet, Emitting, Emitted
    <2>3. text_size' >= text_size
      BY <1>1, <1>2
    <2> QED BY <1>4, <2>1, <2>2, <2>3, LabelKept
  <1>5. CASE /\ SettleOperands /\ pc' = "encode" /\ UNCHANGED i
             /\ current_section = 0
    <2>1. LinesKept
      BY <1>1, <1>5, LinesSettled
    <2>2. /\ DOMAIN hash' = DOMAIN hash
          /\ \A name \in DOMAIN hash :
                 IF name = CurInst.label THEN hash'[name].address = current_address
                                         ELSE hash'[name] = hash[name]
      BY <1>1, <1>5, LabelMoved
    <2>3. InText(current_address)
      <3>1. current_address = BaseAddress + text_size
        BY <1>1 DEF LayoutInv, AddressInv, Emitting
      <3> QED BY <1>2, <3>1 DEF InText
    <2> SUFFICES ASSUME NEW j \in DOMAIN insts, NEW name \in DOMAIN hash, DefinedOnce(name, j)
                 PROVE  /\ ~InData(j) /\ TextMet(j)' => InText(hash[name].address)'
                        /\ ~DataMet(j)'
      BY <2>1, <2>2 DEF LabelInv, LinesKept
    <2>4. ~DataMet(j)'
      BY <1>5 DEF DataMet
    <2>5. name = CurInst.label <=> j = i
      BY <1>1, OneDefinition
    <2>6. CASE j = i
      BY <1>1, <2>2, <2>3, <2>4, <2>5, <2>6 DEF InText
    <2>7. CASE j # i
      <3>1. TextMet(j)' => TextMet(j)
        BY <1>1, <1>5, <2>7 DEF TextMet, Emitting, Emitted
      <3>2. hash'[name] = hash[name]
        BY <2>2, <2>5, <2>7
      <3>3. ~InData(j) /\ TextMet(j) => InText(hash[name].address)
        BY DEF LabelInv
      <3> QED BY <1>1, <2>4, <3>1, <3>2, <3>3 DEF InText
    <2> QED BY <2>6, <2>7
  <1> QED BY <1>1, <1>3, <1>4, <1>5
          DEF TextPass, apply_section_directive, CollectAttribute, Fail, table

(* Only the target of extern, comm and lcomm enters the table after the    *)
(* label pass.                                                             *)
LEMMA AddedName ==
    ASSUME NEW name, NEW addr, NEW ext, NEW sec, NEW m \in DOMAIN AddToHash(name, addr, ext, sec),
           m # name
    PROVE  m \in DOMAIN hash /\ AddToHash(name, addr, ext, sec)[m] = hash[m]
  BY DEF AddToHash, Put

LEMMA NamesEntered ==
    ASSUME Typed, HasInst, EncodeStep \/ DataEncode,
           NEW j \in DOMAIN insts, NEW name \in DOMAIN hash', DefinedOnce(name, j)
    PROVE  name \in DOMAIN hash /\ hash'[name] = hash[name]
  <1>1. CASE hash' = hash
    BY <1>1
  <1>2. CASE /\ CurInst.type \in {"extern", "comm", "lcomm"}
             /\ \E addr, ext, sec : hash' = AddToHash(CurInst.target, addr, ext, sec)
    <2>1. name # CurInst.target
      BY <1>2, OneDefinition
    <2> QED BY <1>2, <2>1, AddedName
  <1> QED BY <1>1, <1>2 DEF EncodeStep, MarkGlobal, DeclareExtern, SkipLabelOnly,
                            EncodeMachine, EncodeDirective, EncodeRejected, DataEncode, table

LEMMA LabelEncode ==
    ASSUME Base, Base', LabelInv, EncodeStep
    PROVE  LabelInv'
  <1>1. pc = "encode" /\ HasInst /\ Typed
    BY DEF EncodeStep, MarkGlobal, DeclareExtern, SkipLabelOnly, EncodeMachine,
           EncodeDirective, EncodeRejected, Base, AtInst
  <1>2. pc' = "failed" \/ (pc' = "text" /\ i' = i + 1)
    BY DEF EncodeStep, MarkGlobal, DeclareExtern, SkipLabelOnly, EncodeMachine,
           EncodeDirective, EncodeRejected, NextInst, Fail
  <1>3. insts' = insts
    BY DEF EncodeStep, MarkGlobal, DeclareExtern, SkipLabelOnly, EncodeMachine,
           EncodeDirective, EncodeRejected, EncodeFrame
  <1>4. i \in Nat /\ (\A j \in DOMAIN insts : j \in Nat) /\ text_size \in Nat
    BY Counts
  <1>5. text_size' >= text_size
    <2>1. PICK k \in Nat : text_size' = text_size + k
      BY TextGrows
    <2> QED BY <1>4, <2>1
  <1>6. CASE pc' = "failed"
    BY <1>6, LabelOutside
  <1>7. CASE pc' = "text" /\ i' = i + 1
    <2>1. ASSUME NEW j \in DOMAIN insts
          PROVE  (TextMet(j)' => TextMet(j)) /\ ~DataMet(j)'
      BY <1>1, <1>4, <1>7 DEF TextMet, DataMet, Emitting, Emitted
    <2>2. \A j \in DOMAIN insts : \A name \in DOMAIN hash' :
             DefinedOnce(name, j) => name \in DOMAIN hash /\ hash'[name] = hash[name]
      BY <1>1, NamesEntered
    <2> QED BY <1>3, <1>5, <2>1, <2>2, LinesUnchanged, LabelKept
  <1> QED BY <1>2, <1>6, <1>7

LEMMA LabelData ==
    ASSUME Base, Base', LayoutInv, PassSectionInv, DataAddressInv, LabelInv, DataPass
    PROVE  LabelInv'
  <1>1. /\ pc = "data" /\ HasInst /\ Typed /\ (current_section = 1 <=> InData(i))
        /\ UNCHANGED <<text_size, data_size, current_address>>
    BY DEF DataPass, PassSectionInv, Base, output
  <1>2. /\ text_size \in Nat /\ data_size \in Nat /\ BaseAddress \in Int
        /\ i \in Nat /\ (\A j \in DOMAIN insts : j \in Nat) /\ current_section \in {0, 1}
    BY Counts
  <1>3. CASE /\ pc' = "data" /\ i' = i + 1 /\ UNCHANGED <<insts, hash>>
             /\ (CurInst.type = "section" \/ current_section = 0)
    <2>1. LinesKept
      BY <1>3, LinesUnchanged
    <2>2. ASSUME NEW j \in DOMAIN insts, NEW name \in DOMAIN hash', DefinedOnce(name, j)
          PROVE  TextMet(j) /\ (InData(j) /\ DataMet(j)' => DataMet(j))
      <3>1. j = i => ~InData(j)
        BY <1>1, <1>3, <2>2, OneDefinition
      <3> QED BY <1>1, <1>2, <1>3, <3>1 DEF TextMet, DataMet, Emitted
    <2>3. text_size' >= text_size /\ data_size' >= data_size
      BY <1>1, <1>2
    <2> QED BY <1>1, <1>3, <2>1, <2>2, <2>3, LabelKept
  <1>4. CASE SettleOperands /\ pc' = "dataencode" /\ UNCHANGED i /\ current_section = 1
    <2>1. LinesKept
      BY <1>1, <1>4, LinesSettled
    <2>2. /\ DOMAIN hash' = DOMAIN hash
          /\ \A name \in DOMAIN hash :
                 IF name = CurInst.label THEN hash'[name].address = current_address
                                         ELSE hash'[name] = hash[name]
      BY <1>1, <1>4, LabelMoved
    <2>3. InDataBytes(current_address)
      <3>1. current_address = BaseAddress + text_size + data_size
        BY <1>1 DEF DataAddressInv
      <3> QED BY <1>2, <3>1 DEF InDataBytes
    <2> SUFFICES ASSUME NEW j \in DOMAIN insts, NEW name \in DOMAIN hash, DefinedOnce(name, j)
                 PROVE  /\ ~InData(j) /\ TextMet(j)' => InText(hash[name].address)'
                        /\ InData(j) /\ DataMet(j)' => InDataBytes(hash[name].address)'
      BY <2>1, <2>2 DEF LabelInv, LinesKept
    <2>4. name = CurInst.label <=> j = i
      BY <1>1, OneDefinition
    <2>5. CASE j = i
      BY <1>1, <1>4, <2>2, <2>3, <2>4, <2>5 DEF InDataBytes
    <2>6. CASE j # i
      <3>1. TextMet(j) /\ (DataMet(j)' => DataMet(j))
        BY <1>1, <1>4, <2>6 DEF TextMet, DataMet, Emitted
      <3>2. hash'[name] = hash[name]
        BY <2>2, <2>4, <2>6
      <3>3. /\ ~InData(j) /\ TextMet(j) => InText(hash[name].address)
            /\ InData(j) /\ DataMet(j) => InDataBytes(hash[name].address)
        BY DEF LabelInv
      <3> QED BY <1>1, <3>1, <3>2, <3>3 DEF InText, InDataBytes
    <2> QED BY <2>5, <2>6
  <1> QED BY <1>1, <1>3, <1>4 DEF DataPass, apply_section_directive, table

LEMMA LabelDataEncode ==
    ASSUME Base, Base', LabelInv, DataEncode
    PROVE  LabelInv'
  <1>1. pc = "dataencode" /\ HasInst /\ Typed /\ UNCHANGED <<insts, text_size>>
    BY DEF DataEncode, Base, AtInst
  <1>2. pc' = "failed" \/ (pc' = "data" /\ i' = i + 1)
    BY DEF DataEncode, Fail
  <1>3. i \in Nat /\ (\A j \in DOMAIN insts : j \in Nat) /\ text_size \in Nat /\ data_size \in Nat
    BY Counts
  <1>4. CASE pc' = "failed"
    BY <1>4, LabelOutside
  <1>5. CASE pc' = "data" /\ i' = i + 1
    <2>1. text_size' >= text_size /\ data_size' >= data_size
      <3>1. PICK k \in Nat : data_size' = data_size + k
        BY <1>5, DataGrows
      <3> QED BY <1>1, <1>3, <3>1
    <2>2. ASSUME NEW j \in DOMAIN insts
          PROVE  TextMet(j) /\ (DataMet(j)' => DataMet(j))
      BY <1>1, <1>3, <1>5 DEF TextMet, DataMet, Emitted
    <2>3. \A j \in DOMAIN insts : \A name \in DOMAIN hash' :
             DefinedOnce(name, j) => name \in DOMAIN hash /\ hash'[name] = hash[name]
      BY <1>1, NamesEntered
    <2> QED BY <1>1, <2>1, <2>2, <2>3, LinesUnchanged, LabelKept
  <1> QED BY <1>2, <1>4, <1>5

LEMMA LabelNext ==
    ASSUME Base, Base', LayoutInv, PassSectionInv, DataAddressInv, LabelInv, [Next]_vars
    PROVE  LabelInv'
  <1>1. CASE EstimateText \/ EndEstimate \/ LabelPass \/ EndLabelPass \/ ResolveEqu
             \/ EndEqu \/ Relax \/ EndRelax
    <2>1. pc' \in {"estimate", "labels", "equ1", "relax", "equ2", "startpass", "failed"}
      BY <1>1 DEF EstimateText, EndEstimate, LabelPass, RecordLabel, EndLabelPass, ResolveEqu,
                  upsert_constant_symbol, EndEqu, Relax, EndRelax, Fail
    <2> QED BY <2>1, LabelOutside
  <1>2. CASE StartTextPass
    <2>1. pc' = "text" /\ i' = 1 /\ insts' = insts
      BY <1>2 DEF StartTextPass
    <2>2. \A j \in DOMAIN insts : ~TextMet(j)' /\ ~DataMet(j)'
      BY <2>1, Counts DEF TextMet, DataMet, Emitting, Emitted
    <2> QED BY <2>1, <2>2 DEF LabelInv
  <1>3. CASE EndTextPass \/ ApplyAttribute \/ EndAttributes \/ EndDataPass \/ ResolveFixup
             \/ EndFixups \/ UNCHANGED vars
    <2>1. UNCHANGED <<insts, hash, text_size>>
      BY <1>3 DEF EndTextPass, ApplyAttribute, EndAttributes, EndDataPass, ResolveFixup,
                  EndFixups, vars, table, output
    <2>2. data_size' = data_size \/ EndAttributes
      BY <1>3 DEF EndTextPass, ApplyAttribute, EndDataPass, ResolveFixup, EndFixups, vars, output
    <2>3. CASE pc' \in {"startpass", "failed"}
      BY <2>3, LabelOutside
    <2>4. ASSUME pc' \notin {"startpass", "failed"}, NEW j \in DOMAIN insts
          PROVE  (TextMet(j)' => TextMet(j)) /\ (DataMet(j)' => DataMet(j) /\ ~EndAttributes)
      <3>1. CASE EndTextPass
        BY <2>4, <3>1, Counts DEF EndTextPass, HasInst, TextMet, DataMet, Emitting, Emitted,
                                  EndAttributes
      <3>2. CASE ApplyAttribute
        BY <2>4, <3>2 DEF ApplyAttribute, Fail, TextMet, DataMet, Emitted
      <3>3. CASE EndAttributes
        BY <3>3, Counts DEF EndAttributes, TextMet, DataMet, Emitted
      <3>4. CASE EndDataPass
        BY <3>4, Counts DEF EndDataPass, EndAttributes, HasInst, TextMet, DataMet, Emitted
      <3>5. CASE ResolveFixup \/ EndFixups
        BY <3>5 DEF ResolveFixup, EndFixups, EndAttributes, TextMet, DataMet, Emitted
      <3>6. CASE UNCHANGED vars
        BY <3>6 DEF vars, EndAttributes, TextMet, DataMet, Emitting, Emitted
      <3> QED BY <1>3, <3>1, <3>2, <3>3, <3>4, <3>5, <3>6
    <2>5. text_size' >= text_size /\ (data_size' = data_size => data_size' >= data_size)
      BY <2>1, Counts
    <2> QED BY <2>1, <2>2, <2>3, <2>4, <2>5, LinesUnchanged, LabelKept
  <1>4. CASE TextPass \/ EncodeStep \/ DataPass \/ DataEncode
    BY <1>4, LabelText, LabelEncode, LabelData, LabelDataEncode
  <1> QED BY <1>1, <1>2, <1>3, <1>4 DEF Next, Passes, Finished, EncodeStep

-----------------------------------------------------------------------------
(* The output.                                                             *)

LEMMA OutputInit == Init => OutputInv
  <1> SUFFICES ASSUME Init PROVE OutputInv
    OBVIOUS
  <1>1. pc = "estimate" /\ line_map = <<>>
    BY DEF Init
  <1>2. LineMapSorted
    BY <1>1 DEF LineMapSorted
  <1>3. FieldEndInv
    <2>1. refs = <<>>
      BY DEF Init
    <2>2. DOMAIN refs = {}
      BY <2>1
    <2> QED BY <2>2 DEF FieldEndInv
  <1> QED BY <1>1, <1>2, <1>3 DEF OutputInv, PatchInv, PassSectionInv, DataAddressInv, LabelInv,
                            TextMet, DataMet, Emitting, Emitted

LEMMA OutputHolds == Spec => [](Base /\ LayoutInv /\ OutputInv)
  <1>1. Init => Base /\ LayoutInv /\ OutputInv
    BY BaseInit, LayoutInit, OutputInit
  <1>2. Base /\ LayoutInv /\ OutputInv /\ [Next]_vars => Base' /\ LayoutInv' /\ OutputInv'
    BY BaseNext, LayoutNext, LinesNext, PatchNext, FieldEndNext, SectionNext, DataAddressNext, LabelNext
       DEF OutputInv
  <1> QED BY <1>1, <1>2, PTL DEF Spec

(* The addresses of the line map never go down and never leave the text    *)
(* emitted so far, in every pass and also when the map is full: the DWARF  *)
(* line program, whose advances are unsigned, can always be built from it. *)
THEOREM LinesStaySorted == Spec => []LineMapSorted
  <1>1. OutputInv => LineMapSorted
    BY DEF OutputInv
  <1> QED BY <1>1, OutputHolds, PTL

(* In every finished output each 32-bit field names a known symbol and     *)
(* holds its final address plus the addend, as the processor reads it,     *)
(* unless an immediate stands behind an [rip + name] of that symbol:       *)
(* resolve_fixups patches every field once, and no label moves behind it.  *)
THEOREM FieldsAreFixed == Spec => []FixedFieldsLand
  <1>1. Base /\ PatchInv /\ FieldEndInv => FixedFieldsLand
    <2> SUFFICES ASSUME Base, PatchInv, FieldEndInv, pc = "done", NEW k \in DOMAIN refs
                 PROVE  /\ refs[k].kind # "short" => Known(refs[k].target)
                        /\ (refs[k].kind = "rel" /\ ~ImmediateBehind(refs[k].target)) =>
                              refs[k].next + refs[k].disp
                                  = hash[refs[k].target].address + refs[k].addend
                        /\ refs[k].kind = "abs" =>
                              refs[k].disp = hash[refs[k].target].address + refs[k].addend
      BY DEF FixedFieldsLand
    <2>1. refs[k].kind # "short" => Landed(refs[k])
      BY DEF PatchInv, Emitted, Applied
    <2>2. refs[k].kind = "rel" =>
            refs[k].next = refs[k].loc + 4 \/ ImmediateBehind(refs[k].target)
      BY DEF FieldEndInv
    <2> QED BY <2>1, <2>2 DEF Landed, Known
  <1>2. OutputInv => PatchInv /\ FieldEndInv
    BY DEF OutputInv
  <1> QED BY <1>1, <1>2, OutputHolds, PTL

(* In every finished output, converged or given up on, a text label lies   *)
(* in the text and a data label in the data behind it.                     *)
THEOREM LabelsAreInSection == Spec => []LabelsLandInSection
  <1>1. LabelInv => LabelsLandInSection
    BY DEF LabelInv, LabelsLandInSection, TextMet, DataMet, Emitted, InText, InDataBytes
  <1>2. OutputInv => LabelInv
    BY DEF OutputInv
  <1> QED BY <1>1, <1>2, OutputHolds, PTL

-----------------------------------------------------------------------------
(***************************************************************************)
(* The listing.  It is not read by the passes, so that every behaviour of  *)
(* ListingSpec is one of Spec with a variable more, and the invariants of  *)
(* the passes hold of it.                                                  *)
(***************************************************************************)

(* The address of the next byte of the image.                              *)
ImageEnd == BaseAddress + text_size + data_size

(* The rows l begin at the base address and tile the image up to end; a    *)
(* full row may stand for more bytes than it shows.                        *)
Tiles(l, end) ==
    /\ l \in Seq(Row)
    /\ l = <<>> => end = BaseAddress
    /\ l # <<>> => l[1].address = BaseAddress
    /\ \A r \in DOMAIN l :
          LET next == IF r < Len(l) THEN l[r + 1].address ELSE end
          IN  /\ l[r].address < end
              /\ IF l[r].byte_count < RowBytes THEN next = l[r].address + l[r].byte_count
                                               ELSE next >= l[r].address + RowBytes

TileInv == Tiles(listing, ImageEnd)

(* There is no data before the data pass.                                  *)
NoDataInv ==
    pc \notin {"data", "dataencode", "fixups", "done", "failed"} => data_size = 0

(* The rows of line j can be there: the pass of its section is behind it.  *)
Listed(j) ==
    \/ Emitting /\ ~InData(j) /\ j < i
    \/ pc = "attrs" /\ ~InData(j)
    \/ pc \in {"data", "dataencode"} /\ (~InData(j) \/ j < i)
    \/ pc \in {"fixups", "done"}

(* The labels that line j alone defines have the given address.            *)
LabelsAt(j, address) ==
    \A name \in DOMAIN hash : DefinedOnce(name, j) => hash[name].address = address

(* A row and the symbol table agree on the labels of the line.             *)
RowLabelInv ==
    Emitting \/ Emitted =>
        \A r \in DOMAIN listing :
            /\ listing[r].line \in DOMAIN insts /\ Listed(listing[r].line)
            /\ LabelsAt(listing[r].line, listing[r].address)

(* The labels of the line that is being encoded are at its address.        *)
HereInv == pc \in {"encode", "dataencode"} => LabelsAt(i, current_address)

(* The field that a row shows is the one in the image, if it is a rel8.    *)
ShowsRefs(l, rs) ==
    \A r \in DOMAIN l : \A k \in DOMAIN rs :
        (rs[k].kind = "short" /\ rs[k].loc = l[r].address + 1) => l[r].disp = rs[k].disp

RowRefInv == Emitting \/ Emitted => ShowsRefs(listing, refs)

ListingInv == TileInv /\ NoDataInv /\ RowLabelInv /\ HereInv /\ RowRefInv

-----------------------------------------------------------------------------
(* What the theorems about the passes say here.                            *)

Core == Base /\ LayoutInv /\ OutputInv

LEMMA ListingStep == [ListingNext]_lvars => [Next]_vars
  BY DEF ListingNext, ListingPasses, ListText, ListData, Unlisted, Next, Passes, lvars

LEMMA CoreHolds == ListingSpec => []Core
  <1>1. ListingInit => Init
    BY DEF ListingInit
  <1>2. ListingSpec => Spec
    BY <1>1, ListingStep, PTL DEF ListingSpec, Spec
  <1> QED BY <1>2, OutputHolds, PTL DEF Core

-----------------------------------------------------------------------------
(* One row.                                                                *)

LEMMA RowMade ==
    ASSUME Base, pc \in {"encode", "dataencode"}, NEW k \in Nat, k > 0
    PROVE  /\ listing_start_instruction(k) \in Row
           /\ listing_start_instruction(k).line = i
           /\ listing_start_instruction(k).address = current_address
           /\ listing_start_instruction(k).byte_count = Lesser(k, RowBytes)
  <1>1. HasInst /\ Typed
    BY DEF Base, AtInst
  <1>2. i \in Nat /\ CurInst \in Inst /\ current_address \in Int /\ HashType(hash)
    BY <1>1, CurInstTyped, Counts
  <1>3. Lesser(k, RowBytes) \in 1 .. RowBytes
    BY DEF Lesser, RowBytes
  <1> DEFINE disp == IF pc = "encode" /\ HasRef(CurInst)
                       THEN RefAt(CurInst, current_address).disp ELSE 0
  <1>4. disp \in Int
    <2>1. CurInst.n \in Int
      BY <1>2 DEF Inst
    <2>2. ShortBranch(CurInst, current_address) => hash[CurInst.target].address \in Int
      BY <1>2 DEF ShortBranch, Known, HashType, HashEntry
    <2> QED BY <1>2, <2>1, <2>2 DEF RefAt
  <1> HIDE DEF disp
  <1>5. listing_start_instruction(k) =
          [line |-> i, address |-> current_address, byte_count |-> Lesser(k, RowBytes),
           disp |-> disp]
    BY DEF listing_start_instruction, listing_emit_byte, disp
  <1> QED BY <1>2, <1>3, <1>4, <1>5 DEF Row

(* A row for the k bytes behind the image.                                 *)
LEMMA TilesAppend ==
    ASSUME NEW l, NEW end \in Int, Tiles(l, end), NEW k \in Nat, k > 0,
           NEW row \in Row, row.address = end, row.byte_count = Lesser(k, RowBytes)
    PROVE  Tiles(Append(l, row), end + k)
  <1> DEFINE m == Append(l, row)
             n == Len(l)
  <1>1. l \in Seq(Row) /\ n \in Nat /\ DOMAIN l = 1 .. n
    BY DEF Tiles
  <1>2. /\ m \in Seq(Row) /\ Len(m) = n + 1 /\ DOMAIN m = 1 .. n + 1
        /\ m[n + 1] = row /\ \A r \in 1 .. n : m[r] = l[r]
    BY <1>1
  <1>3. m # <<>> /\ (n = 0 <=> l = <<>>)
    BY <1>1, <1>2
  <1>4. m[1].address = BaseAddress
    <2>1. CASE n = 0
      BY <1>2, <1>3, <2>1 DEF Tiles
    <2>2. CASE n > 0
      BY <1>1, <1>2, <1>3, <2>2 DEF Tiles
    <2> QED BY <1>1, <2>1, <2>2
  <1> HIDE DEF m
  <1>5. ASSUME NEW r \in DOMAIN m
        PROVE  LET next == IF r < Len(m) THEN m[r + 1].address ELSE end + k
               IN  /\ m[r].address < end + k
                   /\ IF m[r].byte_count < RowBytes THEN next = m[r].address + m[r].byte_count
                                                    ELSE next >= m[r].address + RowBytes
    <2>1. CASE r = n + 1
      <3>1. m[r] = row /\ ~(r < Len(m))
        BY <1>1, <1>2, <2>1
      <3>2. IF Lesser(k, RowBytes) < RowBytes THEN k = Lesser(k, RowBytes) ELSE k >= RowBytes
        BY DEF Lesser, RowBytes
      <3> QED BY <3>1, <3>2 DEF RowBytes
    <2>2. CASE r \in 1 .. n
      <3> DEFINE next == IF r < n THEN l[r + 1].address ELSE end
      <3>1. /\ l[r].address < end
            /\ IF l[r].byte_count < RowBytes THEN next = l[r].address + l[r].byte_count
                                             ELSE next >= l[r].address + RowBytes
        BY <1>1, <2>2 DEF Tiles
      <3>2. m[r] = l[r] /\ r < Len(m)
        BY <1>1, <1>2, <2>2
      <3>3. m[r + 1].address = next
        <4>1. CASE r < n
          <5>1. r + 1 \in 1 .. n
            BY <1>1, <2>2, <4>1
          <5> QED BY <1>2, <4>1, <5>1
        <4>2. CASE ~(r < n)
          <5>1. r = n
            BY <1>1, <2>2, <4>2
          <5> QED BY <1>2, <4>2, <5>1
        <4> QED BY <4>1, <4>2
      <3>4. l[r].address \in Int
        <4>1. l[r] \in Row
          BY <1>1, <2>2
        <4> QED BY <4>1 DEF Row
      <3> HIDE DEF next
      <3> QED BY <3>1, <3>2, <3>3, <3>4
    <2> QED BY <1>1, <1>2, <2>1, <2>2
  <1> QED BY <1>2, <1>3, <1>4, <1>5 DEF Tiles, m

-----------------------------------------------------------------------------
(* What a step does to the rows and to the sizes.                          *)

LEMMA NoDataNext ==
    ASSUME NoDataInv, [Next]_vars
    PROVE  NoDataInv'
  BY DEF NoDataInv, Next, Passes, Finished, vars, output, EstimateText, EndEstimate, LabelPass,
         RecordLabel, EndLabelPass, ResolveEqu, upsert_constant_symbol, EndEqu, Relax, EndRelax,
         StartTextPass, TextPass, MarkGlobal, DeclareExtern, SkipLabelOnly, EncodeMachine,
         EncodeDirective, EncodeRejected, EncodeFrame, NothingEmitted, NextInst, EndTextPass,
         CollectAttribute, ApplyAttribute, EndAttributes, DataPass, DataEncode, EndDataPass,
         ResolveFixup, EndFixups, Fail

(* k bytes are emitted at the end of the image, and listed.                *)
Emits(k) ==
    /\ ImageEnd' = ImageEnd + k
    /\ current_address = ImageEnd
    /\ listing' = IF k = 0 THEN listing ELSE Append(listing, listing_start_instruction(k))

LEMMA TextListed ==
    ASSUME Core, NoDataInv, ListText
    PROVE  \E k \in Nat : Emits(k)
  <1>1. EncodeStep /\ pc = "encode"
    BY DEF ListText, EncodeStep, EncodeMachine, EncodeDirective, EncodeRejected
  <1>2. PICK k \in Nat : text_size' = text_size + k
    BY <1>1, TextGrows DEF Core
  <1>3. /\ data_size = 0 /\ data_size' = data_size
        /\ current_address = BaseAddress + text_size
    BY <1>1 DEF NoDataInv, Core, LayoutInv, AddressInv, Emitting, ListText, EncodeMachine,
                EncodeDirective, EncodeRejected, EncodeFrame
  <1>4. text_size \in Nat /\ BaseAddress \in Int
    BY Counts DEF Core
  <1>5. text_size' - text_size = k
    BY <1>2, <1>4
  <1>6. Emits(k)
    BY <1>2, <1>3, <1>4, <1>5 DEF Emits, ImageEnd, ListText, listing_end_instruction
  <1> QED BY <1>6

LEMMA DataListed ==
    ASSUME Core, ListData
    PROVE  \E k \in Nat : Emits(k)
  <1>1. DataEncode /\ pc = "dataencode" /\ text_size' = text_size
    BY DEF ListData, DataEncode
  <1>2. current_address = ImageEnd
    BY <1>1 DEF Core, OutputInv, DataAddressInv, ImageEnd
  <1>3. text_size \in Nat /\ data_size \in Nat /\ BaseAddress \in Int
    BY Counts DEF Core
  <1>4. \E k \in Nat : data_size' = data_size + k
    <2>1. CASE pc' = "failed"
      <3>1. data_size' = data_size
        BY <1>1, <2>1 DEF DataEncode, Fail
      <3> QED BY <1>3, <3>1
    <2>2. CASE pc' # "failed"
      BY <1>1, <2>2, DataGrows DEF Core
    <2> QED BY <2>1, <2>2
  <1>5. PICK k \in Nat : data_size' = data_size + k
    BY <1>4
  <1>6. data_size' - data_size = k
    BY <1>3, <1>5
  <1>7. Emits(k)
    BY <1>1, <1>2, <1>3, <1>5, <1>6 DEF Emits, ImageEnd, ListData, listing_end_instruction
  <1> QED BY <1>7

LEMMA UnlistedKeeps ==
    ASSUME NoDataInv, Unlisted \/ UNCHANGED vars
    PROVE  ImageEnd' = ImageEnd
  <1>1. CASE EndAttributes
    <2>1. data_size = 0 /\ data_size' = 0 /\ text_size' = text_size
      BY <1>1 DEF EndAttributes, NoDataInv
    <2> QED BY <2>1 DEF ImageEnd
  <1>2. CASE ~EndAttributes
    <2>1. UNCHANGED <<text_size, data_size>>
      BY <1>2 DEF Unlisted, vars, output, EstimateText, EndEstimate, LabelPass, EndLabelPass,
                  ResolveEqu, EndEqu, Relax, EndRelax, TextPass, MarkGlobal, DeclareExtern,
                  SkipLabelOnly, NothingEmitted, EncodeFrame, EndTextPass, ApplyAttribute,
                  DataPass, EndDataPass, ResolveFixup, EndFixups
    <2> QED BY <2>1 DEF ImageEnd
  <1> QED BY <1>1, <1>2

LEMMA TileNext ==
    ASSUME Core, TileInv, NoDataInv, [ListingNext]_lvars
    PROVE  TileInv'
  <1>1. CASE ListText \/ ListData
    <2>1. PICK k \in Nat : Emits(k)
      BY <1>1, TextListed, DataListed
    <2>2. pc \in {"encode", "dataencode"} /\ Base
      BY <1>1 DEF Core, ListText, ListData, EncodeMachine, EncodeDirective, EncodeRejected,
                  DataEncode
    <2>3. ImageEnd \in Int
      BY Counts DEF Core, ImageEnd
    <2>4. CASE k = 0
      BY <2>1, <2>3, <2>4 DEF Emits, TileInv
    <2>5. CASE k > 0
      <3>1. PICK row : row = listing_start_instruction(k)
        OBVIOUS
      <3>2. row \in Row /\ row.address = ImageEnd /\ row.byte_count = Lesser(k, RowBytes)
        BY <2>1, <2>2, <2>5, <3>1, RowMade DEF Emits
      <3>3. Tiles(Append(listing, row), ImageEnd + k)
        BY <2>3, <2>5, <3>2, TilesAppend DEF TileInv
      <3>4. listing' = Append(listing, row) /\ ImageEnd' = ImageEnd + k
        BY <2>1, <2>5, <3>1 DEF Emits
      <3> QED BY <3>3, <3>4 DEF TileInv
    <2> QED BY <2>4, <2>5
  <1>2. CASE StartTextPass /\ ResetListing
    <2>1. listing' = <<>> /\ text_size' = 0 /\ data_size' = 0
      BY <1>2 DEF StartTextPass, ResetListing, NoDataInv
    <2>2. ImageEnd' = BaseAddress
      BY <2>1, BaseInt DEF ImageEnd
    <2> QED BY <2>1, <2>2 DEF TileInv, Tiles
  <1>3. CASE (Unlisted \/ UNCHANGED vars) /\ UNCHANGED listing
    BY <1>3, UnlistedKeeps DEF TileInv
  <1> QED BY <1>1, <1>2, <1>3 DEF ListingNext, ListingPasses, Finished, lvars

-----------------------------------------------------------------------------
(* The displacements that the rows show.                                   *)

LEMMA ShowsNewRow ==
    ASSUME NEW l \in Seq(Row), NEW rs, ShowsRefs(l, rs), NEW row \in Row,
           \A k \in DOMAIN rs : rs[k].loc # row.address + 1
    PROVE  ShowsRefs(Append(l, row), rs)
  <1>1. /\ DOMAIN Append(l, row) = 1 .. Len(l) + 1 /\ DOMAIN l = 1 .. Len(l) /\ Len(l) \in Nat
        /\ Append(l, row)[Len(l) + 1] = row /\ \A r \in 1 .. Len(l) : Append(l, row)[r] = l[r]
    OBVIOUS
  <1>2. ASSUME NEW r \in 1 .. Len(l) + 1
        PROVE  r \in 1 .. Len(l) \/ r = Len(l) + 1
    BY <1>1
  <1> QED BY <1>1, <1>2 DEF ShowsRefs

LEMMA ShowsNewRef ==
    ASSUME NEW l, NEW rs \in Seq(Ref), ShowsRefs(l, rs), NEW ref \in Ref,
           \A r \in DOMAIN l :
               ref.kind = "short" /\ ref.loc = l[r].address + 1 => l[r].disp = ref.disp
    PROVE  ShowsRefs(l, Append(rs, ref))
  <1>1. /\ DOMAIN Append(rs, ref) = 1 .. Len(rs) + 1 /\ DOMAIN rs = 1 .. Len(rs) /\ Len(rs) \in Nat
        /\ Append(rs, ref)[Len(rs) + 1] = ref
        /\ \A k \in 1 .. Len(rs) : Append(rs, ref)[k] = rs[k]
    OBVIOUS
  <1>2. ASSUME NEW k \in 1 .. Len(rs) + 1
        PROVE  k \in 1 .. Len(rs) \/ k = Len(rs) + 1
    BY <1>1
  <1> QED BY <1>1, <1>2 DEF ShowsRefs

(* The fields of the image are in front of the address of the next row.    *)
LEMMA ShownBefore ==
    ASSUME Core, TileInv, Emitting \/ Emitted, RowRefInv,
           pc \in {"encode", "dataencode"}, NEW k \in Nat, Emits(k)
    PROVE  ShowsRefs(listing', refs)
  <1>1. /\ text_size \in Nat /\ data_size \in Nat /\ BaseAddress \in Int
        /\ current_address = BaseAddress + text_size + data_size
    BY Counts DEF Core, Emits, ImageEnd
  <1>2. \A m \in DOMAIN refs : refs[m].loc \in Int /\ refs[m].loc < BaseAddress + text_size
    <2>1. refs \in Seq(Ref)
      BY DEF Core, Base, Typed, TypeOK
    <2>2. \A m \in DOMAIN refs : refs[m] \in Ref
      BY <2>1
    <2> QED BY <2>2 DEF Ref, Core, LayoutInv, FieldInv
  <1>3. \A m \in DOMAIN refs : refs[m].loc # current_address + 1
    BY <1>1, <1>2
  <1>4. ShowsRefs(listing, refs)
    BY DEF RowRefInv
  <1>5. CASE k = 0
    BY <1>4, <1>5 DEF Emits
  <1>6. CASE k > 0
    <2>1. PICK row : row = listing_start_instruction(k)
      OBVIOUS
    <2>2. row \in Row /\ row.address = current_address
      BY <1>6, <2>1, RowMade DEF Core
    <2>3. listing' = Append(listing, row) /\ listing \in Seq(Row)
      BY <1>6, <2>1 DEF Emits, TileInv, Tiles
    <2> QED BY <1>3, <1>4, <2>2, <2>3, ShowsNewRow
  <1> QED BY <1>5, <1>6

(* The row of an instruction shows the field that the instruction has.     *)
LEMMA RowRefMachine ==
    ASSUME Core, TileInv, RowRefInv, EncodeMachine, NEW k \in Nat, Emits(k), pc' # "failed"
    PROVE  ShowsRefs(listing', refs')
  <1> DEFINE inst == CurInst
             a == current_address
             ref == RefAt(inst, a)
  <1>1. /\ pc = "encode" /\ ~BadOperands(inst)
        /\ refs' = IF HasRef(inst) THEN Append(refs, ref) ELSE refs
    BY DEF EncodeMachine, Fail
  <1>2. ShowsRefs(listing', refs)
    BY <1>1, ShownBefore DEF Emitting
  <1>3. inst \in Inst /\ a \in Int /\ HashType(hash) /\ refs \in Seq(Ref)
    BY <1>1, CurInstTyped DEF Core, Base, AtInst, Typed, TypeOK
  <1>4. CASE HasRef(inst)
    <2>1. ref \in Ref
      <3> HIDE DEF inst, a
      <3> QED BY <1>1, <1>3, <1>4, RefType
    <2>2. ref.kind = "short" => ref.loc = a + 1
      <3>1. ref.kind = "short" => ShortBranch(inst, a)
        BY DEF RefAt
      <3>2. ShortBranch(inst, a) => RefOffset(inst, a) = 1
        BY DEF ShortBranch, RefOffset
      <3> QED BY <3>1, <3>2 DEF RefAt
    <2>3. \A r \in DOMAIN listing : listing[r].address \in Int /\ listing[r].address < a
      <3>1. listing \in Seq(Row) /\ \A r \in DOMAIN listing : listing[r].address < a
        BY DEF TileInv, Tiles, Emits
      <3>2. \A r \in DOMAIN listing : listing[r] \in Row
        BY <3>1
      <3> QED BY <3>1, <3>2 DEF Row
    <2>4. ASSUME NEW r \in DOMAIN listing', ref.kind = "short", ref.loc = listing'[r].address + 1
          PROVE  listing'[r].disp = ref.disp
      <3>1. ref.loc = a + 1
        BY <2>2, <2>4
      <3> HIDE DEF ref
      <3>2. CASE k = 0
        BY <1>3, <2>3, <2>4, <3>1, <3>2 DEF Emits
      <3>3. CASE k > 0
        <4>1. PICK row : row = listing_start_instruction(k)
          OBVIOUS
        <4>2. row \in Row /\ row.disp = ref.disp
          BY <1>1, <1>4, <3>3, <4>1, RowMade DEF Core, listing_start_instruction, ref
        <4>3. listing' = Append(listing, row) /\ listing \in Seq(Row)
          BY <3>3, <4>1 DEF Emits, TileInv, Tiles
        <4>4. (r \in DOMAIN listing /\ listing'[r] = listing[r]) \/ listing'[r] = row
          BY <4>2, <4>3
        <4> QED BY <1>3, <2>3, <2>4, <3>1, <4>2, <4>4
      <3> QED BY <3>2, <3>3
    <2> HIDE DEF ref
    <2> QED BY <1>1, <1>2, <1>3, <1>4, <2>1, <2>4, ShowsNewRef
  <1>5. CASE ~HasRef(inst)
    BY <1>1, <1>2, <1>5
  <1> QED BY <1>4, <1>5

(* A fixup never patches what a row shows.                                 *)
LEMMA RowRefFixup ==
    ASSUME Core, RowRefInv, ResolveFixup, listing' = listing
    PROVE  RowRefInv'
  <1>1. pc = "fixups" /\ i \in DOMAIN fixups
    BY DEF ResolveFixup, Core, Base, Typed, TypeOK
  <1>2. CASE refs' = refs
    BY <1>1, <1>2 DEF RowRefInv, ShowsRefs, Emitted
  <1>3. CASE refs' # refs
    <2>1. PICK value : refs' = [k \in DOMAIN refs |->
                            IF refs[k].loc = fixups[i].location
                              THEN [refs[k] EXCEPT !.disp = value[k]] ELSE refs[k]]
      <3> DEFINE f == fixups[i]
                 base == IF f.relative THEN hash[f.label].address - (f.location + f.size)
                                       ELSE hash[f.label].address
                 value == [k \in DOMAIN refs |-> base + refs[k].disp]
      <3>1. refs' = [k \in DOMAIN refs |->
                        IF refs[k].loc = f.location
                          THEN [refs[k] EXCEPT !.disp = base + refs[k].disp] ELSE refs[k]]
        BY <1>3 DEF ResolveFixup
      <3>2. \A k \in DOMAIN refs : value[k] = base + refs[k].disp
        OBVIOUS
      <3> HIDE DEF value, base, f
      <3>3. refs' = [k \in DOMAIN refs |->
                        IF refs[k].loc = f.location
                          THEN [refs[k] EXCEPT !.disp = value[k]] ELSE refs[k]]
        BY <3>1, <3>2
      <3> QED BY <3>3 DEF f
    <2>2. \A k \in DOMAIN refs : refs[k].kind = "short" => refs[k].loc # fixups[i].location
      BY <1>1 DEF Core, LayoutInv, FieldInv, Emitted
    <2>3. \A k \in DOMAIN refs : refs[k] \in Ref
      BY DEF Core, Base, Typed, TypeOK
    <2>4. /\ DOMAIN refs' = DOMAIN refs
          /\ \A k \in DOMAIN refs : refs'[k].kind = "short" => refs'[k] = refs[k]
      BY <2>1, <2>2, <2>3 DEF Ref
    <2> QED BY <1>1, <2>4 DEF RowRefInv, ShowsRefs, Emitted
  <1> QED BY <1>2, <1>3

LEMMA RowRefNext ==
    ASSUME Core, TileInv, NoDataInv, RowRefInv, [ListingNext]_lvars
    PROVE  RowRefInv'
  <1>1. CASE ListText \/ ListData
    <2>1. PICK k \in Nat : Emits(k)
      BY <1>1, TextListed, DataListed
    <2>2. CASE pc' = "failed"
      BY <2>2 DEF RowRefInv, Emitting, Emitted
    <2>3. CASE EncodeMachine /\ pc' # "failed"
      BY <2>1, <2>3, RowRefMachine DEF RowRefInv
    <2>4. CASE EncodeDirective \/ DataEncode
      <3>1. pc \in {"encode", "dataencode"} /\ refs' = refs
        BY <2>4 DEF EncodeDirective, DataEncode
      <3>2. ShowsRefs(listing', refs)
        BY <2>1, <3>1, ShownBefore DEF Emitting, Emitted
      <3> QED BY <3>1, <3>2 DEF RowRefInv
    <2>5. EncodeRejected => pc' = "failed"
      BY DEF EncodeRejected, Fail
    <2> QED BY <1>1, <2>2, <2>3, <2>4, <2>5 DEF ListText, ListData
  <1>2. CASE StartTextPass /\ ResetListing
    BY <1>2 DEF ResetListing, RowRefInv, ShowsRefs
  <1>3. CASE Unlisted /\ ~ResolveFixup /\ UNCHANGED listing
    <2>1. refs' = refs
      BY <1>3 DEF Unlisted, output, EstimateText, EndEstimate, LabelPass, EndLabelPass,
                  ResolveEqu, EndEqu, Relax, EndRelax, TextPass, MarkGlobal, DeclareExtern,
                  SkipLabelOnly, NothingEmitted, EncodeFrame, EndTextPass, ApplyAttribute,
                  EndAttributes, DataPass, EndDataPass, EndFixups
    <2>2. Emitting' \/ Emitted' => Emitting \/ Emitted
      BY <1>3 DEF Unlisted, Emitting, Emitted, EstimateText, EndEstimate, LabelPass,
                  RecordLabel, EndLabelPass, ResolveEqu, upsert_constant_symbol, EndEqu, Relax,
                  EndRelax, TextPass, MarkGlobal, DeclareExtern, SkipLabelOnly, NextInst,
                  EndTextPass, ApplyAttribute, EndAttributes, DataPass, EndDataPass, EndFixups,
                  Fail
    <2> QED BY <1>3, <2>1, <2>2 DEF RowRefInv, ShowsRefs
  <1>4. CASE ResolveFixup /\ UNCHANGED listing
    BY <1>4, RowRefFixup
  <1>5. CASE UNCHANGED vars /\ UNCHANGED listing
    BY <1>5 DEF vars, RowRefInv, ShowsRefs, Emitting, Emitted
  <1> QED BY <1>1, <1>2, <1>3, <1>4, <1>5 DEF ListingNext, ListingPasses, Finished, lvars

-----------------------------------------------------------------------------
(* The labels of the rows.                                                 *)

(* What RowLabelInv says of a row of line j at an address.                 *)
RowAgrees(j, address) == j \in DOMAIN insts /\ Listed(j) /\ LabelsAt(j, address)

LEMMA RowsAgree ==
    ASSUME RowLabelInv, Emitting \/ Emitted, NEW r \in DOMAIN listing
    PROVE  RowAgrees(listing[r].line, listing[r].address)
  BY DEF RowLabelInv, RowAgrees

LEMMA RowsAgreeNext ==
    ASSUME \A r \in DOMAIN listing' : \A j, a :
               listing'[r].line = j /\ listing'[r].address = a => RowAgrees(j, a)'
    PROVE  RowLabelInv'
  BY DEF RowLabelInv, RowAgrees, Listed, LabelsAt, DefinedOnce, InData, Emitting, Emitted

(* The labels of line j stay where they are.                               *)
StaysPut(j) ==
    \A name \in DOMAIN hash' :
        DefinedOnce(name, j) => name \in DOMAIN hash /\ hash'[name].address = hash[name].address

LEMMA RowStays ==
    ASSUME LinesKept, NEW j, NEW a, RowAgrees(j, a), Listed(j)', StaysPut(j)
    PROVE  RowAgrees(j, a)'
  <1>1. j \in DOMAIN insts'
    BY DEF LinesKept, RowAgrees
  <1>2. ASSUME NEW name \in DOMAIN hash', DefinedOnce(name, j)'
        PROVE  hash'[name].address = a
    BY <1>2 DEF LinesKept, RowAgrees, LabelsAt, StaysPut
  <1> QED BY <1>1, <1>2 DEF RowAgrees, LabelsAt

(* A step that adds no row.                                                *)
LEMMA RowsStay ==
    ASSUME RowLabelInv, Emitting \/ Emitted, listing' = listing, LinesKept,
           \A j \in DOMAIN insts : Listed(j) => Listed(j)' /\ StaysPut(j)
    PROVE  RowLabelInv'
  <1>1. ASSUME NEW r \in DOMAIN listing', NEW j, NEW a,
               listing'[r].line = j, listing'[r].address = a
        PROVE  RowAgrees(j, a)'
    <2>1. RowAgrees(j, a)
      BY <1>1, RowsAgree
    <2>2. Listed(j)' /\ StaysPut(j)
      BY <2>1 DEF RowAgrees
    <2> QED BY <2>1, <2>2, RowStays
  <1> QED BY <1>1, RowsAgreeNext

LEMMA RowsOutside ==
    ASSUME ~(Emitting \/ Emitted)'
    PROVE  RowLabelInv'
  BY DEF RowLabelInv, Emitting, Emitted

LEMMA HashStaysPut ==
    ASSUME hash' = hash, NEW j
    PROVE  StaysPut(j)
  BY DEF StaysPut

(* The row of the line at hand.                                            *)
LEMMA RowsGrow ==
    ASSUME Core, TileInv, RowLabelInv, HereInv, EncodeStep \/ DataEncode,
           insts' = insts, i' = i + 1, NEW k \in Nat, Emits(k),
           \/ pc = "encode" /\ pc' = "text"
           \/ pc = "dataencode" /\ pc' = "data"
    PROVE  RowLabelInv'
  <1>1. pc \in {"encode", "dataencode"} /\ HasInst /\ Typed /\ (Emitting \/ Emitted)
    BY DEF Core, Base, AtInst, Emitting, Emitted
  <1>2. i \in DOMAIN insts /\ i \in Nat /\ \A j \in DOMAIN insts : j \in Nat
    <2>1. /\ i \in Nat \ {0} /\ \A j \in DOMAIN insts : j \in Nat \ {0} /\ j <= Len(insts)
          /\ Len(insts) \in Nat
      BY Counts DEF Core
    <2>2. insts \in Seq(Inst) /\ i <= Len(insts)
      BY <1>1 DEF HasInst, Typed, TypeOK
    <2>3. DOMAIN insts = 1..Len(insts)
      BY <2>2
    <2> QED BY <2>1, <2>2, <2>3
  <1>3. LinesKept
    BY LinesUnchanged
  <1>4. \A j \in DOMAIN insts : StaysPut(j)
    BY <1>1, NamesEntered DEF StaysPut
  <1>5. \A j \in DOMAIN insts : InData(j)' <=> InData(j)
    BY <1>3 DEF LinesKept
  <1>6. ASSUME NEW j \in DOMAIN insts, Listed(j)
        PROVE  Listed(j)'
    BY <1>2, <1>5, <1>6 DEF Listed, Emitting
  <1>7. PICK n, a : n = i /\ a = current_address
    OBVIOUS
  <1>8. RowAgrees(n, a)'
    <2>1. n \in DOMAIN insts /\ LabelsAt(n, a)
      BY <1>1, <1>2, <1>7 DEF HereInv
    <2>2. pc = "encode" => ~InData(n)
      BY <1>7 DEF Core, OutputInv, PassSectionInv
    <2>3. Listed(n)'
      BY <1>2, <1>5, <1>7, <2>1, <2>2 DEF Listed, Emitting
    <2>4. ASSUME NEW name \in DOMAIN hash', DefinedOnce(name, n)'
          PROVE  hash'[name].address = a
      BY <1>3, <1>4, <2>1, <2>4 DEF LinesKept, LabelsAt, StaysPut
    <2> QED BY <2>1, <2>3, <2>4 DEF RowAgrees, LabelsAt
  <1>9. ASSUME NEW r \in DOMAIN listing
        PROVE  \A j, b : listing[r].line = j /\ listing[r].address = b => RowAgrees(j, b)'
    <2> SUFFICES ASSUME NEW j, NEW b, listing[r].line = j, listing[r].address = b
                 PROVE  RowAgrees(j, b)'
      OBVIOUS
    <2>1. RowAgrees(j, b)
      BY <1>1, RowsAgree
    <2>2. Listed(j)' /\ StaysPut(j)
      BY <1>4, <1>6, <2>1 DEF RowAgrees
    <2> QED BY <1>3, <2>1, <2>2, RowStays
  <1>10. CASE k = 0
    BY <1>9, <1>10, RowsAgreeNext DEF Emits
  <1>11. CASE k > 0
    <2>1. PICK row : row = listing_start_instruction(k)
      OBVIOUS
    <2>2. row \in Row /\ row.line = n /\ row.address = a
      BY <1>1, <1>7, <1>11, <2>1, RowMade DEF Core
    <2>3. listing' = Append(listing, row) /\ listing \in Seq(Row)
      BY <1>11, <2>1 DEF Emits, TileInv, Tiles
    <2>4. \A r \in DOMAIN listing' : (r \in DOMAIN listing /\ listing'[r] = listing[r])
                                    \/ listing'[r] = row
      BY <2>2, <2>3
    <2>5. ASSUME NEW r \in DOMAIN listing', NEW j, NEW b,
                 listing'[r].line = j, listing'[r].address = b
          PROVE  RowAgrees(j, b)'
      <3>1. CASE r \in DOMAIN listing /\ listing'[r] = listing[r]
        BY <1>9, <2>5, <3>1
      <3>2. CASE listing'[r] = row
        <4>1. j = n /\ b = a
          BY <2>2, <2>5, <3>2
        <4> QED BY <1>8, <4>1
      <3> QED BY <2>4, <3>1, <3>2
    <2> QED BY <2>5, RowsAgreeNext
  <1> QED BY <1>10, <1>11

(* A pass meets line n and moves its label.                                *)
LEMMA RowsSettle ==
    ASSUME Core, RowLabelInv, SettleOperands, HasInst, i' = i, listing' = listing,
           \/ pc = "text" /\ pc' = "encode"
           \/ pc = "data" /\ pc' = "dataencode" /\ current_section = 1
    PROVE  RowLabelInv'
  <1>1. Base /\ Typed /\ (Emitting \/ Emitted)
    BY DEF Core, Base, Emitting, Emitted
  <1>2. LinesKept
    BY <1>1, LinesSettled
  <1>3. /\ DOMAIN hash' = DOMAIN hash
        /\ \A name \in DOMAIN hash :
               IF name = CurInst.label THEN hash'[name].address = current_address
                                       ELSE hash'[name] = hash[name]
    BY <1>1, LabelMoved
  <1>4. i \in Nat /\ \A j \in DOMAIN insts : j \in Nat
    BY <1>1, Counts
  <1>5. ASSUME NEW j \in DOMAIN insts, Listed(j)
        PROVE  Listed(j)' /\ StaysPut(j)
    <2>1. InData(j)' <=> InData(j)
      BY <1>2 DEF LinesKept
    <2>2. Listed(j)'
      BY <1>5, <2>1 DEF Listed, Emitting
    <2>3. j # i
      <3>1. pc = "data" => InData(i)
        BY <1>1 DEF Core, OutputInv, PassSectionInv
      <3> QED BY <1>4, <1>5, <3>1 DEF Listed, Emitting
    <2>4. ASSUME NEW name \in DOMAIN hash', DefinedOnce(name, j)
          PROVE  name \in DOMAIN hash /\ hash'[name].address = hash[name].address
      <3>1. name # CurInst.label
        BY <1>1, <2>3, <2>4, OneDefinition
      <3> QED BY <1>3, <3>1
    <2> QED BY <2>2, <2>4 DEF StaysPut
  <1> QED BY <1>1, <1>2, <1>5, RowsStay

LEMMA HereNext ==
    ASSUME Core, HereInv, [Next]_vars
    PROVE  HereInv'
  <1>1. CASE TextPass \/ DataPass
    <2>1. CASE pc' \notin {"encode", "dataencode"}
      BY <2>1 DEF HereInv
    <2>2. CASE SettleOperands /\ HasInst /\ i' = i /\ current_address' = current_address
      <3>1. Base /\ Typed
        BY DEF Core, Base
      <3>2. LinesKept
        BY <2>2, <3>1, LinesSettled
      <3>3. /\ DOMAIN hash' = DOMAIN hash
            /\ \A name \in DOMAIN hash :
                  name = CurInst.label => hash'[name].address = current_address
        BY <2>2, <3>1, LabelMoved
      <3>4. PICK n, a : n = i /\ a = current_address /\ n \in DOMAIN insts
        BY <2>2, <3>1 DEF HasInst, Typed, TypeOK
      <3>5. ASSUME NEW name \in DOMAIN hash', DefinedOnce(name, n)'
            PROVE  hash'[name].address = a
        <4>1. DefinedOnce(name, n)
          BY <3>2, <3>4, <3>5 DEF LinesKept
        <4>2. name = CurInst.label
          BY <3>4, <4>1 DEF DefinedOnce, CurInst
        <4> QED BY <3>3, <3>4, <4>2
      <3>6. LabelsAt(n, a)'
        BY <3>5 DEF LabelsAt
      <3> QED BY <2>2, <3>4, <3>6 DEF HereInv, LabelsAt, DefinedOnce
    <2> QED BY <1>1, <2>1, <2>2 DEF TextPass, DataPass, CollectAttribute, Fail
  <1>2. CASE UNCHANGED vars
    BY <1>2 DEF vars, HereInv, LabelsAt, DefinedOnce
  <1>3. CASE Passes /\ ~TextPass /\ ~DataPass
    <2>1. pc' \notin {"encode", "dataencode"}
      BY <1>3 DEF Passes, EstimateText, EndEstimate, LabelPass,
                  RecordLabel, EndLabelPass, ResolveEqu, upsert_constant_symbol, EndEqu, Relax,
                  EndRelax, StartTextPass, MarkGlobal, DeclareExtern, SkipLabelOnly,
                  EncodeMachine, EncodeDirective, EncodeRejected, DataEncode, NextInst,
                  EndTextPass, ApplyAttribute, EndAttributes, EndDataPass, ResolveFixup,
                  EndFixups, Fail
    <2> QED BY <2>1 DEF HereInv
  <1> QED BY <1>1, <1>2, <1>3 DEF Next, Finished

LEMMA RowLabelNext ==
    ASSUME Core, TileInv, NoDataInv, RowLabelInv, HereInv, [ListingNext]_lvars
    PROVE  RowLabelInv'
  <1>0. i \in Nat /\ \A j \in DOMAIN insts : j \in Nat /\ j <= Len(insts)
    BY Counts DEF Core
  <1>1. CASE ListText \/ ListData
    <2>1. PICK k \in Nat : Emits(k)
      BY <1>1, TextListed, DataListed
    <2>2. CASE pc' = "failed"
      BY <2>2, RowsOutside DEF Emitting, Emitted
    <2>3. CASE pc' # "failed"
      <3>1. /\ insts' = insts /\ i' = i + 1
            /\ \/ pc = "encode" /\ pc' = "text"
               \/ pc = "dataencode" /\ pc' = "data"
        BY <1>1, <2>3 DEF ListText, ListData, EncodeMachine, EncodeDirective, EncodeRejected,
                          DataEncode, NextInst, EncodeFrame, Fail
      <3>2. EncodeStep \/ DataEncode
        BY <1>1 DEF ListText, ListData, EncodeStep
      <3> QED BY <2>1, <3>1, <3>2, RowsGrow
    <2> QED BY <2>2, <2>3
  <1>2. CASE StartTextPass /\ ResetListing
    BY <1>2 DEF ResetListing, RowLabelInv
  <1>3. CASE (MarkGlobal \/ DeclareExtern \/ SkipLabelOnly) /\ UNCHANGED listing
    <2>1. /\ pc = "encode" /\ pc' = "text" /\ i' = i + 1 /\ insts' = insts /\ EncodeStep
          /\ HasInst /\ Typed
      BY <1>3 DEF MarkGlobal, DeclareExtern, SkipLabelOnly, NextInst, EncodeFrame, EncodeStep,
                  Core, Base, AtInst
    <2>2. LinesKept
      BY <2>1, LinesUnchanged
    <2>3. ASSUME NEW j \in DOMAIN insts, Listed(j)
          PROVE  Listed(j)' /\ StaysPut(j)
      <3>1. StaysPut(j)
        BY <2>1, NamesEntered DEF StaysPut
      <3>2. InData(j)' <=> InData(j)
        BY <2>2 DEF LinesKept
      <3> QED BY <1>0, <2>1, <2>3, <3>1, <3>2 DEF Listed, Emitting
    <2> QED BY <1>3, <2>1, <2>2, <2>3, RowsStay DEF Emitting
  <1>4. CASE (TextPass \/ DataPass) /\ UNCHANGED listing
    <2>1. CASE pc' = "failed"
      BY <2>1, RowsOutside DEF Emitting, Emitted
    <2>2. CASE /\ SettleOperands /\ HasInst /\ i' = i
               /\ \/ pc = "text" /\ pc' = "encode"
                  \/ pc = "data" /\ pc' = "dataencode" /\ current_section = 1
      BY <1>4, <2>2, RowsSettle
    <2>3. CASE pc \in {"text", "data"} /\ pc' = pc /\ i' = i + 1 /\ UNCHANGED <<insts, hash>>
      <3>1. LinesKept
        BY <2>3, LinesUnchanged
      <3>2. ASSUME NEW j \in DOMAIN insts, Listed(j)
            PROVE  Listed(j)' /\ StaysPut(j)
        <4>1. InData(j)' <=> InData(j)
          BY <3>1 DEF LinesKept
        <4> QED BY <1>0, <2>3, <3>2, <4>1, HashStaysPut DEF Listed, Emitting
      <3> QED BY <1>4, <2>3, <3>1, <3>2, RowsStay DEF Emitting, Emitted
    <2> QED BY <1>4, <2>1, <2>2, <2>3
            DEF TextPass, DataPass, CollectAttribute, apply_section_directive, Fail, table
  <1>5. CASE /\ (EndTextPass \/ ApplyAttribute \/ EndAttributes \/ EndDataPass \/ ResolveFixup
                   \/ EndFixups)
             /\ UNCHANGED listing
    <2>1. UNCHANGED <<insts, hash>> /\ (Emitting \/ Emitted)
      BY <1>5 DEF EndTextPass, ApplyAttribute, EndAttributes, EndDataPass, ResolveFixup,
                  EndFixups, table, Emitting, Emitted
    <2>2. CASE pc' \in {"startpass", "failed"}
      BY <2>2, RowsOutside DEF Emitting, Emitted
    <2>3. CASE pc' \notin {"startpass", "failed"}
      <3>1. LinesKept
        BY <2>1, LinesUnchanged
      <3>2. ASSUME NEW j \in DOMAIN insts, Listed(j)
            PROVE  Listed(j)' /\ StaysPut(j)
        <4>1. InData(j)' <=> InData(j)
          BY <3>1 DEF LinesKept
        <4>2. Listed(j)'
          BY <1>5, <2>3, <3>2, <4>1 DEF Listed, Emitting, EndTextPass, ApplyAttribute,
                 EndAttributes, EndDataPass, ResolveFixup, EndFixups, Fail
        <4> QED BY <2>1, <4>2, HashStaysPut
      <3> QED BY <1>5, <2>1, <3>1, <3>2, RowsStay
    <2> QED BY <2>2, <2>3
  <1>6. CASE EstimateText \/ EndEstimate \/ LabelPass \/ EndLabelPass \/ ResolveEqu
             \/ EndEqu \/ Relax \/ EndRelax
    <2>1. pc' \in {"estimate", "labels", "equ1", "relax", "equ2", "startpass", "failed"}
      BY <1>6 DEF EstimateText, EndEstimate, LabelPass, RecordLabel, EndLabelPass, ResolveEqu,
                  upsert_constant_symbol, EndEqu, Relax, EndRelax, Fail
    <2> QED BY <2>1, RowsOutside DEF Emitting, Emitted
  <1>7. CASE UNCHANGED vars /\ UNCHANGED listing
    BY <1>7 DEF vars, RowLabelInv, Listed, LabelsAt, DefinedOnce, InData, Emitting, Emitted
  <1> QED BY <1>1, <1>2, <1>3, <1>4, <1>5, <1>6, <1>7
          DEF ListingNext, ListingPasses, Unlisted, Finished, lvars

-----------------------------------------------------------------------------
(* The listing.                                                            *)

LEMMA ListingInvInit == ListingInit => ListingInv
  <1> SUFFICES ASSUME ListingInit PROVE ListingInv
    OBVIOUS
  <1>1. pc = "estimate" /\ listing = <<>> /\ text_size = 0 /\ data_size = 0
    BY DEF ListingInit, Init
  <1>2. TileInv
    BY <1>1, BaseInt DEF TileInv, Tiles, ImageEnd
  <1> QED BY <1>1, <1>2 DEF ListingInv, NoDataInv, RowLabelInv, HereInv, RowRefInv, Emitting,
                            Emitted

LEMMA ListingHolds == ListingSpec => []ListingInv
  <1>1. Core /\ ListingInv /\ [ListingNext]_lvars => ListingInv'
    BY ListingStep, TileNext, NoDataNext, RowLabelNext, HereNext, RowRefNext DEF ListingInv
  <1> QED BY <1>1, ListingInvInit, CoreHolds, PTL DEF ListingSpec

(* The finished listing is that of the image, whatever passes were needed  *)
(* to find the layout and whichever of them gave up: its rows begin at the *)
(* base address and follow each other without gap or overlap to the last   *)
(* byte, each is at the address that the symbol table gives its label, and *)
(* shows the rel8 displacement that was written to the file.               *)
THEOREM ListingIsImage == ListingSpec => []ListingMatchesImage
  <1>1. Core /\ ListingInv => ListingMatchesImage
    <2> SUFFICES ASSUME Core, ListingInv, pc = "done" PROVE ListingMatchesImage
      BY DEF ListingMatchesImage
    <2>1. Emitted
      BY DEF Emitted
    <2>2. text_size \in Nat /\ data_size \in Nat /\ BaseAddress \in Int
      BY Counts DEF Core
    <2>3. Tiles(listing, ImageEnd)
      BY DEF ListingInv, TileInv
    <2>4. /\ listing # <<>> => listing[1].address = BaseAddress
          /\ listing = <<>> => text_size + data_size = 0
      BY <2>2, <2>3 DEF Tiles, ImageEnd
    <2>5. ASSUME NEW r \in DOMAIN listing
          PROVE  /\ IF listing[r].byte_count < RowBytes
                      THEN RowEnd(r) = listing[r].address + listing[r].byte_count
                      ELSE RowEnd(r) >= listing[r].address + RowBytes
                 /\ LabelsAt(listing[r].line, listing[r].address)
                 /\ \A k \in DOMAIN refs :
                       (refs[k].kind = "short" /\ refs[k].loc = listing[r].address + 1) =>
                           listing[r].disp = refs[k].disp
      <3>1. RowEnd(r) = IF r < Len(listing) THEN listing[r + 1].address ELSE ImageEnd
        BY DEF RowEnd, ImageEnd
      <3>2. IF listing[r].byte_count < RowBytes
              THEN RowEnd(r) = listing[r].address + listing[r].byte_count
              ELSE RowEnd(r) >= listing[r].address + RowBytes
        BY <2>3, <3>1 DEF Tiles
      <3>3. LabelsAt(listing[r].line, listing[r].address)
        BY <2>1, RowsAgree DEF ListingInv, RowAgrees
      <3>4. ShowsRefs(listing, refs)
        BY <2>1 DEF ListingInv, RowRefInv
      <3> QED BY <3>2, <3>3, <3>4 DEF ShowsRefs
    <2> QED BY <2>4, <2>5 DEF ListingMatchesImage, LabelsAt
  <1> QED BY <1>1, ListingHolds, CoreHolds, PTL

=============================================================================
