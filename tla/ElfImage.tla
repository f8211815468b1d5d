------------------------------ MODULE ElfImage ------------------------------
(***************************************************************************)
(* asm_write_elf64: the debug information of -g is built in buffers of     *)
(* fixed size, then headers, sections and section table are written one    *)
(* after the other.  The file is open, and empty, while the buffers are    *)
(* filled.                                                                 *)
(*                                                                         *)
(* What is written is a sequence of pieces with their sizes; the headers   *)
(* say independently of it where each piece is.  A symbol has the length   *)
(* of its name; the line program is kept byte by byte.                     *)
(***************************************************************************)
EXTENDS Integers, Sequences, SequencesExt

CONSTANTS
    InfoCapacity, LineCapacity, StrCapacity     \* 16384, 65536 and 2048 in the code

ASSUME CapacitiesNat == InfoCapacity \in Nat /\ LineCapacity \in Nat /\ StrCapacity \in Nat

VARIABLES
    ctx,                \* what the assembly left: sizes, symbols, line map
    i, j,               \* the loops' indices, outer and inner
    functions, labels,  \* function_symbol_indices and label_symbol_indices
    str_size,           \* of debug_str
    dies, info_size,    \* the entries of debug_info, its size
    line,               \* debug_line: size, last_addr, last_line and the program
    stage               \* of asm_write_elf64

\* len is the length of the name, function says that it is declared as one.
Symbol == [name : STRING, len : Nat, address : Nat, section : Nat, external : BOOLEAN,
           function : BOOLEAN, line : Nat, column : Nat]
Row == [address : Nat, line : Nat \ {0}]
Context == [text_size : Nat, data_size : Nat, name_len : Nat, dir_len : Nat, base_len : Nat,
            symbols : Seq(Symbol), line_map : Seq(Row)]

elf_vars == <<i, j, functions, labels, str_size, dies, info_size, line, stage>>

base_address == \h400000
pagesize == 4096
text_end == base_address + ctx.text_size

Idle ==
    /\ i = 1 /\ j = 1 /\ functions = <<>> /\ labels = <<>> /\ str_size = 0 /\ dies = <<>>
    /\ info_size = 0 /\ line = [size |-> 0, addr |-> 0, at |-> 1, program |-> <<>>]
    /\ stage = "idle"
-----------------------------------------------------------------------------
(* LEB128, least significant group first.                                   *)

uleb128[v \in Nat] ==
    IF v < 128 THEN <<v>> ELSE <<(v % 128) + 128>> \o uleb128[v \div 128]

(* Mutant: the sign bit of the last group is not looked at. *)
sleb128_NoSign(v) == uleb128[v % \h8000000]

sleb128_groups[v \in Int] ==
    LET byte == v % 128
        rest == v \div 128
    IN  IF (rest = 0 /\ byte < 64) \/ (rest = -1 /\ byte >= 64) THEN <<byte>>
        ELSE <<byte + 128>> \o sleb128_groups[rest]
sleb128(v) == sleb128_groups[v]
-----------------------------------------------------------------------------
(* Which symbols get an entry.                                              *)

\* Names, directory and type names come first.
StringsBefore == 11 + (ctx.name_len + 1) + (ctx.dir_len + 1) + 4 + 5

dwarf_overflow ==
    stage' = "overflow" /\ UNCHANGED <<i, j, functions, labels, str_size, dies, info_size, line>>

BeginDwarf ==
    /\ stage = "dwarf"
    /\ \/ /\ StringsBefore <= StrCapacity
          /\ str_size' = StringsBefore /\ stage' = "index" /\ i' = 1
          /\ UNCHANGED <<j, functions, labels, dies, info_size, line>>
       \/ StringsBefore > StrCapacity /\ dwarf_overflow

\* Every symbol of the array is resolved (add_symbol).
InText(s) == ~ s.external /\ s.section = 0 /\ s.address \in base_address..text_end

(* Mutant: the names are appended without asking whether they fit. *)
IndexSymbol_Unchecked ==
    /\ stage = "index" /\ i <= Len(ctx.symbols)
    /\ LET s == ctx.symbols[i]
       IN  \/ /\ ~ InText(s)
              /\ i' = i + 1
              /\ UNCHANGED <<j, functions, labels, str_size, dies, info_size, line, stage>>
           \/ /\ InText(s)
              /\ str_size' = str_size + s.len + 1 /\ i' = i + 1
              /\ functions' = IF s.function THEN Append(functions, i) ELSE functions
              /\ labels' = IF s.function THEN labels ELSE Append(labels, i)
              /\ UNCHANGED <<j, dies, info_size, line, stage>>

IndexSymbol ==
    /\ stage = "index" /\ i <= Len(ctx.symbols)
    /\ LET s == ctx.symbols[i]
       IN  \/ /\ ~ InText(s)
              /\ i' = i + 1
              /\ UNCHANGED <<j, functions, labels, str_size, dies, info_size, line, stage>>
           \/ InText(s) /\ str_size + s.len + 1 > StrCapacity /\ dwarf_overflow
           \/ /\ InText(s) /\ str_size + s.len + 1 <= StrCapacity
              /\ str_size' = str_size + s.len + 1 /\ i' = i + 1
              /\ functions' = IF s.function THEN Append(functions, i) ELSE functions
              /\ labels' = IF s.function THEN labels ELSE Append(labels, i)
              /\ UNCHANGED <<j, dies, info_size, line, stage>>

addressOf(k) == ctx.symbols[k].address

(* Mutant: the two entries are assigned without keeping the first. *)
Exchange_NoTemp(list) ==
    IF addressOf(list[j]) < addressOf(list[i]) THEN [list EXCEPT ![i] = list[j]] ELSE list

\* The body of the inner loop.
Exchange(list) ==
    IF addressOf(list[j]) < addressOf(list[i])
    THEN [list EXCEPT ![i] = list[j], ![j] = list[i]] ELSE list

\* Without any function, _start becomes one, also when it is only declared.
StartOnly ==
    LET found == {k \in DOMAIN ctx.symbols :
                     ctx.symbols[k].section = 0 /\ ctx.symbols[k].name = "_start"}
    IN  IF functions = <<>> /\ found # {} THEN <<CHOOSE k \in found : \A m \in found : k <= m>>
        ELSE functions

EnsureStart ==
    LET listed == StartOnly
        added == IF listed # functions /\ ~ (\E k \in DOMAIN labels : labels[k] = listed[1])
                 THEN ctx.symbols[listed[1]].len + 1 ELSE 0
    IN  /\ stage = "index" /\ i > Len(ctx.symbols)
        /\ \/ str_size + added > StrCapacity /\ dwarf_overflow
           \/ /\ str_size + added <= StrCapacity
              /\ str_size' = str_size + added
              /\ functions' = listed /\ i' = 1 /\ j' = 2 /\ stage' = "sort_functions"
              /\ UNCHANGED <<labels, dies, info_size, line>>

\* The loops of one of the two sorts: each entry is compared with every later one.
Sort(at, n, exchanged, next) ==
    /\ stage = at
    /\ \/ /\ i <= n /\ j <= n
          /\ exchanged
          /\ j' = j + 1 /\ UNCHANGED <<i, stage>>
       \/ /\ i <= n /\ j > n
          /\ i' = i + 1 /\ j' = i + 2 /\ UNCHANGED <<functions, labels, stage>>
       \/ /\ i > n
          /\ stage' = next /\ i' = 1 /\ j' = 2 /\ UNCHANGED <<functions, labels>>
    /\ UNCHANGED <<str_size, dies, info_size, line>>

SortFunctions ==
    Sort("sort_functions", Len(functions),
         functions' = Exchange(functions) /\ UNCHANGED labels, "sort_labels")
SortLabels ==
    Sort("sort_labels", Len(labels),
         labels' = Exchange(labels) /\ UNCHANGED functions, "info")
-----------------------------------------------------------------------------
(* debug_info.                                                              *)

InfoHeader == 46 + 7 + 10       \* unit, base type and pointer type
AtLeast1(n) == IF n > 0 THEN n ELSE 1
Position(s) == Len(uleb128[AtLeast1(s.line)]) + Len(uleb128[AtLeast1(s.column)])
DieSize(s, kind) == Position(s) + IF kind = "function" THEN 45 ELSE 14

\* One more entry, or the end of the list, if it fits.
AppendInfo(size, entries, next) ==
    \/ info_size + size > InfoCapacity /\ dwarf_overflow
    \/ /\ info_size + size <= InfoCapacity
       /\ info_size' = info_size + size /\ dies' = dies \o entries
       /\ next
       /\ UNCHANGED <<j, functions, labels, str_size, line>>

BeginInfo == stage = "info" /\ AppendInfo(InfoHeader, <<>>, stage' = "functions" /\ i' = 1)

\* A function lasts until the next one, the last one until the end of the text.
span(k) ==
    LET next == IF k < Len(functions) THEN addressOf(functions[k + 1]) ELSE text_end
    IN  IF next > addressOf(functions[k]) THEN next - addressOf(functions[k]) ELSE 0

EmitFunction ==
    /\ stage = "functions" /\ i <= Len(functions)
    /\ AppendInfo(DieSize(ctx.symbols[functions[i]], "function"),
                  <<[kind |-> "function", symbol |-> functions[i],
                     low_pc |-> addressOf(functions[i]), span |-> span(i)]>>,
                  i' = i + 1 /\ stage' = stage)

EndFunctions ==
    /\ stage = "functions" /\ i > Len(functions)
    /\ i' = 1 /\ stage' = "labels"
    /\ UNCHANGED <<j, functions, labels, str_size, dies, info_size, line>>

EmitLabel ==
    /\ stage = "labels" /\ i <= Len(labels)
    /\ AppendInfo(DieSize(ctx.symbols[labels[i]], "label"),
                  <<[kind |-> "label", symbol |-> labels[i],
                     low_pc |-> addressOf(labels[i]), span |-> 0]>>,
                  i' = i + 1 /\ stage' = stage)

EndInfo ==
    /\ stage = "labels" /\ i > Len(labels)
    /\ AppendInfo(1, <<>>, i' = 1 /\ stage' = "line")
-----------------------------------------------------------------------------
(* debug_line.                                                              *)

DW_LNS_copy == 1
DW_LNS_advance_pc == 2
DW_LNS_advance_line == 3
DW_LNE_end_sequence == <<0, 1, 1>>

\* Header, file table and the instruction that sets the first address.
LineHeader == 4 + 2 + 4 + 6 + 12 + (ctx.dir_len + 1) + 1 + (ctx.base_len + 1) + 3 + 1 + 11

AppendLine(bytes, next) ==
    \/ line.size + Len(bytes) > LineCapacity /\ dwarf_overflow
    \/ /\ line.size + Len(bytes) <= LineCapacity
       /\ next
       /\ UNCHANGED <<j, functions, labels, str_size, dies, info_size>>

BeginLine ==
    /\ stage = "line"
    /\ \/ LineHeader > LineCapacity /\ dwarf_overflow
       \/ /\ LineHeader <= LineCapacity
          /\ line' = [size |-> LineHeader, addr |-> base_address, at |-> 1, program |-> <<>>]
          /\ stage' = "rows" /\ i' = 1
          /\ UNCHANGED <<j, functions, labels, str_size, dies, info_size>>

Written(bytes, addr, at) ==
    [size |-> line.size + Len(bytes), addr |-> addr, at |-> at, program |-> line.program \o bytes]

\* The address only goes forwards.
RowBytes(row) ==
    (IF row.address > line.addr
     THEN <<DW_LNS_advance_pc>> \o uleb128[row.address - line.addr] ELSE <<>>)
    \o (IF AtLeast1(row.line) # line.at
        THEN <<DW_LNS_advance_line>> \o sleb128(AtLeast1(row.line) - line.at) ELSE <<>>)
    \o <<DW_LNS_copy>>

EmitRow ==
    /\ stage = "rows" /\ i <= Len(ctx.line_map)
    /\ LET row == ctx.line_map[i]
           bytes == RowBytes(row)
       IN  AppendLine(bytes,
               /\ line' = Written(bytes, IF row.address > line.addr THEN row.address ELSE line.addr,
                                  AtLeast1(row.line))
               /\ i' = i + 1 /\ stage' = stage)

EndRows ==
    /\ stage = "rows" /\ i > Len(ctx.line_map)
    /\ LET bytes == (IF line.addr < text_end
                     THEN <<DW_LNS_advance_pc>> \o uleb128[text_end - line.addr] \o <<DW_LNS_copy>>
                     ELSE <<>>) \o DW_LNE_end_sequence
       IN  AppendLine(bytes, line' = Written(bytes, text_end, line.at)
                             /\ stage' = "layout" /\ UNCHANGED i)
-----------------------------------------------------------------------------
(* Layout and file.                                                         *)

align_up(value, align) == ((value + align - 1) \div align) * align

EhdrSize == 64
PhdrSize == 56
ShdrSize == 64
AbbrevSize == 87
ShstrtabSize == 73

total_size == ctx.text_size + ctx.data_size
total_aligned == align_up(total_size, pagesize)

\* The first symbol of that name, whatever it is.
entry ==
    LET starts == {k \in DOMAIN ctx.symbols : ctx.symbols[k].name = "_start"}
    IN  IF starts = {} THEN base_address
        ELSE addressOf(CHOOSE k \in starts : \A m \in starts : k <= m)

Phdr == [offset |-> pagesize, vaddr |-> base_address, filesz |-> total_size,
         memsz |-> total_aligned]

debug_info_offset   == pagesize + total_aligned
debug_abbrev_offset == debug_info_offset + info_size
debug_line_offset   == debug_abbrev_offset + AbbrevSize
debug_str_offset    == debug_line_offset + line.size
shstrtab_offset     == debug_str_offset + str_size
shoff               == align_up(shstrtab_offset + ShstrtabSize, 8)

Ehdr(debug) == [entry |-> entry, shoff |-> IF debug THEN shoff ELSE 0,
                shentsize |-> IF debug THEN ShdrSize ELSE 0, shnum |-> IF debug THEN 8 ELSE 0,
                shstrndx |-> IF debug THEN 3 ELSE 0]

Shdr(name, addr, offset, size) == [name |-> name, addr |-> addr, offset |-> offset, size |-> size]
Shdrs == <<Shdr("null", 0, 0, 0), Shdr(".text", base_address, pagesize, ctx.text_size),
           Shdr(".data", text_end, pagesize + ctx.text_size, ctx.data_size),
           Shdr(".shstrtab", 0, shstrtab_offset, ShstrtabSize),
           Shdr(".debug_info", 0, debug_info_offset, info_size),
           Shdr(".debug_abbrev", 0, debug_abbrev_offset, AbbrevSize),
           Shdr(".debug_line", 0, debug_line_offset, line.size),
           Shdr(".debug_str", 0, debug_str_offset, str_size)>>

Piece(what, size) == [what |-> what, size |-> size]

(* Mutant: the data begins at a boundary of its own. *)
Pieces_AlignedData(debug) ==
    <<Piece("ehdr", EhdrSize), Piece("phdr", PhdrSize),
      Piece("pad", pagesize - EhdrSize - PhdrSize), Piece(".text", ctx.text_size),
      Piece("pad", align_up(ctx.text_size, 8) - ctx.text_size),
      Piece(".data", ctx.data_size), Piece("pad", total_aligned - total_size)>>
    \o IF ~ debug THEN <<>>
       ELSE <<Piece(".debug_info", info_size), Piece(".debug_abbrev", AbbrevSize),
              Piece(".debug_line", line.size), Piece(".debug_str", str_size),
              Piece(".shstrtab", ShstrtabSize), Piece("pad", shoff - shstrtab_offset - ShstrtabSize),
              Piece("shdrs", 8 * ShdrSize)>>

Pieces(debug) ==
    <<Piece("ehdr", EhdrSize), Piece("phdr", PhdrSize),
      Piece("pad", pagesize - EhdrSize - PhdrSize), Piece(".text", ctx.text_size),
      Piece(".data", ctx.data_size), Piece("pad", total_aligned - total_size)>>
    \o IF ~ debug THEN <<>>
       ELSE <<Piece(".debug_info", info_size), Piece(".debug_abbrev", AbbrevSize),
              Piece(".debug_line", line.size), Piece(".debug_str", str_size),
              Piece(".shstrtab", ShstrtabSize), Piece("pad", shoff - shstrtab_offset - ShstrtabSize),
              Piece("shdrs", 8 * ShdrSize)>>

\* Where each piece ends, from 0 on, and the size of all.
Offsets(pieces) ==
    LET t[n \in 0..Len(pieces)] == IF n = 0 THEN 0 ELSE t[n - 1] + pieces[n].size IN t
SizeOfPieces(pieces) == Offsets(pieces)[Len(pieces)]

\* A file knows the invocation that wrote it.
NoFile == [kind |-> "none", by |-> 0]
DataFile(n, by) == [kind |-> "data", size |-> n, by |-> by]
Image(debug, by) ==
    [kind |-> "elf", by |-> by, pieces |-> Pieces(debug), size |-> SizeOfPieces(Pieces(debug)),
     ehdr |-> Ehdr(debug), phdr |-> Phdr, shdrs |-> IF debug THEN Shdrs ELSE <<>>]

BuildDwarf ==
    \/ BeginDwarf \/ IndexSymbol \/ EnsureStart \/ SortFunctions \/ SortLabels \/ BeginInfo \/ EmitFunction \/ EndFunctions
    \/ EmitLabel \/ EndInfo \/ BeginLine \/ EmitRow \/ EndRows
-----------------------------------------------------------------------------
(* asm_disassemble_file: the way to the text of an image, by the headers.   *)

Refused == [ok |-> FALSE]

(* Mutant: the end of the section table is not compared with the size of the file. *)
asm_disassemble_file_NoBound(f) ==
    LET sh == f.shdrs
        texts == {n \in DOMAIN sh : sh[n].name = ".text"}
        text == sh[CHOOSE n \in texts : \A m \in texts : n <= m]
    IN  IF \/ f.kind # "elf" \/ f.size < EhdrSize \/ f.ehdr.shentsize # ShdrSize \/ f.ehdr.shnum = 0
           \/ texts = {} \/ text.offset + text.size > f.size
        THEN Refused
        ELSE [ok |-> TRUE, offset |-> text.offset, size |-> text.size, addr |-> text.addr]

\* The conditions on what is read from a table hold where the table itself is in
\* the file; the first section with the name is taken.
asm_disassemble_file(f) ==
    LET sh == f.shdrs
        names == sh[f.ehdr.shstrndx + 1]
        texts == {n \in DOMAIN sh : sh[n].name = ".text"}
        text == sh[CHOOSE n \in texts : \A m \in texts : n <= m]
    IN  IF \/ f.kind # "elf" \/ f.size < EhdrSize
           \/ f.ehdr.shentsize # ShdrSize \/ f.ehdr.shnum = 0
           \/ f.ehdr.shoff + f.ehdr.shentsize * f.ehdr.shnum > f.size
           \/ f.ehdr.shstrndx >= f.ehdr.shnum
           \/ names.offset + names.size > f.size \/ names.size = 0
           \/ texts = {} \/ text.offset + text.size > f.size
        THEN Refused
        ELSE [ok |-> TRUE, offset |-> text.offset, size |-> text.size, addr |-> text.addr]
=============================================================================
