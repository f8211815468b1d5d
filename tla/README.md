# TLA+ models of the x86_64 assembler

This directory models the assembler from its command line to the file it
writes: which lines are read, which name a label stands for, where everything
lies, which bytes an instruction becomes, what is written into every field that
refers to something else, and what the image, the listing and the disassembler
make of it. The modules are checked by TLC on small instances (`*.cfg`), and the
central facts about the multi-pass layout, the listing, the symbol table, the include
tracker, `times`, the preprocessor, the label rewriting, the memory operands, the image with its debug
information and the driver are proved with TLAPS for every program and every capacity. `PROJECT.json` lists the components, the runs, the source lines every
definition stands for, the hazards and the theorems.

Source names are kept where TLA+ allows: `apply_section_directive`,
`find_symbol_entry`, `emit_modrm_sib`, `pp_lookup_define` and so on are the C
functions of that name.

## 1. The system

The program is sequential: `main` (`src/src/asm.c`) reads one file, calls
`asm_assemble` and then the writers that were asked for. What is hard about it is
not concurrency but *passes*: the same text is read, numbered, measured or
encoded several times, each time with the tables the earlier passes left behind.

```
 file -> times expansion -> include expansion -> preprocessor (2 passes)
      -> tokenizer and parser -> label canonicalization (2 passes)
      -> asm_assemble: estimate, labels, equ, relax*, equ, (text pass)*,
                       attributes, data pass, fixups
      -> ELF64 / flat binary / hex / listing / debug map / dependency writers
 ELF64 image -> disassembler
```

| component | state | operations | module |
|---|---|---|---|
| times expansion (`parser_expand_times_only`) | output buffer of four times the input | one line, one copy | `TimesExpansion` |
| include expansion (`expand_includes_recursive`) | recursion stack, circularity tracker, dependency list | one line, descend, return, unwind | `Includes` |
| preprocessor (`preprocess_macros`) | defines, stack of conditionals, macros | one line of pass 1 or 2 | `Preprocessor` |
| memory operands (`parse_memory_operand`) and their encoding (`emit_modrm_sib`, `emit_rex`) | `memory_operand_t`, emitted bytes | one term, one operand | `Addressing` |
| label canonicalization (`canonicalize_symbol_labels`) | alias table, anonymous definitions, scope number | one label, one reference | `Labels` |
| assembly passes (`asm_assemble`, `encode_instruction`, the branch encoders, `resolve_fixups`) | symbol array and hash, text and data, fixups, line map, attribute lists | one instruction, attribute or fixup of a pass | `Assembler` |
| symbol table (`add_symbol`, `symbol_hash_*`, `asm_free`) | array, chains of the buckets | one entry of a walk, append, insert, roll back, free | `SymbolHash`, `SymbolMap` |
| encoders (`encode_*`, `emit_rex`, `emit_modrm_sib`) | emitted bytes | one instruction | `Encoders`, `ControlFlow`, `ModRM` |
| disassembler (`decode_one`, `asm_disassemble_file`) | offset, prefixes, rows | one prefix, one instruction | `Disassembler`, composed with the encoders in `Codec` |
| listing (`listing_*`) | rows | reset, one row per encoder call | `Listing`, on top of `Assembler` |
| ELF64 and DWARF writer (`asm_write_elf64`) | DWARF buffers, headers, pieces of the file | one symbol, entry or row; layout; write | `ElfImage` |
| driver (`main`), flat, hex, map and listing files | options, context, files | one argument, one stage of `main` | `Driver` |
| tokenizer, mnemonic tables, message texts | – | – | only through the records that are input of the modules |

The components share one context structure but interact only through their
results: each module takes the output of the stage before it as its input (a
constant set of texts or programs from which the initial state chooses). The one
component that is spread over the others is the symbol table. It is kept twice,
as an array for the writers and as a hash table for the lookups; `Assembler` has
both as separate variables, so that they can disagree. There the hash table is a
function from names; `SymbolHash` shows that buckets, chains and the roll-back
implement one.

What makes each component correct:

* **assembly passes** – a field that refers to a label holds, in the finished
  output, what the label's final address makes of it, although the field was
  written in one pass and the label moved in another; the passes end; array and
  hash agree; no capacity is overrun; the text does not change once its last pass
  is over.
* **labels** – a local name means the definition in its own scope, and the two
  passes count scopes alike; anonymous references bind to the nearest definition;
  different definitions keep different names; exactly the wrong programs are
  refused.
* **preprocessor** – the two passes take the same branches, and the result is what
  a single reading of the text would give.
* **includes** – the output is the text with every include replaced, a cycle that
  is reported is one, nothing stays in the tracker after an error, and the
  dependency list names what was read.
* **times** – the buffer is not overrun, and a text that fits comes out whole.
* **addressing** – the bytes, decoded by the processor's rules, address what the
  operand says.
* **symbol table** – it answers like a map, whichever names share a bucket and
  whichever allocation fails; every call returns, and nothing is left after
  `asm_free`.
* **encoders and disassembler** – prefixes come in the order the processor needs;
  what was encoded is shown; the rows cover the section, whatever is in it (except
  behind a row that is too long, section 4).
* **listing** – one row per emitting line of the finished layout, none of an earlier
  pass.
* **ELF64 and DWARF writer** – headers tell where everything is, the line program and
  the function entries describe the program, a full buffer is noticed.
* **driver** – status 0 means that what was asked for was written; an invocation that
  only prints, or fails before it writes, changes no file; every exit frees the
  context.

## 2. Modules and their correspondence to the code

### Assembler

One step handles one parsed instruction (or one attribute, or one fixup) of the
current pass; `pc` says which pass. The bytes are abstracted to what the passes
decide: how many bytes an instruction takes and what each field that refers to a
label (`refs`) holds. An instruction record carries the answers of the tables that
are not modelled: the estimated size (`est`), the encoded length (`n`), the bytes
before and behind a displacement field (`off`, `tail`).

| phase | actions | code in `x86_64_asm.c` |
|---|---|---|
| `estimate` | `EstimateText`, `EndEstimate` | pass 1a, the text size from `estimate_instruction_size` |
| `labels` | `LabelPass` (`RecordLabel`, or the reservation that is refused), `EndLabelPass` | pass 1b |
| `equ1`, `equ2` | `ResolveEqu`, `EndEqu` | `resolve_equ_symbol_values`, before and after the relaxation |
| `relax` | `Relax`, `EndRelax` | `recompute_text_layout_relaxed`, at most `RelaxLimit` rounds |
| `startpass`, `text`, `encode` | `StartTextPass`, `TextPass`, then one of `MarkGlobal`, `DeclareExtern`, `SkipLabelOnly`, `EncodeMachine`, `EncodeDirective`, `EncodeRejected`; `EndTextPass` | the two modes of at most `PassLimit` text passes |
| `attrs` | `ApplyAttribute`, `EndAttributes` | `apply_symbol_attributes` |
| `data`, `dataencode` | `DataPass`, `DataEncode`, `EndDataPass` | the third pass |
| `fixups` | `ResolveFixup`, `EndFixups` | `resolve_fixups` |

Errors end in `pc = "failed"` with the cause in `err`. Errors the code ignores
(the result of `add_symbol` in pass 1b and in `.comm`, the result of `emit_byte`
in data directives) are ignored in the model too: `AddToArray` and `AddToHash`
leave the tables alone, `Unchecked` directives are cut short at the capacity.

### Labels

Pass 1 (`DefineAnonymous`, `DefineLocal`, `OpenScope`) and pass 2 (`EnterInst`,
`NormalizeLocal`, `NormalizeForward`, `NormalizeBackward`, `KeepReference`,
`LeaveInst`) of `canonicalize_symbol_labels`. A name is a record of its kind
(plain, `.name`, `@@`, `@F`, `@B`, `__loc_N_name`, `__anon_N`), base and number, one
record for each text: a kind without a base or a number has the empty one. `@F` and
`@B` are ordinary names to the tokenizer, so that they may also be labels. The length limit of a scoped name is the parameter `Fits`.

### Preprocessor

One step per line and pass. A line is a directive with its words or a text line
of two words; defines are substituted, macros collected in pass 1 and expanded in
pass 2. `trace` is history: which lines each pass took. The reference `ReadOnce` is
one reading of the whole text with the meaning the directives have, as a fold.

### Includes

The recursion is the stack `frames`; `Descend` is a recursive call, `Return` its end,
`Unwind` the early return behind an error. Paths are kept as written, a sequence of
directory components and a name, because the circularity check compares spellings;
`Canonical` is what the file system makes of a path (external).

### TimesExpansion

Lines are lengths: a plain line of `len` characters, or `count` copies of an
instruction of `inst` characters. A copy or line is written only if it fits.

### Addressing

An operand is a sequence of signed terms; a number with a `$` in front is a term of its
own kind, which the parser refuses (`Dollar`). The parser's actions fill `mem`,
`Encode` is `emit_rex` and `emit_modrm_sib`, whose bytes are in the module `ModRM`. `Decoded` is the independent reference:
the address the processor computes from those bytes, as one coefficient per
register and a displacement.

### SymbolMap and SymbolHash

`SymbolMap` is the abstract table: a function from names to entries, on which a
requested add, upsert, move or find takes effect in one step, with the answers the
callers distinguish. `SymbolHash` has the array and one chain per bucket; a walk
looks at one entry per step (`NextEntry`), `AppendRow` and `Insert` or `OutOfMemory`
are separate steps as in `add_symbol`, and `FreeEntry`, `NextBucket` are the loops of
`asm_free`. `Contents` is the refinement mapping: what a walk would find. The update
of the array by a moving label (`MoveInArray`) comes before the update of the chain,
as in the passes.

### Encoders, ControlFlow, Disassembler, Codec

An instruction is a mnemonic class with operands; immediates are their eight bytes,
so that widths are kept. Each `encode_*` gives the bytes or `Rejected`.
`Disassembler` reads bytes: `StartRow`, `Prefix` and the decoding of one instruction,
in the order of the tests of `decode_one`; a row holds the mnemonic, the registers,
the address and the target that the code prints. A row has room for 15 bytes; behind a
longer one `PrintRow` ends in `abandoned`. `Codec` encodes a program and then
disassembles it; `Covered` says for which forms the row must be the instruction.

### Listing

The steps of `Assembler`, conjoined with what they do to the rows: `ResetListing` at
the start of every text pass, one row around each encoder call, dropped when
nothing was emitted, capped at 16 bytes.

### ElfImage and Driver

`ElfImage` builds the DWARF buffers symbol by symbol and row by row with their
capacities, sorts functions and labels by the exchange loops of the code (`i` is the
outer index, `j` the inner one, one pair per step), and writes a sequence of pieces; the headers are computed independently
of it, as in the code. `Driver` is `main`: arguments, defines, `-E`, `-M`,
`--disassemble`, warnings as errors, the writers in their order and every early
return. A session is a sequence of invocations over one set of files; opening,
assembling and warning may go either way, and a file may be cut short by a full disk,
which the code does not notice (`Stored`). Each file carries the invocation that wrote
it.

## 3. Runs

Deadlock is checked everywhere; a finished run stutters in `Finished`.

| run | what it shows | bounds, and why they are enough |
|---|---|---|
| `passes` | the passes end; array and hash agree; short branches, and 32-bit fields that end their instruction, hold what the final addresses make of them; labels lie in their section; line map and listing are those of the last pass; the text is frozen after it; capacities hold, and the bounds check of the fixups cannot fail | (1) two labels and up to four branches around 121–128 bytes: both edges of the rel8 range, for branches forwards, backwards and over each other, so that shrinking one brings another into range. (2) Every pair of instructions and directives in the text, in the data and across the two, with operands that are refused. (3) Four symbols, fixups and attributes, five line entries, 160 bytes of text and 64 of data, within which the programs of (1) and (2) fit, all but those that reserve or align by the address of a label, too much for any text: a table with one entry left or a section with up to seven bytes left, and two more instructions of every kind that takes from them, so that each table is full and an instruction is cut off at each of its bytes. Real limits of 8 and 6 rounds |
| `labels` | references mean what their scope says; labels stay distinct; exactly the wrong programs are refused | all programs of up to four lines over two sets of lines; tables of three entries, and a name whose scoped form no longer fits from scope 1 on |
| `preprocessor` | both passes agree where macros come first; the output is that of one reading; no table is overrun | all texts of up to five lines of conditionals and of macros, and up to four lines with malformed operands; limits of 2 and 3, each reached |
| `includes` | see section 1 | up to four files with up to two lines each, two search paths, depth 2, two dependencies: self-inclusion, mutual inclusion, new spellings of a path, missing files, too long paths, full lists |
| `times` | no overrun, texts that fit come out whole | up to three lines, counts on both sides of the buffer's end (12 copies of `nop` fit behind a line of 13 characters, 13 do not) |
| `addressing` | the bytes decode to the operand; the encoder's own checks cannot fail behind the parser | the registers with special encodings and their extended twins, displacements at the edges of disp8 with and without a `$`, all scales; and all sequences of up to three terms |
| `symbol_hash` | array and chains implement `SymbolMap`, agree between calls, are freed; every call returns | three names, two in one bucket, room for two, two addresses, any sequence of calls and any failing allocation: chains of length two, a full table, a collision in every role |
| `codec` | REX is the last prefix; the rows cover the code; the covered forms come back | every encoder with every operand shape, the registers whose low bits mean something else and extended ones in all sizes, immediates at the edges of int8 and int32, each followed by a second instruction that shows whether the decoder is in step; instructions as data, cut off and unknown ones last; runs of 4, 5, 14, 15 and 16 prefixes before the shortest and a long instruction, so that rows have 15 bytes, 16 and more |
| `equ_constant`, `section_operand`, `rip_immediate` | the disagreements of section 4 | the few programs that show each |
| `driver` | see section 1 | two invocations; text sizes 0, 4095 and 4096; three functions in every order; line and address steps on both sides of 63, 64, 127, 128 and 8191; buffers small enough that each of them overflows in each of its loops |

`EncodesWhatIsWritten`, `TwoPassesAsOne` and `RoundTrip` have premises (`Documented` without
a `$` and with a displacement of 32 bits, `MacrosFirst`, `Covered`), as have `FixedFieldsLand`
(relative fields of symbols that are not `ImmediateBehind`), `LocalReferencesResolve`
(`Unprefixed`) and `FunctionsTileText` (every function with an entry is `InText`); what
happens outside them is in the next section.

Fairness: `ListingFairSpec` assumes weak fairness of `ListingPasses`, the steps of
`asm_assemble`. The function is sequential, waits for nothing and runs until it
returns, which is exactly what the assumption says. `Terminates` then rests on the
cut-offs of the relaxation and of the text passes; removing the cut-off (mutant
`EndTextPass_NoCutoff`) makes it fail, because there are programs whose layout never
stabilizes. `SymbolHash` assumes weak fairness of the steps inside a call (`Step`) but
not of calls: nobody has to call. `Driver` is one process that never waits for ever,
so weak fairness of its steps; `SessionEnds` then says that no loop stands still.

## 4. Where the code and its documentation disagree

Three disagreements have a run that expects a violation; the quoted statements are in
`PROJECT.json`.

| run | statement | what the code does |
|---|---|---|
| `equ_constant` | an equ name stands for its constant | in the text section the text pass gives it the address of its line |
| `section_operand` | `.data` selects the data section | the operand is rewritten as a local label, everything stays in the text |
| `rip_immediate` | a rip-relative field is the "offset from end of instruction to target" (`x86_64_asm.c:968`) | it is measured from the end of the field, so that `mov [rip + A], 7` addresses `A + 4` |

The models show more of the same kind; these have no run of their own, and the
properties' premises name them where they matter:

* a jump to a near label of the data section is encoded short from the estimated
  layout and without a fixup (`ShortBranch`), though the comment in
  `x86_64_controlflow.c:100` says "always use fixup for correctness";
* pass 2 of the preprocessor knows macros further down, so `%ifndef` around a macro
  takes another branch than in pass 1, and a `-D` symbol whose value is the name of a macro is
  expanded above the macro (premise `MacrosFirst`;
  `docs/EXAMPLES_WALKTHROUGH.md:421` "checks for defined and missing symbols");
* a displacement with a `$` is refused (`Dollar`, premise of `EncodesWhatIsWritten`), though
  `docs/ASSEMBLY_REFERENCE.md:373` has `mov rax, [rbx + $10]   ; rbx + 16 (hex)`;
* a run of prefixes makes a row longer than the 15 bytes it has room for: `decode_one`
  copies them all into `bytes[15]`, and `disassemble_code_buffer` then returns -1 and lists
  nothing more (`PrintRow`; `RowsTileCode` says where it stops), though
  `docs/DISASSEMBLER_DESIGN.md:34` says "Non-fatal decode gaps should render as data bytes
  (`db 0x..`) and continue";
* beside an index, rbp or r13 without a displacement is encoded as no base (premise
  of `EncodesWhatIsWritten`);
* the listing shows the bytes before the fixups: `call foo` is `e8 00 00 00 00`, while
  `docs/LISTING_FORMAT.md:101` says "Listing content aligns with emitted machine code
  and symbol addresses" (`ListingMatchesImage` states what holds);
* `mov r9d, 5` sets REX.R instead of REX.B and so means ecx, against the registers
  `r8d-r15d` of `docs/ASSEMBLY_REFERENCE.md:62`; 16-bit arithmetic is encoded without
  0x66; immediates that do not fit are cut (outside `Covered`);
* the disassembler shows r12 as an index as no index, and `xchg rax, r8` as nop;
* an image written without `-g` has no section table, and `--disassemble` refuses it
  (`ReadableIffDebug`; `docs/DISASSEMBLER_DESIGN.md` shows `--disassemble a.out` without
  mentioning `-g`, and asks for a "valid section table" below);
* a full DWARF buffer is reported after the output was emptied (`OldFilesKept`);
* `_start` declared extern gives an entry point and a function at address 0 (premise
  of `FunctionsTileText`);
* a full disk is not noticed, the status is 0 (`Stored`);
* `a: nop` emits no byte, since a nop with a label is how a label-only line is
  stored (`SkipLabelOnly`);
* a `.comm` symbol of the text section keeps the address of the first text pass
  while its bytes move (`EncodeMachine`);
* a label that itself starts with `__loc_` or `__anon_` opens a scope in pass 1 of
  the label rewriting and none in pass 2 (premise `Unprefixed`);
* a macro body that is too long is reported as an error and accepted with the rest
  cut off (`AddLine`); a macro without end swallows the rest of the text
  (`UnendedMacro`);
* the root file is not in the circularity tracker, so a file that includes the root
  is entered once more before the cycle is seen (`Init` of `Includes`);
* a copy of a `times` line that does not fit into the buffer is dropped without an
  error (`RepeatLine`): `times 13 nop` alone gives 12;
* without a base, or with rsp as index, the bytes address something else; a minus
  before a register is ignored; a third register behind a sign replaces the index
  (premises `Documented` and `Unencodable`).

## 5. Proofs

Every theorem is about the specification that the runs check, for every value of the
constants. The assumptions are the named ones of the modules: limits and capacities
are naturals (`LimitsAssumption`, `CapacitiesNat`, `DefinesNat`, ...), programs, operands,
command lines, file systems and what an assembly may leave have their types
(`ProgramsAssumption`, `OperandsTyped`, `SessionsTyped`, `ContextsTyped`, ...; in `Assembler`
also: the absent name is none, `_start` is a name; in `Preprocessor` also: `%define` names a
symbol or is malformed, and the `-D` options are finitely many and fit into the table), and the
line maps are sorted (`LineMapsSorted` of `Driver`, which is what `LinesStaySorted` proves of
`Assembler`). Nothing else: programs of any length, any capacities, any limits on the passes. Each inductive
invariant was an invariant of a TLC run before it was proved (`RowsWritten` with the
recursive reading in place of the traces, which TLC cannot enumerate).

Five kinds of argument need an induction over data: that a recursive function is defined
everywhere, that the sum of a sequence is taken entry by entry, that a repetition has
its length, that a LEB128 number is read back group by group, and that the reference of the
preprocessor stays well formed, and stays at a fault. They are made with the least element of the set of numbers for which the claim
fails (`LeastNat`, `Upwards`).

* `OutputProofs`, types and tables: **`TypeCorrect`** (`TypeOK`) and **`BuffersFit`** (`WithinCapacity`). One
  lemma per phase. The two are inductive together with `AtInst` (in the encoding phases
  `i` points at an instruction). The arithmetic that matters is in a few lemmas: padding
  and encoded lengths are natural for operands the encoders accept, and `TextRoom` never
  exceeds what is left. **`TablesAgree`** (`HashArrayAgree`): `Agree(s, h)` is the
  statement for any array and table; lemmas say that adding, moving and marking keep
  it, and each action is one of these.
* `OutputProofs`, layout: **`BranchesConverge`** (`ConvergedBranchesLand`),
  **`FixupBoundsUnreachable`** (`FixupsInBounds`) and **`TextStaysFrozen`** (`TextFrozen`).
  The inductive invariant `LayoutInv` has five parts: during a text pass the address is
  base plus emitted bytes (`AddressInv`); every fixup lies inside the text and never on
  a rel8 field (`FieldInv`); as long as no label has moved *in this pass*, all its short
  branches hit, and behind a pass in which none moved those to text labels still do
  (`BranchInv`); the data pass moves only labels of data lines (`SectionInv`).
  `BranchInv` is the reason why the code's test is the right one: a short branch is
  encoded from the table of the moment, so it is right at the end only if no entry of
  the table changed after it, which is what "no text label moved" says. It needs
  `HashArrayAgree`, because movement is noticed in the array and the branch reads the
  hash, and `FieldInv`, so that `resolve_fixups` cannot overwrite a rel8 byte.
* `OutputProofs`, output: **`LinesStaySorted`** (`LineMapSorted`), **`FieldsAreFixed`**
  (`FixedFieldsLand`) and **`LabelsAreInSection`** (`LabelsLandInSection`), on top of
  `LayoutInv`. The invariant `OutputInv` adds: every field that is not rel8 has a fixup of
  its own and holds its addend until that fixup is applied, behind which it holds the
  final value, measured from the end of the field (`PatchInv`); that is the end of the
  instruction unless an immediate follows (`FieldEndInv`); a pass starts and ends in the section it is about
  (`PassSectionInv`); during the data pass the address is the end of the text plus the
  data emitted (`DataAddressInv`); a label that the running pass has met lies in the
  bytes that it has emitted (`LabelInv`).
* `OutputProofs`, listing: **`ListingIsImage`** (`ListingMatchesImage`). `ListingInv`: the rows
  tile the image up to the byte the pass has reached (`TileInv`), which needs that there is
  no data before the data pass (`NoDataInv`); a row stands at the address that the symbol
  table gives to the labels of its line (`RowLabelInv`, with `HereInv` for the line that is
  being encoded); a rel8 that a row shows is the one in the image (`RowRefInv`). The rows of
  a pass that did not converge are dropped by the reset of the next one, and the last pass
  moved no label.
* `SymbolHashProofs`: **`TableIsArray`** (`TableMatchesArray`) and **`TableIsMap`**
  (`ImplementsMap`, the refinement of `SymbolMap`). The array is ahead of the chains by at
  most the one change of the call at hand; names are distinct in a chain and lie in
  their bucket; a walk has passed no entry of its name; the buckets that were freed are
  empty. Every step of the walk maps to a stutter, the step that makes the change to the
  call of the map.
* `IncludesProofs`: **`ExpansionTyped`** (`TypeOK`), **`TrackerEmptyAtEnd`**
  (`TrackerReleased`) and **`DependenciesComplete`** (`DependenciesListed`). While files are
  read the tracker counts the smaller of the depth and its capacity, and on the way back
  from an error at most that: a tracker that is full when a file is entered gets no
  entry and loses one all the same when that file fails, so that the count lags behind
  the depth, and still ends at zero. The theorem on dependencies is about `-MD`; the
  other case, that a system file is left out with `-MMD`, stays with TLC.
* `TimesExpansionProofs`: **`TimesTyped`** (`TypeOK`) and **`ExpandsWhole`**
  (`SmallTextsComeOutWhole`). `BufferInv`: what was written is as long as `out_pos` says and
  fits into the buffer. `WholeInv`: if the expansion of the whole text fits, the output is
  so far the expansion of the lines read and the copies made of the line at hand. The
  lemma behind it (`PieceFits`) is that a prefix of a text that fits fits, so that the test
  before each copy, which drops the copy, then never fails.
* `AddressingProofs`: **`EncodedAsWritten`** (`EncodesWhatIsWritten`) and **`EncoderAccepts`**
  (`EncoderChecksUnreachable`). Two halves meet in `mem`. `DecodesMem` is about the encoder
  alone: for every base, index, scale and 32-bit displacement that has an encoding, the
  processor reads from REX, ModRM, SIB and displacement bytes exactly the fields of `mem`;
  it is a case for each form of ModRM, with lemmas on the bit fields and the two's
  complement. `ReadInv` is about the parser: of a documented operand, `mem` holds the
  registers and the sum of the displacements of the terms read so far; documented operands
  with a `$`, which are refused, are outside (`Readable`). `CheckInv` says what
  the parser has refused by the time the encoder is called.
* `DriverProofs`, `main`: **`NoContextLeft`** (`ContextReleased`), **`SuccessIsWritten`**
  (`SuccessMeansWritten`) and **`EarlierFilesKept`** (`OldFilesKept`). The invariant says for
  every place of `main` whether the context is allocated and which of the three files
  this run has written so far, and of what kind.
* `DriverProofs`, buffers: **`DriverTyped`** (`TypeOK`). `MainInv` types the options and the
  context, `DwarfInv` the state of `asm_write_elf64`: lists hold indices of symbols, sizes stay
  within the capacities. The lengths of entries and rows come from the LEB128 recursion;
  `GroupsExist` and the lemmas behind it show that it ends for every number.
* `DriverProofs`, image: **`HeadersTrue`** (`HeadersMatchFile`) and **`ReadableWithDebug`**
  (`ReadableIffDebug`). The invariant `ImageInv` says of the output file what the two say.
  `OffsetsAdd` gives the position of each piece as a sum, `LoadedAt` and `DebugAt` compare
  these sums with the offsets that the code computed in advance, with the two alignments
  (`AlignPage`, `AlignEight`); `ImageReadable` follows the tests of `asm_disassemble_file` for
  every length to which the file may have been cut.
* `DriverProofs`, entries: **`EntriesTile`** (`FunctionsTileText`). `ListsInv`: while the symbols
  are indexed, the lists hold exactly once every symbol of the text that was met; in the
  sorts, the entries before `i` are in order and at most all behind them, and entry `i` is at
  most those between it and `j` (`SortedTo`). One exchange keeps the first (`ExchangeKeeps`) and
  extends the second by one (`ExchangeSorts`). `DiesInv`: the entries written are those of
  the functions and then of the labels, up to the index at hand. Spans meet because the
  list is sorted and every function lies in the text.
* `DriverProofs`, line program: **`LinesDecode`** (`LineProgramDecodes`). A consumer is a
  machine that reads one byte at a time; `Runs` says from which state which bytes bring it
  to which, and `RunsConsumed` that this is what the recursive reading of the property
  computes. `UlebReads` and `SlebReads` show that it reads back every number the writer
  encodes, by induction on the number of groups (`Regroup`, `GroupShrinks`, `LastGroupValue`:
  the sign is in bit 6 of the last group). `RowsWritten` is the invariant: after row `i - 1`
  the bytes so far tell the consumer exactly the first `i - 1` rows and leave it at the
  address and line that the writer keeps in `line`. The writer never moves backwards in the
  text, so that the line map has to be sorted: assumption `LineMapsSorted` on the contexts,
  which theorem `LinesStaySorted` proves of the pass that fills the map.
* `LabelsProofs`: **`LocalsResolve`**, **`AnonymousResolve`**, **`DefinitionsDistinct`** and
  **`RejectsOnlyFaults`**, the four properties of `Labels`. The invariant: `scope_id` is in
  both passes the number of non-local labels that the program *as written* has up to the
  line at hand (`ScopeInv`); the labels that pass 1 has seen have their final names
  (`LabelInv`); `local_aliases` has one entry for every local name met and only for names
  the program uses (`AliasInv`), `anon_defs` the anonymous labels from above (`AnonInv`);
  the operands that pass 2 has read are rewritten, the others as written (`RefInv`). That
  pass 2, which sees the rewritten labels, opens its scopes where pass 1 did is the lemma
  `SameScopes`; it is the place where the assumption that no label of the program has one
  of the prefixes of the rewriting is needed. The faults of a full list are counted with
  an injection of the list into the uses of the program that misses the one at hand.

* `PreprocessorProofs`, tables: **`PreprocessorTyped`** (`TypeOK`). The inductive invariant
  `Typed` adds what the tables hold (`Tables`): a macro whose body is being read is typed, not
  too long, and has its place in the array, which was tested when its first line was met; and
  where values come from, a `-D` option or a line already read (`ValuesFrom`).
* `PreprocessorProofs`, passes: **`PassesAsOne`** (`TwoPassesAsOne`), a simulation of both passes
  by the one reading of the reference. `Reading(src)[k]` is the state of the reference behind line
  `k`. There is one lemma for each action (`OpenTracks`, `ElseTracks`, ..., `EmitTracks`): from a
  state like that of the reference it either stops where the reference finds a fault, or at a
  limit, or reaches the next state like it. For the conditionals this compares the stack of
  `parent_active` and `branch_taken` with the levels (`LevelOpens`, `LevelTurns`, `LevelCloses`). The
  two passes start differently, as the second knows all macros from its first line. So the
  invariant `Follows` has a part for each: `First`, pass 1 is like the reference *up to its first
  fault*, behind which it may go on, because it does not look at text, `%error` or a malformed
  `%define` of an inactive block; `Second`, pass 2 has met no fault, so it stops at the one that pass 1 has passed
  over. `KnownSoFar` connects them: the macros recorded are those that the reference knows, then
  ones whose names come from later lines. With `MacrosFirst` no line can tell these from unknown
  names (`LaterNames`, `NamesAgree`, `SeesNames`), and this is where the premise is needed.

Only model-checked:

* `Terminates`, `CallsReturn` and `SessionEnds`: liveness under fairness is out of the
  prover's reach.
* `ExpandsExactly` of `Includes`: a statement about the instance. A search directory that
  makes a path too long is passed over by the code, and the reference knows of no such
  directory.
* `RowsTileCode`, `RoundTrip` and `RexIsLastPrefix` of `Codec`: the disassembler's tests and
  the encoders' forms are tables, and each pair of a form and a test is a case of its own.
  TLC goes through all of them.

## 6. Not modelled

* The tokenizer, the spelling of mnemonics and registers, and the wording of
  diagnostics and listings: tables and text.
* `include_push`, `include_pop` and `parser_include_file`: not reached, the text is
  expanded before the parser sees it.
* Macros with more than one parameter; nested expansion beyond one level is what
  the code does.
* 64-bit wrap-around of addresses: programs would have to be larger than the text
  capacity. The overflow of the `times` count.
* The two loops of `main` over the arguments skip the values of options by different
  rules; an option with its value is one argument in the model.
* A `realloc` of the listing that fails, which loses a row; the bytes of the DWARF
  abbreviations and the lines of the debug map.
* Context setters: assignments.

## 7. Plan

1. *Done*: `Assembler` with its proofs, `Labels`, `Preprocessor`, `Includes`,
   `TimesExpansion`, `Addressing`; then `SymbolMap` and `SymbolHash` with the refinement,
   `Encoders`, `ControlFlow`, `Disassembler` and `Codec`, `ElfImage` and `Driver`,
   `Listing`.
2. *Done*: the proofs of section 5: all properties of `Assembler`, `Listing`, `Labels`,
   `SymbolHash` (with its refinement), `Preprocessor`, `TimesExpansion`, `Addressing` and `Driver`
   except liveness, and those of `Includes` that section 5 names.
3. Left: the properties that section 5 lists as only model-checked.
