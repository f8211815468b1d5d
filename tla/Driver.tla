------------------------------- MODULE Driver -------------------------------
(***************************************************************************)
(* main of asm.c: a session of invocations over one file system.  Each     *)
(* invocation reads its arguments, assembles, and writes the output and    *)
(* the files beside it, or prints what it was asked for.                   *)
(*                                                                         *)
(* Opening a file may fail, the assembly may fail or warn, and the disk    *)
(* may be full, which no writer notices.  Options with a value are one     *)
(* argument; "?" stands for any option that is not known, and for one      *)
(* whose value is missing.                                                 *)
(***************************************************************************)
EXTENDS ElfImage

CONSTANTS
    Sessions,           \* sequences of argument lists
    Contexts,           \* of each input file: what a successful assembly may leave
    MaxDefines          \* of -D; MAX_CLI_DEFINES

ASSUME SessionsTyped == \A s \in Sessions : s \in Seq(Seq(STRING)) /\ s # <<>>
ASSUME ContextsTyped == \A f \in DOMAIN Contexts : \A c \in Contexts[f] : c \in Context
\* LineMapSorted of Assembler.
ASSUME LineMapsSorted ==
    \A f \in DOMAIN Contexts : \A c \in Contexts[f] : \A n \in DOMAIN c.line_map :
       c.line_map[n].address >= IF n = 1 THEN base_address ELSE c.line_map[n - 1].address
ASSUME DefinesNat == MaxDefines \in Nat

VARIABLES
    session, run,       \* the session and the number of the invocation
    k, opt, defines,    \* position in the arguments, options read, -D kept
    pc, status,         \* where main is, what it returned
    allocated,          \* contexts alive
    files,              \* the output, its .dbg and its .lst
    before,             \* the files when the invocation began
    shown               \* of an invocation that prints: what

driver_vars == <<session, run, k, opt, defines, pc, status, allocated, files, before, shown>>
vars == <<ctx, elf_vars, driver_vars>>

NoOptions == [input |-> "none", format |-> "elf64", g |-> FALSE, l |-> FALSE, deps |-> FALSE,
              E |-> FALSE, werror |-> FALSE, disassemble |-> FALSE]
Outputs == {"out", "dbg", "lst"}

EmptyContext == [text_size |-> 0, data_size |-> 0, name_len |-> 0, dir_len |-> 0, base_len |-> 0,
                 symbols |-> <<>>, line_map |-> <<>>]

args == session[run]

Init ==
    /\ session \in Sessions /\ run = 1
    /\ k = 1 /\ opt = NoOptions /\ defines = 0 /\ pc = "options" /\ status = -1 /\ allocated = 0
    /\ files = [o \in Outputs |-> NoFile] /\ before = files /\ shown = "none"
    /\ ctx = EmptyContext /\ Idle
-----------------------------------------------------------------------------
(* The options.                                                             *)

Exit(code) ==
    /\ status' = code /\ pc' = "exit"
    /\ UNCHANGED <<session, run, k, opt, before>>

\* asm_free and return.
FreeAndExit(code) == allocated' = allocated - 1 /\ Exit(code)

Sets(arg) ==
    CASE arg \in DOMAIN Contexts -> [opt EXCEPT !.input = arg]
      [] arg \in {"elf64", "bin", "hex", "coff"} -> [opt EXCEPT !.format = arg]
      [] arg = "-g" -> [opt EXCEPT !.g = TRUE]
      [] arg = "-l" -> [opt EXCEPT !.l = TRUE]
      [] arg = "-M" -> [opt EXCEPT !.deps = TRUE]
      [] arg = "-E" -> [opt EXCEPT !.E = TRUE]
      [] arg = "-Werror" -> [opt EXCEPT !.werror = TRUE]
      [] arg = "--disassemble" -> [opt EXCEPT !.disassemble = TRUE]
      [] OTHER -> opt

(* Mutant: an option without a value of its own is read for ever. *)
ReadOption_Stays ==
    /\ pc = "options" /\ k <= Len(args) /\ args[k] \notin {"-h", "?"}
    /\ opt' = Sets(args[k]) /\ k' = IF args[k] = "-Werror" THEN k ELSE k + 1
    /\ UNCHANGED <<session, run, defines, pc, status, allocated, files, before, shown, ctx, elf_vars>>

ReadOption ==
    /\ pc = "options" /\ k <= Len(args) /\ args[k] \notin {"-h", "?"}
    /\ opt' = Sets(args[k]) /\ k' = k + 1
    /\ UNCHANGED <<session, run, defines, pc, status, allocated, files, before, shown, ctx, elf_vars>>

\* Help and unknown options end the loop at once.
StopAtOption ==
    /\ pc = "options" /\ k <= Len(args) /\ args[k] \in {"-h", "?"}
    /\ shown' = "usage" /\ Exit(IF args[k] = "-h" THEN 0 ELSE 1)
    /\ UNCHANGED <<defines, allocated, files, ctx, elf_vars>>

\* The status is 1 also when the file cannot be read, when memory is short and when
\* disassemble_code_buffer gives up at a row of more than 15 bytes.
Disassemble ==
    LET text == asm_disassemble_file(files["out"])
    IN  /\ pc = "options" /\ k > Len(args) /\ opt.disassemble
        /\ \/ text.ok /\ shown' = "rows" /\ Exit(0)
           \/ UNCHANGED shown /\ Exit(1)
        /\ UNCHANGED <<defines, allocated, files, ctx, elf_vars>>

NoInput ==
    /\ pc = "options" /\ k > Len(args) /\ ~ opt.disassemble /\ opt.input = "none"
    /\ Exit(1)
    /\ UNCHANGED <<defines, allocated, files, shown, ctx, elf_vars>>

asm_init ==
    /\ pc = "options" /\ k > Len(args) /\ ~ opt.disassemble /\ opt.input # "none"
    /\ \/ /\ allocated' = allocated + 1 /\ pc' = "defines" /\ k' = 1
          /\ UNCHANGED <<session, run, opt, status, before>>
       \/ Exit(1) /\ UNCHANGED allocated
    /\ UNCHANGED <<defines, files, shown, ctx, elf_vars>>

\* Accepted: -D with a name.  "-D!" is any other -D.
parse_cli_define(arg) == arg # "-D!"
asm_ctx_add_cli_define(n) == IF n < MaxDefines THEN n + 1 ELSE n

\* The second loop.  A define too many is only a warning, a malformed one an error.
CollectDefine ==
    /\ pc = "defines" /\ k <= Len(args) /\ parse_cli_define(args[k])
    /\ defines' = IF args[k] = "-D" THEN asm_ctx_add_cli_define(defines) ELSE defines
    /\ k' = k + 1
    /\ UNCHANGED <<session, run, opt, pc, status, allocated, files, before, shown, ctx, elf_vars>>

(* Mutant: an early return that forgets asm_free. *)
InvalidDefine_Leaks ==
    /\ pc = "defines" /\ k <= Len(args) /\ ~ parse_cli_define(args[k])
    /\ Exit(1)
    /\ UNCHANGED <<defines, allocated, files, shown, ctx, elf_vars>>

InvalidDefine ==
    /\ pc = "defines" /\ k <= Len(args) /\ ~ parse_cli_define(args[k])
    /\ FreeAndExit(1)
    /\ UNCHANGED <<defines, files, shown, ctx, elf_vars>>
-----------------------------------------------------------------------------
(* Preprocessing, assembly, dependencies.                                   *)

PreprocessOnly ==
    /\ pc = "defines" /\ k > Len(args) /\ opt.E
    /\ \/ shown' = "text" /\ FreeAndExit(0)
       \/ UNCHANGED shown /\ FreeAndExit(1)
    /\ UNCHANGED <<defines, files, ctx, elf_vars>>

\* asm_assemble_file: the input cannot be read, or the assembly fails.
AssembleFails ==
    /\ pc = "defines" /\ k > Len(args) /\ ~ opt.E
    /\ FreeAndExit(1)
    /\ UNCHANGED <<defines, files, shown, ctx, elf_vars>>

Assemble ==
    /\ pc = "defines" /\ k > Len(args) /\ ~ opt.E
    /\ ctx' \in Contexts[opt.input] /\ pc' = "assembled"
    /\ UNCHANGED <<session, run, k, opt, defines, status, allocated, files, before, shown, elf_vars>>

FatalWarning ==
    /\ pc = "assembled" /\ opt.werror
    /\ FreeAndExit(1)
    /\ UNCHANGED <<defines, files, shown, ctx, elf_vars>>

(* Mutant: the dependencies are printed and the output is written as well. *)
Dependencies_Falls ==
    /\ pc = "assembled" /\ opt.deps
    /\ shown' = "deps" /\ pc' = "write"
    /\ UNCHANGED <<session, run, k, opt, defines, status, allocated, files, before, ctx, elf_vars>>

Dependencies ==
    /\ pc = "assembled" /\ opt.deps
    /\ shown' = "deps" /\ FreeAndExit(0)
    /\ UNCHANGED <<defines, files, ctx, elf_vars>>

BeginOutput ==
    /\ pc = "assembled" /\ ~ opt.deps
    /\ pc' = "write"
    /\ UNCHANGED <<session, run, k, opt, defines, status, allocated, files, before, shown, ctx, elf_vars>>
-----------------------------------------------------------------------------
(* The writers.                                                             *)

\* What is on the disk after a writer has closed the file: all, or what had room.
Stored(f) == {f} \cup {[f EXCEPT !.size = n] : n \in {m \in {0, EhdrSize, f.size - 1} : m \in 0..f.size}}

HexSize == IF ctx.text_size % 16 = 0 THEN 3 * ctx.text_size ELSE 3 * ctx.text_size + 1

OpenFails ==
    /\ pc = "write" /\ opt.format # "coff"
    /\ FreeAndExit(1)
    /\ UNCHANGED <<defines, files, shown, ctx, elf_vars>>

\* -f with another name.
UnknownFormat ==
    /\ pc = "write" /\ opt.format = "coff"
    /\ FreeAndExit(1)
    /\ UNCHANGED <<defines, files, shown, ctx, elf_vars>>

\* asm_write_binary and asm_write_hex: the text alone.
WriteFlat ==
    /\ pc = "write" /\ opt.format \in {"bin", "hex"}
    /\ \E f \in Stored(DataFile(IF opt.format = "bin" THEN ctx.text_size ELSE HexSize, run)) :
          files' = [files EXCEPT !["out"] = f]
    /\ pc' = "dbg"
    /\ UNCHANGED <<session, run, k, opt, defines, status, allocated, before, shown, ctx, elf_vars>>

OpenElf ==
    /\ pc = "write" /\ opt.format = "elf64"
    /\ files' = [files EXCEPT !["out"] = DataFile(0, run)]
    /\ pc' = "elf" /\ stage' = IF opt.g THEN "dwarf" ELSE "layout"
    /\ UNCHANGED <<session, run, k, opt, defines, status, allocated, before, shown, ctx,
                   i, j, functions, labels, str_size, dies, info_size, line>>

BuildElf ==
    /\ pc = "elf" /\ BuildDwarf
    /\ UNCHANGED <<driver_vars, ctx>>

(* Mutant: main does not look at what asm_write_elf64 returned. *)
ElfOverflow_Ignored ==
    /\ pc = "elf" /\ stage = "overflow"
    /\ pc' = "dbg"
    /\ UNCHANGED <<session, run, k, opt, defines, status, allocated, files, before, shown, ctx, elf_vars>>

\* The file stays as it was opened.
ElfOverflow ==
    /\ pc = "elf" /\ stage = "overflow"
    /\ FreeAndExit(1)
    /\ UNCHANGED <<defines, files, shown, ctx, elf_vars>>

WriteElf ==
    /\ pc = "elf" /\ stage = "layout"
    /\ \E f \in Stored(Image(opt.g, run)) : files' = [files EXCEPT !["out"] = f]
    /\ pc' = "dbg" /\ stage' = "written"
    /\ UNCHANGED <<session, run, k, opt, defines, status, allocated, before, shown, ctx,
                   i, j, functions, labels, str_size, dies, info_size, line>>

\* Its text is not looked at.
SideFileSize == 100

\* A file beside the output; its name may be too long, or it cannot be opened.
WriteBeside(at, wanted, name, next) ==
    /\ pc = at
    /\ \/ /\ wanted
          /\ \E f \in Stored(DataFile(SideFileSize, run)) : files' = [files EXCEPT ![name] = f]
          /\ next
       \/ wanted /\ FreeAndExit(1) /\ UNCHANGED files
       \/ ~ wanted /\ next /\ UNCHANGED files
    /\ UNCHANGED <<defines, shown, ctx, elf_vars>>

WriteDebugMap ==
    WriteBeside("dbg", opt.g, "dbg",
                pc' = "lst" /\ UNCHANGED <<session, run, k, opt, status, allocated, before>>)
WriteListing == WriteBeside("lst", opt.l, "lst", FreeAndExit(0))

NextInvocation ==
    /\ pc = "exit" /\ run < Len(session)
    /\ run' = run + 1 /\ k' = 1 /\ opt' = NoOptions /\ defines' = 0 /\ pc' = "options"
    /\ status' = -1 /\ before' = files /\ shown' = "none"
    /\ i' = 1 /\ j' = 1 /\ functions' = <<>> /\ labels' = <<>> /\ str_size' = 0 /\ dies' = <<>>
    /\ info_size' = 0 /\ line' = [size |-> 0, addr |-> 0, at |-> 1, program |-> <<>>]
    /\ stage' = "idle"
    /\ ctx' = EmptyContext
    /\ UNCHANGED <<session, allocated, files>>

Finished == pc = "exit" /\ run = Len(session) /\ UNCHANGED vars

Next ==
    \/ ReadOption \/ StopAtOption \/ Disassemble \/ NoInput \/ asm_init
    \/ CollectDefine \/ InvalidDefine \/ PreprocessOnly \/ AssembleFails \/ Assemble
    \/ FatalWarning \/ Dependencies \/ BeginOutput
    \/ OpenFails \/ UnknownFormat \/ WriteFlat \/ OpenElf \/ BuildElf \/ ElfOverflow \/ WriteElf
    \/ WriteDebugMap \/ WriteListing \/ NextInvocation \/ Finished

\* One process that is never made to wait for ever.
Spec == Init /\ [][Next]_vars /\ WF_vars(Next)
-----------------------------------------------------------------------------
(* Properties.                                                              *)

(* The options, the place in main and the sizes of the DWARF buffers; an append never
   goes past the end of its buffer. *)
TypeOK ==
    /\ DOMAIN opt = DOMAIN NoOptions /\ run \in 1..Len(session) /\ k \in 1..(Len(args) + 1)
    /\ defines \in 0..MaxDefines /\ status \in {-1, 0, 1}
    /\ pc \in {"options", "defines", "assembled", "write", "elf", "dbg", "lst", "exit"}
    /\ DOMAIN files = Outputs /\ shown \in {"none", "usage", "rows", "text", "deps"}
    /\ str_size \in 0..StrCapacity /\ info_size \in 0..InfoCapacity /\ line.size \in 0..LineCapacity
    /\ stage \in {"idle", "dwarf", "index", "sort_functions", "sort_labels", "info", "functions", "labels", "line", "rows",
                  "layout", "overflow", "written"}

(* Every way out of main, also the early returns of a bad define, a failed assembly, a
   fatal warning or a writer that failed, has released the context. *)
ContextReleased == pc = "exit" => allocated = 0

PositionOf(pieces, n) == Offsets(pieces)[n - 1]
At(pieces, what, size, offset) ==
    \E n \in DOMAIN pieces :
       pieces[n] = Piece(what, size) /\ PositionOf(pieces, n) = offset

\* The headers of an image say where its pieces are.
WellFormed(f) ==
    /\ \A n \in 2..Len(f.shdrs) : At(f.pieces, f.shdrs[n].name, f.shdrs[n].size, f.shdrs[n].offset)
    /\ \A n \in 2..Len(f.shdrs) :
          f.shdrs[n].addr > 0 => f.shdrs[n].addr - f.phdr.vaddr = f.shdrs[n].offset - f.phdr.offset
    /\ f.ehdr.shnum > 0 => /\ At(f.pieces, "shdrs", f.ehdr.shnum * f.ehdr.shentsize, f.ehdr.shoff)
                           /\ f.ehdr.shoff % 8 = 0
    /\ (f.phdr.offset - f.phdr.vaddr) % pagesize = 0 /\ f.phdr.filesz <= f.phdr.memsz
    /\ \E n \in DOMAIN f.pieces :
          /\ f.pieces[n].what = ".text" /\ f.pieces[n + 1].what = ".data"
          /\ PositionOf(f.pieces, n) = f.phdr.offset
          /\ PositionOf(f.pieces, n + 2) = f.phdr.offset + f.phdr.filesz

(* Whatever the sizes of text, data and debug sections are, empty and exactly one page
   included: the offsets asm_write_elf64 computes before it writes are those at which the
   pieces come to lie, and each section is loaded at the address its header gives. *)
HeadersMatchFile == files["out"].kind = "elf" => WellFormed(files["out"])

\* A consumer of the line program, byte by byte: where it is in an instruction, the number
\* it is reading, its registers and the rows it has appended.
ReaderStart == [mode |-> "op", acc |-> 0, unit |-> 1, address |-> base_address, line |-> 1,
                rows |-> <<>>]
ReadByte(st, b) ==
    CASE st.mode = "op" /\ b = 0 -> [st EXCEPT !.mode = "length"]
      [] st.mode = "op" /\ b = 1 ->
            [st EXCEPT !.rows = Append(@, [address |-> st.address, line |-> st.line])]
      [] st.mode = "op" /\ b \notin {0, 1} ->
            [st EXCEPT !.mode = IF b = 2 THEN "pc" ELSE "line", !.acc = 0, !.unit = 1]
      [] st.mode = "length" -> [st EXCEPT !.mode = "extended"]
      [] st.mode = "extended" -> [st EXCEPT !.mode = IF b = 1 THEN "end" ELSE "bad"]
      [] st.mode \in {"pc", "line"} /\ b >= 128 ->
            [st EXCEPT !.acc = @ + (b - 128) * st.unit, !.unit = @ * 128]
      [] st.mode = "pc" /\ b < 128 -> [st EXCEPT !.mode = "op", !.address = @ + st.acc + b * st.unit]
      [] st.mode = "line" /\ b < 128 ->
            [st EXCEPT !.mode = "op",
                       !.line = @ + st.acc + (IF b >= 64 THEN b - 128 ELSE b) * st.unit]
      [] st.mode \in {"end", "bad"} -> [st EXCEPT !.mode = "bad"]
Consumed(program) ==
    LET after[n \in 0..Len(program)] ==
            IF n = 0 THEN ReaderStart ELSE ReadByte(after[n - 1], program[n])
    IN  after[Len(program)]

DwarfBuilt == opt.g /\ stage \in {"layout", "written"}

(* A debugger that runs the line program byte by byte gets exactly the rows of the line
   map, however far apart their lines and addresses are, then one row at the end of the text if
   the last instruction does not begin there, and the end of the sequence. *)
LineProgramDecodes ==
    DwarfBuilt =>
       LET result == Consumed(line.program)
           last == IF ctx.line_map = <<>> THEN [address |-> base_address, line |-> 1]
                   ELSE ctx.line_map[Len(ctx.line_map)]
       IN  /\ result.mode = "end"
           /\ result.rows = ctx.line_map
                 \o (IF last.address < text_end THEN <<[address |-> text_end, line |-> last.line]>> ELSE <<>>)

Defined == {n \in DOMAIN ctx.symbols : InText(ctx.symbols[n])}
Kind(s) == IF s.function THEN "function" ELSE "label"

(* The entries of functions cover the text from the first function to its end without
   gap or overlap, in whatever order the symbols were defined; every function and every
   other label of the text has exactly one entry, the labels behind the functions and in
   the order of their addresses.  Left out: a program whose only _start is declared
   external, which gets a function at address 0. *)
FunctionsTileText ==
    LET Function(n) == n \in DOMAIN dies /\ dies[n].kind = "function"
        For(n, s) == dies[n].symbol = s /\ dies[n].kind = Kind(ctx.symbols[s])
    IN  (DwarfBuilt /\ \A n \in DOMAIN dies : Function(n) => InText(ctx.symbols[dies[n].symbol])) =>
          /\ \A n \in DOMAIN dies :
                /\ dies[n].low_pc = addressOf(dies[n].symbol)
                /\ Function(n) => dies[n].low_pc + dies[n].span =
                                     IF Function(n + 1) THEN dies[n + 1].low_pc ELSE text_end
          /\ \A n \in 1..(Len(dies) - 1) : ~ Function(n) =>
                ~ Function(n + 1) /\ dies[n].low_pc <= dies[n + 1].low_pc
          /\ \A s \in Defined : \E n \in DOMAIN dies :
                For(n, s) /\ \A m \in DOMAIN dies : For(m, s) => m = n

(* --disassemble finds the text and its address in an output of this assembler exactly
   when it was written with -g and completely: the section table is the last thing
   written, so that a file cut short anywhere is refused. *)
ReadableIffDebug ==
    LET f == files["out"]
        text == asm_disassemble_file(f)
    IN  f.kind = "elf" =>
          /\ text.ok <=> (f.shdrs # <<>> /\ f.size = SizeOfPieces(f.pieces))
          /\ text.ok => At(f.pieces, ".text", text.size, text.offset) /\ text.addr = f.phdr.vaddr

Writes == opt.input # "none" /\ ~ opt.disassemble /\ ~ opt.E /\ ~ opt.deps

(* An invocation that returns 0 after writing has written what was asked for itself: the
   output in the format of -f, with debug sections and a map exactly with -g, a listing
   with -l.  A disk that fills up is not noticed, so that the files may be cut short. *)
SuccessMeansWritten ==
    (pc = "exit" /\ status = 0 /\ shown # "usage" /\ Writes) =>
       /\ files["out"].by = run /\ (opt.format = "elf64" <=> files["out"].kind = "elf")
       /\ opt.format = "elf64" => (opt.g <=> files["out"].shdrs # <<>>)
       /\ (files["dbg"].by = run) <=> opt.g
       /\ (files["lst"].by = run) <=> opt.l

(* An invocation that only prints (-h, -E, -M, --disassemble), or that fails before the
   writers, leaves all three files as it found them, those of an earlier invocation
   included; of those that fail later, only one that ran out of a DWARF buffer leaves
   the output empty. *)
OldFilesKept ==
    pc = "exit" =>
       /\ (~ Writes \/ shown # "none" \/ opt.format = "coff") => files = before
       /\ (status = 1 /\ stage = "idle" /\ opt.format = "elf64") => files = before
       /\ (status = 1 /\ files["out"].by = run /\ files["out"].kind = "data" /\ opt.format = "elf64")
             => stage = "overflow" /\ files["out"].size = 0

(* Every session comes to its end: no loop over arguments, symbols, rows or digits of a
   number runs for ever. *)
SessionEnds == <>(pc = "exit" /\ run = Len(session))
=============================================================================
