---------------------------- MODULE DriverProofs ----------------------------
(***************************************************************************)
(* What an invocation of the assembler leaves behind, for every session of *)
(* argument lists and everything the assembly of a file may produce.       *)
(***************************************************************************)
EXTENDS Driver, WellFoundedInduction, SequenceTheorems, TLAPS

(* The context is allocated between asm_init and the end of main.          *)
AllocInv ==
    allocated = IF pc \in {"options", "exit"} THEN 0 ELSE 1

(* Every file knows an invocation that has run.                            *)
FilesInv ==
    /\ run \in Nat \ {0}
    /\ DOMAIN files = Outputs /\ DOMAIN before = Outputs
    /\ \A o \in Outputs : /\ files[o].by \in 0..run
                          /\ before[o].by \in 0..(run - 1)

Unwritten == {"options", "defines", "assembled", "write"}

(* The output is there as it was asked for; the files beside it follow.    *)
OutputDone ==
    /\ files["out"].by = run /\ (opt.format = "elf64" <=> files["out"].kind = "elf")
    /\ opt.format = "elf64" => (opt.g <=> files["out"].shdrs # <<>>)
    /\ opt.format = "elf64" => stage = "written"
    /\ opt.format # "coff"

(* What is on the disk at each place of main.                              *)
PhaseInv ==
    /\ pc \in Unwritten => files = before /\ shown = "none" /\ stage = "idle"
    /\ pc \in {"defines", "assembled", "write", "elf", "dbg", "lst"} =>
          opt.input # "none" /\ ~ opt.disassemble
    /\ pc \in {"assembled", "write", "elf", "dbg", "lst"} => ~ opt.E
    /\ pc \in {"write", "elf", "dbg", "lst"} => ~ opt.deps
    /\ pc \in {"elf", "dbg", "lst"} => shown = "none" /\ files["lst"] = before["lst"]
    /\ pc = "elf" => /\ opt.format = "elf64" /\ files["out"] = DataFile(0, run)
                     /\ files["dbg"] = before["dbg"]
    /\ pc = "dbg" => OutputDone /\ files["dbg"] = before["dbg"]
    /\ pc = "lst" => OutputDone /\ (files["dbg"].by = run <=> opt.g)

IInv ==
    /\ pc \in Unwritten \cup {"elf", "dbg", "lst", "exit"}
    /\ AllocInv /\ FilesInv /\ PhaseInv
    /\ SuccessMeansWritten /\ OldFilesKept

LEMMA InitInv == Init => IInv
  <1> SUFFICES ASSUME Init PROVE IInv
    OBVIOUS
  <1>1. /\ run = 1 /\ pc = "options" /\ allocated = 0 /\ files = [o \in Outputs |-> NoFile]
        /\ before = files /\ shown = "none" /\ stage = "idle"
    BY DEF Init, Idle
  <1>2. FilesInv
    BY <1>1 DEF FilesInv, NoFile
  <1> QED BY <1>1, <1>2 DEF IInv, AllocInv, PhaseInv, SuccessMeansWritten, OldFilesKept, Unwritten

(* Leaving main before anything is written.                                *)
LEMMA EarlyExit ==
    ASSUME IInv, pc \in Unwritten, NEW code \in {0, 1}, Exit(code), allocated' = 0,
           UNCHANGED <<files, elf_vars>>,
           code = 0 => shown' = "usage" \/ ~ Writes
    PROVE  IInv'
  <1>1. /\ status' = code /\ pc' = "exit" /\ opt' = opt /\ run' = run /\ before' = before
        /\ files' = files /\ stage' = stage
    BY DEF Exit, elf_vars
  <1>2. files = before /\ (Writes' <=> Writes)
    BY <1>1 DEF IInv, PhaseInv, Writes
  <1>3. AllocInv' /\ PhaseInv' /\ pc' \in Unwritten \cup {"elf", "dbg", "lst", "exit"}
    BY <1>1 DEF AllocInv, PhaseInv, Unwritten
  <1>4. FilesInv'
    BY <1>1 DEF IInv, FilesInv
  <1>5. files'["out"].by # run'
    BY <1>1, <1>2 DEF IInv, FilesInv, Outputs
  <1>6. SuccessMeansWritten'
    BY <1>1, <1>2 DEF SuccessMeansWritten
  <1>7. OldFilesKept'
    BY <1>1, <1>2, <1>5 DEF OldFilesKept
  <1> QED BY <1>3, <1>4, <1>6, <1>7 DEF IInv

(* Going on in main.                                                       *)
LEMMA GoesOn ==
    ASSUME IInv, pc' # "exit", pc' \in Unwritten \cup {"elf", "dbg", "lst"},
           FilesInv', PhaseInv', AllocInv'
    PROVE  IInv'
  BY DEF IInv, SuccessMeansWritten, OldFilesKept

LEMMA FilesStay ==
    ASSUME FilesInv, UNCHANGED <<run, files, before>>
    PROVE  FilesInv'
  BY DEF FilesInv

LEMMA OptionsInv ==
    ASSUME IInv, ReadOption \/ StopAtOption \/ Disassemble \/ NoInput \/ asm_init
    PROVE  IInv'
  <1>1. pc = "options" /\ pc \in Unwritten /\ allocated = 0 /\ UNCHANGED <<files, before, run, elf_vars>>
    BY DEF IInv, AllocInv, Unwritten, ReadOption, StopAtOption, Disassemble, NoInput, asm_init, Exit
  <1>2. FilesInv' /\ stage' = stage /\ files = before /\ shown = "none" /\ stage = "idle"
    BY <1>1, FilesStay DEF IInv, PhaseInv, elf_vars
  <1>3. CASE ReadOption
    <2>1. pc' = pc /\ shown' = shown /\ allocated' = allocated
      BY <1>3 DEF ReadOption
    <2>2. PhaseInv'
      BY <1>1, <1>2, <2>1 DEF PhaseInv, Unwritten
    <2> QED BY <1>1, <1>2, <2>1, <2>2, GoesOn DEF IInv, AllocInv
  <1>4. CASE StopAtOption
    BY <1>1, <1>4, EarlyExit DEF StopAtOption
  <1>5. CASE Disassemble
    <2>1. ~ Writes /\ allocated' = allocated /\ (Exit(0) \/ Exit(1))
      BY <1>5 DEF Disassemble, Writes
    <2> QED BY <1>1, <2>1, EarlyExit
  <1>6. CASE NoInput
    BY <1>1, <1>6, EarlyExit DEF NoInput
  <1>7. CASE asm_init
    <2>1. CASE Exit(1) /\ UNCHANGED allocated
      BY <1>1, <2>1, EarlyExit
    <2>2. CASE allocated' = allocated + 1 /\ pc' = "defines" /\ opt' = opt
      <3>1. shown' = shown /\ opt.input # "none" /\ ~ opt.disassemble
        BY <1>7 DEF asm_init
      <3>2. PhaseInv' /\ AllocInv'
        BY <1>1, <1>2, <2>2, <3>1 DEF PhaseInv, AllocInv, Unwritten
      <3> QED BY <1>2, <2>2, <3>2, GoesOn DEF Unwritten
    <2> QED BY <1>7, <2>1, <2>2 DEF asm_init
  <1> QED BY <1>3, <1>4, <1>5, <1>6, <1>7

LEMMA AssemblyInv ==
    ASSUME IInv, \/ CollectDefine \/ InvalidDefine \/ PreprocessOnly \/ AssembleFails \/ Assemble
                 \/ FatalWarning \/ Dependencies \/ BeginOutput \/ OpenFails \/ UnknownFormat
    PROVE  IInv'
  <1>1. pc \in {"defines", "assembled", "write"} /\ UNCHANGED <<files, before, run, opt, elf_vars>>
    BY DEF CollectDefine, InvalidDefine, PreprocessOnly, AssembleFails, Assemble, FatalWarning,
           Dependencies, BeginOutput, OpenFails, UnknownFormat, FreeAndExit, Exit
  <1>2. pc \in Unwritten /\ allocated = 1
    BY <1>1 DEF IInv, AllocInv, Unwritten
  <1>3. FilesInv' /\ stage' = stage /\ files = before /\ shown = "none" /\ stage = "idle"
    BY <1>1, <1>2, FilesStay DEF IInv, PhaseInv, elf_vars
  <1>4. ASSUME NEW code \in {0, 1}, FreeAndExit(code), code = 0 => ~ Writes
        PROVE  IInv'
    <2>1. Exit(code) /\ allocated' = 0
      BY <1>2, <1>4 DEF FreeAndExit
    <2> QED BY <1>1, <1>2, <1>4, <2>1, EarlyExit
  <1>5. CASE InvalidDefine \/ AssembleFails \/ FatalWarning \/ OpenFails \/ UnknownFormat
    BY <1>4, <1>5 DEF InvalidDefine, AssembleFails, FatalWarning, OpenFails, UnknownFormat
  <1>6. CASE PreprocessOnly
    <2>1. ~ Writes /\ (FreeAndExit(0) \/ FreeAndExit(1))
      BY <1>6 DEF PreprocessOnly, Writes
    <2> QED BY <1>4, <2>1
  <1>7. CASE Dependencies
    <2>1. ~ Writes /\ FreeAndExit(0)
      BY <1>7 DEF Dependencies, Writes
    <2> QED BY <1>4, <2>1
  <1>8. CASE CollectDefine \/ Assemble \/ BeginOutput
    <2>1. /\ shown' = shown /\ allocated' = allocated /\ pc' \in {"defines", "assembled", "write"}
          /\ opt.input # "none" /\ ~ opt.disassemble
          /\ pc' \in {"assembled", "write"} => ~ opt.E
          /\ pc' = "write" => ~ opt.deps
      BY <1>8, <1>1 DEF CollectDefine, Assemble, BeginOutput, IInv, PhaseInv
    <2>2. PhaseInv' /\ AllocInv'
      BY <1>1, <1>2, <1>3, <2>1 DEF PhaseInv, AllocInv, Unwritten
    <2> QED BY <1>3, <2>1, <2>2, GoesOn DEF Unwritten
  <1> QED BY <1>5, <1>6, <1>7, <1>8

-----------------------------------------------------------------------------
(* A file that is cut short is still the file of its writer.               *)
LEMMA StoredData ==
    ASSUME NEW n, NEW by, NEW f \in Stored(DataFile(n, by))
    PROVE  f.kind = "data" /\ f.by = by
  BY DEF Stored, DataFile

LEMMA StoredImage ==
    ASSUME NEW debug, NEW by, NEW f \in Stored(Image(debug, by))
    PROVE  f.kind = "elf" /\ f.by = by /\ f.shdrs = IF debug THEN Shdrs ELSE <<>>
  <1> DEFINE img == Image(debug, by)
  <1>1. /\ "kind" \in DOMAIN img /\ "by" \in DOMAIN img /\ "shdrs" \in DOMAIN img
        /\ img.kind = "elf" /\ img.by = by /\ img.shdrs = IF debug THEN Shdrs ELSE <<>>
    BY DEF Image
  <1> HIDE DEF img
  <1>2. f = img \/ \E n : f = [img EXCEPT !.size = n]
    BY DEF Stored, img
  <1> QED BY <1>1, <1>2

LEMMA SomeShdrs == Shdrs # <<>>
  BY DEF Shdrs

LEMMA FileReplaced ==
    ASSUME FilesInv, NEW o \in Outputs, NEW f, f.by = run,
           files' = [files EXCEPT ![o] = f], UNCHANGED <<run, before>>
    PROVE  /\ FilesInv' /\ files'[o] = f
           /\ \A q \in Outputs : q # o => files'[q] = files[q]
  BY DEF FilesInv

LEMMA WriteFlatInv ==
    ASSUME IInv, WriteFlat
    PROVE  IInv'
  <1>1. /\ pc = "write" /\ opt.format \in {"bin", "hex"} /\ pc' = "dbg"
        /\ UNCHANGED <<run, opt, allocated, before, shown, elf_vars>>
    BY DEF WriteFlat
  <1> DEFINE n == IF opt.format = "bin" THEN ctx.text_size ELSE HexSize
  <1>0. PICK f \in Stored(DataFile(n, run)) : files' = [files EXCEPT !["out"] = f]
    BY DEF WriteFlat
  <1> HIDE DEF n
  <1>2. f.kind = "data" /\ f.by = run /\ files' = [files EXCEPT !["out"] = f]
    BY <1>0, StoredData
  <1>3. "out" \in Outputs /\ "dbg" \in Outputs /\ "lst" \in Outputs
    BY DEF Outputs
  <1>4. /\ FilesInv' /\ files'["out"] = f
        /\ files'["dbg"] = files["dbg"] /\ files'["lst"] = files["lst"]
    BY <1>1, <1>2, <1>3, FileReplaced DEF IInv
  <1>5. /\ files = before /\ shown = "none" /\ opt.input # "none" /\ ~ opt.disassemble
        /\ ~ opt.E /\ ~ opt.deps /\ allocated = 1
    BY <1>1 DEF IInv, PhaseInv, AllocInv, Unwritten
  <1>6. PhaseInv' /\ AllocInv'
    BY <1>1, <1>2, <1>4, <1>5 DEF PhaseInv, AllocInv, OutputDone, Unwritten
  <1> QED BY <1>1, <1>4, <1>6, GoesOn

LEMMA OpenElfInv ==
    ASSUME IInv, OpenElf
    PROVE  IInv'
  <1>1. /\ pc = "write" /\ opt.format = "elf64" /\ pc' = "elf"
        /\ files' = [files EXCEPT !["out"] = DataFile(0, run)]
        /\ UNCHANGED <<run, opt, allocated, before, shown>>
    BY DEF OpenElf
  <1>2. DataFile(0, run).by = run
    BY DEF DataFile
  <1>3. "out" \in Outputs /\ "dbg" \in Outputs /\ "lst" \in Outputs
    BY DEF Outputs
  <1>4. /\ FilesInv' /\ files'["out"] = DataFile(0, run)
        /\ files'["dbg"] = files["dbg"] /\ files'["lst"] = files["lst"]
    BY <1>1, <1>2, <1>3, FileReplaced DEF IInv
  <1>5. /\ files = before /\ shown = "none" /\ opt.input # "none" /\ ~ opt.disassemble
        /\ ~ opt.E /\ ~ opt.deps /\ allocated = 1
    BY <1>1 DEF IInv, PhaseInv, AllocInv, Unwritten
  <1>6. PhaseInv' /\ AllocInv'
    <2>1. DataFile(0, run)' = DataFile(0, run)
      BY <1>1 DEF DataFile
    <2> QED BY <1>1, <1>4, <1>5, <2>1 DEF PhaseInv, AllocInv, Unwritten
  <1> QED BY <1>1, <1>4, <1>6, GoesOn

LEMMA BuildElfInv ==
    ASSUME IInv, BuildElf
    PROVE  IInv'
  <1>1. pc = "elf" /\ UNCHANGED <<pc, run, opt, allocated, before, shown, files>>
    BY DEF BuildElf, driver_vars
  <1>2. FilesInv'
    BY <1>1, FilesStay DEF IInv
  <1>3. PhaseInv' /\ AllocInv'
    <2>1. DataFile(0, run)' = DataFile(0, run)
      BY <1>1 DEF DataFile
    <2> QED BY <1>1, <2>1 DEF IInv, PhaseInv, AllocInv, Unwritten
  <1> QED BY <1>1, <1>2, <1>3, GoesOn

LEMMA WriteElfInv ==
    ASSUME IInv, WriteElf
    PROVE  IInv'
  <1>1. /\ pc = "elf" /\ pc' = "dbg" /\ stage' = "written"
        /\ UNCHANGED <<run, opt, allocated, before, shown>>
    BY DEF WriteElf
  <1>0. PICK f \in Stored(Image(opt.g, run)) : files' = [files EXCEPT !["out"] = f]
    BY DEF WriteElf
  <1>2. /\ f.kind = "elf" /\ f.by = run /\ files' = [files EXCEPT !["out"] = f]
        /\ f.shdrs = IF opt.g THEN Shdrs ELSE <<>>
    BY <1>0, StoredImage
  <1>3. "out" \in Outputs /\ "dbg" \in Outputs /\ "lst" \in Outputs
    BY DEF Outputs
  <1>4. /\ FilesInv' /\ files'["out"] = f
        /\ files'["dbg"] = files["dbg"] /\ files'["lst"] = files["lst"]
    BY <1>1, <1>2, <1>3, FileReplaced DEF IInv
  <1>5. opt.g <=> f.shdrs # <<>>
    BY <1>2, SomeShdrs
  <1>6. /\ shown = "none" /\ opt.input # "none" /\ ~ opt.disassemble /\ ~ opt.E /\ ~ opt.deps
        /\ allocated = 1 /\ opt.format = "elf64" /\ files["dbg"] = before["dbg"]
        /\ files["lst"] = before["lst"]
    BY <1>1 DEF IInv, PhaseInv, AllocInv
  <1>7. OutputDone'
    BY <1>1, <1>2, <1>4, <1>5, <1>6 DEF OutputDone
  <1>8. PhaseInv' /\ AllocInv'
    BY <1>1, <1>4, <1>6, <1>7 DEF PhaseInv, AllocInv, Unwritten
  <1> QED BY <1>1, <1>4, <1>8, GoesOn

(* Leaving main behind the writer of the output.                           *)
LEMMA LateExit ==
    ASSUME IInv, pc \in {"elf", "dbg", "lst"}, NEW code \in {0, 1}, FreeAndExit(code), FilesInv',
           UNCHANGED <<shown, elf_vars>>,
           files'["out"] = files["out"],
           pc = "elf" => code = 1 /\ stage = "overflow",
           code = 0 => /\ pc = "lst" /\ files'["dbg"] = files["dbg"]
                       /\ (files'["lst"].by = run <=> opt.l)
    PROVE  IInv'
  <1>1. /\ status' = code /\ pc' = "exit" /\ opt' = opt /\ run' = run /\ before' = before
        /\ stage' = stage /\ shown' = shown /\ allocated' = allocated - 1
    BY DEF FreeAndExit, Exit, elf_vars
  <1>2. allocated = 1 /\ shown = "none"
    BY DEF IInv, AllocInv, PhaseInv
  <1>3. Writes /\ (Writes' <=> Writes)
    BY <1>1 DEF IInv, PhaseInv, Writes
  <1>4. AllocInv' /\ PhaseInv' /\ pc' \in Unwritten \cup {"elf", "dbg", "lst", "exit"}
    BY <1>1, <1>2 DEF AllocInv, PhaseInv, Unwritten
  <1>5. SuccessMeansWritten'
    <2>1. CASE code = 0
      <3>1. OutputDone /\ (files["dbg"].by = run <=> opt.g)
        BY <2>1 DEF IInv, PhaseInv
      <3> QED BY <1>1, <2>1, <3>1 DEF SuccessMeansWritten, OutputDone
    <2>2. CASE code = 1
      BY <1>1, <2>2 DEF SuccessMeansWritten
    <2> QED BY <2>1, <2>2
  <1>6. OldFilesKept'
    <2>1. CASE pc = "elf"
      <3>1. opt.format = "elf64" /\ files["out"] = DataFile(0, run) /\ stage = "overflow"
        BY <2>1 DEF IInv, PhaseInv
      <3>2. files'["out"].size = 0
        BY <3>1 DEF DataFile
      <3> QED BY <1>1, <1>2, <1>3, <3>1, <3>2 DEF OldFilesKept
    <2>2. CASE pc \in {"dbg", "lst"}
      <3>1. OutputDone
        BY <2>2 DEF IInv, PhaseInv
      <3> QED BY <1>1, <1>2, <1>3, <3>1 DEF OldFilesKept, OutputDone
    <2> QED BY <2>1, <2>2
  <1> QED BY <1>4, <1>5, <1>6 DEF IInv

LEMMA ElfOverflowInv ==
    ASSUME IInv, ElfOverflow
    PROVE  IInv'
  <1>1. pc = "elf" /\ stage = "overflow" /\ FreeAndExit(1) /\ UNCHANGED <<files, shown, elf_vars>>
    BY DEF ElfOverflow
  <1>2. FilesInv'
    BY <1>1, FilesStay DEF IInv, FreeAndExit, Exit
  <1> QED BY <1>1, <1>2, LateExit

(* The map and the listing: written by this invocation, or left alone.     *)
LEMMA BesideWritten ==
    ASSUME FilesInv, NEW name \in {"dbg", "lst"}, UNCHANGED <<run, before>>,
           NEW f \in Stored(DataFile(SideFileSize, run)), files' = [files EXCEPT ![name] = f]
    PROVE  /\ FilesInv' /\ files'[name].by = run
           /\ \A q \in Outputs : q # name => files'[q] = files[q]
  <1>1. f.by = run
    BY StoredData
  <1> QED BY <1>1, FileReplaced DEF Outputs

LEMMA WriteDebugMapInv ==
    ASSUME IInv, WriteDebugMap
    PROVE  IInv'
  <1>1. pc = "dbg" /\ UNCHANGED <<shown, elf_vars>>
    BY DEF WriteDebugMap, WriteBeside
  <1>2. CASE opt.g /\ FreeAndExit(1) /\ UNCHANGED files
    <2>1. FilesInv'
      BY <1>2, FilesStay DEF IInv, FreeAndExit, Exit
    <2> QED BY <1>1, <1>2, <2>1, LateExit
  <1>3. ASSUME pc' = "lst", UNCHANGED <<run, opt, allocated, before>>, FilesInv',
               files'["out"] = files["out"], files'["lst"] = files["lst"],
               files'["dbg"].by = run <=> opt.g
        PROVE  IInv'
    <2>1. OutputDone'
      BY <1>1, <1>3 DEF IInv, PhaseInv, OutputDone, elf_vars
    <2>2. PhaseInv' /\ AllocInv'
      BY <1>1, <1>3, <2>1 DEF IInv, PhaseInv, AllocInv, Unwritten
    <2> QED BY <1>3, <2>2, GoesOn
  <1>4. CASE /\ opt.g /\ pc' = "lst" /\ UNCHANGED <<run, opt, allocated, before>>
             /\ \E f \in Stored(DataFile(SideFileSize, run)) : files' = [files EXCEPT !["dbg"] = f]
    <2>1. PICK f \in Stored(DataFile(SideFileSize, run)) : files' = [files EXCEPT !["dbg"] = f]
      BY <1>4
    <2>2. FilesInv' /\ files'["dbg"].by = run
          /\ files'["out"] = files["out"] /\ files'["lst"] = files["lst"]
      BY <1>4, <2>1, BesideWritten DEF IInv, Outputs
    <2> QED BY <1>3, <1>4, <2>2
  <1>5. CASE ~ opt.g /\ pc' = "lst" /\ UNCHANGED <<run, opt, allocated, before, files>>
    <2>1. FilesInv' /\ files["dbg"].by # run
      BY <1>1, <1>5, FilesStay DEF IInv, PhaseInv, FilesInv, Outputs
    <2> QED BY <1>3, <1>5, <2>1
  <1> QED BY <1>2, <1>4, <1>5 DEF WriteDebugMap, WriteBeside

LEMMA WriteListingInv ==
    ASSUME IInv, WriteListing
    PROVE  IInv'
  <1>1. pc = "lst" /\ UNCHANGED <<shown, elf_vars>> /\ (FreeAndExit(0) \/ FreeAndExit(1))
    BY DEF WriteListing, WriteBeside
  <1>2. UNCHANGED <<run, before>>
    BY <1>1 DEF FreeAndExit, Exit
  <1>3. CASE FreeAndExit(1) /\ UNCHANGED files
    <2>1. FilesInv'
      BY <1>2, <1>3, FilesStay DEF IInv
    <2> QED BY <1>1, <1>3, <2>1, LateExit
  <1>4. CASE /\ opt.l /\ FreeAndExit(0)
             /\ \E f \in Stored(DataFile(SideFileSize, run)) : files' = [files EXCEPT !["lst"] = f]
    <2>1. PICK f \in Stored(DataFile(SideFileSize, run)) : files' = [files EXCEPT !["lst"] = f]
      BY <1>4
    <2>2. FilesInv' /\ files'["lst"].by = run
          /\ files'["out"] = files["out"] /\ files'["dbg"] = files["dbg"]
      BY <1>2, <2>1, BesideWritten DEF IInv, Outputs
    <2> QED BY <1>1, <1>4, <2>2, LateExit
  <1>5. CASE ~ opt.l /\ FreeAndExit(0) /\ UNCHANGED files
    <2>1. FilesInv' /\ files["lst"].by # run
      BY <1>1, <1>2, <1>5, FilesStay DEF IInv, PhaseInv, FilesInv, Outputs
    <2> QED BY <1>1, <1>5, <2>1, LateExit
  <1> QED BY <1>3, <1>4, <1>5 DEF WriteListing, WriteBeside

LEMMA NextInvocationInv ==
    ASSUME IInv, NextInvocation
    PROVE  IInv'
  <1>1. /\ pc = "exit" /\ run' = run + 1 /\ pc' = "options" /\ before' = files /\ shown' = "none"
        /\ stage' = "idle" /\ UNCHANGED <<allocated, files>>
    BY DEF NextInvocation
  <1>2. FilesInv'
    BY <1>1 DEF IInv, FilesInv
  <1>3. PhaseInv' /\ AllocInv'
    BY <1>1 DEF IInv, PhaseInv, AllocInv, Unwritten
  <1> QED BY <1>1, <1>2, <1>3, GoesOn DEF Unwritten

LEMMA StandsStill ==
    ASSUME IInv, UNCHANGED vars
    PROVE  IInv'
  <1>1. UNCHANGED <<pc, run, opt, allocated, before, shown, files, stage, status>>
    BY DEF vars, driver_vars, elf_vars
  <1>2. (FilesInv' <=> FilesInv) /\ (AllocInv' <=> AllocInv)
    BY <1>1 DEF FilesInv, AllocInv
  <1>3. PhaseInv' <=> PhaseInv
    BY <1>1 DEF PhaseInv, OutputDone, DataFile
  <1>4. (SuccessMeansWritten' <=> SuccessMeansWritten) /\ (OldFilesKept' <=> OldFilesKept)
    BY <1>1 DEF SuccessMeansWritten, OldFilesKept, Writes
  <1> QED BY <1>1, <1>2, <1>3, <1>4 DEF IInv

LEMMA NextInv == IInv /\ [Next]_vars => IInv'
  <1> SUFFICES ASSUME IInv, [Next]_vars PROVE IInv'
    OBVIOUS
  <1>1. CASE UNCHANGED vars \/ Finished
    BY <1>1, StandsStill DEF Finished
  <1>2. CASE Next /\ ~ Finished
    BY <1>2, OptionsInv, AssemblyInv, WriteFlatInv, OpenElfInv, BuildElfInv, ElfOverflowInv,
       WriteElfInv, WriteDebugMapInv, WriteListingInv, NextInvocationInv
    DEF Next
  <1> QED BY <1>1, <1>2

LEMMA InvHolds == Spec => []IInv
  BY InitInv, NextInv, PTL DEF Spec

-----------------------------------------------------------------------------
(* Every return of main has called asm_free for the context it allocated.   *)
THEOREM NoContextLeft == Spec => []ContextReleased
  <1>1. IInv => ContextReleased
    BY DEF IInv, AllocInv, ContextReleased
  <1> QED BY <1>1, InvHolds, PTL

(* Status 0 of an invocation that writes means that this invocation has     *)
(* written the output in the format of -f, the debug sections and the map   *)
(* exactly with -g and the listing exactly with -l.                         *)
THEOREM SuccessIsWritten == Spec => []SuccessMeansWritten
  <1>1. IInv => SuccessMeansWritten
    BY DEF IInv
  <1> QED BY <1>1, InvHolds, PTL

(* The files of earlier invocations survive every invocation that prints or *)
(* fails before the writers; one that fails later leaves an output without  *)
(* contents only when a DWARF buffer was too small.                         *)
THEOREM EarlierFilesKept == Spec => []OldFilesKept
  <1>1. IInv => OldFilesKept
    BY DEF IInv
  <1> QED BY <1>1, InvHolds, PTL

-----------------------------------------------------------------------------
(* Recursion.  That the recursive functions of the model have the values   *)
(* their equations say takes an induction, which is made with the least    *)
(* element of a set of naturals.                                           *)

LEMMA LeastNat ==
    ASSUME NEW T, T \subseteq Nat, T # {}
    PROVE  \E x \in T : \A y \in T : x <= y
  <1> DEFINE Less == {ss \in Nat \X Nat : ss[1] < ss[2]}
  <1>1. IsWellFoundedOn(Less, Nat)
    BY NatLessThanWellFounded DEF OpToRel
  <1>2. PICK x \in T : \A y \in T : ~ (<<y, x>> \in Less)
    BY <1>1, WFMin, Zenon
  <1>3. \A y \in T : ~ (y < x)
    <2> TAKE y \in T
    <2>1. x \in Nat /\ y \in Nat
      OBVIOUS
    <2>2. y < x => <<y, x>> \in Less
      BY <2>1
    <2> QED BY <2>2, <1>2
  <1> QED BY <1>3

LEMMA Upwards ==
    ASSUME NEW N \in Nat, NEW P \in SUBSET (0..N), 0 \in P,
           \A n \in 0..N-1 : n \in P => n + 1 \in P
    PROVE  0..N \subseteq P
  <1> SUFFICES ASSUME (0..N) \ P # {} PROVE FALSE
    OBVIOUS
  <1>1. PICK x \in (0..N) \ P : \A y \in (0..N) \ P : x <= y
    BY LeastNat, (0..N) \ P \subseteq Nat
  <1>2. x # 0 /\ x - 1 \in 0..N-1 /\ x - 1 \in P
    BY <1>1
  <1> QED BY <1>1, <1>2

(* The bytes of a number, one group after the other: byte is written, and   *)
(* next is what is left of the number, which gets smaller.                  *)
GroupsOf(f, v, Base, next, byte) ==
    f[v] = IF v \in Base THEN <<byte[v]>> ELSE <<byte[v]>> \o f[next[v]]

IsGroups(f, L, Base, next, byte) ==
    f \in [L -> Seq(Int)] /\ \A v \in L : GroupsOf(f, v, Base, next, byte)

LEMMA GroupsExist ==
    ASSUME NEW S, NEW Base, NEW size \in [S -> Nat], NEW next \in [S -> S],
           NEW byte \in [S -> Int],
           \A v \in S \ Base : size[next[v]] < size[v]
    PROVE  \E f : IsGroups(f, S, Base, next, byte)
  <1> DEFINE L(n) == {v \in S : size[v] <= n}
             Good(f, n) == IsGroups(f, L(n), Base, next, byte)
  <1>0. \A a \in Seq(Int), b \in Seq(Int) : a \o b \in Seq(Int)
    OBVIOUS
  <1>00. \A v \in S : <<byte[v]>> \in Seq(Int)
    OBVIOUS
  <1>1. \A n \in Nat : \E f : Good(f, n)
    <2> DEFINE Bad == {n \in Nat : ~ \E f : Good(f, n)}
    <2> SUFFICES ASSUME Bad # {} PROVE FALSE
      OBVIOUS
    <2>1. PICK n \in Bad : \A m \in Bad : n <= m
      BY LeastNat, Bad \subseteq Nat
    <2>2. n \in Nat /\ ~ \E f : Good(f, n)
      BY <2>1
    <2>3. PICK f : n # 0 => Good(f, n - 1)
      <3>1. CASE n = 0
        BY <3>1
      <3>2. CASE n # 0
        <4>1. n - 1 \in Nat /\ ~ (n <= n - 1)
          BY <2>2, <3>2
        <4>2. n - 1 \notin Bad
          BY <2>1, <4>1
        <4> QED BY <4>1, <4>2
      <3> QED BY <3>1, <3>2
    <2> DEFINE g == [v \in L(n) |-> IF v \in Base THEN <<byte[v]>> ELSE <<byte[v]>> \o f[next[v]]]
    <2>4. ASSUME NEW v \in L(n), v \notin Base
          PROVE  n # 0 /\ next[v] \in L(n - 1) /\ next[v] \in L(n) /\ f[next[v]] \in Seq(Int)
      <3>1. v \in S /\ size[v] \in Nat /\ size[next[v]] \in Nat /\ size[next[v]] < size[v]
            /\ size[v] <= n /\ next[v] \in S
        BY <2>4
      <3>2. n # 0 /\ size[next[v]] <= n - 1 /\ size[next[v]] <= n
        BY <3>1, <2>2
      <3>3. next[v] \in L(n - 1) /\ next[v] \in L(n)
        BY <3>1, <3>2
      <3>4. f \in [L(n - 1) -> Seq(Int)]
        BY <3>2, <2>3 DEF IsGroups
      <3> HIDE DEF L
      <3> QED BY <3>2, <3>3, <3>4
    <2>5. g \in [L(n) -> Seq(Int)]
      <3>1. ASSUME NEW v \in L(n)
            PROVE  (IF v \in Base THEN <<byte[v]>> ELSE <<byte[v]>> \o f[next[v]]) \in Seq(Int)
        <4>1. v \in S
          OBVIOUS
        <4>2. CASE v \in Base
          BY <4>1, <4>2, <1>00
        <4>3. CASE v \notin Base
          <5>1. f[next[v]] \in Seq(Int)
            BY <4>3, <2>4
          <5> QED BY <4>1, <4>3, <5>1, <1>0, <1>00
        <4> QED BY <4>2, <4>3
      <3> HIDE DEF L
      <3> QED BY <3>1
    <2>6. ASSUME NEW v \in L(n) PROVE GroupsOf(g, v, Base, next, byte)
      <3>1. g[v] = IF v \in Base THEN <<byte[v]>> ELSE <<byte[v]>> \o f[next[v]]
        OBVIOUS
      <3>2. CASE v \in Base
        BY <3>1, <3>2 DEF GroupsOf
      <3>3. CASE v \notin Base
        <4> DEFINE w == next[v]
        <4>1. n # 0 /\ w \in L(n - 1) /\ w \in L(n)
          BY <3>3, <2>4
        <4>2. g[w] = IF w \in Base THEN <<byte[w]>> ELSE <<byte[w]>> \o f[next[w]]
          BY <4>1
        <4>3. GroupsOf(f, w, Base, next, byte)
          <5> HIDE DEF L, w
          <5> QED BY <4>1, <2>3 DEF IsGroups
        <4>4. g[w] = f[w]
          BY <4>2, <4>3, Zenon DEF GroupsOf
        <4> HIDE DEF g
        <4> QED BY <3>1, <3>3, <4>4, Zenon DEF GroupsOf
      <3> QED BY <3>2, <3>3
    <2>7. Good(g, n)
      <3> HIDE DEF g, L
      <3> QED BY <2>5, <2>6 DEF IsGroups
    <2> QED BY <2>2, <2>7
  <1>2. ASSUME NEW n \in Nat, NEW m \in Nat, NEW f, NEW g, Good(f, n), Good(g, m)
        PROVE  \A v \in S : size[v] <= n /\ size[v] <= m => f[v] = g[v]
    <2> DEFINE Bad == {size[v] : v \in {u \in S : size[u] <= n /\ size[u] <= m /\ f[u] # g[u]}}
    <2> SUFFICES ASSUME Bad # {} PROVE FALSE
      OBVIOUS
    <2>1. PICK b \in Bad : \A c \in Bad : b <= c
      <3>1. Bad \subseteq Nat
        OBVIOUS
      <3> HIDE DEF Bad
      <3> QED BY <3>1, LeastNat
    <2>2. PICK v \in S : size[v] = b /\ size[v] <= n /\ size[v] <= m /\ f[v] # g[v]
      BY <2>1
    <2>3. GroupsOf(f, v, Base, next, byte) /\ GroupsOf(g, v, Base, next, byte)
      BY <1>2, <2>2 DEF IsGroups
    <2>4. CASE v \in Base
      BY <2>2, <2>3, <2>4, Zenon DEF GroupsOf
    <2>5. CASE v \notin Base
      <3> DEFINE w == next[v]
      <3>1. w \in S /\ size[w] \in Nat /\ size[w] < size[v] /\ size[v] \in Nat
        BY <2>5
      <3> HIDE DEF w
      <3>2. size[w] <= n /\ size[w] <= m /\ ~ (b <= size[w])
        BY <3>1, <2>2
      <3>3. f[w] = g[w]
        BY <3>1, <3>2, <2>1
      <3>4. f[v] = g[v]
        BY <2>3, <2>5, <3>3, Zenon DEF GroupsOf, w
      <3> QED BY <3>4, <2>2
    <2> QED BY <2>4, <2>5
  <1> HIDE DEF Good
  <1> DEFINE H(n) == CHOOSE f : Good(f, n)
             F == [v \in S |-> H(size[v])[v]]
  <1>3. \A n \in Nat : Good(H(n), n)
    BY <1>1, Zenon
  <1> HIDE DEF H
  <1>4. ASSUME NEW v \in S PROVE F[v] \in Seq(Int) /\ GroupsOf(F, v, Base, next, byte)
    <2> DEFINE h == H(size[v])
    <2>1. size[v] \in Nat /\ F[v] = h[v] /\ v \in L(size[v])
      OBVIOUS
    <2>2. Good(h, size[v])
      BY <2>1, <1>3
    <2>3. h[v] \in Seq(Int) /\ GroupsOf(h, v, Base, next, byte)
      <3> HIDE DEF h, L
      <3> QED BY <2>1, <2>2 DEF Good, IsGroups
    <2>4. CASE v \in Base
      <3> HIDE DEF F, h
      <3> QED BY <2>1, <2>3, <2>4 DEF GroupsOf
    <2>5. CASE v \notin Base
      <3> DEFINE w == next[v]
                 q == H(size[w])
      <3>1. w \in S /\ size[w] \in Nat /\ size[w] < size[v] /\ F[w] = q[w]
        BY <2>5
      <3>2. Good(q, size[w])
        BY <3>1, <1>3
      <3>3. size[w] <= size[v] /\ size[w] <= size[w]
        BY <3>1, <2>1
      <3> HIDE DEF F, h, w, q
      <3>4. q[w] = h[w]
        BY <1>2, <2>1, <2>2, <3>1, <3>2, <3>3
      <3>5. F[w] = h[w]
        BY <3>1, <3>4
      <3>6. GroupsOf(F, v, Base, next, byte)
        BY <2>1, <2>3, <2>5, <3>5, Zenon DEF GroupsOf, w
      <3> QED BY <3>6, <2>1, <2>3
    <2> QED BY <2>4, <2>5
  <1>5. F \in [S -> Seq(Int)]
    BY <1>4
  <1>6. IsGroups(F, S, Base, next, byte)
    <2> HIDE DEF F
    <2> QED BY <1>4, <1>5 DEF IsGroups
  <1> QED BY <1>6

(* LEB128: what append_uleb128_checked and append_sleb128_checked write.    *)
LEMMA UlebGroups ==
    /\ uleb128 \in [Nat -> Seq(Int)]
    /\ \A v \in Nat : uleb128[v] = IF v < 128 THEN <<v>>
                                   ELSE <<(v % 128) + 128>> \o uleb128[v \div 128]
  <1> DEFINE Base == {v \in Nat : v < 128}
             next == [v \in Nat |-> v \div 128]
             byte == [v \in Nat |-> IF v < 128 THEN v ELSE (v % 128) + 128]
             size == [v \in Nat |-> v]
             U(f) == f = [v \in Nat |-> IF v < 128 THEN <<v>>
                                        ELSE <<(v % 128) + 128>> \o f[v \div 128]]
  <1>1. size \in [Nat -> Nat] /\ next \in [Nat -> Nat] /\ byte \in [Nat -> Int]
    <2>1. \A v \in Nat : v \div 128 \in Nat /\ (v % 128) + 128 \in Int
      OBVIOUS
    <2> QED BY <2>1
  <1>2. \A v \in Nat \ Base : size[next[v]] < size[v]
    <2> TAKE v \in Nat \ Base
    <2>1. v >= 128 /\ v \div 128 \in Nat /\ v \div 128 < v
      OBVIOUS
    <2> QED BY <2>1
  <1>3. \A v \in Nat : /\ v \in Base <=> v < 128
                       /\ next[v] = v \div 128
                       /\ byte[v] = IF v < 128 THEN v ELSE (v % 128) + 128
    OBVIOUS
  <1> HIDE DEF Base, next, byte, size
  <1>4. PICK f : IsGroups(f, Nat, Base, next, byte)
    BY <1>1, <1>2, GroupsExist
  <1>5. \A v \in Nat : f[v] = IF v < 128 THEN <<v>> ELSE <<(v % 128) + 128>> \o f[v \div 128]
    <2> TAKE v \in Nat
    <2>1. f[v] = IF v \in Base THEN <<byte[v]>> ELSE <<byte[v]>> \o f[next[v]]
      BY <1>4 DEF IsGroups, GroupsOf
    <2>2. CASE v < 128
      BY <2>1, <2>2, <1>3
    <2>3. CASE ~ (v < 128)
      BY <2>1, <2>3, <1>3
    <2> QED BY <2>2, <2>3
  <1>6. f \in [Nat -> Seq(Int)] /\ U(f)
    BY <1>4, <1>5 DEF IsGroups
  <1>7. uleb128 = CHOOSE g : U(g)
    BY Zenon DEF uleb128
  <1>8. U(uleb128)
    <2> HIDE DEF U
    <2> QED BY <1>6, <1>7, Zenon
  <1>9. \A v \in Nat : uleb128[v] = IF v < 128 THEN <<v>> ELSE <<(v % 128) + 128>> \o uleb128[v \div 128]
    BY <1>8
  <1>10. ASSUME NEW v \in Nat PROVE uleb128[v] = f[v]
    <2> DEFINE Bad == {u \in Nat : uleb128[u] # f[u]}
    <2> SUFFICES ASSUME Bad # {} PROVE FALSE
      OBVIOUS
    <2>1. PICK b \in Bad : \A c \in Bad : b <= c
      BY LeastNat, Bad \subseteq Nat
    <2>4. b \in Nat /\ uleb128[b] # f[b]
      BY <2>1
    <2>2. CASE b < 128
      <3>1. uleb128[b] = <<b>>
        BY <2>2, <2>4, <1>9
      <3>2. f[b] = <<b>>
        BY <2>2, <2>4, <1>5
      <3> QED BY <3>1, <3>2, <2>4
    <2>3. CASE ~ (b < 128)
      <3>1. b \div 128 \in Nat /\ ~ (b <= b \div 128)
        BY <2>1, <2>3
      <3>2. uleb128[b \div 128] = f[b \div 128]
        BY <3>1, <2>1
      <3>3. uleb128[b] = <<(b % 128) + 128>> \o uleb128[b \div 128]
        BY <2>3, <2>4, <1>9
      <3>4. f[b] = <<(b % 128) + 128>> \o f[b \div 128]
        BY <2>3, <2>4, <1>5
      <3> QED BY <3>2, <3>3, <3>4, <2>4
    <2> QED BY <2>2, <2>3
  <1>11. uleb128 = f
    <2>1. uleb128 = [v \in Nat |-> uleb128[v]] /\ f = [v \in Nat |-> f[v]]
      BY <1>6, <1>8
    <2> QED BY <2>1, <1>10
  <1> QED BY <1>6, <1>9, <1>11

LastGroup(v) == (v \div 128 = 0 /\ v % 128 < 64) \/ (v \div 128 = -1 /\ v % 128 >= 64)

LEMMA SlebGroups ==
    /\ sleb128_groups \in [Int -> Seq(Int)]
    /\ \A v \in Int : sleb128_groups[v] =
          IF LastGroup(v) THEN <<v % 128>>
          ELSE <<(v % 128) + 128>> \o sleb128_groups[v \div 128]
  <1> DEFINE Base == {v \in Int : LastGroup(v)}
             next == [v \in Int |-> v \div 128]
             byte == [v \in Int |-> IF LastGroup(v) THEN v % 128 ELSE (v % 128) + 128]
             size == [v \in Int |-> IF v >= 0 THEN v ELSE 0 - v]
             U(f) == f = [v \in Int |-> IF LastGroup(v) THEN <<v % 128>>
                                        ELSE <<(v % 128) + 128>> \o f[v \div 128]]
  <1>1. size \in [Int -> Nat] /\ next \in [Int -> Int] /\ byte \in [Int -> Int]
    <2>1. \A v \in Int : /\ v \div 128 \in Int /\ (v % 128) \in Int /\ (v % 128) + 128 \in Int
                         /\ (v < 0 => 0 - v \in Nat) /\ (v >= 0 => v \in Nat)
      OBVIOUS
    <2> QED BY <2>1
  <1>0. ASSUME NEW v \in Int, ~ LastGroup(v)
        PROVE  /\ v >= 64 => v \div 128 >= 0 /\ v \div 128 < v
               /\ v < -64 => v \div 128 < 0 /\ v \div 128 > v
               /\ v >= 64 \/ v < -64
    <2>1. v >= 64 => v \div 128 >= 0 /\ v \div 128 < v
      OBVIOUS
    <2>2. v < -64 => v \div 128 < 0 /\ v \div 128 > v
      OBVIOUS
    <2>3. v >= 0 /\ v < 64 => v \div 128 = 0 /\ v % 128 < 64
      OBVIOUS
    <2>4. v < 0 /\ v >= -64 => v \div 128 = -1 /\ v % 128 >= 64
      OBVIOUS
    <2> QED BY <2>1, <2>2, <2>3, <2>4, <1>0 DEF LastGroup
  <1>2. \A v \in Int \ Base : size[next[v]] < size[v]
    <2> SUFFICES ASSUME NEW v \in Int, ~ LastGroup(v) PROVE size[next[v]] < size[v]
      OBVIOUS
    <2>1. v \div 128 \in Int
      OBVIOUS
    <2>2. CASE v >= 64
      BY <2>1, <2>2, <1>0
    <2>3. CASE v < -64
      BY <2>1, <2>3, <1>0
    <2> QED BY <1>0, <2>2, <2>3
  <1>3. \A v \in Int : /\ v \in Base <=> LastGroup(v)
                       /\ next[v] = v \div 128
                       /\ byte[v] = IF LastGroup(v) THEN v % 128 ELSE (v % 128) + 128
    OBVIOUS
  <1> HIDE DEF Base, next, byte, size
  <1>4. PICK f : IsGroups(f, Int, Base, next, byte)
    BY <1>1, <1>2, GroupsExist
  <1>5. \A v \in Int : f[v] = IF LastGroup(v) THEN <<v % 128>> ELSE <<(v % 128) + 128>> \o f[v \div 128]
    <2> TAKE v \in Int
    <2>1. f[v] = IF v \in Base THEN <<byte[v]>> ELSE <<byte[v]>> \o f[next[v]]
      BY <1>4 DEF IsGroups, GroupsOf
    <2>2. CASE LastGroup(v)
      BY <2>1, <2>2, <1>3
    <2>3. CASE ~ LastGroup(v)
      BY <2>1, <2>3, <1>3
    <2> QED BY <2>2, <2>3
  <1>6. f \in [Int -> Seq(Int)] /\ U(f)
    BY <1>4, <1>5 DEF IsGroups
  <1>7. sleb128_groups = CHOOSE g : U(g)
    BY Zenon DEF sleb128_groups, LastGroup
  <1>8. U(sleb128_groups)
    <2> HIDE DEF U
    <2> QED BY <1>6, <1>7, Zenon
  <1>9. \A v \in Int : sleb128_groups[v] = IF LastGroup(v) THEN <<v % 128>>
                                           ELSE <<(v % 128) + 128>> \o sleb128_groups[v \div 128]
    BY <1>8
  <1>10. ASSUME NEW v \in Int PROVE sleb128_groups[v] = f[v]
    <2> DEFINE Bad == {size[u] : u \in {x \in Int : sleb128_groups[x] # f[x]}}
    <2> SUFFICES ASSUME Bad # {} PROVE FALSE
      OBVIOUS
    <2>1. PICK b \in Bad : \A c \in Bad : b <= c
      <3>1. Bad \subseteq Nat
        BY <1>1
      <3> HIDE DEF Bad
      <3> QED BY <3>1, LeastNat
    <2>2. PICK u \in Int : size[u] = b /\ sleb128_groups[u] # f[u]
      BY <2>1
    <2>3. CASE LastGroup(u)
      BY <2>2, <2>3, <1>5, <1>9
    <2>4. CASE ~ LastGroup(u)
      <3> DEFINE w == u \div 128
      <3>1. w \in Int /\ size[w] < size[u] /\ size[w] \in Nat /\ size[u] \in Nat
        <4>1. w \in Int /\ u \notin Base /\ next[u] = w
          BY <2>4, <1>3
        <4> HIDE DEF w
        <4> QED BY <4>1, <1>1, <1>2
      <3>3. w = u \div 128
        OBVIOUS
      <3> HIDE DEF w
      <3>2. sleb128_groups[w] = f[w]
        BY <3>1, <2>1, <2>2
      <3>4. sleb128_groups[u] = <<(u % 128) + 128>> \o sleb128_groups[u \div 128]
        BY <2>2, <2>4, <1>9
      <3>5. f[u] = <<(u % 128) + 128>> \o f[u \div 128]
        BY <2>2, <2>4, <1>5
      <3> QED BY <2>2, <3>2, <3>3, <3>4, <3>5
    <2> QED BY <2>3, <2>4
  <1>11. sleb128_groups = f
    <2>1. sleb128_groups = [v \in Int |-> sleb128_groups[v]] /\ f = [v \in Int |-> f[v]]
      BY <1>6, <1>8
    <2> QED BY <2>1, <1>10
  <1> QED BY <1>6, <1>9, <1>11

-----------------------------------------------------------------------------
(* The options and the context at each place of main.                      *)

Options == [input : DOMAIN Contexts \cup {"none"}, format : {"elf64", "bin", "hex", "coff"},
            g : BOOLEAN, l : BOOLEAN, deps : BOOLEAN, E : BOOLEAN, werror : BOOLEAN,
            disassemble : BOOLEAN]
Shows == {"none", "usage", "rows", "text", "deps"}

MainInv ==
    /\ session \in Sessions /\ run \in 1..Len(session) /\ k \in 1..(Len(args) + 1)
    /\ opt \in Options /\ defines \in 0..MaxDefines /\ status \in {-1, 0, 1}
    /\ shown \in Shows
    /\ ctx \in Context

LEMMA ArgsTyped ==
    ASSUME MainInv
    PROVE  /\ Len(session) \in Nat /\ args \in Seq(STRING) /\ Len(args) \in Nat
           /\ \A n \in 1..Len(session) : session[n] \in Seq(STRING) /\ Len(session[n]) \in Nat
  <1>1. session \in Seq(Seq(STRING)) /\ run \in 1..Len(session)
    BY SessionsTyped DEF MainInv
  <1>2. \A n \in 1..Len(session) : session[n] \in Seq(STRING) /\ Len(session[n]) \in Nat
    BY <1>1
  <1> QED BY <1>1, <1>2 DEF args

LEMMA EmptyTyped == EmptyContext \in Context
  BY DEF EmptyContext, Context, Symbol, Row

LEMMA MainInit == Init => MainInv
  <1> SUFFICES ASSUME Init PROVE MainInv
    OBVIOUS
  <1>1. /\ session \in Sessions /\ run = 1 /\ k = 1 /\ opt = NoOptions /\ defines = 0
        /\ status = -1 /\ shown = "none" /\ ctx = EmptyContext
    BY DEF Init
  <1>2. session \in Seq(Seq(STRING)) /\ session # <<>>
    BY <1>1, SessionsTyped
  <1>3. run \in 1..Len(session)
    BY <1>1, <1>2
  <1>4. args \in Seq(STRING)
    BY <1>2, <1>3 DEF args
  <1>5. k \in 1..(Len(args) + 1)
    BY <1>1, <1>4
  <1>6. NoOptions \in Options
    BY DEF NoOptions, Options
  <1>7. defines \in 0..MaxDefines
    BY <1>1, DefinesNat
  <1> QED BY <1>1, <1>3, <1>5, <1>6, <1>7, EmptyTyped DEF MainInv, Shows

(* Steps that leave the arguments alone.                                   *)
LEMMA MainStays ==
    ASSUME MainInv, UNCHANGED <<session, run, opt>>, k' = k \/ k' \in 1..(Len(args) + 1),
           defines' = defines \/ defines' \in 0..MaxDefines,
           status' \in {-1, 0, 1}, shown' \in Shows, ctx' \in Context
    PROVE  MainInv'
  BY DEF MainInv, args

LEMMA SetsTyped ==
    ASSUME opt \in Options, NEW arg
    PROVE  Sets(arg) \in Options
  <1>1. ASSUME NEW v \in DOMAIN Contexts PROVE [opt EXCEPT !.input = v] \in Options
    BY DEF Options
  <1>2. ASSUME NEW v \in {"elf64", "bin", "hex", "coff"} PROVE [opt EXCEPT !.format = v] \in Options
    BY DEF Options
  <1>3. /\ [opt EXCEPT !.g = TRUE] \in Options /\ [opt EXCEPT !.l = TRUE] \in Options
        /\ [opt EXCEPT !.deps = TRUE] \in Options /\ [opt EXCEPT !.E = TRUE] \in Options
        /\ [opt EXCEPT !.werror = TRUE] \in Options /\ [opt EXCEPT !.disassemble = TRUE] \in Options
    BY DEF Options
  <1> HIDE DEF Options
  <1> QED BY <1>1, <1>2, <1>3 DEF Sets

LEMMA MainNext == IInv /\ MainInv /\ [Next]_vars => MainInv'
  <1> SUFFICES ASSUME IInv, MainInv, [Next]_vars PROVE MainInv'
    OBVIOUS
  <1>0. /\ status \in {-1, 0, 1} /\ shown \in Shows /\ ctx \in Context /\ Len(args) \in Nat
        /\ k \in 1..(Len(args) + 1) /\ defines \in 0..MaxDefines /\ opt \in Options
    BY ArgsTyped DEF MainInv
  <1>s. \A s \in {"none", "usage", "rows", "text", "deps"} : s \in Shows
    BY DEF Shows
  <1>1. CASE ReadOption
    <2>1. /\ opt' = Sets(args[k]) /\ k' = k + 1 /\ k <= Len(args)
          /\ UNCHANGED <<session, run, defines, status, shown, ctx>>
      BY <1>1 DEF ReadOption
    <2>2. k' \in 1..(Len(args) + 1)
      BY <1>0, <2>1
    <2>3. opt' \in Options
      BY <1>0, <2>1, SetsTyped
    <2> QED BY <1>0, <2>1, <2>2, <2>3 DEF MainInv, args
  <1>2. CASE \/ StopAtOption \/ Disassemble \/ NoInput \/ InvalidDefine \/ PreprocessOnly
             \/ AssembleFails \/ FatalWarning \/ Dependencies \/ OpenFails \/ UnknownFormat
             \/ ElfOverflow
    <2>1. /\ UNCHANGED <<session, run, opt, k, defines, ctx>> /\ status' \in {0, 1}
          /\ shown' = shown \/ shown' \in {"usage", "rows", "text", "deps"}
      BY <1>2 DEF StopAtOption, Disassemble, NoInput, InvalidDefine, PreprocessOnly, AssembleFails,
                  FatalWarning, Dependencies, OpenFails, UnknownFormat, ElfOverflow, FreeAndExit, Exit
    <2> QED BY <1>0, <1>s, <2>1, MainStays
  <1>3. CASE asm_init
    <2>1. /\ UNCHANGED <<session, run, opt, defines, shown, ctx>>
          /\ k' = k \/ k' = 1
          /\ status' = status \/ status' = 1
      BY <1>3 DEF asm_init, Exit
    <2>2. 1 \in 1..(Len(args) + 1)
      BY <1>0
    <2> QED BY <1>0, <2>1, <2>2, MainStays
  <1>4. CASE CollectDefine
    <2>1. /\ UNCHANGED <<session, run, opt, status, shown, ctx>> /\ k' = k + 1 /\ k <= Len(args)
          /\ defines' = defines \/ (defines < MaxDefines /\ defines' = defines + 1)
      BY <1>4 DEF CollectDefine, asm_ctx_add_cli_define
    <2>2. k' \in 1..(Len(args) + 1) /\ (defines' = defines \/ defines' \in 0..MaxDefines)
      BY <1>0, <2>1, DefinesNat
    <2> QED BY <1>0, <2>1, <2>2, MainStays
  <1>5. CASE Assemble
    <2>1. /\ UNCHANGED <<session, run, opt, k, defines, status, shown>>
          /\ ctx' \in Contexts[opt.input] /\ pc = "defines"
      BY <1>5 DEF Assemble
    <2>2. opt.input \in DOMAIN Contexts
      BY <1>0, <2>1 DEF IInv, PhaseInv, Options
    <2>3. ctx' \in Context
      BY <2>1, <2>2, ContextsTyped
    <2> QED BY <1>0, <2>1, <2>3, MainStays
  <1>6. CASE BeginOutput \/ WriteFlat \/ OpenElf \/ BuildElf \/ WriteElf
    <2>1. UNCHANGED <<session, run, opt, k, defines, status, shown, ctx>>
      BY <1>6 DEF BeginOutput, WriteFlat, OpenElf, BuildElf, WriteElf, driver_vars
    <2> QED BY <1>0, <2>1, MainStays
  <1>7. CASE WriteDebugMap \/ WriteListing
    <2>1. /\ UNCHANGED <<session, run, opt, k, defines, shown, ctx>>
          /\ status' = status \/ status' \in {0, 1}
      BY <1>7 DEF WriteDebugMap, WriteListing, WriteBeside, FreeAndExit, Exit
    <2> QED BY <1>0, <2>1, MainStays
  <1>8. CASE NextInvocation
    <2>1. /\ run < Len(session) /\ run' = run + 1 /\ k' = 1 /\ opt' = NoOptions /\ defines' = 0
          /\ status' = -1 /\ shown' = "none" /\ ctx' = EmptyContext /\ session' = session
      BY <1>8 DEF NextInvocation
    <2>2. run' \in 1..Len(session)
      BY <2>1, ArgsTyped DEF MainInv
    <2>3. args' = session[run'] /\ Len(session[run']) \in Nat
      BY <2>1, <2>2, ArgsTyped DEF args
    <2>4. k' \in 1..(Len(args') + 1)
      BY <2>1, <2>3
    <2>5. NoOptions \in Options
      BY DEF NoOptions, Options
    <2>6. defines' \in 0..MaxDefines
      BY <2>1, DefinesNat
    <2>7. session' \in Sessions /\ run' \in 1..Len(session')
      BY <2>1, <2>2 DEF MainInv
    <2> QED BY <1>s, <2>1, <2>4, <2>5, <2>6, <2>7, EmptyTyped DEF MainInv
  <1>9. CASE Finished \/ UNCHANGED vars
    <2>1. UNCHANGED <<session, run, opt, k, defines, status, shown, ctx>>
      BY <1>9 DEF Finished, vars, driver_vars
    <2> QED BY <1>0, <2>1, MainStays
  <1> QED BY <1>1, <1>2, <1>3, <1>4, <1>5, <1>6, <1>7, <1>8, <1>9 DEF Next

-----------------------------------------------------------------------------
(* The buffers of the debug information.                                   *)

Stages == {"idle", "dwarf", "index", "sort_functions", "sort_labels", "info", "functions",
           "labels", "line", "rows", "layout", "overflow", "written"}
Indices == 1..Len(ctx.symbols)
LineState == [size : 0..LineCapacity, addr : Nat, at : Int, program : Seq(Int)]
Die == [kind : {"function", "label"}, symbol : Nat, low_pc : Nat, span : Nat]

DwarfInv ==
    /\ stage \in Stages
    /\ i \in Nat \ {0} /\ j \in Nat \ {0}
    /\ functions \in Seq(Indices) /\ labels \in Seq(Indices)
    /\ str_size \in 0..StrCapacity /\ info_size \in 0..InfoCapacity /\ line \in LineState
    /\ dies \in Seq(Die)
    /\ stage \in {"idle", "dwarf"} => functions = <<>> /\ labels = <<>> /\ dies = <<>>

LEMMA CtxFields ==
    ASSUME ctx \in Context
    PROVE  /\ ctx.text_size \in Nat /\ ctx.data_size \in Nat /\ ctx.name_len \in Nat
           /\ ctx.dir_len \in Nat /\ ctx.base_len \in Nat
           /\ ctx.symbols \in Seq(Symbol) /\ ctx.line_map \in Seq(Row)
           /\ text_end \in Nat /\ base_address \in Nat /\ text_end = base_address + ctx.text_size
           /\ Len(ctx.symbols) \in Nat /\ DOMAIN ctx.symbols = Indices
  <1>1. /\ ctx.text_size \in Nat /\ ctx.data_size \in Nat /\ ctx.name_len \in Nat
        /\ ctx.dir_len \in Nat /\ ctx.base_len \in Nat
        /\ ctx.symbols \in Seq(Symbol) /\ ctx.line_map \in Seq(Row)
    BY DEF Context
  <1>2. base_address \in Nat
    BY DEF base_address
  <1>3. text_end \in Nat /\ text_end = base_address + ctx.text_size
    BY <1>1, <1>2 DEF text_end
  <1> QED BY <1>1, <1>2, <1>3 DEF Indices

LEMMA SymbolFields ==
    ASSUME ctx \in Context, NEW n \in Indices
    PROVE  /\ ctx.symbols[n] \in Symbol
           /\ ctx.symbols[n].len \in Nat /\ ctx.symbols[n].address \in Nat
           /\ ctx.symbols[n].line \in Nat /\ ctx.symbols[n].column \in Nat
           /\ ctx.symbols[n].function \in BOOLEAN
           /\ addressOf(n) \in Nat
  <1>1. ctx.symbols[n] \in Symbol
    BY CtxFields DEF Indices
  <1> QED BY <1>1 DEF Symbol, addressOf

LEMMA UlebTyped ==
    ASSUME NEW v \in Nat
    PROVE  uleb128[v] \in Seq(Int) /\ Len(uleb128[v]) \in Nat
  BY UlebGroups

LEMMA DieSizes ==
    ASSUME ctx \in Context, NEW n \in Indices, NEW kind
    PROVE  DieSize(ctx.symbols[n], kind) \in Nat
  <1> DEFINE s == ctx.symbols[n]
  <1>1. s.line \in Nat /\ s.column \in Nat
    BY SymbolFields
  <1> HIDE DEF s
  <1>2. AtLeast1(s.line) \in Nat /\ AtLeast1(s.column) \in Nat
    BY <1>1 DEF AtLeast1
  <1>3. Len(uleb128[AtLeast1(s.line)]) \in Nat /\ Len(uleb128[AtLeast1(s.column)]) \in Nat
    BY <1>2, UlebTyped
  <1>4. Position(s) \in Nat
    <2> DEFINE a == Len(uleb128[AtLeast1(s.line)])
               b == Len(uleb128[AtLeast1(s.column)])
    <2>1. Position(s) = a + b
      BY DEF Position
    <2>2. a \in Nat /\ b \in Nat
      BY <1>3
    <2> HIDE DEF a, b
    <2> QED BY <2>1, <2>2
  <1>5. Position(s) + (IF kind = "function" THEN 45 ELSE 14) \in Nat
    BY <1>4
  <1> QED BY <1>5 DEF DieSize, s

LEMMA DwarfStays ==
    ASSUME DwarfInv, ctx' = ctx, UNCHANGED <<i, j, functions, labels, str_size, dies, info_size, line>>,
           stage' \in Stages \ {"idle", "dwarf"}
    PROVE  DwarfInv'
  BY DEF DwarfInv, Indices

LEMMA OverflowKeeps ==
    ASSUME DwarfInv, ctx' = ctx, dwarf_overflow
    PROVE  DwarfInv'
  <1>1. stage' = "overflow" /\ UNCHANGED <<i, j, functions, labels, str_size, dies, info_size, line>>
    BY DEF dwarf_overflow
  <1> QED BY <1>1, DwarfStays DEF Stages

LEMMA BeginDwarfKeeps ==
    ASSUME DwarfInv, ctx \in Context, ctx' = ctx, BeginDwarf
    PROVE  DwarfInv'
  <1>1. CASE dwarf_overflow
    BY <1>1, OverflowKeeps
  <1>2. CASE /\ StringsBefore <= StrCapacity
             /\ str_size' = StringsBefore /\ stage' = "index" /\ i' = 1
             /\ UNCHANGED <<j, functions, labels, dies, info_size, line>>
    <2>1. StringsBefore \in Nat
      <3>1. ctx.name_len \in Nat /\ ctx.dir_len \in Nat
        BY CtxFields
      <3> QED BY <3>1 DEF StringsBefore
    <2>2. str_size' \in 0..StrCapacity
      BY <1>2, <2>1, CapacitiesNat
    <2> QED BY <1>2, <2>2 DEF DwarfInv, Stages, Indices
  <1> QED BY <1>1, <1>2 DEF BeginDwarf

LEMMA IndexSymbolKeeps ==
    ASSUME DwarfInv, ctx \in Context, ctx' = ctx, IndexSymbol
    PROVE  DwarfInv'
  <1> DEFINE s == ctx.symbols[i]
  <1>0. i \in Indices /\ stage = "index" /\ s.len \in Nat /\ Len(ctx.symbols) \in Nat
    <2>1. i \in Indices
      BY CtxFields DEF DwarfInv, IndexSymbol, Indices
    <2> QED BY <2>1, CtxFields, SymbolFields DEF IndexSymbol
  <1>1. CASE dwarf_overflow
    BY <1>1, OverflowKeeps
  <1>2. CASE i' = i + 1 /\ UNCHANGED <<j, functions, labels, str_size, dies, info_size, line, stage>>
    <2>1. i' \in Nat \ {0}
      BY <1>2 DEF DwarfInv
    <2> QED BY <1>2, <2>1 DEF DwarfInv, Indices
  <1>3. CASE /\ str_size + s.len + 1 <= StrCapacity
             /\ str_size' = str_size + s.len + 1 /\ i' = i + 1
             /\ functions' = IF s.function THEN Append(functions, i) ELSE functions
             /\ labels' = IF s.function THEN labels ELSE Append(labels, i)
             /\ UNCHANGED <<j, dies, info_size, line, stage>>
    <2>1. i' \in Nat \ {0}
      BY <1>3 DEF DwarfInv
    <2>2. str_size' \in 0..StrCapacity
      <3>1. str_size \in Nat /\ StrCapacity \in Nat
        BY CapacitiesNat DEF DwarfInv
      <3>2. s.len \in Nat /\ str_size' = str_size + s.len + 1 /\ str_size' <= StrCapacity
        BY <1>0, <1>3
      <3> HIDE DEF s
      <3> QED BY <3>1, <3>2
    <2>3. Append(functions, i) \in Seq(Indices) /\ Append(labels, i) \in Seq(Indices)
      BY <1>0 DEF DwarfInv
    <2>4. functions' \in Seq(Indices) /\ labels' \in Seq(Indices) /\ Indices' = Indices
      BY <1>3, <2>3 DEF DwarfInv, Indices
    <2> QED BY <1>0, <1>3, <2>1, <2>2, <2>4 DEF DwarfInv
  <1> QED BY <1>1, <1>2, <1>3 DEF IndexSymbol

(* The index of the first symbol called _start.                            *)
LEMMA StartOnlyTyped ==
    ASSUME DwarfInv, ctx \in Context
    PROVE  /\ StartOnly \in Seq(Indices)
           /\ StartOnly # functions => StartOnly \in Seq(Indices) /\ StartOnly[1] \in Indices
  <1> DEFINE found == {n \in DOMAIN ctx.symbols :
                          ctx.symbols[n].section = 0 /\ ctx.symbols[n].name = "_start"}
             first == CHOOSE n \in found : \A m \in found : n <= m
  <1>1. CASE functions = <<>> /\ found # {}
    <2>1. found \subseteq Nat /\ found \subseteq Indices
      BY CtxFields DEF Indices
    <2>2. \E n \in found : \A m \in found : n <= m
      <3> HIDE DEF found
      <3> QED BY <1>1, <2>1, LeastNat
    <2>3. first \in found
      <3> HIDE DEF found
      <3> QED BY <2>2
    <2>4. StartOnly = <<first>>
      BY <1>1 DEF StartOnly
    <2> HIDE DEF first, found
    <2>5. first \in Indices
      BY <2>1, <2>3
    <2> QED BY <2>4, <2>5
  <1>2. CASE ~ (functions = <<>> /\ found # {})
    <2>1. StartOnly = functions
      BY <1>2 DEF StartOnly
    <2> QED BY <2>1 DEF DwarfInv
  <1> QED BY <1>1, <1>2

LEMMA EnsureStartKeeps ==
    ASSUME DwarfInv, ctx \in Context, ctx' = ctx, EnsureStart
    PROVE  DwarfInv'
  <1> DEFINE added == IF StartOnly # functions /\ ~ (\E n \in DOMAIN labels : labels[n] = StartOnly[1])
                      THEN ctx.symbols[StartOnly[1]].len + 1 ELSE 0
  <1>0. added \in Nat
    <2>1. CASE StartOnly # functions
      <3>1. ctx.symbols[StartOnly[1]].len \in Nat
        BY <2>1, StartOnlyTyped, SymbolFields
      <3> QED BY <3>1
    <2>2. CASE StartOnly = functions
      BY <2>2
    <2> QED BY <2>1, <2>2
  <1>1. CASE dwarf_overflow
    BY <1>1, OverflowKeeps
  <1>2. CASE /\ str_size + added <= StrCapacity
             /\ str_size' = str_size + added
             /\ functions' = StartOnly /\ i' = 1 /\ j' = 2 /\ stage' = "sort_functions"
             /\ UNCHANGED <<labels, dies, info_size, line>>
    <2> HIDE DEF added
    <2>1. str_size' \in 0..StrCapacity
      BY <1>0, <1>2, CapacitiesNat DEF DwarfInv
    <2>2. functions' \in Seq(Indices) /\ Indices' = Indices
      BY <1>2, StartOnlyTyped DEF Indices
    <2> QED BY <1>2, <2>1, <2>2 DEF DwarfInv, Stages
  <1> QED BY <1>1, <1>2 DEF EnsureStart

LEMMA ExchangeTyped ==
    ASSUME NEW S, NEW list \in Seq(S), i \in 1..Len(list), j \in 1..Len(list)
    PROVE  Exchange(list) \in Seq(S) /\ Len(Exchange(list)) = Len(list)
  BY DEF Exchange

LEMMA SortKeeps ==
    ASSUME DwarfInv, ctx \in Context, ctx' = ctx, SortFunctions \/ SortLabels
    PROVE  DwarfInv'
  <1>0. i \in Nat \ {0} /\ j \in Nat \ {0} /\ Indices' = Indices
        /\ Len(functions) \in Nat /\ Len(labels) \in Nat
    BY DEF DwarfInv, Indices
  <1>1. /\ stage' \in Stages \ {"idle", "dwarf"} /\ i' \in Nat \ {0} /\ j' \in Nat \ {0}
        /\ UNCHANGED <<str_size, dies, info_size, line>>
    BY <1>0 DEF SortFunctions, SortLabels, Sort, Stages
  <1>2. functions' \in Seq(Indices)
    <2>1. functions' = functions \/ (functions' = Exchange(functions) /\ i <= Len(functions) /\ j <= Len(functions))
      BY DEF SortFunctions, SortLabels, Sort
    <2> QED BY <1>0, <2>1, ExchangeTyped DEF DwarfInv
  <1>3. labels' \in Seq(Indices)
    <2>1. labels' = labels \/ (labels' = Exchange(labels) /\ i <= Len(labels) /\ j <= Len(labels))
      BY DEF SortFunctions, SortLabels, Sort
    <2> QED BY <1>0, <2>1, ExchangeTyped DEF DwarfInv
  <1> QED BY <1>0, <1>1, <1>2, <1>3 DEF DwarfInv

(* One more entry of debug_info.                                           *)
LEMMA InfoKeeps ==
    ASSUME DwarfInv, ctx' = ctx, NEW size \in Nat, NEW entries \in Seq(Die),
           \/ info_size + size > InfoCapacity /\ dwarf_overflow
           \/ /\ info_size + size <= InfoCapacity
              /\ info_size' = info_size + size /\ dies' = dies \o entries
              /\ i' \in Nat \ {0} /\ stage' \in Stages \ {"idle", "dwarf"}
              /\ UNCHANGED <<j, functions, labels, str_size, line>>
    PROVE  DwarfInv'
  <1>1. CASE dwarf_overflow
    BY <1>1, OverflowKeeps
  <1>2. CASE ~ dwarf_overflow
    <2>1. info_size' \in 0..InfoCapacity
      BY <1>2, CapacitiesNat DEF DwarfInv
    <2>2. dies' \in Seq(Die)
      <3>1. dies \in Seq(Die) /\ dies' = dies \o entries
        BY <1>2 DEF DwarfInv
      <3> HIDE DEF Die
      <3> QED BY <3>1
    <2> QED BY <1>2, <2>1, <2>2 DEF DwarfInv, Indices
  <1> QED BY <1>1, <1>2

LEMMA SpanTyped ==
    ASSUME DwarfInv, ctx \in Context, NEW n \in 1..Len(functions)
    PROVE  span(n) \in Nat /\ functions[n] \in Indices /\ addressOf(functions[n]) \in Nat
  <1>1. functions[n] \in Indices
    BY DEF DwarfInv
  <1>2. addressOf(functions[n]) \in Nat
    BY <1>1, SymbolFields
  <1>3. n < Len(functions) => addressOf(functions[n + 1]) \in Nat
    <2>1. n < Len(functions) => functions[n + 1] \in Indices
      BY DEF DwarfInv
    <2> QED BY <2>1, SymbolFields
  <1> DEFINE next == IF n < Len(functions) THEN addressOf(functions[n + 1]) ELSE text_end
  <1>4. next \in Nat
    BY <1>3, CtxFields
  <1>5. span(n) = IF next > addressOf(functions[n]) THEN next - addressOf(functions[n]) ELSE 0
    BY DEF span
  <1> HIDE DEF next
  <1> QED BY <1>1, <1>2, <1>4, <1>5

FunctionDie(n) == [kind |-> "function", symbol |-> functions[n],
                   low_pc |-> addressOf(functions[n]), span |-> span(n)]
LabelDie(n) == [kind |-> "label", symbol |-> labels[n], low_pc |-> addressOf(labels[n]), span |-> 0]

LEMMA DieTyped ==
    ASSUME DwarfInv, ctx \in Context
    PROVE  /\ \A n \in 1..Len(functions) : FunctionDie(n) \in Die
           /\ \A n \in 1..Len(labels) : LabelDie(n) \in Die
  <1>1. ASSUME NEW n \in 1..Len(functions) PROVE FunctionDie(n) \in Die
    <2>1. span(n) \in Nat /\ functions[n] \in Nat /\ addressOf(functions[n]) \in Nat
      BY SpanTyped DEF Indices
    <2> QED BY <2>1 DEF FunctionDie, Die
  <1>2. ASSUME NEW n \in 1..Len(labels) PROVE LabelDie(n) \in Die
    <2>1. labels[n] \in Indices
      BY DEF DwarfInv
    <2>2. labels[n] \in Nat /\ addressOf(labels[n]) \in Nat
      BY <2>1, SymbolFields DEF Indices
    <2> QED BY <2>2 DEF LabelDie, Die
  <1> QED BY <1>1, <1>2

LEMMA EmitKeeps ==
    ASSUME DwarfInv, ctx \in Context, ctx' = ctx,
           BeginInfo \/ EmitFunction \/ EndFunctions \/ EmitLabel \/ EndInfo
    PROVE  DwarfInv'
  <1>0. i \in Nat \ {0} /\ i + 1 \in Nat \ {0} /\ 1 \in Nat \ {0}
        /\ {"functions", "labels", "line"} \subseteq Stages \ {"idle", "dwarf"}
    BY DEF DwarfInv, Stages
  <1>1. CASE BeginInfo
    <2>1. InfoHeader \in Nat /\ <<>> \in Seq(Die)
      BY DEF InfoHeader
    <2> QED BY <1>0, <1>1, <2>1, InfoKeeps DEF BeginInfo, AppendInfo
  <1>2. CASE EmitFunction
    <2>1. i \in 1..Len(functions) /\ stage = "functions"
      BY <1>0, <1>2 DEF EmitFunction, DwarfInv
    <2>2. DieSize(ctx.symbols[functions[i]], "function") \in Nat
      BY <2>1, SpanTyped, DieSizes
    <2>3. <<FunctionDie(i)>> \in Seq(Die)
      BY <2>1, DieTyped
    <2> DEFINE size == DieSize(ctx.symbols[functions[i]], "function")
               entries == <<FunctionDie(i)>>
    <2>4. AppendInfo(size, entries, i' = i + 1 /\ stage' = stage)
      BY <1>2, Zenon DEF EmitFunction, FunctionDie
    <2>5. size \in Nat /\ entries \in Seq(Die)
      BY <2>2, <2>3
    <2> HIDE DEF size, entries
    <2> QED BY <1>0, <2>1, <2>4, <2>5, InfoKeeps DEF AppendInfo
  <1>3. CASE EndFunctions
    BY <1>0, <1>3 DEF EndFunctions, DwarfInv, Indices
  <1>4. CASE EmitLabel
    <2>1. i \in 1..Len(labels) /\ stage = "labels"
      BY <1>0, <1>4 DEF EmitLabel, DwarfInv
    <2>2. labels[i] \in Indices
      BY <2>1 DEF DwarfInv
    <2>3. DieSize(ctx.symbols[labels[i]], "label") \in Nat
      BY <2>2, DieSizes
    <2>4. <<LabelDie(i)>> \in Seq(Die)
      BY <2>1, DieTyped
    <2> DEFINE size == DieSize(ctx.symbols[labels[i]], "label")
               entries == <<LabelDie(i)>>
    <2>5. AppendInfo(size, entries, i' = i + 1 /\ stage' = stage)
      BY <1>4, Zenon DEF EmitLabel, LabelDie
    <2>6. size \in Nat /\ entries \in Seq(Die)
      BY <2>3, <2>4
    <2> HIDE DEF size, entries
    <2> QED BY <1>0, <2>1, <2>5, <2>6, InfoKeeps DEF AppendInfo
  <1>5. CASE EndInfo
    <2>1. <<>> \in Seq(Die)
      OBVIOUS
    <2> QED BY <1>0, <1>5, <2>1, InfoKeeps DEF EndInfo, AppendInfo
  <1> QED BY <1>1, <1>2, <1>3, <1>4, <1>5

(* The line program.                                                       *)
LEMMA LineKeeps ==
    ASSUME DwarfInv, ctx' = ctx, NEW bytes \in Seq(Int), NEW addr \in Nat, NEW at \in Int,
           \/ line.size + Len(bytes) > LineCapacity /\ dwarf_overflow
           \/ /\ line.size + Len(bytes) <= LineCapacity
              /\ line' = Written(bytes, addr, at)
              /\ i' \in Nat \ {0} /\ stage' \in Stages \ {"idle", "dwarf"}
              /\ UNCHANGED <<j, functions, labels, str_size, dies, info_size>>
    PROVE  DwarfInv'
  <1>1. CASE dwarf_overflow
    BY <1>1, OverflowKeeps
  <1>2. CASE ~ dwarf_overflow
    <2>1. line.size \in Nat /\ line.program \in Seq(Int) /\ LineCapacity \in Nat
      BY CapacitiesNat DEF DwarfInv, LineState
    <2>2. line.size + Len(bytes) \in 0..LineCapacity
      <3>1. Len(bytes) \in Nat /\ line.size + Len(bytes) <= LineCapacity
        BY <1>2
      <3> QED BY <2>1, <3>1
    <2>3. line.program \o bytes \in Seq(Int)
      BY <2>1
    <2>4. line' \in LineState
      <3> DEFINE n == line.size + Len(bytes)
                 p == line.program \o bytes
      <3>1. line' = [size |-> n, addr |-> addr, at |-> at, program |-> p]
        BY <1>2 DEF Written
      <3>2. n \in 0..LineCapacity /\ p \in Seq(Int)
        BY <2>2, <2>3
      <3> HIDE DEF n, p
      <3> QED BY <3>2, <3>1 DEF LineState
    <2> QED BY <1>2, <2>4 DEF DwarfInv, Indices, LineState
  <1> QED BY <1>1, <1>2

LEMMA RowFields ==
    ASSUME ctx \in Context, NEW n \in 1..Len(ctx.line_map)
    PROVE  ctx.line_map[n].address \in Nat /\ ctx.line_map[n].line \in Nat \ {0}
  <1>1. ctx.line_map[n] \in Row
    BY CtxFields
  <1> QED BY <1>1 DEF Row

LEMMA SlebTyped ==
    ASSUME NEW v \in Int
    PROVE  sleb128(v) \in Seq(Int)
  BY SlebGroups DEF sleb128

LEMMA AddressBytes ==
    ASSUME NEW a \in Nat, NEW b \in Nat, a > b
    PROVE  <<DW_LNS_advance_pc>> \o uleb128[a - b] \in Seq(Int)
  <1>1. uleb128[a - b] \in Seq(Int)
    BY UlebTyped
  <1>2. <<DW_LNS_advance_pc>> \in Seq(Int)
    BY DEF DW_LNS_advance_pc
  <1> QED BY <1>1, <1>2

LEMMA RowBytesTyped ==
    ASSUME DwarfInv, NEW row, row.address \in Nat, row.line \in Nat \ {0}
    PROVE  RowBytes(row) \in Seq(Int) /\ AtLeast1(row.line) = row.line
  <1>1. line.addr \in Nat /\ line.at \in Int
    BY DEF DwarfInv, LineState
  <1>2. AtLeast1(row.line) = row.line
    BY DEF AtLeast1
  <1> DEFINE first == IF row.address > line.addr
                      THEN <<DW_LNS_advance_pc>> \o uleb128[row.address - line.addr] ELSE <<>>
             second == IF row.line # line.at
                       THEN <<DW_LNS_advance_line>> \o sleb128(row.line - line.at) ELSE <<>>
  <1>3. first \in Seq(Int)
    BY <1>1, AddressBytes
  <1>4. second \in Seq(Int)
    <2>1. row.line - line.at \in Int
      BY <1>1
    <2>2. sleb128(row.line - line.at) \in Seq(Int)
      BY <2>1, SlebTyped
    <2>3. <<DW_LNS_advance_line>> \in Seq(Int)
      BY DEF DW_LNS_advance_line
    <2> QED BY <2>2, <2>3
  <1>5. <<DW_LNS_copy>> \in Seq(Int)
    BY DEF DW_LNS_copy
  <1>6. RowBytes(row) = first \o second \o <<DW_LNS_copy>>
    BY <1>2, Zenon DEF RowBytes
  <1> HIDE DEF first, second
  <1>7. first \o second \in Seq(Int)
    BY <1>3, <1>4
  <1> QED BY <1>2, <1>5, <1>6, <1>7

LEMMA RowsKeep ==
    ASSUME DwarfInv, ctx \in Context, ctx' = ctx, BeginLine \/ EmitRow \/ EndRows
    PROVE  DwarfInv'
  <1>0. /\ i \in Nat \ {0} /\ line.addr \in Nat /\ line.at \in Int /\ text_end \in Nat
        /\ {"rows", "layout"} \subseteq Stages \ {"idle", "dwarf"}
        /\ Len(ctx.line_map) \in Nat
    BY CtxFields DEF DwarfInv, Stages, LineState
  <1>1. CASE BeginLine
    <2>1. CASE dwarf_overflow
      BY <2>1, OverflowKeeps
    <2>2. CASE /\ LineHeader <= LineCapacity
               /\ line' = [size |-> LineHeader, addr |-> base_address, at |-> 1, program |-> <<>>]
               /\ stage' = "rows" /\ i' = 1
               /\ UNCHANGED <<j, functions, labels, str_size, dies, info_size>>
      <3>1. LineHeader \in Nat
        <4>1. ctx.dir_len \in Nat /\ ctx.base_len \in Nat
          BY CtxFields
        <4> QED BY <4>1 DEF LineHeader
      <3>2. LineHeader \in 0..LineCapacity
        BY <2>2, <3>1, CapacitiesNat
      <3>3. line' \in LineState
        <4>1. base_address \in Nat /\ <<>> \in Seq(Int)
          BY CtxFields
        <4> HIDE DEF LineHeader, base_address
        <4> QED BY <2>2, <3>2, <4>1 DEF LineState
      <3> QED BY <1>0, <2>2, <3>3 DEF DwarfInv, Indices, LineState
    <2> QED BY <1>1, <2>1, <2>2 DEF BeginLine
  <1>2. CASE EmitRow
    <2> DEFINE row == ctx.line_map[i]
               bytes == RowBytes(row)
               to == IF row.address > line.addr THEN row.address ELSE line.addr
               at == AtLeast1(row.line)
    <2>1. i \in 1..Len(ctx.line_map) /\ stage = "rows"
      BY <1>0, <1>2 DEF EmitRow
    <2>2. row.address \in Nat /\ row.line \in Nat \ {0}
      BY <2>1, RowFields
    <2>3. bytes \in Seq(Int) /\ to \in Nat /\ at \in Int
      <3> HIDE DEF row
      <3> QED BY <1>0, <2>2, RowBytesTyped
    <2>4. AppendLine(bytes, line' = Written(bytes, to, at) /\ i' = i + 1 /\ stage' = stage)
      BY <1>2, Zenon DEF EmitRow
    <2>5. i + 1 \in Nat \ {0} /\ stage \in Stages \ {"idle", "dwarf"}
      BY <1>0, <2>1
    <2> HIDE DEF bytes, to, at
    <2> QED BY <2>3, <2>4, <2>5, LineKeeps DEF AppendLine
  <1>3. CASE EndRows
    <2> DEFINE last == IF line.addr < text_end
                       THEN <<DW_LNS_advance_pc>> \o uleb128[text_end - line.addr] \o <<DW_LNS_copy>>
                       ELSE <<>>
               bytes == last \o DW_LNE_end_sequence
    <2>1. last \in Seq(Int)
      <3>1. CASE line.addr < text_end
        <4>1. <<DW_LNS_advance_pc>> \o uleb128[text_end - line.addr] \in Seq(Int)
          BY <1>0, <3>1, AddressBytes
        <4>2. <<DW_LNS_copy>> \in Seq(Int)
          BY DEF DW_LNS_copy
        <4>3. (<<DW_LNS_advance_pc>> \o uleb128[text_end - line.addr]) \o <<DW_LNS_copy>> \in Seq(Int)
          BY <4>1, <4>2
        <4> QED BY <3>1, <4>3
      <3>2. CASE ~ (line.addr < text_end)
        BY <3>2
      <3> QED BY <3>1, <3>2
    <2>2. DW_LNE_end_sequence \in Seq(Int)
      BY DEF DW_LNE_end_sequence
    <2>3. AppendLine(bytes, line' = Written(bytes, text_end, line.at)
                            /\ stage' = "layout" /\ UNCHANGED i)
      BY <1>3, Zenon DEF EndRows
    <2> HIDE DEF last
    <2>4. bytes \in Seq(Int)
      BY <2>1, <2>2
    <2> HIDE DEF bytes
    <2> QED BY <1>0, <2>3, <2>4, LineKeeps DEF AppendLine
  <1> QED BY <1>1, <1>2, <1>3

LEMMA EmptyBuffers ==
    ASSUME Idle
    PROVE  DwarfInv
  <1>1. 0 \in 0..StrCapacity /\ 0 \in 0..InfoCapacity /\ 0 \in 0..LineCapacity
    BY CapacitiesNat
  <1>2. line \in LineState
    BY <1>1 DEF Idle, LineState
  <1> QED BY <1>1, <1>2 DEF Idle, DwarfInv, Stages

LEMMA DwarfNext == IInv /\ MainInv /\ DwarfInv /\ [Next]_vars => DwarfInv'
  <1> SUFFICES ASSUME IInv, MainInv, DwarfInv, [Next]_vars PROVE DwarfInv'
    OBVIOUS
  <1>0. ctx \in Context
    BY DEF MainInv
  <1>1. CASE ctx' = ctx /\ UNCHANGED elf_vars
    BY <1>1 DEF DwarfInv, elf_vars, Indices
  <1>2. CASE Assemble
    <2>1. UNCHANGED elf_vars /\ stage = "idle"
      BY <1>2 DEF Assemble, IInv, PhaseInv, Unwritten
    <2>2. functions = <<>> /\ labels = <<>>
      BY <2>1 DEF DwarfInv
    <2> QED BY <2>1, <2>2 DEF DwarfInv, elf_vars
  <1>3. CASE OpenElf
    <2>1. /\ stage' \in {"dwarf", "layout"} /\ ctx' = ctx /\ stage = "idle"
          /\ UNCHANGED <<i, j, functions, labels, str_size, dies, info_size, line>>
      BY <1>3 DEF OpenElf, IInv, PhaseInv, Unwritten
    <2> QED BY <2>1 DEF DwarfInv, Stages, Indices
  <1>4. CASE BuildElf
    <2>1. BuildDwarf /\ ctx' = ctx
      BY <1>4 DEF BuildElf
    <2> QED BY <1>0, <2>1, BeginDwarfKeeps, IndexSymbolKeeps, EnsureStartKeeps, SortKeeps, EmitKeeps,
               RowsKeep DEF BuildDwarf
  <1>5. CASE WriteElf
    <2>1. /\ stage' = "written" /\ ctx' = ctx
          /\ UNCHANGED <<i, j, functions, labels, str_size, dies, info_size, line>>
      BY <1>5 DEF WriteElf
    <2> QED BY <2>1, DwarfStays DEF Stages
  <1>6. CASE NextInvocation
    <2>1. Idle'
      BY <1>6 DEF NextInvocation, Idle
    <2>2. 0 \in 0..StrCapacity /\ 0 \in 0..InfoCapacity /\ 0 \in 0..LineCapacity
      BY CapacitiesNat
    <2>3. line' \in LineState
      BY <2>1, <2>2 DEF Idle, LineState
    <2> QED BY <2>1, <2>2, <2>3 DEF Idle, DwarfInv, Stages, LineState
  <1>7. CASE \/ ReadOption \/ StopAtOption \/ Disassemble \/ NoInput \/ asm_init
             \/ CollectDefine \/ InvalidDefine \/ PreprocessOnly \/ AssembleFails
             \/ FatalWarning \/ Dependencies \/ BeginOutput
             \/ OpenFails \/ UnknownFormat \/ WriteFlat \/ ElfOverflow
    <2>1. ctx' = ctx /\ UNCHANGED elf_vars
      BY <1>7 DEF ReadOption, StopAtOption, Disassemble, NoInput, asm_init, CollectDefine, InvalidDefine,
                  PreprocessOnly, AssembleFails, FatalWarning, Dependencies, BeginOutput, OpenFails,
                  UnknownFormat, WriteFlat, ElfOverflow
    <2> QED BY <1>1, <2>1
  <1>8. CASE WriteDebugMap \/ WriteListing \/ Finished \/ UNCHANGED vars
    <2>1. ctx' = ctx /\ UNCHANGED elf_vars
      BY <1>8 DEF WriteDebugMap, WriteListing, WriteBeside, Finished, vars
    <2> QED BY <1>1, <2>1
  <1> QED BY <1>2, <1>3, <1>4, <1>5, <1>6, <1>7, <1>8 DEF Next

LEMMA TypedHolds == Spec => [](IInv /\ MainInv /\ DwarfInv)
  <1>1. Init => IInv /\ MainInv /\ DwarfInv
    BY InitInv, MainInit, EmptyBuffers DEF Init
  <1>2. (IInv /\ MainInv /\ DwarfInv) /\ [Next]_vars => (IInv /\ MainInv /\ DwarfInv)'
    BY NextInv, MainNext, DwarfNext
  <1> QED BY <1>1, <1>2, PTL DEF Spec

(* For every session and every context the assembly may leave, whatever the lengths of its
   names, its symbols and its lines are: the options and the arguments stay what main may
   read, at most MaxDefines definitions are kept, and no append of asm_write_elf64 goes
   past the end of the three buffers of the debug information. *)
THEOREM DriverTyped == Spec => []TypeOK
  <1>1. IInv /\ MainInv /\ DwarfInv => TypeOK
    <2> SUFFICES ASSUME IInv, MainInv, DwarfInv PROVE TypeOK
      OBVIOUS
    <2>1. DOMAIN opt = DOMAIN NoOptions
      BY DEF MainInv, Options, NoOptions
    <2>2. line.size \in 0..LineCapacity
      BY DEF DwarfInv, LineState
    <2>3. pc \in {"options", "defines", "assembled", "write", "elf", "dbg", "lst", "exit"}
      BY DEF IInv, Unwritten
    <2> QED BY <2>1, <2>2, <2>3 DEF TypeOK, MainInv, IInv, FilesInv, DwarfInv, Stages, Shows
  <1> QED BY <1>1, TypedHolds, PTL

-----------------------------------------------------------------------------
(* The layout of the image.                                                *)

LEMMA OffsetsAdd ==
    ASSUME NEW S, NEW p \in Seq(S), \A n \in 1..Len(p) : p[n].size \in Nat
    PROVE  /\ Offsets(p)[0] = 0
           /\ \A n \in 1..Len(p) : Offsets(p)[n] = Offsets(p)[n - 1] + p[n].size
           /\ \A n \in 0..Len(p) : Offsets(p)[n] \in Nat
  <1> DEFINE N == Len(p)
             Sums(m) == {t \in [0..m -> Nat] : t[0] = 0 /\ \A n \in 1..m : t[n] = t[n - 1] + p[n].size}
             P == {m \in 0..N : Sums(m) # {}}
  <1>0. N \in Nat /\ \A n \in 1..N : p[n].size \in Nat
    OBVIOUS
  <1>1. 0 \in P
    <2>1. [n \in 0..0 |-> 0] \in Sums(0)
      OBVIOUS
    <2> QED BY <2>1, <1>0
  <1>2. \A m \in 0..N-1 : m \in P => m + 1 \in P
    <2> SUFFICES ASSUME NEW m \in 0..N-1, m \in P PROVE m + 1 \in P
      OBVIOUS
    <2>1. PICK t \in [0..m -> Nat] : t[0] = 0 /\ \A n \in 1..m : t[n] = t[n - 1] + p[n].size
      OBVIOUS
    <2> DEFINE u == [n \in 0..m+1 |-> IF n <= m THEN t[n] ELSE t[m] + p[m + 1].size]
    <2>2. u \in [0..m+1 -> Nat]
      BY <1>0, <2>1
    <2>3. u[0] = 0 /\ \A n \in 1..m+1 : u[n] = u[n - 1] + p[n].size
      BY <1>0, <2>1
    <2>4. u \in Sums(m + 1)
      BY <2>2, <2>3
    <2>5. m + 1 \in 0..N
      BY <1>0
    <2> HIDE DEF u, N, Sums
    <2> QED BY <2>4, <2>5
  <1>3. N \in P
    <2>1. P \in SUBSET (0..N) /\ N \in 0..N
      BY <1>0
    <2> HIDE DEF P, N
    <2> QED BY <2>1, <1>0, <1>1, <1>2, Upwards
  <1>4. PICK t \in [0..N -> Nat] : t[0] = 0 /\ \A n \in 1..N : t[n] = t[n - 1] + p[n].size
    BY <1>3
  <1>5. t = [n \in 0..Len(p) |-> IF n = 0 THEN 0 ELSE t[n - 1] + p[n].size]
    BY <1>4, <1>0
  <1> DEFINE T == Offsets(p)
  <1>6. T = [n \in 0..Len(p) |-> IF n = 0 THEN 0 ELSE T[n - 1] + p[n].size]
    BY <1>5, Zenon DEF Offsets
  <1> HIDE DEF T
  <1>7. T[0] = 0
    BY <1>6
  <1>8. \A n \in 1..Len(p) : T[n] = T[n - 1] + p[n].size
    BY <1>6, <1>0
  <1>9. \A n \in 0..N : T[n] \in Nat
    <2> DEFINE Q == {n \in 0..N : T[n] \in Nat}
    <2>1. 0 \in Q /\ Q \in SUBSET (0..N)
      BY <1>7, <1>0
    <2>2. \A n \in 0..N-1 : n \in Q => n + 1 \in Q
      <3> SUFFICES ASSUME NEW n \in 0..N-1, n \in Q PROVE n + 1 \in Q
        OBVIOUS
      <3>1. n + 1 \in 1..Len(p) /\ (n + 1) - 1 = n /\ p[n + 1].size \in Nat
        BY <1>0
      <3>2. T[n + 1] = T[n] + p[n + 1].size
        BY <3>1, <1>8
      <3> QED BY <3>1, <3>2
    <2> HIDE DEF Q
    <2>3. 0..N \subseteq Q
      BY <1>0, <2>1, <2>2, Upwards
    <2> QED BY <2>3 DEF Q
  <1> QED BY <1>7, <1>8, <1>9 DEF T

LEMMA AlignPage ==
    ASSUME NEW v \in Nat
    PROVE  align_up(v, 4096) \in Nat /\ align_up(v, 4096) >= v
  BY DEF align_up

LEMMA AlignEight ==
    ASSUME NEW v \in Nat
    PROVE  align_up(v, 8) \in Nat /\ align_up(v, 8) >= v /\ align_up(v, 8) % 8 = 0
  <1> DEFINE q == (v + 8 - 1) \div 8
  <1>1. q \in Nat /\ q * 8 >= v
    OBVIOUS
  <1>2. align_up(v, 8) = q * 8
    BY DEF align_up
  <1> HIDE DEF q
  <1>3. q * 8 \in Nat /\ (q * 8) % 8 = 0
    BY <1>1
  <1> QED BY <1>1, <1>2, <1>3

(* The numbers of which headers and pieces are made.                       *)
LEMMA LayoutNumbers ==
    ASSUME ctx \in Context, DwarfInv
    PROVE  /\ ctx.text_size \in Nat /\ ctx.data_size \in Nat /\ line.size \in Nat
           /\ info_size \in Nat /\ str_size \in Nat
           /\ total_size = ctx.text_size + ctx.data_size /\ total_size \in Nat
           /\ total_aligned \in Nat /\ total_aligned >= total_size
           /\ shstrtab_offset = 4096 + total_aligned + info_size + 87 + line.size + str_size
           /\ shstrtab_offset \in Nat
           /\ shoff \in Nat /\ shoff >= shstrtab_offset + 73 /\ shoff % 8 = 0
  <1>1. ctx.text_size \in Nat /\ ctx.data_size \in Nat
    BY CtxFields
  <1>2. line.size \in Nat /\ info_size \in Nat /\ str_size \in Nat
    BY CapacitiesNat DEF DwarfInv, LineState
  <1>3. total_size = ctx.text_size + ctx.data_size /\ total_size \in Nat
    BY <1>1 DEF total_size
  <1>4. total_aligned \in Nat /\ total_aligned >= total_size
    BY <1>3, AlignPage DEF total_aligned, pagesize
  <1>5. shstrtab_offset = 4096 + total_aligned + info_size + 87 + line.size + str_size
    BY DEF shstrtab_offset, debug_str_offset, debug_line_offset, debug_abbrev_offset, debug_info_offset,
           pagesize, AbbrevSize
  <1>6. shstrtab_offset \in Nat /\ shstrtab_offset + 73 \in Nat
    BY <1>2, <1>4, <1>5
  <1>7. shoff = align_up(shstrtab_offset + 73, 8)
    BY DEF shoff, ShstrtabSize
  <1>8. shoff \in Nat /\ shoff >= shstrtab_offset + 73 /\ shoff % 8 = 0
    BY <1>6, <1>7, AlignEight
  <1> QED BY <1>1, <1>2, <1>3, <1>4, <1>5, <1>6, <1>8

PieceNames == {"ehdr", "phdr", "pad", ".text", ".data", ".debug_info", ".debug_abbrev",
               ".debug_line", ".debug_str", ".shstrtab", "shdrs"}
PieceSet == [what : PieceNames, size : Nat]

LEMMA PieceIs ==
    ASSUME NEW what, NEW size
    PROVE  Piece(what, size).what = what /\ Piece(what, size).size = size
  BY DEF Piece

LEMMA Joined ==
    ASSUME NEW S, NEW a \in Seq(S), NEW b \in Seq(S)
    PROVE  /\ a \o b \in Seq(S) /\ Len(a \o b) = Len(a) + Len(b)
           /\ \A n \in 1..Len(a) : (a \o b)[n] = a[n]
           /\ \A n \in 1..Len(b) : (a \o b)[Len(a) + n] = b[n]
  OBVIOUS

(* The pieces every image begins with, and those that -g adds.             *)
Loaded == <<Piece("ehdr", EhdrSize), Piece("phdr", PhdrSize),
            Piece("pad", pagesize - EhdrSize - PhdrSize), Piece(".text", ctx.text_size),
            Piece(".data", ctx.data_size), Piece("pad", total_aligned - total_size)>>
Debug == <<Piece(".debug_info", info_size), Piece(".debug_abbrev", AbbrevSize),
           Piece(".debug_line", line.size), Piece(".debug_str", str_size),
           Piece(".shstrtab", ShstrtabSize), Piece("pad", shoff - shstrtab_offset - ShstrtabSize),
           Piece("shdrs", 8 * ShdrSize)>>

LEMMA PiecesAre == Pieces(FALSE) = Loaded \o <<>> /\ Pieces(TRUE) = Loaded \o Debug
  BY Zenon DEF Pieces, Loaded, Debug

LEMMA PiecesTyped ==
    ASSUME ctx \in Context, DwarfInv
    PROVE  /\ Loaded \in Seq(PieceSet) /\ Len(Loaded) = 6
           /\ Debug \in Seq(PieceSet) /\ Len(Debug) = 7
  <1> DEFINE pad == total_aligned - total_size
             tail == shoff - shstrtab_offset - ShstrtabSize
  <1>1. /\ pad \in Nat /\ tail \in Nat
        /\ pagesize - EhdrSize - PhdrSize \in Nat /\ 8 * ShdrSize \in Nat
        /\ EhdrSize \in Nat /\ PhdrSize \in Nat /\ AbbrevSize \in Nat /\ ShstrtabSize \in Nat
    BY LayoutNumbers DEF pagesize, EhdrSize, PhdrSize, ShdrSize, AbbrevSize, ShstrtabSize
  <1>n. /\ ctx.text_size \in Nat /\ ctx.data_size \in Nat /\ line.size \in Nat
        /\ info_size \in Nat /\ str_size \in Nat
    BY LayoutNumbers
  <1>p. \A n \in Nat, w \in PieceNames : Piece(w, n) \in PieceSet
    BY DEF Piece, PieceSet
  <1>s. /\ "ehdr" \in PieceNames /\ "phdr" \in PieceNames /\ "pad" \in PieceNames
        /\ ".text" \in PieceNames /\ ".data" \in PieceNames /\ ".debug_info" \in PieceNames
        /\ ".debug_abbrev" \in PieceNames /\ ".debug_line" \in PieceNames
        /\ ".debug_str" \in PieceNames /\ ".shstrtab" \in PieceNames /\ "shdrs" \in PieceNames
    BY DEF PieceNames
  <1> HIDE DEF pad, tail
  <1>2. /\ Piece("ehdr", EhdrSize) \in PieceSet /\ Piece("phdr", PhdrSize) \in PieceSet
        /\ Piece("pad", pagesize - EhdrSize - PhdrSize) \in PieceSet
        /\ Piece(".text", ctx.text_size) \in PieceSet /\ Piece(".data", ctx.data_size) \in PieceSet
        /\ Piece("pad", pad) \in PieceSet
    BY <1>1, <1>n, <1>p, <1>s
  <1>3. /\ Piece(".debug_info", info_size) \in PieceSet /\ Piece(".debug_abbrev", AbbrevSize) \in PieceSet
        /\ Piece(".debug_line", line.size) \in PieceSet /\ Piece(".debug_str", str_size) \in PieceSet
        /\ Piece(".shstrtab", ShstrtabSize) \in PieceSet /\ Piece("pad", tail) \in PieceSet
        /\ Piece("shdrs", 8 * ShdrSize) \in PieceSet
    BY <1>1, <1>n, <1>p, <1>s
  <1> HIDE DEF PieceSet
  <1> QED BY <1>2, <1>3 DEF Loaded, Debug, pad, tail

(* What lies where: a piece has its size and begins where those before it end. *)
LEMMA LoadedPieces ==
    ASSUME ctx \in Context, DwarfInv, NEW debug \in BOOLEAN
    PROVE  /\ Pieces(debug) \in Seq(PieceSet) /\ Len(Pieces(debug)) = IF debug THEN 13 ELSE 6
           /\ Pieces(debug)[1] = Piece("ehdr", 64) /\ Pieces(debug)[2] = Piece("phdr", 56)
           /\ Pieces(debug)[3] = Piece("pad", 3976) /\ Pieces(debug)[4] = Piece(".text", ctx.text_size)
           /\ Pieces(debug)[5] = Piece(".data", ctx.data_size)
           /\ Pieces(debug)[6] = Piece("pad", total_aligned - total_size)
  <1>1. Pieces(debug) = Loaded \o IF debug THEN Debug ELSE <<>>
    BY PiecesAre
  <1>2. /\ Loaded \in Seq(PieceSet) /\ Len(Loaded) = 6
        /\ Debug \in Seq(PieceSet) /\ Len(Debug) = 7
    BY PiecesTyped
  <1>0. <<>> \in Seq(PieceSet) /\ Len(<<>>) = 0
    OBVIOUS
  <1>5. /\ Loaded[1] = Piece("ehdr", 64) /\ Loaded[2] = Piece("phdr", 56)
        /\ Loaded[3] = Piece("pad", 3976) /\ Loaded[4] = Piece(".text", ctx.text_size)
        /\ Loaded[5] = Piece(".data", ctx.data_size)
        /\ Loaded[6] = Piece("pad", total_aligned - total_size)
    BY DEF Loaded, EhdrSize, PhdrSize, pagesize
  <1> DEFINE p == Pieces(debug)
  <1>7. /\ p \in Seq(PieceSet) /\ Len(p) = (IF debug THEN 13 ELSE 6)
        /\ \A n \in 1..6 : p[n] = Loaded[n]
    <2> DEFINE more == IF debug THEN Debug ELSE <<>>
    <2>0. p = Loaded \o more
      BY <1>1
    <2>1. more \in Seq(PieceSet) /\ Len(more) = (IF debug THEN 7 ELSE 0)
      <3>1. CASE debug
        BY <3>1, <1>2
      <3>2. CASE ~ debug
        BY <3>2, <1>0
      <3> QED BY <3>1, <3>2
    <2> HIDE DEF more, p, Loaded, PieceSet
    <2>2. /\ Loaded \o more \in Seq(PieceSet) /\ Len(Loaded \o more) = Len(Loaded) + Len(more)
          /\ \A n \in 1..Len(Loaded) : (Loaded \o more)[n] = Loaded[n]
      <3>1. Loaded \in Seq(PieceSet)
        BY <1>2
      <3> QED BY <2>1, <3>1, Joined, ZenonT(60)
    <2> QED BY <1>2, <2>0, <2>1, <2>2
  <1> HIDE DEF Loaded
  <1> QED BY <1>5, <1>7

LEMMA DebugPieces ==
    ASSUME ctx \in Context, DwarfInv
    PROVE  /\ Pieces(TRUE)[7] = Piece(".debug_info", info_size)
           /\ Pieces(TRUE)[8] = Piece(".debug_abbrev", 87)
           /\ Pieces(TRUE)[9] = Piece(".debug_line", line.size)
           /\ Pieces(TRUE)[10] = Piece(".debug_str", str_size)
           /\ Pieces(TRUE)[11] = Piece(".shstrtab", 73)
           /\ Pieces(TRUE)[12] = Piece("pad", shoff - shstrtab_offset - 73)
           /\ Pieces(TRUE)[13] = Piece("shdrs", 512)
  <1>1. Pieces(TRUE) = Loaded \o Debug
    BY PiecesAre
  <1>2. /\ Loaded \in Seq(PieceSet) /\ Len(Loaded) = 6
        /\ Debug \in Seq(PieceSet) /\ Len(Debug) = 7
    BY PiecesTyped
  <1> DEFINE p == Pieces(TRUE)
  <1> HIDE DEF p, Loaded, Debug
  <1>6. \A n \in 1..Len(Debug) : (Loaded \o Debug)[Len(Loaded) + n] = Debug[n]
    <2>1. Loaded \in Seq(PieceSet) /\ Debug \in Seq(PieceSet)
      BY <1>2
    <2> QED BY <2>1, Joined
  <1>7. p = Loaded \o Debug
    BY <1>1 DEF p
  <1>3. \A n \in 1..7 : p[6 + n] = Debug[n]
    BY <1>2, <1>6, <1>7
  <1>4. /\ Debug[1] = Piece(".debug_info", info_size) /\ Debug[2] = Piece(".debug_abbrev", 87)
        /\ Debug[3] = Piece(".debug_line", line.size) /\ Debug[4] = Piece(".debug_str", str_size)
        /\ Debug[5] = Piece(".shstrtab", 73)
        /\ Debug[6] = Piece("pad", shoff - shstrtab_offset - 73) /\ Debug[7] = Piece("shdrs", 512)
    BY DEF Debug, AbbrevSize, ShstrtabSize, ShdrSize
  <1>5. /\ p[7] = Debug[1] /\ p[8] = Debug[2] /\ p[9] = Debug[3] /\ p[10] = Debug[4]
        /\ p[11] = Debug[5] /\ p[12] = Debug[6] /\ p[13] = Debug[7]
    BY <1>3
  <1> HIDE DEF Piece
  <1>8. p[7] = Piece(".debug_info", info_size) /\ p[8] = Piece(".debug_abbrev", 87)
    BY <1>4, <1>5
  <1>9. p[9] = Piece(".debug_line", line.size) /\ p[10] = Piece(".debug_str", str_size)
    BY <1>4, <1>5
  <1>10. /\ p[11] = Piece(".shstrtab", 73) /\ p[13] = Piece("shdrs", 512)
         /\ p[12] = Piece("pad", shoff - shstrtab_offset - 73)
    BY <1>4, <1>5
  <1> QED BY <1>8, <1>9, <1>10, Zenon DEF p

LoadedOffsets(at) ==
    /\ at[3] = 4096 /\ at[4] = 4096 + ctx.text_size /\ at[5] = 4096 + total_size
    /\ at[6] = 4096 + total_aligned
DebugOffsets(at) ==
    /\ at[6] = debug_info_offset /\ at[7] = debug_abbrev_offset
    /\ at[8] = debug_line_offset /\ at[9] = debug_str_offset
    /\ at[10] = shstrtab_offset /\ at[12] = shoff /\ at[13] = shoff + 512

LEMMA Positions ==
    ASSUME ctx \in Context, DwarfInv, NEW debug \in BOOLEAN
    PROVE  /\ LoadedOffsets(Offsets(Pieces(debug)))
           /\ debug => DebugOffsets(Offsets(Pieces(debug)))
  <1> DEFINE p == Pieces(debug)
             at == Offsets(p)
  <1>1. /\ p \in Seq(PieceSet) /\ Len(p) = (IF debug THEN 13 ELSE 6)
        /\ p[1] = Piece("ehdr", 64) /\ p[2] = Piece("phdr", 56) /\ p[3] = Piece("pad", 3976)
        /\ p[4] = Piece(".text", ctx.text_size) /\ p[5] = Piece(".data", ctx.data_size)
        /\ p[6] = Piece("pad", total_aligned - total_size)
    BY LoadedPieces
  <1>2. debug => /\ p[7] = Piece(".debug_info", info_size) /\ p[8] = Piece(".debug_abbrev", 87)
                 /\ p[9] = Piece(".debug_line", line.size) /\ p[10] = Piece(".debug_str", str_size)
                 /\ p[11] = Piece(".shstrtab", 73)
                 /\ p[12] = Piece("pad", shoff - shstrtab_offset - 73) /\ p[13] = Piece("shdrs", 512)
    BY DebugPieces
  <1> HIDE DEF p
  <1>3. \A n \in 1..Len(p) : p[n].size \in Nat
    <2>1. \A n \in 1..Len(p) : p[n] \in PieceSet
      BY <1>1
    <2> QED BY <2>1 DEF PieceSet
  <1>4. at[0] = 0 /\ \A n \in 1..Len(p) : at[n] = at[n - 1] + p[n].size
    <2>1. p \in Seq(PieceSet)
      BY <1>1
    <2> HIDE DEF PieceSet
    <2>2. /\ Offsets(p)[0] = 0
          /\ \A n \in 1..Len(p) : Offsets(p)[n] = Offsets(p)[n - 1] + p[n].size
      BY <2>1, <1>3, OffsetsAdd, Zenon
    <2> QED BY <2>2
  <1> HIDE DEF at
  <1>5. \A n \in 1..6 : at[n] = at[n - 1] + p[n].size
    BY <1>1, <1>4
  <1>6. /\ p[1].size = 64 /\ p[2].size = 56 /\ p[3].size = 3976 /\ p[4].size = ctx.text_size
        /\ p[5].size = ctx.data_size /\ p[6].size = total_aligned - total_size
    BY <1>1, PieceIs
  <1>7. at[1] = 64 /\ at[2] = 120 /\ at[3] = 4096
    BY <1>4, <1>5, <1>6
  <1>8. at[4] = 4096 + ctx.text_size /\ at[5] = 4096 + total_size /\ at[6] = 4096 + total_aligned
    BY <1>5, <1>6, <1>7, LayoutNumbers
  <1>9. ASSUME debug
        PROVE  /\ at[6] = debug_info_offset /\ at[7] = debug_abbrev_offset
               /\ at[8] = debug_line_offset /\ at[9] = debug_str_offset
               /\ at[10] = shstrtab_offset /\ at[12] = shoff /\ at[13] = shoff + 512
    <2>1. \A n \in 7..13 : at[n] = at[n - 1] + p[n].size
      BY <1>1, <1>4, <1>9
    <2>2. /\ p[7].size = info_size /\ p[8].size = 87 /\ p[9].size = line.size /\ p[10].size = str_size
          /\ p[11].size = 73 /\ p[12].size = shoff - shstrtab_offset - 73 /\ p[13].size = 512
      BY <1>2, <1>9, PieceIs
    <2>3. /\ at[6] = debug_info_offset /\ at[7] = debug_abbrev_offset
          /\ at[8] = debug_line_offset /\ at[9] = debug_str_offset
          /\ at[10] = shstrtab_offset
      BY <1>8, <2>1, <2>2 DEF debug_info_offset, debug_abbrev_offset, debug_line_offset, debug_str_offset,
                              shstrtab_offset, pagesize, AbbrevSize
    <2>4. at[11] = shstrtab_offset + 73 /\ at[12] = at[11] + (shoff - shstrtab_offset - 73)
          /\ at[13] = at[12] + 512
      BY <2>1, <2>2, <2>3
    <2>5. at[12] = shoff /\ at[13] = shoff + 512
      BY <2>4, LayoutNumbers
    <2> QED BY <2>3, <2>5
  <1>10. LoadedOffsets(at) /\ (debug => DebugOffsets(at))
    BY <1>7, <1>8, <1>9 DEF LoadedOffsets, DebugOffsets
  <1> QED BY <1>10 DEF at, p

LEMMA AtPiece ==
    ASSUME NEW S, NEW p \in Seq(S), NEW n \in 1..Len(p), NEW what, NEW size, NEW offset,
           p[n] = Piece(what, size), Offsets(p)[n - 1] = offset
    PROVE  At(p, what, size, offset)
  BY DEF At, PositionOf

(* Where the sections of the headers lie.                                  *)
LEMMA LoadedAt ==
    ASSUME ctx \in Context, DwarfInv, NEW debug \in BOOLEAN
    PROVE  /\ At(Pieces(debug), ".text", ctx.text_size, 4096)
           /\ At(Pieces(debug), ".data", ctx.data_size, 4096 + ctx.text_size)
  <1> DEFINE p == Pieces(debug)
  <1>1. /\ p \in Seq(PieceSet) /\ Len(p) = (IF debug THEN 13 ELSE 6)
        /\ p[4] = Piece(".text", ctx.text_size) /\ p[5] = Piece(".data", ctx.data_size)
    BY LoadedPieces
  <1>2. Offsets(p)[3] = 4096 /\ Offsets(p)[4] = 4096 + ctx.text_size
    BY Positions DEF LoadedOffsets
  <1> HIDE DEF p
  <1>3. 4 \in 1..Len(p) /\ 5 \in 1..Len(p) /\ 4 - 1 = 3 /\ 5 - 1 = 4
    BY <1>1
  <1>4. At(p, ".text", ctx.text_size, 4096)
    BY <1>1, <1>2, <1>3 DEF At, PositionOf
  <1>5. At(p, ".data", ctx.data_size, 4096 + ctx.text_size)
    BY <1>1, <1>2, <1>3 DEF At, PositionOf
  <1> QED BY <1>4, <1>5 DEF p

LEMMA DebugAt ==
    ASSUME ctx \in Context, DwarfInv, NEW debug \in BOOLEAN
    PROVE  debug => /\ At(Pieces(debug), ".debug_info", info_size, debug_info_offset)
                    /\ At(Pieces(debug), ".debug_abbrev", 87, debug_abbrev_offset)
                    /\ At(Pieces(debug), ".debug_line", line.size, debug_line_offset)
                    /\ At(Pieces(debug), ".debug_str", str_size, debug_str_offset)
                    /\ At(Pieces(debug), ".shstrtab", 73, shstrtab_offset)
                    /\ At(Pieces(debug), "shdrs", 512, shoff)
  <1> DEFINE p == Pieces(debug)
  <1>a. p \in Seq(PieceSet) /\ (debug => Len(p) = 13)
    BY LoadedPieces
  <1>b. debug => /\ p[7] = Piece(".debug_info", info_size) /\ p[8] = Piece(".debug_abbrev", 87)
                 /\ p[9] = Piece(".debug_line", line.size) /\ p[10] = Piece(".debug_str", str_size)
                 /\ p[11] = Piece(".shstrtab", 73) /\ p[13] = Piece("shdrs", 512)
    BY DebugPieces
  <1>c. debug => /\ Offsets(p)[6] = debug_info_offset /\ Offsets(p)[7] = debug_abbrev_offset
                 /\ Offsets(p)[8] = debug_line_offset /\ Offsets(p)[9] = debug_str_offset
                 /\ Offsets(p)[10] = shstrtab_offset /\ Offsets(p)[12] = shoff
    <2>1. debug => DebugOffsets(Offsets(p))
      BY Positions
    <2> QED BY <2>1 DEF DebugOffsets
  <1> HIDE DEF p
  <1> SUFFICES ASSUME debug
               PROVE  /\ At(p, ".debug_info", info_size, debug_info_offset)
                      /\ At(p, ".debug_abbrev", 87, debug_abbrev_offset)
                      /\ At(p, ".debug_line", line.size, debug_line_offset)
                      /\ At(p, ".debug_str", str_size, debug_str_offset)
                      /\ At(p, ".shstrtab", 73, shstrtab_offset)
                      /\ At(p, "shdrs", 512, shoff)
    BY DEF p
  <1>1. p \in Seq(PieceSet) /\ Len(p) = 13
    BY <1>a
  <1>2. /\ p[7] = Piece(".debug_info", info_size) /\ p[8] = Piece(".debug_abbrev", 87)
        /\ p[9] = Piece(".debug_line", line.size) /\ p[10] = Piece(".debug_str", str_size)
        /\ p[11] = Piece(".shstrtab", 73) /\ p[13] = Piece("shdrs", 512)
    BY <1>b
  <1>3. /\ Offsets(p)[6] = debug_info_offset /\ Offsets(p)[7] = debug_abbrev_offset
        /\ Offsets(p)[8] = debug_line_offset /\ Offsets(p)[9] = debug_str_offset
        /\ Offsets(p)[10] = shstrtab_offset /\ Offsets(p)[12] = shoff
    BY <1>c
  <1>4. /\ 7 \in DOMAIN p /\ 8 \in DOMAIN p /\ 9 \in DOMAIN p /\ 10 \in DOMAIN p
        /\ 11 \in DOMAIN p /\ 13 \in DOMAIN p
    BY <1>1
  <1>5. /\ 7 - 1 = 6 /\ 8 - 1 = 7 /\ 9 - 1 = 8 /\ 10 - 1 = 9 /\ 11 - 1 = 10 /\ 13 - 1 = 12
    OBVIOUS
  <1>6. At(p, ".debug_info", info_size, debug_info_offset)
    BY <1>2, <1>3, <1>4, <1>5 DEF At, PositionOf
  <1>7. At(p, ".debug_abbrev", 87, debug_abbrev_offset)
    BY <1>2, <1>3, <1>4, <1>5 DEF At, PositionOf
  <1>8. At(p, ".debug_line", line.size, debug_line_offset)
    BY <1>2, <1>3, <1>4, <1>5 DEF At, PositionOf
  <1>9. At(p, ".debug_str", str_size, debug_str_offset)
    BY <1>2, <1>3, <1>4, <1>5 DEF At, PositionOf
  <1>10. At(p, ".shstrtab", 73, shstrtab_offset)
    BY <1>2, <1>3, <1>4, <1>5 DEF At, PositionOf
  <1>11. At(p, "shdrs", 512, shoff)
    BY <1>2, <1>3, <1>4, <1>5 DEF At, PositionOf
  <1> QED BY <1>6, <1>7, <1>8, <1>9, <1>10, <1>11

(* One entry of the section table: its piece, and its address when it is loaded. *)
SectionTrue(pieces, s) ==
    /\ At(pieces, s.name, s.size, s.offset)
    /\ s.addr > 0 => s.addr - base_address = s.offset - pagesize

LEMMA SectionsTrue ==
    ASSUME ctx \in Context, DwarfInv, NEW debug \in BOOLEAN
    PROVE  /\ Len(Shdrs) = 8
           /\ debug => \A n \in 2..8 : SectionTrue(Pieces(debug), Shdrs[n])
  <1> DEFINE p == Pieces(debug)
  <1>0. /\ Len(Shdrs) = 8
        /\ Shdrs[2] = Shdr(".text", base_address, 4096, ctx.text_size)
        /\ Shdrs[3] = Shdr(".data", text_end, 4096 + ctx.text_size, ctx.data_size)
        /\ Shdrs[4] = Shdr(".shstrtab", 0, shstrtab_offset, 73)
        /\ Shdrs[5] = Shdr(".debug_info", 0, debug_info_offset, info_size)
        /\ Shdrs[6] = Shdr(".debug_abbrev", 0, debug_abbrev_offset, 87)
        /\ Shdrs[7] = Shdr(".debug_line", 0, debug_line_offset, line.size)
        /\ Shdrs[8] = Shdr(".debug_str", 0, debug_str_offset, str_size)
    BY DEF Shdrs, pagesize, ShstrtabSize, AbbrevSize
  <1>f. \A name, addr, offset, size :
           /\ Shdr(name, addr, offset, size).name = name /\ Shdr(name, addr, offset, size).addr = addr
           /\ Shdr(name, addr, offset, size).offset = offset /\ Shdr(name, addr, offset, size).size = size
    BY DEF Shdr
  <1>a. \A name, offset, size : At(p, name, size, offset) => SectionTrue(p, Shdr(name, 0, offset, size))
    <2> HIDE DEF p
    <2> QED BY <1>f DEF SectionTrue
  <1>1. SectionTrue(p, Shdrs[2])
    <2>1. At(p, ".text", ctx.text_size, 4096)
      BY LoadedAt
    <2>2. base_address - base_address = 4096 - pagesize
      BY CtxFields DEF pagesize
    <2> HIDE DEF p
    <2> QED BY <1>0, <1>f, <2>1, <2>2 DEF SectionTrue
  <1>2. SectionTrue(p, Shdrs[3])
    <2>1. At(p, ".data", ctx.data_size, 4096 + ctx.text_size)
      BY LoadedAt
    <2>2. text_end - base_address = (4096 + ctx.text_size) - pagesize
      BY CtxFields DEF pagesize
    <2> HIDE DEF p
    <2> QED BY <1>0, <1>f, <2>1, <2>2 DEF SectionTrue
  <1>3. debug => /\ At(p, ".debug_info", info_size, debug_info_offset)
                 /\ At(p, ".debug_abbrev", 87, debug_abbrev_offset)
                 /\ At(p, ".debug_line", line.size, debug_line_offset)
                 /\ At(p, ".debug_str", str_size, debug_str_offset)
                 /\ At(p, ".shstrtab", 73, shstrtab_offset)
    BY DebugAt
  <1> HIDE DEF p
  <1> SUFFICES ASSUME debug PROVE \A n \in 2..8 : SectionTrue(p, Shdrs[n])
    BY <1>0 DEF p
  <1>4. SectionTrue(p, Shdrs[4]) /\ SectionTrue(p, Shdrs[5]) /\ SectionTrue(p, Shdrs[6])
    BY <1>0, <1>3, <1>a
  <1>5. SectionTrue(p, Shdrs[7]) /\ SectionTrue(p, Shdrs[8])
    BY <1>0, <1>3, <1>a
  <1>6. ASSUME NEW n \in 2..8 PROVE SectionTrue(p, Shdrs[n])
    <2>1. n = 2 \/ n = 3 \/ n = 4 \/ n = 5 \/ n = 6 \/ n = 7 \/ n = 8
      OBVIOUS
    <2> QED BY <2>1, <1>1, <1>2, <1>4, <1>5, Zenon
  <1> QED BY <1>6

(* The image as WriteElf makes it, of any size that is left of it.         *)
IsImage(f, debug) ==
    /\ f.pieces = Pieces(debug) /\ f.shdrs = IF debug THEN Shdrs ELSE <<>>
    /\ f.ehdr = Ehdr(debug) /\ f.phdr = Phdr /\ f.kind = "elf"

LEMMA ImageWellFormed ==
    ASSUME ctx \in Context, DwarfInv, NEW debug \in BOOLEAN, NEW f, IsImage(f, debug)
    PROVE  WellFormed(f)
  <1>0. /\ f.pieces = Pieces(debug) /\ f.shdrs = IF debug THEN Shdrs ELSE <<>>
        /\ f.ehdr = Ehdr(debug) /\ f.phdr = Phdr
    BY DEF IsImage
  <1>p. /\ f.phdr.offset = 4096 /\ f.phdr.vaddr = base_address /\ f.phdr.filesz = total_size
        /\ f.phdr.memsz = total_aligned
    BY <1>0 DEF Phdr, pagesize
  <1>e. /\ debug => f.ehdr.shnum = 8 /\ f.ehdr.shentsize = 64 /\ f.ehdr.shoff = shoff
        /\ ~ debug => f.ehdr.shnum = 0
    BY <1>0 DEF Ehdr, ShdrSize
  <1>1. \A n \in 2..Len(f.shdrs) : SectionTrue(f.pieces, f.shdrs[n])
    <2>1. CASE debug
      <3>1. f.shdrs = Shdrs /\ f.pieces = Pieces(debug)
        BY <2>1, <1>0
      <3> QED BY <2>1, <3>1, SectionsTrue
    <2>2. CASE ~ debug
      <3>1. Len(f.shdrs) = 0
        BY <2>2, <1>0
      <3> QED BY <3>1
    <2> QED BY <2>1, <2>2
  <1>2. \A n \in 2..Len(f.shdrs) :
           /\ At(f.pieces, f.shdrs[n].name, f.shdrs[n].size, f.shdrs[n].offset)
           /\ f.shdrs[n].addr > 0 => f.shdrs[n].addr - f.phdr.vaddr = f.shdrs[n].offset - f.phdr.offset
    BY <1>1, <1>p DEF SectionTrue, pagesize
  <1>3. f.ehdr.shnum > 0 => /\ At(f.pieces, "shdrs", f.ehdr.shnum * f.ehdr.shentsize, f.ehdr.shoff)
                            /\ f.ehdr.shoff % 8 = 0
    <2>1. CASE debug
      <3>1. f.ehdr.shnum * f.ehdr.shentsize = 512 /\ f.ehdr.shoff = shoff /\ f.pieces = Pieces(debug)
        <4>1. f.ehdr.shnum = 8 /\ f.ehdr.shentsize = 64 /\ f.ehdr.shoff = shoff
          BY <2>1, <1>e
        <4> QED BY <4>1, <1>0
      <3>2. At(Pieces(debug), "shdrs", 512, shoff)
        BY <2>1, DebugAt, Zenon
      <3>3. shoff % 8 = 0
        BY LayoutNumbers
      <3> QED BY <3>1, <3>2, <3>3
    <2>2. CASE ~ debug
      BY <2>2, <1>e
    <2> QED BY <2>1, <2>2
  <1>4. (f.phdr.offset - f.phdr.vaddr) % pagesize = 0 /\ f.phdr.filesz <= f.phdr.memsz
    <2>1. (4096 - base_address) % pagesize = 0
      BY SMT DEF base_address, pagesize
    <2> QED BY <2>1, <1>p, LayoutNumbers
  <1>5. \E n \in DOMAIN f.pieces :
          /\ f.pieces[n].what = ".text" /\ f.pieces[n + 1].what = ".data"
          /\ PositionOf(f.pieces, n) = f.phdr.offset
          /\ PositionOf(f.pieces, n + 2) = f.phdr.offset + f.phdr.filesz
    <2> DEFINE p == Pieces(debug)
    <2>1. /\ p \in Seq(PieceSet) /\ Len(p) = (IF debug THEN 13 ELSE 6)
          /\ p[4] = Piece(".text", ctx.text_size) /\ p[5] = Piece(".data", ctx.data_size)
      BY LoadedPieces
    <2>2. Offsets(p)[3] = 4096 /\ Offsets(p)[5] = 4096 + total_size
      BY Positions DEF LoadedOffsets
    <2>3. p = f.pieces
      BY <1>0
    <2> HIDE DEF p
    <2>4. 4 \in DOMAIN p /\ 4 + 1 = 5 /\ 4 - 1 = 3 /\ (4 + 2) - 1 = 5
      BY <2>1
    <2>5. p[4].what = ".text" /\ p[4 + 1].what = ".data"
      BY <2>1, <2>4, PieceIs
    <2>6. PositionOf(p, 4) = f.phdr.offset /\ PositionOf(p, 4 + 2) = f.phdr.offset + f.phdr.filesz
      BY <2>2, <2>4, <1>p DEF PositionOf
    <2> QED BY <2>3, <2>4, <2>5, <2>6
  <1> QED BY <1>2, <1>3, <1>4, <1>5 DEF WellFormed

(* What asm_disassemble_file makes of the image.                           *)
Readable(f) ==
    /\ asm_disassemble_file(f).ok <=> (f.shdrs # <<>> /\ f.size = SizeOfPieces(f.pieces))
    /\ asm_disassemble_file(f).ok =>
          /\ At(f.pieces, ".text", asm_disassemble_file(f).size, asm_disassemble_file(f).offset)
          /\ asm_disassemble_file(f).addr = f.phdr.vaddr

Texts(sh) == {n \in DOMAIN sh : sh[n].name = ".text"}
FirstText(sh) == sh[CHOOSE n \in Texts(sh) : \A m \in Texts(sh) : n <= m]
Names(f) == f.shdrs[f.ehdr.shstrndx + 1]
Unreadable(f) ==
    \/ f.kind # "elf" \/ f.size < EhdrSize
    \/ f.ehdr.shentsize # ShdrSize \/ f.ehdr.shnum = 0
    \/ f.ehdr.shoff + f.ehdr.shentsize * f.ehdr.shnum > f.size
    \/ f.ehdr.shstrndx >= f.ehdr.shnum
    \/ Names(f).offset + Names(f).size > f.size \/ Names(f).size = 0
    \/ Texts(f.shdrs) = {} \/ FirstText(f.shdrs).offset + FirstText(f.shdrs).size > f.size

LEMMA ReadsAs ==
    ASSUME NEW f
    PROVE  asm_disassemble_file(f) =
              IF Unreadable(f) THEN [ok |-> FALSE]
              ELSE [ok |-> TRUE, offset |-> FirstText(f.shdrs).offset,
                    size |-> FirstText(f.shdrs).size, addr |-> FirstText(f.shdrs).addr]
  BY Zenon DEF asm_disassemble_file, Unreadable, Refused, Texts, FirstText, Names

LEMMA ReadsOk ==
    ASSUME NEW f
    PROVE  /\ asm_disassemble_file(f).ok <=> ~ Unreadable(f)
           /\ ~ Unreadable(f) => /\ asm_disassemble_file(f).offset = FirstText(f.shdrs).offset
                                 /\ asm_disassemble_file(f).size = FirstText(f.shdrs).size
                                 /\ asm_disassemble_file(f).addr = FirstText(f.shdrs).addr
  <1>1. CASE Unreadable(f)
    <2>1. asm_disassemble_file(f) = [ok |-> FALSE]
      BY <1>1, ReadsAs, Zenon
    <2>2. asm_disassemble_file(f).ok = FALSE
      BY <2>1
    <2> QED BY <1>1, <2>2
  <1>2. CASE ~ Unreadable(f)
    <2> DEFINE t == FirstText(f.shdrs)
    <2>1. asm_disassemble_file(f) = [ok |-> TRUE, offset |-> t.offset, size |-> t.size, addr |-> t.addr]
      BY <1>2, ReadsAs, Zenon
    <2> HIDE DEF t
    <2>2. /\ asm_disassemble_file(f).ok = TRUE /\ asm_disassemble_file(f).offset = t.offset
          /\ asm_disassemble_file(f).size = t.size /\ asm_disassemble_file(f).addr = t.addr
      BY <2>1
    <2> QED BY <1>2, <2>2 DEF t
  <1> QED BY <1>1, <1>2

(* The second entry is the only one called .text.                          *)
LEMMA TextFound ==
    /\ Texts(Shdrs) = {2} /\ FirstText(Shdrs) = Shdrs[2]
    /\ Shdrs[2].offset = 4096 /\ Shdrs[2].size = ctx.text_size /\ Shdrs[2].addr = base_address
    /\ Shdrs[4].offset = shstrtab_offset /\ Shdrs[4].size = 73
  <1>1. DOMAIN Shdrs = 1..8
    BY DEF Shdrs
  <1>2. /\ Shdrs[1].name = "null" /\ Shdrs[2].name = ".text" /\ Shdrs[3].name = ".data"
        /\ Shdrs[4].name = ".shstrtab" /\ Shdrs[5].name = ".debug_info"
        /\ Shdrs[6].name = ".debug_abbrev" /\ Shdrs[7].name = ".debug_line"
        /\ Shdrs[8].name = ".debug_str"
    BY DEF Shdrs, Shdr
  <1>3. /\ Shdrs[2].offset = 4096 /\ Shdrs[2].size = ctx.text_size /\ Shdrs[2].addr = base_address
        /\ Shdrs[4].offset = shstrtab_offset /\ Shdrs[4].size = 73
    BY DEF Shdrs, Shdr, pagesize, ShstrtabSize
  <1>4. \A n \in 1..8 : Shdrs[n].name = ".text" <=> n = 2
    BY <1>2
  <1>5. Texts(Shdrs) = {2}
    BY <1>1, <1>4 DEF Texts
  <1>6. (CHOOSE n \in {2} : \A m \in {2} : n <= m) = 2
    OBVIOUS
  <1>7. FirstText(Shdrs) = Shdrs[2]
    BY <1>5, <1>6 DEF FirstText
  <1> QED BY <1>3, <1>5, <1>7

LEMMA PieceCount ==
    ASSUME ctx \in Context, DwarfInv, NEW debug \in BOOLEAN
    PROVE  debug => Len(Pieces(debug)) = 13
  <1> DEFINE p == Pieces(debug)
  <1>1. p \in Seq(PieceSet) /\ (debug => Len(p) = 13)
    BY LoadedPieces
  <1> QED BY <1>1

LEMMA ImageReadable ==
    ASSUME ctx \in Context, DwarfInv, NEW debug \in BOOLEAN, NEW f, IsImage(f, debug),
           f.size \in 0..SizeOfPieces(f.pieces)
    PROVE  Readable(f)
  <1>0. /\ f.pieces = Pieces(debug) /\ f.shdrs = IF debug THEN Shdrs ELSE <<>>
        /\ f.ehdr = Ehdr(debug) /\ f.phdr = Phdr /\ f.kind = "elf"
    BY DEF IsImage
  <1>1. CASE ~ debug
    <2>1. f.shdrs = <<>> /\ f.ehdr.shentsize = 0
      BY <1>0, <1>1 DEF Ehdr
    <2>2. Unreadable(f)
      BY <2>1 DEF Unreadable, ShdrSize
    <2> QED BY <2>1, <2>2, ReadsOk DEF Readable
  <1>2. CASE debug
    <2>1. f.shdrs = Shdrs
      BY <1>0, <1>2
    <2>2. /\ f.ehdr.shnum = 8 /\ f.ehdr.shentsize = 64 /\ f.ehdr.shoff = shoff /\ f.ehdr.shstrndx = 3
      BY <1>0, <1>2 DEF Ehdr, ShdrSize
    <2>3. Names(f) = Shdrs[4]
      BY <2>1, <2>2 DEF Names
    <2>4. SizeOfPieces(f.pieces) = shoff + 512
      <3>1. Len(Pieces(debug)) = 13
        BY <1>2, PieceCount
      <3>2. Offsets(Pieces(debug))[13] = shoff + 512
        BY <1>2, Positions DEF DebugOffsets
      <3> QED BY <1>0, <3>1, <3>2 DEF SizeOfPieces
    <2>5. f.size \in Nat /\ f.size <= shoff + 512 /\ shoff \in Nat
      BY <2>4, LayoutNumbers
    <2>6. shstrtab_offset + 73 <= shoff /\ 4096 + ctx.text_size <= shoff /\ 64 <= shoff
      BY LayoutNumbers
    <2>7. Unreadable(f) <=> f.size # shoff + 512
      <3>1. Unreadable(f) <=> \/ f.size < 64 \/ shoff + 512 > f.size
                              \/ shstrtab_offset + 73 > f.size \/ 4096 + ctx.text_size > f.size
        <4>1. /\ f.kind = "elf" /\ f.ehdr.shentsize = ShdrSize /\ f.ehdr.shnum # 0
              /\ ~ (f.ehdr.shstrndx >= f.ehdr.shnum)
              /\ f.ehdr.shoff + f.ehdr.shentsize * f.ehdr.shnum = shoff + 512
          BY <1>0, <2>2 DEF ShdrSize
        <4>2. Names(f).offset = shstrtab_offset /\ Names(f).size = 73
          BY <2>3, TextFound
        <4>3. Texts(f.shdrs) # {}
          BY <2>1, TextFound
        <4>4. FirstText(f.shdrs).offset = 4096 /\ FirstText(f.shdrs).size = ctx.text_size
          BY <2>1, TextFound
        <4> QED BY <4>1, <4>2, <4>3, <4>4 DEF Unreadable, EhdrSize
      <3>2. shstrtab_offset \in Nat /\ ctx.text_size \in Nat
        BY LayoutNumbers
      <3> QED BY <3>1, <3>2, <2>5, <2>6
    <2>8. f.shdrs # <<>>
      BY <2>1, SomeShdrs
    <2>9. asm_disassemble_file(f).ok <=> (f.shdrs # <<>> /\ f.size = SizeOfPieces(f.pieces))
      BY <2>4, <2>7, <2>8, ReadsOk
    <2>10. ASSUME asm_disassemble_file(f).ok
           PROVE  /\ At(f.pieces, ".text", asm_disassemble_file(f).size, asm_disassemble_file(f).offset)
                  /\ asm_disassemble_file(f).addr = f.phdr.vaddr
      <3>1. /\ asm_disassemble_file(f).offset = 4096 /\ asm_disassemble_file(f).size = ctx.text_size
            /\ asm_disassemble_file(f).addr = base_address
        BY <2>1, <2>10, ReadsOk, TextFound
      <3>2. At(f.pieces, ".text", ctx.text_size, 4096)
        BY <1>0, LoadedAt
      <3>3. f.phdr.vaddr = base_address
        BY <1>0 DEF Phdr
      <3> QED BY <3>1, <3>2, <3>3
    <2> QED BY <2>9, <2>10 DEF Readable
  <1> QED BY <1>1, <1>2

(* A file that is cut short has the headers of the whole image.            *)
LEMMA StoredIsImage ==
    ASSUME ctx \in Context, DwarfInv, NEW debug \in BOOLEAN, NEW by, NEW f \in Stored(Image(debug, by))
    PROVE  IsImage(f, debug) /\ f.size \in 0..SizeOfPieces(f.pieces)
  <1> DEFINE img == Image(debug, by)
             full == SizeOfPieces(Pieces(debug))
  <1>1. /\ img.pieces = Pieces(debug) /\ img.size = full /\ img.ehdr = Ehdr(debug) /\ img.phdr = Phdr
        /\ img.shdrs = (IF debug THEN Shdrs ELSE <<>>) /\ img.kind = "elf"
        /\ DOMAIN img = {"kind", "by", "pieces", "size", "ehdr", "phdr", "shdrs"}
    BY DEF Image
  <1>2. full \in Nat
    <2> DEFINE p == Pieces(debug)
    <2>1. p \in Seq(PieceSet)
      BY LoadedPieces
    <2> HIDE DEF p
    <2>2. \A n \in 1..Len(p) : p[n] \in PieceSet
      BY <2>1
    <2>3. \A n \in 1..Len(p) : p[n].size \in Nat
      BY <2>2 DEF PieceSet
    <2>4. \A n \in 0..Len(p) : Offsets(p)[n] \in Nat
      BY <2>1, <2>3, OffsetsAdd, Zenon
    <2>5. Len(p) \in 0..Len(p)
      BY <2>1
    <2> QED BY <2>4, <2>5 DEF SizeOfPieces, p
  <1> HIDE DEF img, full
  <1>3. f = img \/ \E n \in 0..full : f = [img EXCEPT !.size = n]
    BY <1>1 DEF Stored, img
  <1>4. CASE f = img
    <2>1. f.size = full /\ SizeOfPieces(f.pieces) = full
      BY <1>1, <1>4 DEF full
    <2> QED BY <1>1, <1>2, <1>4, <2>1 DEF IsImage
  <1>5. ASSUME NEW n \in 0..full, f = [img EXCEPT !.size = n]
        PROVE  IsImage(f, debug) /\ f.size \in 0..SizeOfPieces(f.pieces)
    <2>1. /\ f.pieces = img.pieces /\ f.ehdr = img.ehdr /\ f.phdr = img.phdr /\ f.shdrs = img.shdrs
          /\ f.kind = img.kind /\ f.size = n
      BY <1>1, <1>5
    <2>2. SizeOfPieces(f.pieces) = full
      BY <1>1, <2>1 DEF full
    <2> QED BY <1>1, <2>1, <2>2 DEF IsImage
  <1> QED BY <1>3, <1>4, <1>5

ImageInv ==
    files["out"].kind = "elf" => WellFormed(files["out"]) /\ Readable(files["out"])

LEMMA ImageNext == IInv /\ MainInv /\ DwarfInv /\ ImageInv /\ [Next]_vars => ImageInv'
  <1> SUFFICES ASSUME IInv, MainInv, DwarfInv, ImageInv, [Next]_vars PROVE ImageInv'
    OBVIOUS
  <1>0. ctx \in Context /\ opt.g \in BOOLEAN
    BY DEF MainInv, Options
  <1>d. "out" \in DOMAIN files /\ "dbg" # "out" /\ "lst" # "out"
    BY DEF IInv, FilesInv, Outputs
  <1>1. CASE files'["out"] = files["out"]
    BY <1>1 DEF ImageInv
  <1>2. CASE files'["out"].kind = "data"
    BY <1>2 DEF ImageInv
  <1>3. CASE WriteElf
    <2>1. PICK f \in Stored(Image(opt.g, run)) : files' = [files EXCEPT !["out"] = f]
      BY <1>3 DEF WriteElf
    <2>2. IsImage(f, opt.g) /\ f.size \in 0..SizeOfPieces(f.pieces)
      BY <1>0, StoredIsImage
    <2>3. WellFormed(f) /\ Readable(f)
      BY <1>0, <2>2, ImageWellFormed, ImageReadable
    <2> QED BY <1>d, <2>1, <2>3 DEF ImageInv
  <1>4. CASE WriteFlat
    <2>1. PICK f \in Stored(DataFile(IF opt.format = "bin" THEN ctx.text_size ELSE HexSize, run)) :
             files' = [files EXCEPT !["out"] = f]
      BY <1>4 DEF WriteFlat
    <2>2. f.kind = "data"
      BY StoredData
    <2>3. files'["out"].kind = "data"
      BY <1>d, <2>1, <2>2
    <2> QED BY <1>2, <2>3
  <1>5. CASE OpenElf
    <2>1. files'["out"].kind = "data"
      BY <1>5, <1>d DEF OpenElf, DataFile
    <2> QED BY <1>2, <2>1
  <1>6. CASE WriteDebugMap \/ WriteListing
    <2>1. files'["out"] = files["out"]
      BY <1>6, <1>d DEF WriteDebugMap, WriteListing, WriteBeside
    <2> QED BY <1>1, <2>1
  <1>7. CASE \/ ReadOption \/ StopAtOption \/ Disassemble \/ NoInput \/ asm_init
             \/ CollectDefine \/ InvalidDefine \/ PreprocessOnly \/ AssembleFails \/ Assemble
             \/ FatalWarning \/ Dependencies \/ BeginOutput
             \/ OpenFails \/ UnknownFormat \/ ElfOverflow \/ NextInvocation
    <2>1. files' = files
      BY <1>7 DEF ReadOption, StopAtOption, Disassemble, NoInput, asm_init, CollectDefine, InvalidDefine,
                  PreprocessOnly, AssembleFails, Assemble, FatalWarning, Dependencies, BeginOutput, OpenFails,
                  UnknownFormat, ElfOverflow, NextInvocation
    <2> QED BY <1>1, <2>1
  <1>8. CASE BuildElf \/ Finished \/ UNCHANGED vars
    <2>1. files' = files
      BY <1>8 DEF BuildElf, Finished, vars, driver_vars
    <2> QED BY <1>1, <2>1
  <1> QED BY <1>3, <1>4, <1>5, <1>6, <1>7, <1>8 DEF Next

LEMMA ImageHolds == Spec => []ImageInv
  <1>1. Init => ImageInv
    BY DEF Init, ImageInv, NoFile, Outputs
  <1> QED BY <1>1, ImageNext, TypedHolds, PTL DEF Spec

(* For every size of text and data, every set of symbols and every length of the debug
   sections: in the image asm_write_elf64 leaves, each section header, the program header
   and the place of the section table say where that piece of the file is, and text and
   data follow each other in the file as in memory. *)
THEOREM HeadersTrue == Spec => []HeadersMatchFile
  <1>1. ImageInv => HeadersMatchFile
    BY DEF ImageInv, HeadersMatchFile
  <1> QED BY <1>1, ImageHolds, PTL

(* Of the images of every session, those cut short by a full disk included,
   asm_disassemble_file accepts exactly the complete ones with debug sections, and takes
   their text from where it was written. *)
THEOREM ReadableWithDebug == Spec => []ReadableIffDebug
  <1>1. ImageInv => ReadableIffDebug
    BY DEF ImageInv, ReadableIffDebug, Readable
  <1> QED BY <1>1, ImageHolds, PTL

-----------------------------------------------------------------------------
(* The entries of debug_info: each symbol of the text is listed once, the   *)
(* lists are sorted by exchanges, and the entries follow the lists.         *)

AfterIndex ==
    stage \in {"sort_functions", "sort_labels", "info", "functions", "labels", "line", "rows"} \/ DwarfBuilt
AfterFunctions ==
    stage \in {"sort_labels", "info", "functions", "labels", "line", "rows"} \/ DwarfBuilt
AfterLabels == stage \in {"info", "functions", "labels", "line", "rows"} \/ DwarfBuilt
AfterInfo == stage \in {"line", "rows"} \/ DwarfBuilt

(* The symbols before hi are in the lists.                                 *)
Listed(hi) ==
    \A n \in Indices : n < hi /\ InText(ctx.symbols[n]) =>
       IF ctx.symbols[n].function THEN \E m \in DOMAIN functions : functions[m] = n
       ELSE \E m \in DOMAIN labels : labels[m] = n
Holds(list, v) == \E m \in DOMAIN list : list[m] = v
Once(list) == \A a, b \in DOMAIN list : list[a] = list[b] => a = b
Below(list, hi) == \A a \in DOMAIN list : list[a] < hi

(* The entries before outer are the least, and outer is at most those between it and inner. *)
SortedTo(list, outer, inner) ==
    \A a, b \in DOMAIN list : a < b /\ (a < outer \/ (a = outer /\ b < inner)) =>
       addressOf(list[a]) <= addressOf(list[b])
Ascending(list) == \A a, b \in DOMAIN list : a < b => addressOf(list[a]) <= addressOf(list[b])

(* Which entries there are, of functions and of labels.                    *)
Entries(f, l) ==
    /\ Len(dies) = f + l
    /\ \A n \in 1..f : dies[n] = FunctionDie(n)
    /\ \A n \in 1..l : dies[f + n] = LabelDie(n)

ListsInv ==
    /\ stage = "index" => /\ Listed(i) /\ Below(functions, i) /\ Below(labels, i)
                          /\ i <= Len(ctx.symbols) + 1
    /\ stage = "index" \/ AfterIndex => Once(functions) /\ Once(labels)
    /\ AfterIndex => Listed(Len(ctx.symbols) + 1)
    /\ stage = "sort_functions" => SortedTo(functions, i, j) /\ i < j
    /\ stage = "sort_labels" => SortedTo(labels, i, j) /\ i < j
    /\ AfterFunctions => Ascending(functions)
    /\ AfterLabels => Ascending(labels)
DiesInv ==
    /\ stage \in {"index", "sort_functions", "sort_labels", "info"} => dies = <<>>
    /\ stage = "functions" => Entries(i - 1, 0) /\ i <= Len(functions) + 1
    /\ stage = "labels" => Entries(Len(functions), i - 1) /\ i <= Len(labels) + 1
    /\ AfterInfo => Entries(Len(functions), Len(labels))

TileFrame == ctx' = ctx /\ opt' = opt

LEMMA ExchangeIs ==
    ASSUME NEW S, NEW list \in Seq(S), i \in 1..Len(list), j \in 1..Len(list), i < j,
           NEW new, new = Exchange(list)
    PROVE  /\ new \in Seq(S) /\ Len(new) = Len(list) /\ DOMAIN new = 1..Len(list)
           /\ ~ (addressOf(list[j]) < addressOf(list[i])) => new = list
           /\ addressOf(list[j]) < addressOf(list[i]) =>
                 /\ new[i] = list[j] /\ new[j] = list[i]
                 /\ \A n \in 1..Len(list) : n # i /\ n # j => new[n] = list[n]
  <1>1. new \in Seq(S) /\ Len(new) = Len(list)
    BY ExchangeTyped
  <1>2. DOMAIN new = 1..Len(list)
    BY <1>1
  <1>3. ~ (addressOf(list[j]) < addressOf(list[i])) => new = list
    BY DEF Exchange
  <1>4. ASSUME addressOf(list[j]) < addressOf(list[i])
        PROVE  /\ new[i] = list[j] /\ new[j] = list[i]
               /\ \A n \in 1..Len(list) : n # i /\ n # j => new[n] = list[n]
    <2>1. new = [list EXCEPT ![i] = list[j], ![j] = list[i]]
      BY <1>4 DEF Exchange
    <2> QED BY <2>1
  <1> QED BY <1>1, <1>2, <1>3, <1>4

(* An exchange keeps what is in the list.                                  *)
LEMMA ExchangeKeeps ==
    ASSUME NEW S, NEW list \in Seq(S), i \in 1..Len(list), j \in 1..Len(list), i < j, Once(list),
           NEW new, new = Exchange(list)
    PROVE  /\ Once(new)
           /\ \A v : Holds(list, v) => Holds(new, v)
  <1>1. /\ DOMAIN new = 1..Len(list) /\ DOMAIN list = 1..Len(list)
        /\ ~ (addressOf(list[j]) < addressOf(list[i])) => new = list
        /\ addressOf(list[j]) < addressOf(list[i]) =>
              /\ new[i] = list[j] /\ new[j] = list[i]
              /\ \A n \in 1..Len(list) : n # i /\ n # j => new[n] = list[n]
    BY ExchangeIs
  <1>2. CASE new = list
    BY <1>2
  <1>3. CASE /\ new[i] = list[j] /\ new[j] = list[i]
             /\ \A n \in 1..Len(list) : n # i /\ n # j => new[n] = list[n]
    <2> DEFINE from == [n \in 1..Len(list) |-> IF n = i THEN j ELSE IF n = j THEN i ELSE n]
    <2>1. \A n \in 1..Len(list) : from[n] \in 1..Len(list) /\ from[from[n]] = n /\ new[n] = list[from[n]]
      BY <1>3
    <2> HIDE DEF from
    <2>2. Once(new)
      <3> SUFFICES ASSUME NEW a \in 1..Len(list), NEW b \in 1..Len(list), new[a] = new[b] PROVE a = b
        BY <1>1 DEF Once
      <3>1. from[a] = from[b]
        BY <1>1, <2>1 DEF Once
      <3> QED BY <2>1, <3>1
    <2>3. ASSUME NEW v, Holds(list, v) PROVE Holds(new, v)
      <3>0. PICK m \in DOMAIN list : list[m] = v
        BY <2>3 DEF Holds
      <3>1. from[m] \in DOMAIN new /\ new[from[m]] = list[m]
        BY <1>1, <2>1
      <3> QED BY <3>0, <3>1 DEF Holds
    <2> QED BY <2>2, <2>3
  <1> QED BY <1>1, <1>2, <1>3

(* After it, the entry at i is at most the one at j as well.               *)
LEMMA ExchangeSorts ==
    ASSUME ctx \in Context, NEW list \in Seq(Indices), i \in 1..Len(list), j \in 1..Len(list), i < j,
           SortedTo(list, i, j), NEW new, new = Exchange(list)
    PROVE  SortedTo(new, i, j + 1)
  <1> DEFINE ad == [n \in 1..Len(list) |-> addressOf(list[n])]
             na == [n \in 1..Len(list) |-> addressOf(new[n])]
  <1>1. /\ new \in Seq(Indices) /\ DOMAIN new = 1..Len(list) /\ DOMAIN list = 1..Len(list)
        /\ ~ (addressOf(list[j]) < addressOf(list[i])) => new = list
        /\ addressOf(list[j]) < addressOf(list[i]) =>
              /\ new[i] = list[j] /\ new[j] = list[i]
              /\ \A n \in 1..Len(list) : n # i /\ n # j => new[n] = list[n]
    BY ExchangeIs
  <1>2. \A n \in 1..Len(list) : ad[n] \in Nat /\ ad[n] = addressOf(list[n]) /\ na[n] = addressOf(new[n])
    <2>1. \A n \in 1..Len(list) : list[n] \in Indices
      OBVIOUS
    <2> QED BY <2>1, SymbolFields
  <1>3. Len(list) \in Nat
    OBVIOUS
  <1>4. \A a, b \in 1..Len(list) : a < b /\ (a < i \/ (a = i /\ b < j)) => ad[a] <= ad[b]
    BY <1>1, <1>2 DEF SortedTo
  <1>5. \/ ~ (ad[j] < ad[i]) /\ \A n \in 1..Len(list) : na[n] = ad[n]
        \/ /\ ad[j] < ad[i] /\ na[i] = ad[j] /\ na[j] = ad[i]
           /\ \A n \in 1..Len(list) : n # i /\ n # j => na[n] = ad[n]
    BY <1>1, <1>2
  <1> HIDE DEF ad, na
  <1>6. \A a, b \in 1..Len(list) : a < b /\ (a < i \/ (a = i /\ b < j + 1)) => na[a] <= na[b]
    <2> SUFFICES ASSUME NEW a \in 1..Len(list), NEW b \in 1..Len(list), a < b,
                        a < i \/ (a = i /\ b < j + 1)
                 PROVE  na[a] <= na[b]
      OBVIOUS
    <2>0. ad[a] \in Nat /\ ad[b] \in Nat /\ ad[i] \in Nat /\ ad[j] \in Nat
      BY <1>2
    <2>1. CASE ~ (ad[j] < ad[i]) /\ \A n \in 1..Len(list) : na[n] = ad[n]
      <3>1. CASE a = i /\ b = j
        BY <2>0, <2>1, <3>1
      <3>2. CASE ~ (a = i /\ b = j)
        BY <1>4, <2>1, <3>2
      <3> QED BY <3>1, <3>2
    <2>2. CASE /\ ad[j] < ad[i] /\ na[i] = ad[j] /\ na[j] = ad[i]
               /\ \A n \in 1..Len(list) : n # i /\ n # j => na[n] = ad[n]
      <3>1. CASE a < i
        <4>1. na[a] = ad[a] /\ ad[a] <= ad[i] /\ ad[a] <= ad[j] /\ ad[a] <= ad[b]
          BY <1>4, <2>2, <3>1
        <4>2. na[b] = ad[i] \/ na[b] = ad[j] \/ na[b] = ad[b]
          BY <2>2
        <4> QED BY <4>1, <4>2
      <3>2. CASE a = i /\ b < j
        <4>1. na[a] = ad[j] /\ na[b] = ad[b] /\ ad[i] <= ad[b]
          BY <1>4, <2>2, <3>2
        <4> QED BY <2>0, <2>2, <4>1
      <3>3. CASE a = i /\ b = j
        BY <2>0, <2>2, <3>3
      <3> QED BY <3>1, <3>2, <3>3
    <2> QED BY <1>5, <2>1, <2>2
  <1> QED BY <1>1, <1>2, <1>6 DEF SortedTo

(* Steps behind the lists.                                                 *)
LEMMA TileStays ==
    ASSUME ListsInv, DiesInv, TileFrame, UNCHANGED <<functions, labels, dies>>,
           \/ stage' \in {"idle", "dwarf", "overflow"}
           \/ AfterInfo /\ stage' \in {"rows", "layout", "written"}
           \/ stage' = stage /\ UNCHANGED <<i, j>>
    PROVE  ListsInv' /\ DiesInv'
  <1>0. ctx' = ctx /\ opt' = opt
    BY DEF TileFrame
  <1>1. CASE stage' \in {"idle", "dwarf", "overflow"}
    BY <1>1 DEF ListsInv, DiesInv, AfterIndex, AfterFunctions, AfterLabels, AfterInfo, DwarfBuilt
  <1>2. CASE AfterInfo /\ stage' \in {"rows", "layout", "written"}
    <2>1. AfterIndex /\ AfterFunctions /\ AfterLabels
      BY <1>2 DEF AfterInfo, AfterIndex, AfterFunctions, AfterLabels
    <2>2. /\ Once(functions) /\ Once(labels) /\ Listed(Len(ctx.symbols) + 1)
          /\ Ascending(functions) /\ Ascending(labels) /\ Entries(Len(functions), Len(labels))
      BY <1>2, <2>1 DEF ListsInv, DiesInv
    <2>3. /\ Once(functions)' /\ Once(labels)' /\ Listed(Len(ctx.symbols) + 1)'
          /\ Ascending(functions)' /\ Ascending(labels)' /\ Entries(Len(functions), Len(labels))'
      BY <1>0, <2>2, SMT DEF Once, Listed, Ascending, Entries, Indices, InText, base_address, text_end, addressOf,
                        FunctionDie, LabelDie, span
    <2> QED BY <1>2, <2>3 DEF ListsInv, DiesInv
  <1>3. CASE stage' = stage /\ UNCHANGED <<i, j>>
    <2>1. /\ AfterIndex' <=> AfterIndex
          /\ AfterFunctions' <=> AfterFunctions
          /\ AfterLabels' <=> AfterLabels
          /\ AfterInfo' <=> AfterInfo
      BY <1>0, <1>3 DEF AfterIndex, AfterFunctions, AfterLabels, AfterInfo, DwarfBuilt
    <2>2. ListsInv'
      BY <1>0, <1>3, <2>1, SMT DEF ListsInv, Once, Listed, Ascending, SortedTo, Below, Indices, InText,
                              base_address, text_end, addressOf
    <2>3. DiesInv'
      BY <1>0, <1>3, <2>1, SMT DEF DiesInv, Entries, addressOf, FunctionDie, LabelDie, span, text_end, base_address
    <2> QED BY <2>2, <2>3
  <1> QED BY <1>1, <1>2, <1>3

LEMMA OverflowTiles ==
    ASSUME ListsInv, DiesInv, TileFrame, dwarf_overflow
    PROVE  ListsInv' /\ DiesInv'
  <1>1. stage' = "overflow" /\ UNCHANGED <<functions, labels, dies>>
    BY DEF dwarf_overflow
  <1> QED BY <1>1, TileStays

LEMMA ListedNext ==
    ASSUME ctx' = ctx,
           \A n \in Indices : n < i' /\ InText(ctx.symbols[n]) =>
              IF ctx.symbols[n].function THEN \E m \in DOMAIN functions' : functions'[m] = n
              ELSE \E m \in DOMAIN labels' : labels'[m] = n
    PROVE  Listed(i)'
  <1> SUFFICES ASSUME NEW n \in Indices', n < i', InText(ctx.symbols[n])'
               PROVE  (IF ctx.symbols[n].function THEN \E m \in DOMAIN functions : functions[m] = n
                       ELSE \E m \in DOMAIN labels : labels[m] = n)'
    BY DEF Listed
  <1>1. n \in Indices /\ InText(ctx.symbols[n])
    BY SMT DEF Indices, InText, base_address, text_end
  <1> QED BY <1>1

LEMMA BeginDwarfTiles ==
    ASSUME DwarfInv, ListsInv, DiesInv, ctx \in Context, TileFrame, BeginDwarf
    PROVE  ListsInv' /\ DiesInv'
  <1>1. CASE dwarf_overflow
    BY <1>1, OverflowTiles
  <1>2. CASE stage' = "index" /\ i' = 1 /\ UNCHANGED <<functions, labels, dies>>
    <2>1. functions = <<>> /\ labels = <<>> /\ dies = <<>>
      BY DEF BeginDwarf, DwarfInv
    <2>2. functions' = <<>> /\ labels' = <<>> /\ dies' = <<>> /\ ctx' = ctx /\ Len(ctx.symbols) \in Nat
      BY <1>2, <2>1, CtxFields DEF TileFrame
    <2>3. Listed(i)'
      BY <1>2, <2>2 DEF Listed, Indices
    <2>4. Once(functions)' /\ Once(labels)' /\ Below(functions, i)' /\ Below(labels, i)'
      BY <2>2 DEF Once, Below
    <2>5. ListsInv'
      BY <1>2, <2>2, <2>3, <2>4 DEF ListsInv, AfterIndex, AfterFunctions, AfterLabels, DwarfBuilt
    <2> QED BY <1>2, <2>2, <2>5 DEF DiesInv, AfterInfo, DwarfBuilt
  <1> QED BY <1>1, <1>2 DEF BeginDwarf

(* One more symbol in a list.                                              *)
LEMMA Appended ==
    ASSUME NEW list \in Seq(Nat), NEW v \in Nat, Below(list, v), Once(list)
    PROVE  /\ Below(Append(list, v), v + 1) /\ Once(Append(list, v)) /\ Holds(Append(list, v), v)
           /\ \A n : Holds(list, n) => Holds(Append(list, v), n)
  <1> DEFINE new == Append(list, v)
  <1>1. /\ new \in Seq(Nat) /\ Len(new) = Len(list) + 1 /\ new[Len(list) + 1] = v
        /\ \A a \in 1..Len(list) : new[a] = list[a]
    OBVIOUS
  <1> HIDE DEF new
  <1>2. /\ DOMAIN new = 1..(Len(list) + 1) /\ DOMAIN list = 1..Len(list) /\ Len(list) \in Nat
        /\ \A a \in 1..Len(list) : list[a] \in Nat /\ list[a] < v
    BY <1>1 DEF Below
  <1>3. Below(new, v + 1)
    BY <1>1, <1>2 DEF Below
  <1>4. Once(new)
    <2> SUFFICES ASSUME NEW a \in 1..(Len(list) + 1), NEW b \in 1..(Len(list) + 1), new[a] = new[b]
                 PROVE  a = b
      BY <1>2 DEF Once
    <2>1. CASE a \in 1..Len(list) /\ b \in 1..Len(list)
      BY <1>1, <1>2, <2>1 DEF Once
    <2>2. CASE a = Len(list) + 1 /\ b \in 1..Len(list)
      BY <1>1, <1>2, <2>2
    <2>3. CASE a \in 1..Len(list) /\ b = Len(list) + 1
      BY <1>1, <1>2, <2>3
    <2>4. CASE a = Len(list) + 1 /\ b = Len(list) + 1
      BY <2>4
    <2> QED BY <1>2, <2>1, <2>2, <2>3, <2>4
  <1>5. Holds(new, v) /\ \A n : Holds(list, n) => Holds(new, n)
    <2>1. Len(list) + 1 \in DOMAIN new /\ \A m \in DOMAIN list : m \in DOMAIN new /\ new[m] = list[m]
      BY <1>1, <1>2
    <2> QED BY <1>1, <2>1 DEF Holds
  <1> QED BY <1>3, <1>4, <1>5 DEF new

LEMMA IndexTiles ==
    ASSUME DwarfInv, ListsInv, DiesInv, ctx \in Context, TileFrame, IndexSymbol
    PROVE  ListsInv' /\ DiesInv'
  <1> DEFINE s == ctx.symbols[i]
  <1>0. /\ stage = "index" /\ i \in Indices /\ i \in Nat /\ i <= Len(ctx.symbols) /\ Len(ctx.symbols) \in Nat
        /\ ctx' = ctx /\ functions \in Seq(Indices) /\ labels \in Seq(Indices) /\ dies = <<>>
        /\ Listed(i) /\ Below(functions, i) /\ Below(labels, i) /\ Once(functions) /\ Once(labels)
    BY CtxFields DEF IndexSymbol, DwarfInv, ListsInv, DiesInv, Indices, TileFrame
  <1>1. CASE dwarf_overflow
    BY <1>1, OverflowTiles
  <1>2. CASE /\ ~ InText(s) /\ i' = i + 1
             /\ UNCHANGED <<j, functions, labels, str_size, dies, info_size, line, stage>>
    <2>1. Listed(i)'
      <3> SUFFICES ASSUME NEW n \in Indices, n < i + 1, InText(ctx.symbols[n])
                   PROVE  IF ctx.symbols[n].function THEN \E m \in DOMAIN functions : functions[m] = n
                          ELSE \E m \in DOMAIN labels : labels[m] = n
        BY <1>0, <1>2, ListedNext
      <3>1. n # i
        BY <1>2
      <3>2. n < i
        BY <1>0, <3>1 DEF Indices
      <3> QED BY <1>0, <3>2 DEF Listed
    <2>2. Below(functions, i)' /\ Below(labels, i)'
      <3>1. \A a \in DOMAIN functions : functions[a] \in Nat /\ functions[a] < i
        BY <1>0 DEF Below, Indices
      <3>2. \A a \in DOMAIN labels : labels[a] \in Nat /\ labels[a] < i
        BY <1>0 DEF Below, Indices
      <3> QED BY <1>0, <1>2, <3>1, <3>2 DEF Below
    <2>3. Once(functions)' /\ Once(labels)'
      BY <1>0, <1>2 DEF Once
    <2>4. ListsInv'
      BY <1>0, <1>2, <2>1, <2>2, <2>3 DEF ListsInv, AfterIndex, AfterFunctions, AfterLabels, DwarfBuilt
    <2> QED BY <1>0, <1>2, <2>4 DEF DiesInv, AfterInfo, DwarfBuilt
  <1>3. CASE /\ InText(s) /\ i' = i + 1
             /\ functions' = IF s.function THEN Append(functions, i) ELSE functions
             /\ labels' = IF s.function THEN labels ELSE Append(labels, i)
             /\ UNCHANGED <<j, dies, info_size, line, stage>>
    <2>6. ASSUME NEW list \in Seq(Indices), Below(list, i) PROVE Below(list, i + 1)
      <3>1. \A a \in DOMAIN list : list[a] \in Nat /\ list[a] < i
        BY <2>6 DEF Below, Indices
      <3> QED BY <1>0, <3>1 DEF Below
    <2>n. /\ functions \in Seq(Nat) /\ Below(functions, i) /\ Once(functions)
          /\ labels \in Seq(Nat) /\ Below(labels, i) /\ Once(labels) /\ i \in Nat
      <3>1. functions \in Seq(Nat) /\ labels \in Seq(Nat)
        BY <1>0 DEF Indices
      <3> QED BY <1>0, <3>1
    <2> DEFINE f == functions'
               l == labels'
    <2>7. /\ Below(f, i + 1) /\ Once(f) /\ Below(l, i + 1) /\ Once(l)
          /\ \A n : (Holds(functions, n) => Holds(f, n)) /\ (Holds(labels, n) => Holds(l, n))
          /\ s.function => Holds(f, i)
          /\ ~ s.function => Holds(l, i)
      <3>1. CASE s.function
        <4>1. f = Append(functions, i) /\ l = labels
          BY <1>3, <3>1
        <4> HIDE DEF f, l, s
        <4>2. /\ Below(f, i + 1) /\ Once(f) /\ Holds(f, i)
              /\ \A n : Holds(functions, n) => Holds(f, n)
          BY <2>n, <4>1, Appended, Zenon
        <4>3. Below(l, i + 1) /\ Once(l)
          BY <1>0, <2>6, <4>1
        <4> QED BY <3>1, <4>1, <4>2, <4>3, Zenon
      <3>2. CASE ~ s.function
        <4>1. f = functions /\ l = Append(labels, i)
          BY <1>3, <3>2
        <4> HIDE DEF f, l, s
        <4>2. /\ Below(l, i + 1) /\ Once(l) /\ Holds(l, i)
              /\ \A n : Holds(labels, n) => Holds(l, n)
          BY <2>n, <4>1, Appended, Zenon
        <4>3. Below(f, i + 1) /\ Once(f)
          BY <1>0, <2>6, <4>1
        <4> QED BY <3>2, <4>1, <4>2, <4>3, Zenon
      <3> QED BY <3>1, <3>2
    <2>1. Listed(i)'
      <3> SUFFICES ASSUME NEW n \in Indices, n < i + 1, InText(ctx.symbols[n])
                   PROVE  IF ctx.symbols[n].function THEN \E m \in DOMAIN f : f[m] = n
                          ELSE \E m \in DOMAIN l : l[m] = n
        BY <1>0, <1>3, ListedNext
      <3>1. CASE n = i
        BY <2>7, <3>1 DEF Holds
      <3>2. CASE n # i
        <4>1. n < i
          BY <1>0, <3>2 DEF Indices
        <4>2. IF ctx.symbols[n].function THEN \E m \in DOMAIN functions : functions[m] = n
              ELSE \E m \in DOMAIN labels : labels[m] = n
          BY <1>0, <4>1 DEF Listed
        <4> HIDE DEF f, l
        <4> QED BY <2>7, <4>2, Zenon DEF Holds
      <3> QED BY <3>1, <3>2
    <2>2. Below(functions, i)' /\ Below(labels, i)' /\ Once(functions)' /\ Once(labels)'
      BY <1>3, <2>7 DEF Below, Once
    <2>3. i' <= Len(ctx.symbols)' + 1
      BY <1>0, <1>3
    <2>4. ListsInv'
      BY <1>0, <1>3, <2>1, <2>2, <2>3 DEF ListsInv, AfterIndex, AfterFunctions, AfterLabels, DwarfBuilt
    <2> QED BY <1>0, <1>3, <2>4 DEF DiesInv, AfterInfo, DwarfBuilt
  <1> QED BY <1>1, <1>2, <1>3 DEF IndexSymbol

(* What is known of the lists, in the next state.                          *)
LEMMA ListsPrimed ==
    ASSUME ctx' = ctx
    PROVE  /\ functions' = functions => /\ Once(functions) => Once(functions)'
                                        /\ Ascending(functions) => Ascending(functions)'
           /\ labels' = labels => /\ Once(labels) => Once(labels)'
                                  /\ Ascending(labels) => Ascending(labels)'
  <1>1. functions' = functions => /\ Once(functions) => Once(functions)'
                                  /\ Ascending(functions) => Ascending(functions)'
    BY DEF Once, Ascending, addressOf
  <1>2. labels' = labels => /\ Once(labels) => Once(labels)'
                            /\ Ascending(labels) => Ascending(labels)'
    BY DEF Once, Ascending, addressOf
  <1> QED BY <1>1, <1>2

(* All symbols stay listed when the lists hold at least what they held.    *)
LEMMA ListedStays ==
    ASSUME ctx \in Context, ctx' = ctx, Listed(Len(ctx.symbols) + 1),
           \A n : Holds(functions, n) => Holds(functions', n),
           \A n : Holds(labels, n) => Holds(labels', n)
    PROVE  Listed(Len(ctx.symbols) + 1)'
  <1> SUFFICES ASSUME NEW n \in Indices', InText(ctx.symbols[n])'
               PROVE  (IF ctx.symbols[n].function THEN \E m \in DOMAIN functions : functions[m] = n
                       ELSE \E m \in DOMAIN labels : labels[m] = n)'
    BY DEF Listed
  <1>1. n \in Indices /\ InText(ctx.symbols[n])
    BY SMT DEF Indices, InText, base_address, text_end
  <1>2. n < Len(ctx.symbols) + 1
    BY <1>1, CtxFields DEF Indices
  <1>3. IF ctx.symbols[n].function THEN Holds(functions, n) ELSE Holds(labels, n)
    BY <1>1, <1>2 DEF Listed, Holds
  <1>4. IF ctx.symbols[n].function THEN Holds(functions', n) ELSE Holds(labels', n)
    BY <1>3, Zenon
  <1> QED BY <1>4 DEF Holds

LEMMA StartOnlyIs ==
    ASSUME DwarfInv, ctx \in Context
    PROVE  StartOnly = functions \/ (functions = <<>> /\ \E x : StartOnly = <<x>>)
  BY Zenon DEF StartOnly

LEMMA EnsureStartTiles ==
    ASSUME DwarfInv, ListsInv, DiesInv, ctx \in Context, TileFrame, EnsureStart
    PROVE  ListsInv' /\ DiesInv'
  <1>0. /\ stage = "index" /\ i > Len(ctx.symbols) /\ i \in Nat /\ Len(ctx.symbols) \in Nat /\ ctx' = ctx
        /\ i <= Len(ctx.symbols) + 1 /\ dies = <<>> /\ Listed(i) /\ Once(functions) /\ Once(labels)
    BY CtxFields DEF EnsureStart, DwarfInv, ListsInv, DiesInv, TileFrame
  <1>1. CASE dwarf_overflow
    BY <1>1, OverflowTiles
  <1>2. CASE /\ functions' = StartOnly /\ i' = 1 /\ j' = 2 /\ stage' = "sort_functions"
             /\ UNCHANGED <<labels, dies, info_size, line>>
    <2>1. Listed(Len(ctx.symbols) + 1)
      <3>1. i = Len(ctx.symbols) + 1
        BY <1>0
      <3> QED BY <1>0, <3>1
    <2>2. \A n : Holds(functions, n) => Holds(functions', n)
      <3>1. CASE StartOnly = functions
        BY <1>2, <3>1
      <3>2. CASE functions = <<>>
        BY <3>2 DEF Holds
      <3> QED BY <3>1, <3>2, StartOnlyIs
    <2>3. Listed(Len(ctx.symbols) + 1)'
      <3>1. \A n : Holds(labels, n) => Holds(labels', n)
        BY <1>2
      <3> QED BY <1>0, <2>1, <2>2, <3>1, ListedStays
    <2>4. Once(functions)' /\ Once(labels)'
      <3>1. Once(labels)'
        BY <1>0, <1>2, ListsPrimed
      <3>2. CASE functions' = functions
        BY <1>0, <3>1, <3>2, ListsPrimed
      <3>3. CASE \E x : functions' = <<x>>
        <4>1. PICK x : functions' = <<x>>
          BY <3>3
        <4>2. DOMAIN functions' = 1..1
          BY <4>1
        <4> QED BY <3>1, <4>2 DEF Once
      <3> QED BY <1>2, <3>2, <3>3, StartOnlyIs
    <2>5. SortedTo(functions, i, j)' /\ (i < j)'
      <3>1. functions' \in Seq(Indices)
        BY <1>2, StartOnlyTyped
      <3>2. \A a \in DOMAIN functions' : a \in Nat /\ a >= 1
        BY <3>1
      <3> QED BY <1>2, <3>2 DEF SortedTo
    <2>6. ListsInv'
      BY <1>2, <2>3, <2>4, <2>5 DEF ListsInv, AfterIndex, AfterFunctions, AfterLabels, DwarfBuilt
    <2> QED BY <1>0, <1>2, <2>6 DEF DiesInv, AfterInfo, DwarfBuilt
  <1> QED BY <1>1, <1>2 DEF EnsureStart

(* The end of the loops.                                                   *)
LEMMA SortedAtEnd ==
    ASSUME ctx \in Context, NEW list \in Seq(Indices), i \in Nat, i > Len(list), SortedTo(list, i, j)
    PROVE  Ascending(list)
  <1> SUFFICES ASSUME NEW a \in DOMAIN list, NEW b \in DOMAIN list, a < b
               PROVE  addressOf(list[a]) <= addressOf(list[b])
    BY DEF Ascending
  <1>1. a < i
    OBVIOUS
  <1> QED BY <1>1 DEF SortedTo

(* The next round of the outer loop.                                       *)
LEMMA SortedNextRound ==
    ASSUME NEW list \in Seq(Indices), i \in Nat, j \in Nat, j > Len(list), SortedTo(list, i, j), i < j
    PROVE  SortedTo(list, i + 1, i + 2)
  <1> SUFFICES ASSUME NEW a \in DOMAIN list, NEW b \in DOMAIN list, a < b,
                      a < i + 1 \/ (a = i + 1 /\ b < i + 2)
               PROVE  addressOf(list[a]) <= addressOf(list[b])
    BY DEF SortedTo
  <1>1. a \in Nat /\ b \in Nat /\ b <= Len(list) /\ Len(list) \in Nat
    OBVIOUS
  <1>2. a < i \/ (a = i /\ b < j)
    BY <1>1
  <1> QED BY <1>2 DEF SortedTo

LEMMA SortFunctionsTiles ==
    ASSUME DwarfInv, ListsInv, DiesInv, ctx \in Context, TileFrame, SortFunctions
    PROVE  ListsInv' /\ DiesInv'
  <1>0. /\ stage = "sort_functions" /\ ctx' = ctx /\ i \in Nat \ {0} /\ j \in Nat \ {0} /\ i < j
        /\ functions \in Seq(Indices) /\ labels \in Seq(Indices) /\ Len(functions) \in Nat
        /\ dies = <<>> /\ Once(functions) /\ Once(labels) /\ Listed(Len(ctx.symbols) + 1)
        /\ SortedTo(functions, i, j)
    BY DEF SortFunctions, Sort, DwarfInv, ListsInv, DiesInv, TileFrame, AfterIndex
  <1>1. dies' = <<>> /\ stage' \in {"sort_functions", "sort_labels"} /\ labels' = labels
    BY <1>0 DEF SortFunctions, Sort
  <1>2. DiesInv'
    BY <1>1 DEF DiesInv, AfterInfo, DwarfBuilt
  <1>3. Once(labels)' /\ \A n : Holds(labels, n) => Holds(labels', n)
    BY <1>0, <1>1, ListsPrimed
  <1>4. CASE /\ i <= Len(functions) /\ j <= Len(functions) /\ functions' = Exchange(functions)
             /\ j' = j + 1 /\ i' = i /\ stage' = stage
    <2> DEFINE new == Exchange(functions)
    <2>0. i \in 1..Len(functions) /\ j \in 1..Len(functions) /\ i < j
      BY <1>0, <1>4
    <2>1. SortedTo(new, i, j + 1)
      BY <1>0, <2>0, ExchangeSorts
    <2>2. Once(new) /\ \A n : Holds(functions, n) => Holds(new, n)
      <3> HIDE DEF new
      <3>1. new = Exchange(functions)
        BY DEF new
      <3> QED BY <1>0, <2>0, <3>1, ExchangeKeeps
    <2> HIDE DEF new
    <2>3. functions' = new
      BY <1>4 DEF new
    <2>4. Listed(Len(ctx.symbols) + 1)'
      BY <1>0, <1>3, <2>2, <2>3, ListedStays
    <2>5. SortedTo(functions, i, j)' /\ Once(functions)' /\ (i < j)'
      BY <1>0, <1>4, <2>1, <2>2, <2>3 DEF SortedTo, Once, addressOf
    <2>6. ListsInv'
      BY <1>0, <1>3, <1>4, <2>4, <2>5 DEF ListsInv, AfterIndex, AfterFunctions, AfterLabels, DwarfBuilt
    <2> QED BY <1>2, <2>6
  <1>5. CASE /\ i <= Len(functions) /\ j > Len(functions) /\ i' = i + 1 /\ j' = i + 2
             /\ UNCHANGED <<functions, labels, stage>>
    <2>1. SortedTo(functions, i + 1, i + 2)
      BY <1>0, <1>5, SortedNextRound
    <2>2. Listed(Len(ctx.symbols) + 1)' /\ Once(functions)'
      BY <1>0, <1>3, <1>5, ListedStays, ListsPrimed
    <2>3. SortedTo(functions, i, j)' /\ (i < j)'
      BY <1>0, <1>5, <2>1 DEF SortedTo, addressOf
    <2>4. ListsInv'
      BY <1>0, <1>3, <1>5, <2>2, <2>3 DEF ListsInv, AfterIndex, AfterFunctions, AfterLabels, DwarfBuilt
    <2> QED BY <1>2, <2>4
  <1>6. CASE /\ i > Len(functions) /\ stage' = "sort_labels" /\ i' = 1 /\ j' = 2
             /\ UNCHANGED <<functions, labels>>
    <2>1. Ascending(functions)
      BY <1>0, <1>6, SortedAtEnd
    <2>2. Listed(Len(ctx.symbols) + 1)' /\ Once(functions)' /\ Ascending(functions)'
      BY <1>0, <1>3, <1>6, <2>1, ListedStays, ListsPrimed
    <2>3. SortedTo(labels, i, j)' /\ (i < j)'
      <3>1. \A a \in DOMAIN labels' : a \in Nat /\ a >= 1
        BY <1>0, <1>6
      <3> QED BY <1>6, <3>1 DEF SortedTo
    <2>4. ListsInv'
      BY <1>3, <1>6, <2>2, <2>3 DEF ListsInv, AfterIndex, AfterFunctions, AfterLabels, DwarfBuilt
    <2> QED BY <1>2, <2>4
  <1> QED BY <1>4, <1>5, <1>6 DEF SortFunctions, Sort

LEMMA SortLabelsTiles ==
    ASSUME DwarfInv, ListsInv, DiesInv, ctx \in Context, TileFrame, SortLabels
    PROVE  ListsInv' /\ DiesInv'
  <1>0. /\ stage = "sort_labels" /\ ctx' = ctx /\ i \in Nat \ {0} /\ j \in Nat \ {0} /\ i < j
        /\ functions \in Seq(Indices) /\ labels \in Seq(Indices) /\ Len(labels) \in Nat
        /\ dies = <<>> /\ Once(functions) /\ Once(labels) /\ Listed(Len(ctx.symbols) + 1)
        /\ SortedTo(labels, i, j) /\ Ascending(functions)
    BY DEF SortLabels, Sort, DwarfInv, ListsInv, DiesInv, TileFrame, AfterIndex, AfterFunctions
  <1>1. dies' = <<>> /\ stage' \in {"sort_labels", "info"} /\ functions' = functions
    BY <1>0 DEF SortLabels, Sort
  <1>2. DiesInv'
    BY <1>1 DEF DiesInv, AfterInfo, DwarfBuilt
  <1>3. /\ Once(functions)' /\ Ascending(functions)'
        /\ \A n : Holds(functions, n) => Holds(functions', n)
    BY <1>0, <1>1, ListsPrimed
  <1>4. CASE /\ i <= Len(labels) /\ j <= Len(labels) /\ labels' = Exchange(labels)
             /\ j' = j + 1 /\ i' = i /\ stage' = stage
    <2> DEFINE new == Exchange(labels)
    <2>0. i \in 1..Len(labels) /\ j \in 1..Len(labels) /\ i < j
      BY <1>0, <1>4
    <2>1. SortedTo(new, i, j + 1)
      BY <1>0, <2>0, ExchangeSorts
    <2>2. Once(new) /\ \A n : Holds(labels, n) => Holds(new, n)
      <3> HIDE DEF new
      <3>1. new = Exchange(labels)
        BY DEF new
      <3> QED BY <1>0, <2>0, <3>1, ExchangeKeeps
    <2> HIDE DEF new
    <2>3. labels' = new
      BY <1>4 DEF new
    <2>4. Listed(Len(ctx.symbols) + 1)'
      BY <1>0, <1>3, <2>2, <2>3, ListedStays
    <2>5. SortedTo(labels, i, j)' /\ Once(labels)' /\ (i < j)'
      BY <1>0, <1>4, <2>1, <2>2, <2>3 DEF SortedTo, Once, addressOf
    <2>6. ListsInv'
      BY <1>0, <1>3, <1>4, <2>4, <2>5 DEF ListsInv, AfterIndex, AfterFunctions, AfterLabels, DwarfBuilt
    <2> QED BY <1>2, <2>6
  <1>5. CASE /\ i <= Len(labels) /\ j > Len(labels) /\ i' = i + 1 /\ j' = i + 2
             /\ UNCHANGED <<functions, labels, stage>>
    <2>1. SortedTo(labels, i + 1, i + 2)
      BY <1>0, <1>5, SortedNextRound
    <2>2. Listed(Len(ctx.symbols) + 1)' /\ Once(labels)'
      BY <1>0, <1>3, <1>5, ListedStays, ListsPrimed
    <2>3. SortedTo(labels, i, j)' /\ (i < j)'
      BY <1>0, <1>5, <2>1 DEF SortedTo, addressOf
    <2>4. ListsInv'
      BY <1>0, <1>3, <1>5, <2>2, <2>3 DEF ListsInv, AfterIndex, AfterFunctions, AfterLabels, DwarfBuilt
    <2> QED BY <1>2, <2>4
  <1>6. CASE /\ i > Len(labels) /\ stage' = "info" /\ i' = 1 /\ j' = 2
             /\ UNCHANGED <<functions, labels>>
    <2>1. Ascending(labels)
      BY <1>0, <1>6, SortedAtEnd
    <2>2. Listed(Len(ctx.symbols) + 1)' /\ Once(labels)' /\ Ascending(labels)'
      BY <1>0, <1>3, <1>6, <2>1, ListedStays, ListsPrimed
    <2>4. ListsInv'
      BY <1>3, <1>6, <2>2 DEF ListsInv, AfterIndex, AfterFunctions, AfterLabels, DwarfBuilt
    <2> QED BY <1>2, <2>4
  <1> QED BY <1>4, <1>5, <1>6 DEF SortLabels, Sort

(* The lists are not touched while debug_info is written.                  *)
LEMMA ListsStay ==
    ASSUME ListsInv, ctx \in Context, TileFrame, AfterLabels, UNCHANGED <<functions, labels>>,
           stage' \in {"functions", "labels", "line"}
    PROVE  ListsInv'
  <1>0. ctx' = ctx /\ functions' = functions /\ labels' = labels
    BY DEF TileFrame
  <1>1. AfterIndex /\ AfterFunctions
    BY DEF AfterLabels, AfterIndex, AfterFunctions
  <1>2. /\ Once(functions) /\ Once(labels) /\ Listed(Len(ctx.symbols) + 1)
        /\ Ascending(functions) /\ Ascending(labels)
    BY <1>1 DEF ListsInv
  <1>3. Once(functions)' /\ Once(labels)' /\ Ascending(functions)' /\ Ascending(labels)'
    BY <1>0, <1>2, ListsPrimed
  <1>4. Listed(Len(ctx.symbols) + 1)'
    BY <1>0, <1>2, ListedStays
  <1> QED BY <1>3, <1>4 DEF ListsInv

LEMMA DiesPrimed ==
    ASSUME ctx' = ctx, functions' = functions, labels' = labels, NEW n
    PROVE  FunctionDie(n)' = FunctionDie(n) /\ LabelDie(n)' = LabelDie(n)
  <1>1. span(n)' = span(n)
    BY SMT DEF span, addressOf, text_end
  <1>2. addressOf(functions[n])' = addressOf(functions[n]) /\ addressOf(labels[n])' = addressOf(labels[n])
    BY DEF addressOf
  <1> QED BY <1>1, <1>2 DEF FunctionDie, LabelDie

LEMMA OneMore ==
    ASSUME NEW d \in Seq(Die), NEW x \in Die
    PROVE  /\ Len(d \o <<x>>) = Len(d) + 1 /\ (d \o <<x>>)[Len(d) + 1] = x
           /\ \A n \in 1..Len(d) : (d \o <<x>>)[n] = d[n]
           /\ d \o <<>> = d
  <1> HIDE DEF Die
  <1> QED OBVIOUS

LEMMA BeginInfoTiles ==
    ASSUME DwarfInv, ListsInv, DiesInv, ctx \in Context, TileFrame, BeginInfo
    PROVE  ListsInv' /\ DiesInv'
  <1>1. CASE dwarf_overflow
    BY <1>1, OverflowTiles
  <1>2. CASE /\ stage' = "functions" /\ i' = 1 /\ dies' = dies \o <<>>
             /\ UNCHANGED <<functions, labels>>
    <2>1. stage = "info" /\ dies = <<>>
      BY DEF BeginInfo, DiesInv
    <2>2. ListsInv'
      BY <1>2, <2>1, ListsStay DEF AfterLabels
    <2>3. dies' = <<>> /\ Len(functions) \in Nat
      BY <1>2, <2>1 DEF DwarfInv
    <2>4. Entries(i - 1, 0)' /\ (i <= Len(functions) + 1)'
      BY <1>2, <2>3 DEF Entries
    <2> QED BY <1>2, <2>2, <2>4 DEF DiesInv, AfterInfo, DwarfBuilt
  <1> QED BY <1>1, <1>2 DEF BeginInfo, AppendInfo

LEMMA EmitFunctionTiles ==
    ASSUME DwarfInv, ListsInv, DiesInv, ctx \in Context, TileFrame, EmitFunction
    PROVE  ListsInv' /\ DiesInv'
  <1>0. /\ stage = "functions" /\ i \in Nat \ {0} /\ i \in 1..Len(functions) /\ dies \in Seq(Die)
        /\ Entries(i - 1, 0) /\ ctx' = ctx /\ Len(functions) \in Nat
    BY DEF EmitFunction, DwarfInv, DiesInv, TileFrame
  <1>1. CASE dwarf_overflow
    BY <1>1, OverflowTiles
  <1>2. CASE /\ stage' = stage /\ i' = i + 1 /\ dies' = dies \o <<FunctionDie(i)>>
             /\ UNCHANGED <<functions, labels>>
    <2>2. ListsInv'
      BY <1>0, <1>2, ListsStay DEF AfterLabels
    <2> DEFINE die == FunctionDie(i)
    <2>3. die \in Die
      BY <1>0, DieTyped
    <2>4. Len(dies) = i - 1
      BY <1>0 DEF Entries
    <2>5. /\ Len(dies') = i /\ dies'[i] = die
          /\ \A n \in 1..(i - 1) : dies'[n] = FunctionDie(n)
      <3> HIDE DEF die
      <3>1. dies' = dies \o <<die>>
        BY <1>2 DEF die
      <3>2. /\ Len(dies') = Len(dies) + 1 /\ dies'[Len(dies) + 1] = die
            /\ \A n \in 1..Len(dies) : dies'[n] = dies[n]
        BY <1>0, <2>3, <3>1, OneMore
      <3> QED BY <1>0, <2>4, <3>2 DEF Entries
    <2>6. \A n \in 1..i : dies'[n] = FunctionDie(n)'
      <3>1. \A n \in 1..i : dies'[n] = FunctionDie(n)
        BY <1>0, <2>5
      <3> QED BY <1>0, <1>2, <3>1, DiesPrimed
    <2>7. Entries(i - 1, 0)' /\ (i <= Len(functions) + 1)'
      <3>1. i' - 1 = i /\ i' <= Len(functions') + 1
        BY <1>0, <1>2
      <3>2. Len(dies') = i + 0 /\ \A n \in 1..0 : FALSE
        BY <1>0, <2>5
      <3> QED BY <2>6, <3>1, <3>2 DEF Entries
    <2> QED BY <1>0, <1>2, <2>2, <2>7 DEF DiesInv, AfterInfo, DwarfBuilt
  <1> QED BY <1>1, <1>2, Zenon DEF EmitFunction, AppendInfo, FunctionDie

LEMMA EndFunctionsTiles ==
    ASSUME DwarfInv, ListsInv, DiesInv, ctx \in Context, TileFrame, EndFunctions
    PROVE  ListsInv' /\ DiesInv'
  <1>0. /\ stage = "functions" /\ i \in Nat \ {0} /\ i = Len(functions) + 1
        /\ Entries(i - 1, 0) /\ ctx' = ctx /\ Len(functions) \in Nat /\ Len(labels) \in Nat
        /\ stage' = "labels" /\ i' = 1 /\ UNCHANGED <<functions, labels, dies>>
    BY DEF EndFunctions, DwarfInv, DiesInv, TileFrame
  <1>1. ListsInv'
    BY <1>0, ListsStay DEF AfterLabels
  <1>2. Len(dies) = Len(functions) /\ \A n \in 1..Len(functions) : dies[n] = FunctionDie(n)
    BY <1>0 DEF Entries
  <1>3. \A n \in 1..Len(functions) : dies'[n] = FunctionDie(n)'
    BY <1>0, <1>2, DiesPrimed
  <1>4. Entries(Len(functions), i - 1)' /\ (i <= Len(labels) + 1)'
    BY <1>0, <1>2, <1>3 DEF Entries
  <1> QED BY <1>0, <1>1, <1>4 DEF DiesInv, AfterInfo, DwarfBuilt

LEMMA EmitLabelTiles ==
    ASSUME DwarfInv, ListsInv, DiesInv, ctx \in Context, TileFrame, EmitLabel
    PROVE  ListsInv' /\ DiesInv'
  <1> DEFINE F == Len(functions)
  <1>0. /\ stage = "labels" /\ i \in Nat \ {0} /\ i \in 1..Len(labels) /\ dies \in Seq(Die)
        /\ Entries(F, i - 1) /\ ctx' = ctx /\ F \in Nat /\ Len(labels) \in Nat
    BY DEF EmitLabel, DwarfInv, DiesInv, TileFrame
  <1>1. CASE dwarf_overflow
    BY <1>1, OverflowTiles
  <1>2. CASE /\ stage' = stage /\ i' = i + 1 /\ dies' = dies \o <<LabelDie(i)>>
             /\ UNCHANGED <<functions, labels>>
    <2>2. ListsInv'
      BY <1>0, <1>2, ListsStay DEF AfterLabels
    <2> DEFINE die == LabelDie(i)
    <2>3. die \in Die
      BY <1>0, DieTyped
    <2>4. Len(dies) = F + (i - 1)
      BY <1>0 DEF Entries
    <2>5. /\ Len(dies') = F + i /\ dies'[F + i] = die
          /\ \A n \in 1..F : dies'[n] = FunctionDie(n)
          /\ \A n \in 1..(i - 1) : dies'[F + n] = LabelDie(n)
      <3> HIDE DEF die, F
      <3>1. dies' = dies \o <<die>>
        BY <1>2 DEF die
      <3>2. /\ Len(dies') = Len(dies) + 1 /\ dies'[Len(dies) + 1] = die
            /\ \A n \in 1..Len(dies) : dies'[n] = dies[n]
        BY <1>0, <2>3, <3>1, OneMore
      <3>3. Len(dies) + 1 = F + i
        BY <1>0, <2>4
      <3>4. (\A n \in 1..F : n \in 1..Len(dies)) /\ \A n \in 1..(i - 1) : F + n \in 1..Len(dies)
        BY <1>0, <2>4
      <3> QED BY <1>0, <3>2, <3>3, <3>4 DEF Entries
    <2>6. /\ \A n \in 1..F : dies'[n] = FunctionDie(n)'
          /\ \A n \in 1..i : dies'[F + n] = LabelDie(n)'
      <3>1. \A n \in 1..i : dies'[F + n] = LabelDie(n)
        <4> HIDE DEF F
        <4> QED BY <1>0, <2>5
      <3> HIDE DEF F
      <3> QED BY <1>0, <1>2, <2>5, <3>1, DiesPrimed
    <2>7. Entries(Len(functions), i - 1)' /\ (i <= Len(labels) + 1)'
      <3>1. i' - 1 = i /\ i' <= Len(labels') + 1 /\ Len(functions') = F
        BY <1>0, <1>2
      <3>2. Len(dies') = Len(functions') + (i' - 1)
        BY <2>5, <3>1
      <3>3. \A n \in 1..Len(functions') : dies'[n] = FunctionDie(n)'
        BY <2>6, <3>1
      <3>4. \A n \in 1..(i' - 1) : dies'[Len(functions') + n] = LabelDie(n)'
        BY <2>6, <3>1
      <3> QED BY <3>1, <3>2, <3>3, <3>4 DEF Entries
    <2> QED BY <1>0, <1>2, <2>2, <2>7 DEF DiesInv, AfterInfo, DwarfBuilt
  <1> QED BY <1>1, <1>2, Zenon DEF EmitLabel, AppendInfo, LabelDie

LEMMA EndInfoTiles ==
    ASSUME DwarfInv, ListsInv, DiesInv, ctx \in Context, TileFrame, EndInfo
    PROVE  ListsInv' /\ DiesInv'
  <1>0. /\ stage = "labels" /\ i = Len(labels) + 1 /\ Entries(Len(functions), i - 1) /\ ctx' = ctx
        /\ Len(functions) \in Nat /\ Len(labels) \in Nat /\ dies \in Seq(Die)
    BY DEF EndInfo, DwarfInv, DiesInv, TileFrame
  <1>1. CASE dwarf_overflow
    BY <1>1, OverflowTiles
  <1>2. CASE /\ stage' = "line" /\ i' = 1 /\ dies' = dies \o <<>>
             /\ UNCHANGED <<functions, labels>>
    <2>1. ListsInv'
      BY <1>0, <1>2, ListsStay DEF AfterLabels
    <2>2. dies' = dies
      <3> HIDE DEF Die
      <3> QED BY <1>0, <1>2
    <2>3. Entries(Len(functions), Len(labels))
      <3>1. i - 1 = Len(labels)
        BY <1>0
      <3> QED BY <1>0, <3>1
    <2>4. /\ \A n \in 1..Len(functions) : dies'[n] = FunctionDie(n)'
          /\ \A n \in 1..Len(labels) : dies'[Len(functions) + n] = LabelDie(n)'
      BY <1>0, <1>2, <2>2, <2>3, DiesPrimed DEF Entries
    <2>5. Entries(Len(functions), Len(labels))'
      BY <1>2, <2>2, <2>3, <2>4 DEF Entries
    <2> QED BY <1>2, <2>1, <2>5 DEF DiesInv, AfterInfo, DwarfBuilt
  <1> QED BY <1>1, <1>2 DEF EndInfo, AppendInfo

LEMMA LineTiles ==
    ASSUME ListsInv, DiesInv, TileFrame, BeginLine \/ EmitRow \/ EndRows
    PROVE  ListsInv' /\ DiesInv'
  <1>1. stage \in {"line", "rows"}
    BY DEF BeginLine, EmitRow, EndRows
  <1>2. \/ dwarf_overflow
        \/ UNCHANGED <<functions, labels, dies>> /\ stage' \in {"rows", "layout"}
    <2>1. CASE BeginLine
      BY <2>1 DEF BeginLine
    <2>2. CASE EmitRow
      BY <2>2 DEF EmitRow, AppendLine
    <2>3. CASE EndRows
      BY <2>3 DEF EndRows, AppendLine
    <2> QED BY <2>1, <2>2, <2>3
  <1>3. AfterInfo
    BY <1>1 DEF AfterInfo
  <1> QED BY <1>2, <1>3, TileStays, OverflowTiles

(* Where no debug information is being built, or was.                      *)
LEMMA NothingToTile ==
    ASSUME \/ stage' \in {"idle", "dwarf", "overflow"}
           \/ stage' \in {"layout", "written"} /\ ~ opt'.g
    PROVE  ListsInv' /\ DiesInv'
  BY DEF ListsInv, DiesInv, AfterIndex, AfterFunctions, AfterLabels, AfterInfo, DwarfBuilt

LEMMA TileNext == IInv /\ MainInv /\ DwarfInv /\ ListsInv /\ DiesInv /\ [Next]_vars => ListsInv' /\ DiesInv'
  <1> SUFFICES ASSUME IInv, MainInv, DwarfInv, ListsInv, DiesInv, [Next]_vars PROVE ListsInv' /\ DiesInv'
    OBVIOUS
  <1>0. ctx \in Context
    BY DEF MainInv
  <1>1. CASE TileFrame /\ UNCHANGED elf_vars
    <2>1. UNCHANGED <<functions, labels, dies, stage, i, j>>
      BY <1>1 DEF elf_vars
    <2> QED BY <1>1, <2>1, TileStays
  <1>2. CASE ReadOption \/ Assemble
    <2>1. stage' = "idle"
      BY <1>2 DEF ReadOption, Assemble, IInv, PhaseInv, Unwritten, elf_vars
    <2> QED BY <2>1, NothingToTile
  <1>3. CASE OpenElf
    <2>1. opt' = opt /\ stage' = IF opt.g THEN "dwarf" ELSE "layout"
      BY <1>3 DEF OpenElf
    <2> QED BY <2>1, NothingToTile
  <1>4. CASE BuildElf
    <2>1. BuildDwarf /\ TileFrame
      BY <1>4 DEF BuildElf, TileFrame, driver_vars
    <2> QED BY <1>0, <2>1, BeginDwarfTiles, IndexTiles, EnsureStartTiles, SortFunctionsTiles, SortLabelsTiles,
               BeginInfoTiles, EmitFunctionTiles, EndFunctionsTiles, EmitLabelTiles, EndInfoTiles,
               LineTiles DEF BuildDwarf
  <1>5. CASE WriteElf
    <2>1. /\ stage = "layout" /\ stage' = "written" /\ TileFrame /\ opt' = opt
          /\ UNCHANGED <<functions, labels, dies>>
      BY <1>5 DEF WriteElf, TileFrame
    <2>2. CASE opt.g
      <3>1. AfterInfo
        BY <2>1, <2>2 DEF AfterInfo, DwarfBuilt
      <3> QED BY <2>1, <3>1, TileStays
    <2>3. CASE ~ opt.g
      BY <2>1, <2>3, NothingToTile
    <2> QED BY <2>2, <2>3
  <1>6. CASE NextInvocation
    <2>1. stage' = "idle"
      BY <1>6 DEF NextInvocation
    <2> QED BY <2>1, NothingToTile
  <1>7. CASE \/ StopAtOption \/ Disassemble \/ NoInput \/ asm_init
             \/ CollectDefine \/ InvalidDefine \/ PreprocessOnly \/ AssembleFails
             \/ FatalWarning \/ Dependencies \/ BeginOutput
             \/ OpenFails \/ UnknownFormat \/ WriteFlat \/ ElfOverflow
    <2>1. TileFrame /\ UNCHANGED elf_vars
      BY <1>7 DEF StopAtOption, Disassemble, NoInput, asm_init, CollectDefine, InvalidDefine,
                  PreprocessOnly, AssembleFails, FatalWarning, Dependencies, BeginOutput, OpenFails,
                  UnknownFormat, WriteFlat, ElfOverflow, Exit, FreeAndExit, TileFrame
    <2> QED BY <1>1, <2>1
  <1>8. CASE WriteDebugMap \/ WriteListing \/ Finished \/ UNCHANGED vars
    <2>1. TileFrame /\ UNCHANGED elf_vars
      BY <1>8 DEF WriteDebugMap, WriteListing, WriteBeside, Finished, vars, driver_vars, Exit, FreeAndExit, TileFrame
    <2> QED BY <1>1, <2>1
  <1> QED BY <1>2, <1>3, <1>4, <1>5, <1>6, <1>7, <1>8 DEF Next

LEMMA TileHolds == Spec => [](IInv /\ MainInv /\ DwarfInv /\ ListsInv /\ DiesInv)
  <1>1. Init => ListsInv /\ DiesInv
    BY DEF Init, Idle, ListsInv, DiesInv, AfterIndex, AfterFunctions, AfterLabels, AfterInfo, DwarfBuilt
  <1> QED BY <1>1, TileNext, TypedHolds, PTL DEF Spec

LEMMA DieFields ==
    ASSUME NEW n
    PROVE  /\ FunctionDie(n).kind = "function" /\ FunctionDie(n).symbol = functions[n]
           /\ FunctionDie(n).low_pc = addressOf(functions[n]) /\ FunctionDie(n).span = span(n)
           /\ LabelDie(n).kind = "label" /\ LabelDie(n).symbol = labels[n]
           /\ LabelDie(n).low_pc = addressOf(labels[n])
  BY DEF FunctionDie, LabelDie

(* What the finished entries are.                                          *)
LEMMA EntriesAre ==
    ASSUME DwarfInv, DiesInv, ctx \in Context, DwarfBuilt
    PROVE  LET F == Len(functions)
           IN  /\ F \in Nat /\ Len(labels) \in Nat /\ DOMAIN dies = 1..(F + Len(labels))
               /\ Len(dies) = F + Len(labels)
               /\ \A n \in 1..F : /\ dies[n].kind = "function" /\ dies[n].symbol = functions[n]
                                  /\ dies[n].low_pc = addressOf(functions[n]) /\ dies[n].span = span(n)
               /\ \A n \in 1..Len(labels) :
                     /\ dies[F + n].kind = "label" /\ dies[F + n].symbol = labels[n]
                     /\ dies[F + n].low_pc = addressOf(labels[n])
  <1>1. Entries(Len(functions), Len(labels))
    BY DEF DiesInv, AfterInfo
  <1>2. Len(functions) \in Nat /\ Len(labels) \in Nat /\ DOMAIN dies = 1..Len(dies)
    BY DEF DwarfInv
  <1>3. \A n \in 1..Len(functions) :
           /\ dies[n].kind = "function" /\ dies[n].symbol = functions[n]
           /\ dies[n].low_pc = addressOf(functions[n]) /\ dies[n].span = span(n)
    BY <1>1, DieFields DEF Entries
  <1>4. \A n \in 1..Len(labels) :
           /\ dies[Len(functions) + n].kind = "label" /\ dies[Len(functions) + n].symbol = labels[n]
           /\ dies[Len(functions) + n].low_pc = addressOf(labels[n])
    BY <1>1, DieFields DEF Entries
  <1>5. Len(dies) = Len(functions) + Len(labels)
    BY <1>1 DEF Entries
  <1> QED BY <1>2, <1>3, <1>4, <1>5

IsFunction(n) == n \in DOMAIN dies /\ dies[n].kind = "function"
EntryFor(n, s) == dies[n].symbol = s /\ dies[n].kind = Kind(ctx.symbols[s])

LEMMA FunctionsFirst ==
    ASSUME DwarfInv, DiesInv, ctx \in Context, DwarfBuilt
    PROVE  \A n \in Nat \ {0} : IsFunction(n) <=> n <= Len(functions)
  <1> DEFINE F == Len(functions)
  <1> SUFFICES ASSUME NEW n \in Nat \ {0} PROVE IsFunction(n) <=> n <= F
    OBVIOUS
  <1>1. F \in Nat /\ Len(labels) \in Nat /\ DOMAIN dies = 1..(F + Len(labels))
    BY EntriesAre
  <1>2. \A m \in 1..F : dies[m].kind = "function"
    BY EntriesAre
  <1>3. \A m \in 1..Len(labels) : dies[F + m].kind = "label"
    BY EntriesAre
  <1> HIDE DEF F
  <1>4. CASE n <= F
    BY <1>1, <1>2, <1>4 DEF IsFunction
  <1>5. CASE n > F
    <2>1. n \in DOMAIN dies => dies[n].kind = "label"
      <3> SUFFICES ASSUME n \in DOMAIN dies PROVE dies[n].kind = "label"
        OBVIOUS
      <3>1. n - F \in 1..Len(labels) /\ F + (n - F) = n
        BY <1>1, <1>5
      <3> QED BY <1>3, <3>1
    <2> QED BY <1>1, <1>5, <2>1 DEF IsFunction
  <1> QED BY <1>1, <1>4, <1>5

(* A function ends where the next one begins.                              *)
LEMMA SpanReaches ==
    ASSUME DwarfInv, ListsInv, ctx \in Context, DwarfBuilt, NEW n \in 1..Len(functions),
           InText(ctx.symbols[functions[n]])
    PROVE  addressOf(functions[n]) + span(n) =
              IF n < Len(functions) THEN addressOf(functions[n + 1]) ELSE text_end
  <1> DEFINE a == addressOf(functions[n])
             b == IF n < Len(functions) THEN addressOf(functions[n + 1]) ELSE text_end
  <1>1. Ascending(functions)
    BY DEF ListsInv, AfterFunctions
  <1>2. a \in Nat /\ text_end \in Nat /\ Len(functions) \in Nat
    BY SpanTyped, CtxFields DEF DwarfInv
  <1>3. b \in Nat /\ a <= b
    <2>1. CASE n < Len(functions)
      <3>1. n \in DOMAIN functions /\ n + 1 \in DOMAIN functions /\ n < n + 1 /\ n + 1 \in 1..Len(functions)
        BY <1>2, <2>1 DEF DwarfInv
      <3>2. addressOf(functions[n + 1]) \in Nat
        BY <3>1, SpanTyped
      <3>3. a <= addressOf(functions[n + 1])
        BY <1>1, <3>1 DEF Ascending
      <3> QED BY <2>1, <3>2, <3>3
    <2>2. CASE ~ (n < Len(functions))
      <3>1. ctx.symbols[functions[n]].address \in base_address..text_end
        BY DEF InText
      <3>2. a \in base_address..text_end
        BY <3>1 DEF addressOf
      <3>3. base_address \in Nat
        BY CtxFields
      <3>4. a <= text_end
        <4> HIDE DEF a
        <4> QED BY <1>2, <3>2, <3>3
      <3> QED BY <1>2, <2>2, <3>4
    <2> QED BY <2>1, <2>2
  <1>4. span(n) = IF b > a THEN b - a ELSE 0
    BY Zenon DEF span
  <1>5. a + span(n) = b
    <2> HIDE DEF a, b
    <2> QED BY <1>2, <1>3, <1>4
  <1> QED BY <1>5

(* The first two parts: spans, and the labels behind them.                 *)
LEMMA EntriesInOrder ==
    ASSUME DwarfInv, ListsInv, DiesInv, ctx \in Context, DwarfBuilt,
           \A n \in DOMAIN dies : IsFunction(n) => InText(ctx.symbols[dies[n].symbol])
    PROVE  /\ \A n \in DOMAIN dies :
                 /\ dies[n].low_pc = addressOf(dies[n].symbol)
                 /\ IsFunction(n) => dies[n].low_pc + dies[n].span =
                                        IF IsFunction(n + 1) THEN dies[n + 1].low_pc ELSE text_end
           /\ \A n \in 1..(Len(dies) - 1) : ~ IsFunction(n) =>
                 ~ IsFunction(n + 1) /\ dies[n].low_pc <= dies[n + 1].low_pc
  <1> DEFINE F == Len(functions)
  <1>1. /\ F \in Nat /\ Len(labels) \in Nat /\ DOMAIN dies = 1..(F + Len(labels))
        /\ Len(dies) = F + Len(labels)
    BY EntriesAre
  <1>2. \A n \in 1..F : /\ dies[n].kind = "function" /\ dies[n].symbol = functions[n]
                        /\ dies[n].low_pc = addressOf(functions[n]) /\ dies[n].span = span(n)
    BY EntriesAre
  <1>3. \A n \in 1..Len(labels) :
           /\ dies[F + n].kind = "label" /\ dies[F + n].symbol = labels[n]
           /\ dies[F + n].low_pc = addressOf(labels[n])
    BY EntriesAre
  <1>4. \A n \in Nat \ {0} : IsFunction(n) <=> n <= F
    BY FunctionsFirst
  <1>5. Ascending(labels) /\ DOMAIN labels = 1..Len(labels)
    BY DEF ListsInv, AfterLabels, DwarfInv
  <1>6. ASSUME NEW n \in DOMAIN dies PROVE dies[n].low_pc = addressOf(dies[n].symbol)
    <2> HIDE DEF F
    <2>1. CASE n <= F
      BY <1>1, <1>2, <2>1
    <2>2. CASE n > F
      <3>1. n - F \in 1..Len(labels) /\ F + (n - F) = n
        BY <1>1, <2>2
      <3>2. /\ dies[F + (n - F)].symbol = labels[n - F]
            /\ dies[F + (n - F)].low_pc = addressOf(labels[n - F])
        BY <1>3, <3>1
      <3> QED BY <3>1, <3>2
    <2> QED BY <1>1, <2>1, <2>2
  <1>7. ASSUME NEW n \in DOMAIN dies, IsFunction(n)
        PROVE  dies[n].low_pc + dies[n].span = IF IsFunction(n + 1) THEN dies[n + 1].low_pc ELSE text_end
    <2>1. n \in 1..F /\ n + 1 \in Nat \ {0}
      BY <1>1, <1>4, <1>7
    <2>2. InText(ctx.symbols[functions[n]])
      BY <1>2, <1>7, <2>1
    <2>3. addressOf(functions[n]) + span(n) =
             IF n < F THEN addressOf(functions[n + 1]) ELSE text_end
      BY <2>1, <2>2, SpanReaches
    <2>4. dies[n].low_pc = addressOf(functions[n]) /\ dies[n].span = span(n)
      BY <1>2, <2>1
    <2> HIDE DEF F
    <2>5. n < F <=> IsFunction(n + 1)
      BY <1>1, <1>4, <2>1
    <2>6. n < F => dies[n + 1].low_pc = addressOf(functions[n + 1])
      BY <1>1, <1>2, <2>1
    <2> QED BY <2>3, <2>4, <2>5, <2>6
  <1>8. ASSUME NEW n \in 1..(Len(dies) - 1), ~ IsFunction(n)
        PROVE  ~ IsFunction(n + 1) /\ dies[n].low_pc <= dies[n + 1].low_pc
    <2> HIDE DEF F
    <2>1. n \in Nat \ {0} /\ n + 1 \in Nat \ {0} /\ n > F
      BY <1>1, <1>4, <1>8
    <2>2. ~ IsFunction(n + 1)
      BY <1>1, <1>4, <2>1
    <2>3. /\ n - F \in 1..Len(labels) /\ F + (n - F) = n
          /\ (n - F) + 1 \in 1..Len(labels) /\ F + ((n - F) + 1) = n + 1 /\ n - F < (n - F) + 1
      BY <1>1, <2>1
    <2>4. addressOf(labels[n - F]) <= addressOf(labels[(n - F) + 1])
      BY <1>5, <2>3 DEF Ascending
    <2>5. dies[F + (n - F)].low_pc = addressOf(labels[n - F])
      BY <1>3, <2>3
    <2>6. dies[F + ((n - F) + 1)].low_pc = addressOf(labels[(n - F) + 1])
      BY <1>3, <2>3
    <2> QED BY <2>2, <2>3, <2>4, <2>5, <2>6
  <1> QED BY <1>6, <1>7, <1>8

(* The third part: one entry for each symbol of the text.                  *)
LEMMA OneEntryEach ==
    ASSUME DwarfInv, ListsInv, DiesInv, ctx \in Context, DwarfBuilt, NEW s \in Defined
    PROVE  \E n \in DOMAIN dies : EntryFor(n, s) /\ \A m \in DOMAIN dies : EntryFor(m, s) => m = n
  <1> DEFINE F == Len(functions)
  <1>1. /\ F \in Nat /\ Len(labels) \in Nat /\ DOMAIN dies = 1..(F + Len(labels))
    BY EntriesAre
  <1>2. \A n \in 1..F : dies[n].kind = "function" /\ dies[n].symbol = functions[n]
    BY EntriesAre
  <1>3. \A n \in 1..Len(labels) : dies[F + n].kind = "label" /\ dies[F + n].symbol = labels[n]
    BY EntriesAre
  <1>4. /\ Once(functions) /\ Once(labels) /\ Listed(Len(ctx.symbols) + 1)
        /\ DOMAIN functions = 1..F /\ DOMAIN labels = 1..Len(labels)
    BY DEF ListsInv, AfterIndex, DwarfInv
  <1>5. s \in Indices /\ s < Len(ctx.symbols) + 1 /\ InText(ctx.symbols[s])
    BY CtxFields DEF Defined, Indices
  <1>6. IF ctx.symbols[s].function THEN \E m \in DOMAIN functions : functions[m] = s
        ELSE \E m \in DOMAIN labels : labels[m] = s
    BY <1>4, <1>5 DEF Listed
  <1> HIDE DEF F
  <1>7. \A m \in DOMAIN dies : m \in 1..F \/ (m - F \in 1..Len(labels) /\ F + (m - F) = m)
    BY <1>1
  <1>8. CASE ctx.symbols[s].function
    <2>1. PICK n \in 1..F : functions[n] = s
      BY <1>4, <1>6, <1>8
    <2>2. n \in DOMAIN dies /\ dies[n].symbol = s /\ dies[n].kind = "function"
      BY <1>1, <1>2, <2>1
    <2>3. Kind(ctx.symbols[s]) = "function"
      BY <1>8 DEF Kind
    <2>4. ASSUME NEW m \in DOMAIN dies, EntryFor(m, s) PROVE m = n
      <3>1. dies[m].symbol = s /\ dies[m].kind = "function"
        BY <2>3, <2>4 DEF EntryFor
      <3>2. CASE m \in 1..F
        BY <1>2, <1>4, <2>1, <3>1, <3>2 DEF Once
      <3>3. CASE m - F \in 1..Len(labels) /\ F + (m - F) = m
        <4>1. dies[F + (m - F)].kind = "label"
          BY <1>3, <3>3
        <4> QED BY <3>1, <3>3, <4>1
      <3> QED BY <1>7, <3>2, <3>3
    <2>5. EntryFor(n, s)
      BY <2>2, <2>3 DEF EntryFor
    <2> QED BY <2>2, <2>4, <2>5
  <1>9. CASE ~ ctx.symbols[s].function
    <2>1. PICK p \in 1..Len(labels) : labels[p] = s
      BY <1>4, <1>6, <1>9
    <2>2. F + p \in DOMAIN dies /\ dies[F + p].symbol = s /\ dies[F + p].kind = "label"
      BY <1>1, <1>3, <2>1
    <2>3. Kind(ctx.symbols[s]) = "label"
      BY <1>9 DEF Kind
    <2>4. ASSUME NEW m \in DOMAIN dies, EntryFor(m, s) PROVE m = F + p
      <3>1. dies[m].symbol = s /\ dies[m].kind = "label"
        BY <2>3, <2>4 DEF EntryFor
      <3>2. CASE m \in 1..F
        <4>1. dies[m].kind = "function"
          BY <1>2, <3>2
        <4> QED BY <3>1, <4>1
      <3>3. CASE m - F \in 1..Len(labels) /\ F + (m - F) = m
        <4>1. dies[F + (m - F)].symbol = labels[m - F]
          BY <1>3, <3>3
        <4>2. labels[m - F] = labels[p]
          BY <2>1, <3>1, <3>3, <4>1
        <4>3. m - F = p
          BY <1>4, <2>1, <3>3, <4>2 DEF Once
        <4> QED BY <3>3, <4>3
      <3> QED BY <1>7, <3>2, <3>3
    <2>5. EntryFor(F + p, s)
      BY <2>2, <2>3 DEF EntryFor
    <2> QED BY <2>2, <2>4, <2>5
  <1> QED BY <1>8, <1>9

(* For every number of symbols, in whatever order they were defined and however many share
   an address: the exchanges of asm_write_elf64 lose and repeat no symbol and leave both
   lists sorted, so that the entries of functions cover the text from the first function to
   its end without gap or overlap, the labels follow in the order of their addresses, and
   every symbol of the text has exactly one entry of its kind. *)
THEOREM EntriesTile == Spec => []FunctionsTileText
  <1>1. IInv /\ MainInv /\ DwarfInv /\ ListsInv /\ DiesInv => FunctionsTileText
    <2> SUFFICES ASSUME MainInv, DwarfInv, ListsInv, DiesInv, DwarfBuilt,
                        \A n \in DOMAIN dies : IsFunction(n) => InText(ctx.symbols[dies[n].symbol])
                 PROVE  /\ \A n \in DOMAIN dies :
                              /\ dies[n].low_pc = addressOf(dies[n].symbol)
                              /\ IsFunction(n) => dies[n].low_pc + dies[n].span =
                                                     IF IsFunction(n + 1) THEN dies[n + 1].low_pc ELSE text_end
                        /\ \A n \in 1..(Len(dies) - 1) : ~ IsFunction(n) =>
                              ~ IsFunction(n + 1) /\ dies[n].low_pc <= dies[n + 1].low_pc
                        /\ \A s \in Defined : \E n \in DOMAIN dies :
                              EntryFor(n, s) /\ \A m \in DOMAIN dies : EntryFor(m, s) => m = n
      BY Zenon DEF FunctionsTileText, IsFunction, EntryFor
    <2>1. ctx \in Context
      BY DEF MainInv
    <2> QED BY <2>1, EntriesInOrder, OneEntryEach, Zenon
  <1> QED BY <1>1, TileHolds, PTL

-----------------------------------------------------------------------------
(* The line program: a consumer reads back what was written.               *)

Modes == {"op", "length", "extended", "pc", "line", "end", "bad"}
ReadRow == [address : Int, line : Int]
Reader == [mode : Modes, acc : Int, unit : Int, address : Int, line : Int, rows : Seq(ReadRow)]
State(m, a, u, at, l, rs) ==
    [mode |-> m, acc |-> a, unit |-> u, address |-> at, line |-> l, rows |-> rs]

(* A consumer in state st comes to state end by reading p.                 *)
IsTrace(t, p) == /\ t \in [0..Len(p) -> Reader]
                 /\ \A n \in 1..Len(p) : t[n] = ReadByte(t[n - 1], p[n])
Runs(st, p, end) == \E t : IsTrace(t, p) /\ t[0] = st /\ t[Len(p)] = end

LEMMA StateTyped ==
    ASSUME NEW m \in Modes, NEW a \in Int, NEW u \in Int, NEW at \in Int, NEW l \in Int,
           NEW rs \in Seq(ReadRow)
    PROVE  State(m, a, u, at, l, rs) \in Reader
  <1> HIDE DEF ReadRow, Modes
  <1> QED BY DEF State, Reader

LEMMA RunsNone ==
    ASSUME NEW st \in Reader
    PROVE  Runs(st, <<>>, st)
  <1> DEFINE t == [n \in 0..0 |-> st]
  <1>1. t \in [0..Len(<<>>) -> Reader] /\ t[0] = st /\ t[Len(<<>>)] = st
    <2> HIDE DEF Reader
    <2> QED OBVIOUS
  <1>2. IsTrace(t, <<>>)
    BY <1>1 DEF IsTrace
  <1> HIDE DEF t
  <1> QED BY <1>1, <1>2 DEF Runs

LEMMA RunsOne ==
    ASSUME NEW st \in Reader, NEW end \in Reader, NEW b \in Int, end = ReadByte(st, b)
    PROVE  Runs(st, <<b>>, end)
  <1> DEFINE t == [n \in 0..1 |-> IF n = 0 THEN st ELSE end]
             p == <<b>>
  <1>1. Len(p) = 1 /\ p[1] = b
    OBVIOUS
  <1>2. t \in [0..1 -> Reader] /\ t[0] = st /\ t[1] = end
    <2> HIDE DEF Reader
    <2> QED OBVIOUS
  <1> HIDE DEF t, p
  <1>3. \A n \in 1..1 : t[n] = ReadByte(t[n - 1], p[n])
    <2> SUFFICES ASSUME NEW n \in 1..1 PROVE t[n] = ReadByte(t[n - 1], p[n])
      OBVIOUS
    <2>1. n = 1 /\ n - 1 = 0
      OBVIOUS
    <2> QED BY <1>1, <1>2, <2>1
  <1>4. IsTrace(t, p)
    BY <1>1, <1>2, <1>3 DEF IsTrace
  <1>5. Runs(st, p, end)
    BY <1>1, <1>2, <1>4 DEF Runs
  <1> QED BY <1>5 DEF p

LEMMA RunsThen ==
    ASSUME NEW p \in Seq(Int), NEW q \in Seq(Int), NEW a, NEW b, NEW c, Runs(a, p, b), Runs(b, q, c)
    PROVE  Runs(a, p \o q, c)
  <1> DEFINE P == Len(p)
             Q == Len(q)
             r == p \o q
  <1>0. /\ P \in Nat /\ Q \in Nat /\ Len(r) = P + Q
        /\ \A n \in 1..P : r[n] = p[n]
        /\ \A n \in (P + 1)..(P + Q) : r[n] = q[n - P]
    OBVIOUS
  <1>1. PICK t : IsTrace(t, p) /\ t[0] = a /\ t[P] = b
    BY DEF Runs
  <1>2. PICK s : IsTrace(s, q) /\ s[0] = b /\ s[Q] = c
    BY DEF Runs
  <1> DEFINE w == [n \in 0..(P + Q) |-> IF n <= P THEN t[n] ELSE s[n - P]]
  <1>3. /\ t \in [0..P -> Reader] /\ \A n \in 1..P : t[n] = ReadByte(t[n - 1], p[n])
        /\ s \in [0..Q -> Reader] /\ \A n \in 1..Q : s[n] = ReadByte(s[n - 1], q[n])
    BY <1>1, <1>2 DEF IsTrace
  <1> HIDE DEF P, Q, r
  <1>4. w \in [0..(P + Q) -> Reader]
    <2> HIDE DEF Reader
    <2>1. \A n \in 0..(P + Q) : n <= P => n \in 0..P
      BY <1>0
    <2>2. \A n \in 0..(P + Q) : ~ (n <= P) => n - P \in 0..Q
      BY <1>0
    <2> QED BY <1>3, <2>1, <2>2
  <1>5. /\ \A n \in 0..P : w[n] = t[n]
        /\ \A n \in 0..Q : w[P + n] = s[n]
    <2>1. ASSUME NEW n \in 0..P PROVE w[n] = t[n]
      BY <1>0
    <2>2. ASSUME NEW n \in 0..Q PROVE w[P + n] = s[n]
      <3>1. CASE n = 0
        <4>1. P + n = P /\ P \in 0..P
          BY <1>0, <3>1
        <4>2. w[P] = t[P]
          BY <2>1, <4>1
        <4> HIDE DEF w
        <4> QED BY <1>1, <1>2, <3>1, <4>1, <4>2 DEF P
      <3>2. CASE n # 0
        <4>1. P + n \in 0..(P + Q) /\ ~ (P + n <= P) /\ (P + n) - P = n
          BY <1>0, <3>2
        <4> QED BY <4>1
      <3> QED BY <3>1, <3>2
    <2> QED BY <2>1, <2>2
  <1> HIDE DEF w
  <1>6. ASSUME NEW n \in 1..(P + Q) PROVE w[n] = ReadByte(w[n - 1], r[n])
    <2>1. CASE n <= P
      <3>1. n \in 1..P /\ n \in 0..P /\ n - 1 \in 0..P
        BY <1>0, <2>1
      <3> QED BY <1>0, <1>3, <1>5, <3>1
    <2>2. CASE ~ (n <= P)
      <3> DEFINE k1 == n - P
      <3>1. k1 \in 1..Q /\ k1 \in 0..Q /\ k1 - 1 \in 0..Q /\ P + k1 = n /\ P + (k1 - 1) = n - 1
            /\ n \in (P + 1)..(P + Q)
        BY <1>0, <2>2
      <3>2. r[n] = q[k1]
        BY <1>0, <3>1
      <3> HIDE DEF k1
      <3>3. w[P + k1] = s[k1] /\ w[P + (k1 - 1)] = s[k1 - 1]
        BY <1>5, <3>1
      <3>4. s[k1] = ReadByte(s[k1 - 1], q[k1])
        BY <1>3, <3>1
      <3> QED BY <3>1, <3>2, <3>3, <3>4
    <2> QED BY <2>1, <2>2
  <1>7. IsTrace(w, r)
    BY <1>0, <1>4, <1>6 DEF IsTrace
  <1>8. w[0] = a /\ w[P + Q] = c
    <2>1. 0 \in 0..P /\ Q \in 0..Q
      BY <1>0
    <2>2. w[0] = t[0] /\ w[P + Q] = s[Q]
      BY <1>5, <2>1
    <2> QED BY <1>1, <1>2, <2>2
  <1>9. Runs(a, r, c)
    BY <1>0, <1>7, <1>8 DEF Runs
  <1> QED BY <1>9 DEF r

(* Consumed is where the reading from the start ends.                      *)
LEMMA RunsConsumed ==
    ASSUME NEW p \in Seq(Int), NEW end, Runs(ReaderStart, p, end)
    PROVE  Consumed(p) = end
  <1> DEFINE N == Len(p)
             after[n \in 0..Len(p)] == IF n = 0 THEN ReaderStart ELSE ReadByte(after[n - 1], p[n])
             f == after
  <1>0. N \in Nat
    OBVIOUS
  <1>1. PICK t : IsTrace(t, p) /\ t[0] = ReaderStart /\ t[N] = end
    BY DEF Runs
  <1>2. t = [n \in 0..Len(p) |-> IF n = 0 THEN ReaderStart ELSE ReadByte(t[n - 1], p[n])]
    <2>1. t = [n \in 0..Len(p) |-> t[n]]
      BY <1>1 DEF IsTrace
    <2>2. ASSUME NEW n \in 0..Len(p)
          PROVE  t[n] = IF n = 0 THEN ReaderStart ELSE ReadByte(t[n - 1], p[n])
      <3>1. n # 0 => n \in 1..Len(p)
        BY <1>0
      <3> QED BY <1>1, <3>1 DEF IsTrace
    <2> QED BY <2>1, <2>2, Zenon
  <1>3. f = [n \in 0..Len(p) |-> IF n = 0 THEN ReaderStart ELSE ReadByte(f[n - 1], p[n])]
    BY <1>2, Zenon
  <1>4. Consumed(p) = f[N]
    BY Zenon DEF Consumed
  <1> HIDE DEF f
  <1>5. \A n \in 0..N : f[n] = IF n = 0 THEN ReaderStart ELSE ReadByte(f[n - 1], p[n])
    BY <1>3, Zenon
  <1>6. \A n \in 0..N : f[n] = t[n]
    <2> DEFINE E == {n \in 0..N : f[n] = t[n]}
    <2>1. 0 \in E /\ E \in SUBSET (0..N)
      BY <1>0, <1>1, <1>5
    <2>2. \A n \in 0..N-1 : n \in E => n + 1 \in E
      <3> SUFFICES ASSUME NEW n \in 0..N-1, n \in E PROVE n + 1 \in E
        OBVIOUS
      <3>1. n + 1 \in 0..N /\ n + 1 # 0 /\ (n + 1) - 1 = n /\ n + 1 \in 1..N
        BY <1>0
      <3>2. f[n + 1] = ReadByte(f[n], p[n + 1])
        BY <1>5, <3>1
      <3>3. t[n + 1] = ReadByte(t[n], p[n + 1])
        BY <1>1, <3>1 DEF IsTrace
      <3>4. f[n] = t[n]
        OBVIOUS
      <3>5. f[n + 1] = t[n + 1]
        BY <3>2, <3>3, <3>4
      <3> QED BY <3>1, <3>5
    <2>3. 0..N \subseteq E
      <3> HIDE DEF E, N
      <3> QED BY <1>0, <2>1, <2>2, Upwards
    <2> QED BY <2>3
  <1>7. N \in 0..N
    BY <1>0
  <1> QED BY <1>1, <1>4, <1>6, <1>7

(* Fields of a state that are replaced together.                           *)
LEMMA StateFields ==
    ASSUME NEW m, NEW a, NEW u, NEW at, NEW l, NEW rs
    PROVE  LET st == State(m, a, u, at, l, rs)
           IN  /\ st.mode = m /\ st.acc = a /\ st.unit = u /\ st.address = at /\ st.line = l
               /\ st.rows = rs
  BY DEF State

WithMode(st, x) == [st EXCEPT !.mode = x]
WithRows(st, x) == [st EXCEPT !.rows = x]
WithNumber(st, y, z) == [st EXCEPT !.acc = y, !.unit = z]
WithModeNumber(st, x, y, z) == [st EXCEPT !.mode = x, !.acc = y, !.unit = z]
WithModeAddress(st, x, y) == [st EXCEPT !.mode = x, !.address = y]
WithModeLine(st, x, y) == [st EXCEPT !.mode = x, !.line = y]

LEMMA SetsMode ==
    ASSUME NEW m, NEW a, NEW u, NEW at, NEW l, NEW rs, NEW x
    PROVE  WithMode(State(m, a, u, at, l, rs), x) = State(x, a, u, at, l, rs)
  BY DEF State, WithMode

LEMMA SetsRows ==
    ASSUME NEW m, NEW a, NEW u, NEW at, NEW l, NEW rs, NEW x
    PROVE  WithRows(State(m, a, u, at, l, rs), x) = State(m, a, u, at, l, x)
  BY DEF State, WithRows

LEMMA SetsNumber ==
    ASSUME NEW m, NEW a, NEW u, NEW at, NEW l, NEW rs, NEW y, NEW z
    PROVE  WithNumber(State(m, a, u, at, l, rs), y, z) = State(m, y, z, at, l, rs)
  <1> DEFINE st == State(m, a, u, at, l, rs)
  <1>1. [st EXCEPT !.acc = y] = State(m, y, u, at, l, rs)
    BY DEF State
  <1>2. [State(m, y, u, at, l, rs) EXCEPT !.unit = z] = State(m, y, z, at, l, rs)
    BY DEF State
  <1> HIDE DEF st
  <1>3. [st EXCEPT !.acc = y, !.unit = z] = [[st EXCEPT !.acc = y] EXCEPT !.unit = z]
    OBVIOUS
  <1> QED BY <1>1, <1>2, <1>3 DEF st, WithNumber

LEMMA SetsModeNumber ==
    ASSUME NEW m, NEW a, NEW u, NEW at, NEW l, NEW rs, NEW x, NEW y, NEW z
    PROVE  WithModeNumber(State(m, a, u, at, l, rs), x, y, z) = State(x, y, z, at, l, rs)
  <1> DEFINE st == State(m, a, u, at, l, rs)
  <1>1. [st EXCEPT !.mode = x] = State(x, a, u, at, l, rs)
    BY DEF State
  <1>2. [State(x, a, u, at, l, rs) EXCEPT !.acc = y] = State(x, y, u, at, l, rs)
    BY DEF State
  <1>3. [State(x, y, u, at, l, rs) EXCEPT !.unit = z] = State(x, y, z, at, l, rs)
    BY DEF State
  <1> HIDE DEF st
  <1>4. [st EXCEPT !.mode = x, !.acc = y, !.unit = z] =
           [[[st EXCEPT !.mode = x] EXCEPT !.acc = y] EXCEPT !.unit = z]
    OBVIOUS
  <1> QED BY <1>1, <1>2, <1>3, <1>4 DEF st, WithModeNumber

LEMMA SetsModeAddress ==
    ASSUME NEW m, NEW a, NEW u, NEW at, NEW l, NEW rs, NEW x, NEW y
    PROVE  WithModeAddress(State(m, a, u, at, l, rs), x, y) = State(x, a, u, y, l, rs)
  <1> DEFINE st == State(m, a, u, at, l, rs)
  <1>1. [st EXCEPT !.mode = x] = State(x, a, u, at, l, rs)
    BY DEF State
  <1>2. [State(x, a, u, at, l, rs) EXCEPT !.address = y] = State(x, a, u, y, l, rs)
    BY DEF State
  <1> HIDE DEF st
  <1>3. [st EXCEPT !.mode = x, !.address = y] = [[st EXCEPT !.mode = x] EXCEPT !.address = y]
    OBVIOUS
  <1> QED BY <1>1, <1>2, <1>3 DEF st, WithModeAddress

LEMMA SetsModeLine ==
    ASSUME NEW m, NEW a, NEW u, NEW at, NEW l, NEW rs, NEW x, NEW y
    PROVE  WithModeLine(State(m, a, u, at, l, rs), x, y) = State(x, a, u, at, y, rs)
  <1> DEFINE st == State(m, a, u, at, l, rs)
  <1>1. [st EXCEPT !.mode = x] = State(x, a, u, at, l, rs)
    BY DEF State
  <1>2. [State(x, a, u, at, l, rs) EXCEPT !.line = y] = State(x, a, u, at, y, rs)
    BY DEF State
  <1> HIDE DEF st
  <1>3. [st EXCEPT !.mode = x, !.line = y] = [[st EXCEPT !.mode = x] EXCEPT !.line = y]
    OBVIOUS
  <1> QED BY <1>1, <1>2, <1>3 DEF st, WithModeLine

(* What one byte does.                                                     *)
LEMMA ReadsOp ==
    ASSUME NEW a, NEW u, NEW at, NEW l, NEW rs
    PROVE  /\ ReadByte(State("op", a, u, at, l, rs), 0) = State("length", a, u, at, l, rs)
           /\ ReadByte(State("op", a, u, at, l, rs), 2) = State("pc", 0, 1, at, l, rs)
           /\ ReadByte(State("op", a, u, at, l, rs), 3) = State("line", 0, 1, at, l, rs)
  <1> DEFINE st == State("op", a, u, at, l, rs)
  <1>1. st.mode = "op"
    BY StateFields
  <1>2. /\ WithMode(st, "length") = State("length", a, u, at, l, rs)
        /\ WithModeNumber(st, "pc", 0, 1) = State("pc", 0, 1, at, l, rs)
        /\ WithModeNumber(st, "line", 0, 1) = State("line", 0, 1, at, l, rs)
    BY SetsMode, SetsModeNumber
  <1> HIDE DEF st
  <1>3. /\ ReadByte(st, 0) = WithMode(st, "length")
        /\ ReadByte(st, 2) = WithModeNumber(st, "pc", 0, 1)
        /\ ReadByte(st, 3) = WithModeNumber(st, "line", 0, 1)
    BY <1>1 DEF ReadByte, WithMode, WithModeNumber
  <1> QED BY <1>2, <1>3 DEF st

LEMMA ReadsRow ==
    ASSUME NEW a, NEW u, NEW at, NEW l, NEW rs
    PROVE  ReadByte(State("op", a, u, at, l, rs), 1) =
              State("op", a, u, at, l, Append(rs, [address |-> at, line |-> l]))
  <1> DEFINE st == State("op", a, u, at, l, rs)
  <1>1. st.mode = "op" /\ st.address = at /\ st.line = l /\ st.rows = rs
    BY StateFields
  <1>2. WithRows(st, Append(rs, [address |-> at, line |-> l])) =
           State("op", a, u, at, l, Append(rs, [address |-> at, line |-> l]))
    BY SetsRows
  <1> HIDE DEF st
  <1>3. ReadByte(st, 1) = WithRows(st, Append(rs, [address |-> at, line |-> l]))
    BY <1>1 DEF ReadByte, WithRows
  <1> QED BY <1>2, <1>3 DEF st

LEMMA ReadsExtended ==
    ASSUME NEW a, NEW u, NEW at, NEW l, NEW rs
    PROVE  /\ ReadByte(State("length", a, u, at, l, rs), 1) = State("extended", a, u, at, l, rs)
           /\ ReadByte(State("extended", a, u, at, l, rs), 1) = State("end", a, u, at, l, rs)
  BY DEF ReadByte, State

LEMMA ReadsGroup ==
    ASSUME NEW a \in Int, NEW u \in Int, NEW at, NEW l, NEW rs, NEW m \in {"pc", "line"},
           NEW b \in Int, b >= 128
    PROVE  ReadByte(State(m, a, u, at, l, rs), b) = State(m, a + (b - 128) * u, u * 128, at, l, rs)
  <1> DEFINE st == State(m, a, u, at, l, rs)
  <1>1. st.mode = m /\ st.acc = a /\ st.unit = u
    BY StateFields
  <1>2. WithNumber(st, a + (b - 128) * u, u * 128) =
           State(m, a + (b - 128) * u, u * 128, at, l, rs)
    BY SetsNumber
  <1> HIDE DEF st
  <1>3. ReadByte(st, b) = WithNumber(st, a + (b - 128) * u, u * 128)
    BY <1>1 DEF ReadByte, WithNumber
  <1> QED BY <1>2, <1>3 DEF st

LEMMA ReadsLast ==
    ASSUME NEW a \in Int, NEW u \in Int, NEW at, NEW l, NEW rs, NEW b \in Int, b < 128
    PROVE  /\ ReadByte(State("pc", a, u, at, l, rs), b) = State("op", a, u, at + a + b * u, l, rs)
           /\ ReadByte(State("line", a, u, at, l, rs), b) =
                 State("op", a, u, at, l + a + (IF b >= 64 THEN b - 128 ELSE b) * u, rs)
  <1> DEFINE d == IF b >= 64 THEN b - 128 ELSE b
             s1 == State("pc", a, u, at, l, rs)
             s2 == State("line", a, u, at, l, rs)
  <1>1. s1.mode = "pc" /\ s1.acc = a /\ s1.unit = u /\ s1.address = at
    BY StateFields
  <1>2. s2.mode = "line" /\ s2.acc = a /\ s2.unit = u /\ s2.line = l
    BY StateFields
  <1>3. WithModeAddress(s1, "op", at + a + b * u) = State("op", a, u, at + a + b * u, l, rs)
    BY SetsModeAddress
  <1>4. WithModeLine(s2, "op", l + a + d * u) = State("op", a, u, at, l + a + d * u, rs)
    BY SetsModeLine
  <1> HIDE DEF s1, s2
  <1>5. ReadByte(s1, b) = WithModeAddress(s1, "op", at + a + b * u)
    BY <1>1 DEF ReadByte, WithModeAddress
  <1>6. ReadByte(s2, b) = WithModeLine(s2, "op", l + a + d * u)
    BY <1>2 DEF ReadByte, WithModeLine
  <1>7. ReadByte(s2, b) = State("op", a, u, at, l + a + d * u, rs)
    BY <1>4, <1>6
  <1> QED BY <1>3, <1>5, <1>7 DEF s1, s2

Signed(b) == IF b >= 64 THEN b - 128 ELSE b

LEMMA ReadsLastLine ==
    ASSUME NEW a \in Int, NEW u \in Int, NEW at, NEW l, NEW rs, NEW b \in Int, b < 128,
           NEW end, end = l + a + Signed(b) * u
    PROVE  ReadByte(State("line", a, u, at, l, rs), b) = State("op", a, u, at, end, rs)
  <1>1. ReadByte(State("line", a, u, at, l, rs), b) =
           State("op", a, u, at, l + a + (IF b >= 64 THEN b - 128 ELSE b) * u, rs)
    BY ReadsLast
  <1> QED BY <1>1 DEF Signed

LEMMA Regroup ==
    ASSUME NEW v \in Int, NEW a \in Int, NEW u \in Int
    PROVE  (a + (v % 128) * u) + (v \div 128) * (u * 128) = a + v * u
  <1>1. v = 128 * (v \div 128) + (v % 128)
    OBVIOUS
  <1> DEFINE q == v \div 128
             r == v % 128
  <1>2. q \in Int /\ r \in Int /\ v = 128 * q + r
    BY <1>1
  <1> HIDE DEF q, r
  <1>3. q * (u * 128) = (128 * q) * u
    BY <1>2
  <1>4. (128 * q + r) * u = (128 * q) * u + r * u
    BY <1>2
  <1>5. v * u = q * (u * 128) + r * u
    BY <1>2, <1>3, <1>4
  <1>6. (a + r * u) + q * (u * 128) = a + v * u
    <2> DEFINE x == r * u
               y == q * (u * 128)
               z == v * u
    <2>1. x \in Int /\ y \in Int /\ z \in Int /\ z = y + x
      BY <1>2, <1>5
    <2> HIDE DEF x, y, z
    <2>2. (a + x) + y = a + z
      BY <2>1
    <2> QED BY <2>2 DEF x, y, z
  <1> QED BY <1>6 DEF q, r

(* A number is read back from its groups.                                  *)
ReadsAddress(v) ==
    \A a \in Int, u \in Int, at \in Int, l \in Int, rs \in Seq(ReadRow) :
       \E x \in Int, y \in Int :
          Runs(State("pc", a, u, at, l, rs), uleb128[v], State("op", x, y, at + (a + v * u), l, rs))
ReadsLine(v) ==
    \A a \in Int, u \in Int, at \in Int, l \in Int, rs \in Seq(ReadRow) :
       \E x \in Int, y \in Int :
          Runs(State("line", a, u, at, l, rs), sleb128(v), State("op", x, y, at, l + (a + v * u), rs))

LEMMA UlebReads ==
    ASSUME NEW v \in Nat
    PROVE  ReadsAddress(v)
  <1> DEFINE Bad == {w \in Nat : ~ ReadsAddress(w)}
  <1> SUFFICES ASSUME Bad # {} PROVE FALSE
    OBVIOUS
  <1>1. PICK b \in Bad : \A c \in Bad : b <= c
    BY LeastNat, Bad \subseteq Nat
  <1>2. b \in Nat /\ ~ ReadsAddress(b)
    BY <1>1
  <1>3. ASSUME NEW a \in Int, NEW u \in Int, NEW at \in Int, NEW l \in Int, NEW rs \in Seq(ReadRow)
        PROVE  \E x \in Int, y \in Int :
                  Runs(State("pc", a, u, at, l, rs), uleb128[b], State("op", x, y, at + (a + b * u), l, rs))
    <2>0. "pc" \in Modes /\ "op" \in Modes
      BY DEF Modes
    <2>1. CASE b < 128
      <3>1. uleb128[b] = <<b>>
        BY <1>2, <2>1, UlebGroups
      <3>2. b * u \in Int /\ at + (a + b * u) \in Int
        BY <1>2
      <3>3. at + a + b * u = at + (a + b * u)
        <4> DEFINE z == b * u
        <4>1. z \in Int
          BY <1>2
        <4> HIDE DEF z
        <4>2. at + a + z = at + (a + z)
          BY <4>1
        <4> QED BY <4>2 DEF z
      <3>4. ReadByte(State("pc", a, u, at, l, rs), b) = State("op", a, u, at + (a + b * u), l, rs)
        BY <1>2, <2>1, <3>3, ReadsLast
      <3>5. Runs(State("pc", a, u, at, l, rs), <<b>>, State("op", a, u, at + (a + b * u), l, rs))
        <4> DEFINE st == State("pc", a, u, at, l, rs)
                   en == State("op", a, u, at + (a + b * u), l, rs)
        <4>1. st \in Reader
          BY <2>0, StateTyped
        <4>2. en \in Reader
          BY <2>0, <3>2, StateTyped
        <4>3. en = ReadByte(st, b) /\ b \in Int
          BY <1>2, <3>4
        <4> HIDE DEF st, en
        <4>4. Runs(st, <<b>>, en)
          BY <4>1, <4>2, <4>3, RunsOne
        <4> QED BY <4>4 DEF st, en
      <3> QED BY <3>1, <3>5
    <2>2. CASE ~ (b < 128)
      <3> DEFINE g == (b % 128) + 128
                 q == b \div 128
                 a2 == a + (b % 128) * u
                 u2 == u * 128
      <3>1. /\ uleb128[b] = <<g>> \o uleb128[q] /\ q \in Nat /\ ~ (b <= q) /\ g \in Int /\ g >= 128
            /\ g - 128 = b % 128 /\ a2 \in Int /\ u2 \in Int
        <4>1. uleb128[b] = <<g>> \o uleb128[q]
          BY <1>2, <2>2, UlebGroups
        <4>2. q \in Nat /\ ~ (b <= q) /\ g \in Int /\ g >= 128 /\ g - 128 = b % 128
          BY <1>2, <2>2
        <4>3. b % 128 \in Int
          BY <1>2
        <4>4. (b % 128) * u \in Int
          BY <4>3
        <4> QED BY <4>1, <4>2, <4>4
      <3>2. ReadsAddress(q)
        BY <1>1, <3>1
      <3>3. a2 + q * u2 = a + b * u
        BY <1>2, Regroup
      <3>4. ReadByte(State("pc", a, u, at, l, rs), g) = State("pc", a2, u2, at, l, rs)
        <4>1. ReadByte(State("pc", a, u, at, l, rs), g) = State("pc", a + (g - 128) * u, u * 128, at, l, rs)
          BY <3>1, ReadsGroup
        <4> QED BY <3>1, <4>1
      <3>5. <<g>> \in Seq(Int) /\ uleb128[q] \in Seq(Int)
        BY <3>1, UlebTyped
      <3> HIDE DEF g, q, a2, u2
      <3>6. Runs(State("pc", a, u, at, l, rs), <<g>>, State("pc", a2, u2, at, l, rs))
        <4> DEFINE st == State("pc", a, u, at, l, rs)
                   en == State("pc", a2, u2, at, l, rs)
        <4>1. st \in Reader
          BY <2>0, StateTyped
        <4>2. en \in Reader
          BY <2>0, <3>1, StateTyped
        <4>3. en = ReadByte(st, g) /\ g \in Int
          BY <3>1, <3>4
        <4> HIDE DEF st, en
        <4>4. Runs(st, <<g>>, en)
          BY <4>1, <4>2, <4>3, RunsOne
        <4> QED BY <4>4 DEF st, en
      <3>7. PICK x \in Int, y \in Int :
               Runs(State("pc", a2, u2, at, l, rs), uleb128[q], State("op", x, y, at + (a2 + q * u2), l, rs))
        BY <3>1, <3>2 DEF ReadsAddress
      <3>8. Runs(State("pc", a, u, at, l, rs), <<g>> \o uleb128[q], State("op", x, y, at + (a2 + q * u2), l, rs))
        BY <3>5, <3>6, <3>7, RunsThen
      <3> QED BY <3>1, <3>3, <3>8
    <2> QED BY <2>1, <2>2
  <1> QED BY <1>2, <1>3 DEF ReadsAddress

Magnitude(v) == IF v >= 0 THEN v ELSE 0 - v

LEMMA GroupShrinks ==
    ASSUME NEW v \in Int, ~ LastGroup(v)
    PROVE  v \div 128 \in Int /\ Magnitude(v \div 128) < Magnitude(v)
  <1>1. v >= 64 => v \div 128 >= 0 /\ v \div 128 < v
    OBVIOUS
  <1>2. v < -64 => v \div 128 < 0 /\ v \div 128 > v
    OBVIOUS
  <1>3. v >= 0 /\ v < 64 => v \div 128 = 0 /\ v % 128 < 64
    OBVIOUS
  <1>4. v < 0 /\ v >= -64 => v \div 128 = -1 /\ v % 128 >= 64
    OBVIOUS
  <1>5. v >= 64 \/ v < -64
    BY <1>3, <1>4 DEF LastGroup
  <1>6. v \div 128 \in Int
    OBVIOUS
  <1> QED BY <1>1, <1>2, <1>5, <1>6 DEF Magnitude

LEMMA LastGroupValue ==
    ASSUME NEW v \in Int, LastGroup(v)
    PROVE  /\ v % 128 \in Int /\ v % 128 < 128
           /\ (IF v % 128 >= 64 THEN (v % 128) - 128 ELSE v % 128) = v
  <1>1. v = 128 * (v \div 128) + (v % 128) /\ v % 128 \in 0..127
    OBVIOUS
  <1> QED BY <1>1 DEF LastGroup

LEMMA SlebReads ==
    ASSUME NEW v \in Int
    PROVE  ReadsLine(v)
  <1> DEFINE Bad == {Magnitude(w) : w \in {x \in Int : ~ ReadsLine(x)}}
  <1> SUFFICES ASSUME Bad # {} PROVE FALSE
    OBVIOUS
  <1>0. Bad \subseteq Nat
    BY DEF Magnitude
  <1>1. PICK s \in Bad : \A c \in Bad : s <= c
    <2> HIDE DEF Bad
    <2> QED BY <1>0, LeastNat
  <1>2. PICK b \in Int : ~ ReadsLine(b) /\ Magnitude(b) = s
    BY <1>1
  <1>3. ASSUME NEW a \in Int, NEW u \in Int, NEW at \in Int, NEW l \in Int, NEW rs \in Seq(ReadRow)
        PROVE  \E x \in Int, y \in Int :
                  Runs(State("line", a, u, at, l, rs), sleb128(b), State("op", x, y, at, l + (a + b * u), rs))
    <2>0. "line" \in Modes /\ "op" \in Modes
      BY DEF Modes
    <2>1. CASE LastGroup(b)
      <3> DEFINE g == b % 128
      <3>1. sleb128(b) = <<g>>
        BY <1>2, <2>1, SlebGroups DEF sleb128
      <3>2. g \in Int /\ g < 128 /\ (IF g >= 64 THEN g - 128 ELSE g) = b
        BY <2>1, LastGroupValue
      <3> HIDE DEF g
      <3>3. l + (a + b * u) \in Int /\ l + a + b * u = l + (a + b * u)
        <4> DEFINE z == b * u
        <4>1. z \in Int
          OBVIOUS
        <4> HIDE DEF z
        <4>2. l + (a + z) \in Int /\ l + a + z = l + (a + z)
          BY <4>1
        <4> QED BY <4>2 DEF z
      <3>4. ReadByte(State("line", a, u, at, l, rs), g) = State("op", a, u, at, l + (a + b * u), rs)
        <4> DEFINE end == l + (a + b * u)
        <4>1. end = l + a + Signed(g) * u
          BY <3>2, <3>3 DEF Signed
        <4> HIDE DEF end
        <4>2. ReadByte(State("line", a, u, at, l, rs), g) = State("op", a, u, at, end, rs)
          BY <3>2, <4>1, ReadsLastLine
        <4> QED BY <4>2 DEF end
      <3>5. Runs(State("line", a, u, at, l, rs), <<g>>, State("op", a, u, at, l + (a + b * u), rs))
        <4> DEFINE st == State("line", a, u, at, l, rs)
                   en == State("op", a, u, at, l + (a + b * u), rs)
        <4>1. st \in Reader
          BY <2>0, StateTyped
        <4>2. en \in Reader
          BY <2>0, <3>3, StateTyped
        <4>3. en = ReadByte(st, g)
          BY <3>4
        <4> HIDE DEF st, en
        <4>4. Runs(st, <<g>>, en)
          BY <3>2, <4>1, <4>2, <4>3, RunsOne
        <4> QED BY <4>4 DEF st, en
      <3> QED BY <3>1, <3>5
    <2>2. CASE ~ LastGroup(b)
      <3> DEFINE g == (b % 128) + 128
                 q == b \div 128
                 a2 == a + (b % 128) * u
                 u2 == u * 128
      <3>1. /\ sleb128(b) = <<g>> \o sleb128(q) /\ q \in Int /\ Magnitude(q) < Magnitude(b)
            /\ g \in Int /\ g >= 128 /\ g - 128 = b % 128 /\ a2 \in Int /\ u2 \in Int
        <4>1. sleb128(b) = <<g>> \o sleb128(q)
          BY <1>2, <2>2, SlebGroups DEF sleb128
        <4>2. q \in Int /\ Magnitude(q) < Magnitude(b)
          BY <2>2, GroupShrinks
        <4>3. g \in Int /\ g >= 128 /\ g - 128 = b % 128 /\ b % 128 \in Int
          OBVIOUS
        <4>4. (b % 128) * u \in Int
          BY <4>3
        <4>5. a2 \in Int /\ u2 \in Int
          BY <4>4
        <4> HIDE DEF g, q, a2, u2
        <4> QED BY <4>1, <4>2, <4>3, <4>5
      <3>2. ReadsLine(q)
        <4> HIDE DEF q
        <4>1. Magnitude(q) \in Int /\ ~ (s <= Magnitude(q))
          BY <1>2, <3>1 DEF Magnitude
        <4>2. Magnitude(q) \notin Bad
          BY <1>1, <4>1
        <4> QED BY <3>1, <4>2
      <3>3. a2 + q * u2 = a + b * u
        BY Regroup
      <3>4. ReadByte(State("line", a, u, at, l, rs), g) = State("line", a2, u2, at, l, rs)
        <4>1. ReadByte(State("line", a, u, at, l, rs), g) = State("line", a + (g - 128) * u, u * 128, at, l, rs)
          BY <3>1, ReadsGroup
        <4> QED BY <3>1, <4>1
      <3>5. <<g>> \in Seq(Int) /\ sleb128(q) \in Seq(Int)
        BY <3>1, SlebTyped
      <3> HIDE DEF g, q, a2, u2
      <3>6. Runs(State("line", a, u, at, l, rs), <<g>>, State("line", a2, u2, at, l, rs))
        <4> DEFINE st == State("line", a, u, at, l, rs)
                   en == State("line", a2, u2, at, l, rs)
        <4>1. st \in Reader
          BY <2>0, StateTyped
        <4>2. en \in Reader
          BY <2>0, <3>1, StateTyped
        <4>3. en = ReadByte(st, g) /\ g \in Int
          BY <3>1, <3>4
        <4> HIDE DEF st, en
        <4>4. Runs(st, <<g>>, en)
          BY <4>1, <4>2, <4>3, RunsOne
        <4> QED BY <4>4 DEF st, en
      <3>7. PICK x \in Int, y \in Int :
               Runs(State("line", a2, u2, at, l, rs), sleb128(q), State("op", x, y, at, l + (a2 + q * u2), rs))
        BY <3>1, <3>2 DEF ReadsLine
      <3>8. Runs(State("line", a, u, at, l, rs), <<g>> \o sleb128(q), State("op", x, y, at, l + (a2 + q * u2), rs))
        BY <3>5, <3>6, <3>7, RunsThen
      <3> QED BY <3>1, <3>3, <3>8
    <2> QED BY <2>1, <2>2
  <1> QED BY <1>2, <1>3 DEF ReadsLine

(* What the program p, so far, tells a consumer.                           *)
Reads(p, m, at, l, rs) == \E x \in Int, y \in Int : Runs(ReaderStart, p, State(m, x, y, at, l, rs))

LEMMA ReadsStart == Reads(<<>>, "op", base_address, 1, <<>>)
  <1>1. ReaderStart = State("op", 0, 1, base_address, 1, <<>>)
    BY Zenon DEF ReaderStart, State
  <1>2. base_address \in Int
    BY SMT DEF base_address
  <1>3. State("op", 0, 1, base_address, 1, <<>>) \in Reader
    <2>1. "op" \in Modes /\ <<>> \in Seq(ReadRow)
      BY DEF Modes
    <2>2. 0 \in Int /\ 1 \in Int
      OBVIOUS
    <2> QED BY <1>2, <2>1, <2>2, StateTyped, Zenon
  <1>4. Runs(ReaderStart, <<>>, ReaderStart)
    BY <1>1, <1>3, RunsNone
  <1> QED BY <1>1, <1>4 DEF Reads

LEMMA ReadsAdvancePc ==
    ASSUME NEW p \in Seq(Int), NEW at \in Nat, NEW l \in Int, NEW rs \in Seq(ReadRow), NEW to \in Nat,
           to > at, Reads(p, "op", at, l, rs)
    PROVE  Reads(p \o (<<DW_LNS_advance_pc>> \o uleb128[to - at]), "op", to, l, rs)
  <1> DEFINE v == to - at
  <1>0. v \in Nat /\ at + (0 + v * 1) = to /\ "op" \in Modes /\ "pc" \in Modes
    BY DEF Modes
  <1>1. PICK x \in Int, y \in Int : Runs(ReaderStart, p, State("op", x, y, at, l, rs))
    BY DEF Reads
  <1> HIDE DEF v
  <1>2. Runs(State("op", x, y, at, l, rs), <<2>>, State("pc", 0, 1, at, l, rs))
    <2> DEFINE st == State("op", x, y, at, l, rs)
               en == State("pc", 0, 1, at, l, rs)
    <2>1. st \in Reader /\ en \in Reader
      BY <1>0, StateTyped
    <2>2. ReadByte(State("op", x, y, at, l, rs), 2) = State("pc", 0, 1, at, l, rs)
      BY ReadsOp
    <2>4. en = ReadByte(st, 2)
      BY <2>2
    <2> HIDE DEF st, en
    <2>3. Runs(st, <<2>>, en)
      BY <2>1, <2>4, RunsOne
    <2> QED BY <2>3 DEF st, en
  <1>3. PICK x2 \in Int, y2 \in Int :
           Runs(State("pc", 0, 1, at, l, rs), uleb128[v], State("op", x2, y2, at + (0 + v * 1), l, rs))
    <2>1. ReadsAddress(v)
      BY <1>0, UlebReads
    <2> QED BY <2>1 DEF ReadsAddress
  <1>4. Runs(State("pc", 0, 1, at, l, rs), uleb128[v], State("op", x2, y2, to, l, rs))
    BY <1>0, <1>3
  <1>5. <<2>> \in Seq(Int) /\ uleb128[v] \in Seq(Int) /\ <<2>> \o uleb128[v] \in Seq(Int)
    BY <1>0, UlebTyped
  <1>6. Runs(State("op", x, y, at, l, rs), <<2>> \o uleb128[v], State("op", x2, y2, to, l, rs))
    BY <1>2, <1>4, <1>5, RunsThen
  <1>7. Runs(ReaderStart, p \o (<<2>> \o uleb128[v]), State("op", x2, y2, to, l, rs))
    BY <1>1, <1>5, <1>6, RunsThen
  <1>8. Reads(p \o (<<2>> \o uleb128[v]), "op", to, l, rs)
    BY <1>7 DEF Reads
  <1> QED BY <1>8 DEF v, DW_LNS_advance_pc

LEMMA ReadsAdvanceLine ==
    ASSUME NEW p \in Seq(Int), NEW at \in Int, NEW l \in Int, NEW rs \in Seq(ReadRow), NEW to \in Int,
           Reads(p, "op", at, l, rs)
    PROVE  Reads(p \o (<<DW_LNS_advance_line>> \o sleb128(to - l)), "op", at, to, rs)
  <1> DEFINE v == to - l
  <1>0. v \in Int /\ l + (0 + v * 1) = to /\ "op" \in Modes /\ "line" \in Modes
    BY DEF Modes
  <1>1. PICK x \in Int, y \in Int : Runs(ReaderStart, p, State("op", x, y, at, l, rs))
    BY DEF Reads
  <1> HIDE DEF v
  <1>2. Runs(State("op", x, y, at, l, rs), <<3>>, State("line", 0, 1, at, l, rs))
    <2> DEFINE st == State("op", x, y, at, l, rs)
               en == State("line", 0, 1, at, l, rs)
    <2>1. st \in Reader /\ en \in Reader
      BY <1>0, StateTyped
    <2>2. ReadByte(State("op", x, y, at, l, rs), 3) = State("line", 0, 1, at, l, rs)
      BY ReadsOp
    <2>4. en = ReadByte(st, 3)
      BY <2>2
    <2> HIDE DEF st, en
    <2>3. Runs(st, <<3>>, en)
      BY <2>1, <2>4, RunsOne
    <2> QED BY <2>3 DEF st, en
  <1>3. PICK x2 \in Int, y2 \in Int :
           Runs(State("line", 0, 1, at, l, rs), sleb128(v), State("op", x2, y2, at, l + (0 + v * 1), rs))
    <2>1. ReadsLine(v)
      BY <1>0, SlebReads
    <2> QED BY <2>1 DEF ReadsLine
  <1>4. Runs(State("line", 0, 1, at, l, rs), sleb128(v), State("op", x2, y2, at, to, rs))
    BY <1>0, <1>3
  <1>5. <<3>> \in Seq(Int) /\ sleb128(v) \in Seq(Int) /\ <<3>> \o sleb128(v) \in Seq(Int)
    BY <1>0, SlebTyped
  <1>6. Runs(State("op", x, y, at, l, rs), <<3>> \o sleb128(v), State("op", x2, y2, at, to, rs))
    BY <1>2, <1>4, <1>5, RunsThen
  <1>7. Runs(ReaderStart, p \o (<<3>> \o sleb128(v)), State("op", x2, y2, at, to, rs))
    BY <1>1, <1>5, <1>6, RunsThen
  <1>8. Reads(p \o (<<3>> \o sleb128(v)), "op", at, to, rs)
    BY <1>7 DEF Reads
  <1> QED BY <1>8 DEF v, DW_LNS_advance_line

LEMMA ReadsCopy ==
    ASSUME NEW p \in Seq(Int), NEW at \in Int, NEW l \in Int, NEW rs \in Seq(ReadRow),
           Reads(p, "op", at, l, rs)
    PROVE  Reads(p \o <<DW_LNS_copy>>, "op", at, l, Append(rs, [address |-> at, line |-> l]))
  <1> DEFINE row == [address |-> at, line |-> l]
             new == Append(rs, row)
  <1>0. "op" \in Modes
    BY DEF Modes
  <1>1. PICK x \in Int, y \in Int : Runs(ReaderStart, p, State("op", x, y, at, l, rs))
    BY DEF Reads
  <1>2. new \in Seq(ReadRow)
    <2>1. row \in ReadRow
      BY DEF ReadRow
    <2> HIDE DEF row, ReadRow
    <2> QED BY <2>1
  <1>3. ReadByte(State("op", x, y, at, l, rs), 1) = State("op", x, y, at, l, new)
    BY ReadsRow
  <1> HIDE DEF new
  <1>4. Runs(State("op", x, y, at, l, rs), <<1>>, State("op", x, y, at, l, new))
    <2> DEFINE st == State("op", x, y, at, l, rs)
               en == State("op", x, y, at, l, new)
    <2>1. st \in Reader /\ en \in Reader
      BY <1>0, <1>2, StateTyped
    <2>2. en = ReadByte(st, 1)
      BY <1>3
    <2> HIDE DEF st, en
    <2>3. Runs(st, <<1>>, en)
      BY <2>1, <2>2, RunsOne
    <2> QED BY <2>3 DEF st, en
  <1>5. <<1>> \in Seq(Int)
    OBVIOUS
  <1>6. Runs(ReaderStart, p \o <<1>>, State("op", x, y, at, l, new))
    BY <1>1, <1>4, <1>5, RunsThen
  <1>7. Reads(p \o <<1>>, "op", at, l, new)
    BY <1>6 DEF Reads
  <1> QED BY <1>7 DEF new, DW_LNS_copy

LEMMA ReadsEnd ==
    ASSUME NEW p \in Seq(Int), NEW at \in Int, NEW l \in Int, NEW rs \in Seq(ReadRow),
           Reads(p, "op", at, l, rs)
    PROVE  Reads(p \o DW_LNE_end_sequence, "end", at, l, rs)
  <1>0. "op" \in Modes /\ "length" \in Modes /\ "extended" \in Modes /\ "end" \in Modes
    BY DEF Modes
  <1>1. PICK x \in Int, y \in Int : Runs(ReaderStart, p, State("op", x, y, at, l, rs))
    BY DEF Reads
  <1> DEFINE s0 == State("op", x, y, at, l, rs)
             s1 == State("length", x, y, at, l, rs)
             s2 == State("extended", x, y, at, l, rs)
             s3 == State("end", x, y, at, l, rs)
  <1>2. s0 \in Reader /\ s1 \in Reader /\ s2 \in Reader /\ s3 \in Reader
    BY <1>0, StateTyped
  <1>3. s1 = ReadByte(s0, 0) /\ s2 = ReadByte(s1, 1) /\ s3 = ReadByte(s2, 1)
    <2>1. ReadByte(State("op", x, y, at, l, rs), 0) = State("length", x, y, at, l, rs)
      BY ReadsOp
    <2>2. ReadByte(State("length", x, y, at, l, rs), 1) = State("extended", x, y, at, l, rs)
      BY ReadsExtended
    <2>3. ReadByte(State("extended", x, y, at, l, rs), 1) = State("end", x, y, at, l, rs)
      BY ReadsExtended
    <2> QED BY <2>1, <2>2, <2>3
  <1>4. Runs(ReaderStart, p, s0)
    BY <1>1
  <1> HIDE DEF s0, s1, s2, s3
  <1>5. Runs(s0, <<0, 1, 1>>, s3)
    <2> DEFINE q == <<0, 1, 1>>
               t == [n \in 0..3 |-> IF n = 0 THEN s0 ELSE IF n = 1 THEN s1 ELSE IF n = 2 THEN s2 ELSE s3]
    <2>1. Len(q) = 3 /\ q[1] = 0 /\ q[2] = 1 /\ q[3] = 1
      OBVIOUS
    <2>2. t[0] = s0 /\ t[1] = s1 /\ t[2] = s2 /\ t[3] = s3
      OBVIOUS
    <2>3. t \in [0..3 -> Reader]
      <3> HIDE DEF Reader
      <3> QED BY <1>2
    <2> HIDE DEF q, t
    <2>4. ASSUME NEW n \in 1..3 PROVE t[n] = ReadByte(t[n - 1], q[n])
      <3>1. CASE n = 1
        <4>1. n - 1 = 0
          BY <3>1
        <4> QED BY <1>3, <2>1, <2>2, <3>1, <4>1
      <3>2. CASE n = 2
        <4>1. n - 1 = 1
          BY <3>2
        <4> QED BY <1>3, <2>1, <2>2, <3>2, <4>1
      <3>3. CASE n = 3
        <4>1. n - 1 = 2
          BY <3>3
        <4> QED BY <1>3, <2>1, <2>2, <3>3, <4>1
      <3> QED BY <3>1, <3>2, <3>3
    <2>5. IsTrace(t, q)
      BY <2>1, <2>3, <2>4 DEF IsTrace
    <2>6. Runs(s0, q, s3)
      BY <2>1, <2>2, <2>5 DEF Runs
    <2> QED BY <2>6 DEF q
  <1>6. DW_LNE_end_sequence \in Seq(Int) /\ DW_LNE_end_sequence = <<0, 1, 1>>
    BY DEF DW_LNE_end_sequence
  <1>7. Runs(ReaderStart, p \o DW_LNE_end_sequence, s3)
    BY <1>4, <1>5, <1>6, RunsThen
  <1> QED BY <1>7 DEF Reads, s3

(* The line program of a whole line map.                                   *)
RowsTo(map, n) == [m \in 1..n |-> map[m]]
AddressAt(map, n) == IF n = 0 THEN base_address ELSE map[n].address
LineAt(map, n) == IF n = 0 THEN 1 ELSE map[n].line
SortedMap(map) == \A n \in DOMAIN map : map[n].address >= AddressAt(map, n - 1)

LEMMA RowIs ==
    ASSUME NEW map \in Seq(Row), NEW n \in 1..Len(map)
    PROVE  /\ map[n].address \in Nat /\ map[n].line \in Nat \ {0}
           /\ map[n] = [address |-> map[n].address, line |-> map[n].line]
           /\ map[n] \in ReadRow
  <1>1. map[n] \in Row
    <2> HIDE DEF Row
    <2> QED OBVIOUS
  <1> QED BY <1>1 DEF Row, ReadRow

LEMMA RowsTyped ==
    ASSUME NEW map \in Seq(Row), NEW n \in 0..Len(map)
    PROVE  RowsTo(map, n) \in Seq(ReadRow)
  <1>1. ASSUME NEW m \in 1..n PROVE map[m] \in ReadRow
    <2>1. m \in 1..Len(map)
      OBVIOUS
    <2> QED BY <2>1, RowIs
  <1>2. n \in Nat
    OBVIOUS
  <1> HIDE DEF ReadRow
  <1>3. RowsTo(map, n) \in [1..n -> ReadRow]
    BY <1>1 DEF RowsTo
  <1> QED BY <1>2, <1>3, SeqDef

LEMMA RowsMore ==
    ASSUME NEW map \in Seq(Row), NEW n \in 1..Len(map)
    PROVE  Append(RowsTo(map, n - 1), [address |-> map[n].address, line |-> map[n].line]) = RowsTo(map, n)
  <1> DEFINE row == map[n]
             few == RowsTo(map, n - 1)
             more == RowsTo(map, n)
  <1>1. n \in Nat \ {0} /\ n - 1 \in 0..Len(map) /\ n \in 0..Len(map)
    OBVIOUS
  <1>2. few \in Seq(ReadRow) /\ more \in Seq(ReadRow) /\ row \in ReadRow
    BY <1>1, RowsTyped, RowIs
  <1>3. Len(few) = n - 1 /\ Len(more) = n
    <2>1. DOMAIN few = 1..(n - 1) /\ DOMAIN more = 1..n
      BY DEF RowsTo
    <2> HIDE DEF few, more, ReadRow
    <2>2. DOMAIN few = 1..Len(few) /\ DOMAIN more = 1..Len(more) /\ Len(few) \in Nat /\ Len(more) \in Nat
      BY <1>2
    <2> QED BY <1>1, <2>1, <2>2
  <1>4. \A m \in 1..(n - 1) : few[m] = map[m]
    BY DEF RowsTo
  <1>5. \A m \in 1..n : more[m] = map[m]
    BY DEF RowsTo
  <1> HIDE DEF few, more
  <1>6. Append(few, row) = more
    <2> DEFINE q == Append(few, row)
    <2>1. q \in Seq(ReadRow) /\ Len(q) = n /\ q[n] = row /\ \A m \in 1..(n - 1) : q[m] = few[m]
      <3> HIDE DEF ReadRow, row
      <3> QED BY <1>1, <1>2, <1>3
    <2> HIDE DEF q
    <2>2. \A m \in 1..n : q[m] = more[m]
      BY <1>1, <1>4, <1>5, <2>1
    <2>3. q = more
      <3> HIDE DEF ReadRow
      <3> QED BY <1>2, <1>3, <2>1, <2>2, SeqEqual
    <2> QED BY <2>3 DEF q
  <1> QED BY <1>6, RowIs DEF few, more

LEMMA RowsNothing ==
    ASSUME NEW map
    PROVE  RowsTo(map, 0) = <<>>
  BY DEF RowsTo

LEMMA RowsAll ==
    ASSUME NEW map \in Seq(Row)
    PROVE  RowsTo(map, Len(map)) = map
  <1>1. DOMAIN map = 1..Len(map) /\ map = [m \in DOMAIN map |-> map[m]]
    BY SeqDef
  <1> QED BY <1>1 DEF RowsTo

LEMMA ThreeJoined ==
    ASSUME NEW a \in Seq(Int), NEW b \in Seq(Int), NEW c \in Seq(Int)
    PROVE  (a \o b) \o c = a \o (b \o c)
  OBVIOUS

OneByOne(a, b, c, d) == ((a \o b) \o c) \o d
AtOnce(a, b, c, d) == a \o ((b \o c) \o d)
LEMMA FourJoined ==
    ASSUME NEW a \in Seq(Int), NEW b \in Seq(Int), NEW c \in Seq(Int), NEW d \in Seq(Int)
    PROVE  OneByOne(a, b, c, d) = AtOnce(a, b, c, d)
  <1>1. (a \o b) \o c = a \o (b \o c)
    OBVIOUS
  <1>2. b \o c \in Seq(Int)
    OBVIOUS
  <1>3. (a \o (b \o c)) \o d = a \o ((b \o c) \o d)
    BY <1>2, ThreeJoined
  <1> QED BY <1>1, <1>3 DEF OneByOne, AtOnce

(* The bytes of a row tell a consumer that row.                            *)
LEMMA WritesRow ==
    ASSUME DwarfInv, NEW row, row.address \in Nat, row.line \in Nat \ {0}, row.address >= line.addr,
           NEW rs \in Seq(ReadRow), Reads(line.program, "op", line.addr, line.at, rs)
    PROVE  Reads(line.program \o RowBytes(row), "op", row.address, row.line,
                 Append(rs, [address |-> row.address, line |-> row.line]))
  <1>1. line.addr \in Nat /\ line.at \in Int /\ line.program \in Seq(Int) /\ AtLeast1(row.line) = row.line
    BY RowBytesTyped DEF DwarfInv, LineState
  <1> DEFINE p == line.program
             first == IF row.address > line.addr
                      THEN <<DW_LNS_advance_pc>> \o uleb128[row.address - line.addr] ELSE <<>>
             second == IF row.line # line.at
                       THEN <<DW_LNS_advance_line>> \o sleb128(row.line - line.at) ELSE <<>>
             third == <<DW_LNS_copy>>
  <1>2. RowBytes(row) = (first \o second) \o third
    BY <1>1, Zenon DEF RowBytes
  <1>3. first \in Seq(Int) /\ second \in Seq(Int) /\ third \in Seq(Int)
    <2>1. first \in Seq(Int)
      <3>1. CASE row.address > line.addr
        <4>1. <<DW_LNS_advance_pc>> \o uleb128[row.address - line.addr] \in Seq(Int)
          BY <1>1, <3>1, AddressBytes
        <4> QED BY <3>1, <4>1
      <3>2. CASE ~ (row.address > line.addr)
        BY <3>2
      <3> QED BY <3>1, <3>2
    <2>2. second \in Seq(Int)
      <3>1. row.line - line.at \in Int
        BY <1>1
      <3>2. sleb128(row.line - line.at) \in Seq(Int)
        BY <3>1, SlebTyped
      <3>3. <<DW_LNS_advance_line>> \in Seq(Int)
        BY DEF DW_LNS_advance_line
      <3> QED BY <3>2, <3>3
    <2>3. third \in Seq(Int)
      BY DEF DW_LNS_copy
    <2> QED BY <2>1, <2>2, <2>3
  <1>4. Reads(p \o first, "op", row.address, line.at, rs)
    <2>1. CASE row.address > line.addr
      BY <1>1, <2>1, ReadsAdvancePc
    <2>2. CASE ~ (row.address > line.addr)
      <3>1. row.address = line.addr
        BY <1>1, <2>2
      <3>2. p \o first = p
        BY <1>1, <2>2
      <3> HIDE DEF first
      <3> QED BY <3>1, <3>2
    <2> QED BY <2>1, <2>2
  <1>5. p \o first \in Seq(Int) /\ (p \o first) \o second \in Seq(Int)
    <2> HIDE DEF first, second
    <2> QED BY <1>1, <1>3
  <1>6. Reads((p \o first) \o second, "op", row.address, row.line, rs)
    <2> DEFINE q == p \o first
    <2>0. q \in Seq(Int) /\ Reads(q, "op", row.address, line.at, rs)
      BY <1>4, <1>5
    <2> HIDE DEF q
    <2>1. CASE row.line # line.at
      <3>1. row.address \in Int /\ row.line \in Int
        OBVIOUS
      <3>2. Reads(q \o (<<DW_LNS_advance_line>> \o sleb128(row.line - line.at)), "op", row.address, row.line, rs)
        BY <1>1, <2>0, <3>1, ReadsAdvanceLine
      <3> QED BY <2>1, <3>2 DEF q
    <2>2. CASE row.line = line.at
      <3>1. q \o second = q
        BY <2>0, <2>2
      <3>2. Reads(q \o second, "op", row.address, row.line, rs)
        <4> HIDE DEF second
        <4> QED BY <2>0, <2>2, <3>1
      <3> QED BY <3>2 DEF q
    <2> QED BY <2>1, <2>2
  <1>7. Reads(((p \o first) \o second) \o third, "op", row.address, row.line,
              Append(rs, [address |-> row.address, line |-> row.line]))
    <2> DEFINE q == (p \o first) \o second
    <2>1. q \in Seq(Int) /\ Reads(q, "op", row.address, row.line, rs)
      BY <1>5, <1>6
    <2> HIDE DEF q
    <2>2. row.address \in Int /\ row.line \in Int
      OBVIOUS
    <2>3. Reads(q \o third, "op", row.address, row.line, Append(rs, [address |-> row.address, line |-> row.line]))
      BY <2>1, <2>2, ReadsCopy
    <2> QED BY <2>3 DEF q
  <1>8. OneByOne(p, first, second, third) = AtOnce(p, first, second, third)
    <2>1. p \in Seq(Int)
      BY <1>1
    <2> HIDE DEF p, first, second, third
    <2> QED BY <1>3, <2>1, FourJoined
  <1> HIDE DEF first, second, third
  <1> QED BY <1>2, <1>7, <1>8, Zenon DEF OneByOne, AtOnce

(* Decoding the program p gives the rows of map and one at the address to. *)
LastRow(map) == IF map = <<>> THEN [address |-> base_address, line |-> 1] ELSE map[Len(map)]
Closing(map, to) == IF LastRow(map).address < to THEN <<[address |-> to, line |-> LastRow(map).line]>> ELSE <<>>
Decodes(p, map, to) == Consumed(p).mode = "end" /\ Consumed(p).rows = map \o Closing(map, to)

LEMMA DecodesIs == LineProgramDecodes <=> (DwarfBuilt => Decodes(line.program, ctx.line_map, text_end))
  BY Zenon DEF LineProgramDecodes, Decodes, Closing, LastRow

LEMMA LastIs ==
    ASSUME NEW map \in Seq(Row)
    PROVE  /\ LastRow(map).address = AddressAt(map, Len(map)) /\ LastRow(map).line = LineAt(map, Len(map))
           /\ AddressAt(map, Len(map)) \in Nat /\ LineAt(map, Len(map)) \in Nat \ {0}
  <1>0. Len(map) \in Nat /\ base_address \in Nat
    <2>1. base_address \in Nat
      BY SMT DEF base_address
    <2> HIDE DEF Row
    <2> QED BY <2>1
  <1>1. CASE map = <<>>
    <2>1. Len(map) = 0
      BY <1>1
    <2> QED BY <1>0, <1>1, <2>1 DEF LastRow, AddressAt, LineAt
  <1>2. CASE map # <<>>
    <2>1. Len(map) \in 1..Len(map) /\ Len(map) # 0
      <3> HIDE DEF Row
      <3> QED BY <1>2
    <2>2. map[Len(map)].address \in Nat /\ map[Len(map)].line \in Nat \ {0}
      BY <2>1, RowIs
    <2> QED BY <1>2, <2>1, <2>2 DEF LastRow, AddressAt, LineAt
  <1> QED BY <1>1, <1>2

LEMMA JoinOne ==
    ASSUME NEW S, NEW s \in Seq(S), NEW r \in S
    PROVE  s \o <<r>> = Append(s, r)
  OBVIOUS

LEMMA ReadsDecodes ==
    ASSUME NEW p \in Seq(Int), NEW at, NEW l, NEW rs, Reads(p, "end", at, l, rs)
    PROVE  Consumed(p).mode = "end" /\ Consumed(p).rows = rs
  <1>1. PICK x \in Int, y \in Int : Runs(ReaderStart, p, State("end", x, y, at, l, rs))
    BY DEF Reads
  <1>2. Consumed(p) = State("end", x, y, at, l, rs)
    BY <1>1, RunsConsumed
  <1> QED BY <1>2, StateFields

(* The closing bytes, after all rows of the map.                           *)
LEMMA WritesEnd ==
    ASSUME NEW p \in Seq(Int), NEW map \in Seq(Row), NEW to \in Nat,
           Reads(p, "op", AddressAt(map, Len(map)), LineAt(map, Len(map)), map)
    PROVE  Decodes(p \o ((IF AddressAt(map, Len(map)) < to
                          THEN <<DW_LNS_advance_pc>> \o uleb128[to - AddressAt(map, Len(map))] \o <<DW_LNS_copy>>
                          ELSE <<>>) \o DW_LNE_end_sequence), map, to)
  <1> DEFINE at == AddressAt(map, Len(map))
             l == LineAt(map, Len(map))
             row == [address |-> to, line |-> l]
             tail == DW_LNE_end_sequence
             first == <<DW_LNS_advance_pc>> \o uleb128[to - at]
             copy == <<DW_LNS_copy>>
  <1>1. at \in Nat /\ l \in Nat \ {0} /\ LastRow(map).address = at /\ LastRow(map).line = l
    BY LastIs
  <1>2. map \in Seq(ReadRow)
    <2>1. RowsTo(map, Len(map)) \in Seq(ReadRow)
      <3>1. Len(map) \in 0..Len(map)
        <4> HIDE DEF Row
        <4> QED OBVIOUS
      <3> QED BY <3>1, RowsTyped
    <2> QED BY <2>1, RowsAll
  <1>3. Reads(p, "op", at, l, map)
    OBVIOUS
  <1>4. tail \in Seq(Int) /\ copy \in Seq(Int)
    BY DEF DW_LNE_end_sequence, DW_LNS_copy
  <1> SUFFICES Decodes(p \o ((IF at < to THEN first \o copy ELSE <<>>) \o tail), map, to)
    BY Zenon
  <1> HIDE DEF at, l
  <1>5. CASE at < to
    <2>1. first \in Seq(Int)
      BY <1>1, <1>5, AddressBytes
    <2>2. Reads(p \o first, "op", to, l, map)
      <3>1. l \in Int /\ to > at
        BY <1>1, <1>5
      <3> QED BY <1>1, <1>2, <1>3, <3>1, ReadsAdvancePc
    <2>3. p \o first \in Seq(Int) /\ to \in Int /\ l \in Int
      <3> HIDE DEF first
      <3> QED BY <1>1, <2>1
    <2>4. Reads((p \o first) \o copy, "op", to, l, Append(map, row))
      <3> HIDE DEF first
      <3> QED BY <1>2, <2>2, <2>3, ReadsCopy
    <2>5. row \in ReadRow /\ row \in Row
      BY <1>1, <2>3 DEF ReadRow, Row
    <2> HIDE DEF row
    <2>6. Append(map, row) \in Seq(ReadRow)
      <3> HIDE DEF ReadRow
      <3> QED BY <1>2, <2>5
    <2>7. (p \o first) \o copy \in Seq(Int)
      <3> HIDE DEF first, copy
      <3> QED BY <1>4, <2>1
    <2>8. Reads(((p \o first) \o copy) \o tail, "end", to, l, Append(map, row))
      <3> DEFINE q == (p \o first) \o copy
                 rs == Append(map, row)
      <3>1. q \in Seq(Int) /\ rs \in Seq(ReadRow) /\ Reads(q, "op", to, l, rs)
        BY <2>4, <2>6, <2>7
      <3> HIDE DEF q, rs
      <3>2. Reads(q \o tail, "end", to, l, rs)
        BY <2>3, <3>1, ReadsEnd
      <3> QED BY <3>2 DEF q, rs
    <2>9. OneByOne(p, first, copy, tail) = AtOnce(p, first, copy, tail)
      <3> HIDE DEF first, copy, tail
      <3> QED BY <1>4, <2>1, FourJoined
    <2>10. map \o Closing(map, to) = Append(map, row)
      <3>1. Closing(map, to) = <<row>>
        BY <1>1, <1>5 DEF Closing, row
      <3>2. map \o <<row>> = Append(map, row)
        BY <2>5, JoinOne
      <3> QED BY <3>1, <3>2
    <2>11. p \o ((first \o copy) \o tail) \in Seq(Int)
      <3> HIDE DEF first, copy, tail
      <3>1. first \o copy \in Seq(Int)
        BY <1>4, <2>1
      <3>2. (first \o copy) \o tail \in Seq(Int)
        BY <1>4, <3>1
      <3> QED BY <3>2
    <2> HIDE DEF first, copy, tail
    <2>12. Reads(p \o ((first \o copy) \o tail), "end", to, l, Append(map, row))
      BY <2>8, <2>9, Zenon DEF OneByOne, AtOnce
    <2>13. Decodes(p \o ((first \o copy) \o tail), map, to)
      <3> DEFINE q == p \o ((first \o copy) \o tail)
                 rs == Append(map, row)
      <3>1. q \in Seq(Int) /\ Reads(q, "end", to, l, rs) /\ map \o Closing(map, to) = rs
        BY <2>10, <2>11, <2>12
      <3> HIDE DEF q, rs
      <3>2. Consumed(q).mode = "end" /\ Consumed(q).rows = rs
        BY <3>1, ReadsDecodes
      <3>3. Decodes(q, map, to)
        BY <3>1, <3>2 DEF Decodes
      <3> QED BY <3>3 DEF q
    <2> QED BY <1>5, <2>13, Zenon
  <1>6. CASE ~ (at < to)
    <2>1. (IF at < to THEN first \o copy ELSE <<>>) \o tail = tail
      <3> HIDE DEF first, copy, tail
      <3> QED BY <1>4, <1>6
    <2>2. Reads(p \o tail, "end", at, l, map)
      <3>1. at \in Int /\ l \in Int
        BY <1>1
      <3> QED BY <1>2, <1>3, <3>1, ReadsEnd
    <2> HIDE DEF tail
    <2>3. p \o tail \in Seq(Int)
      BY <1>4
    <2>4. Consumed(p \o tail).mode = "end" /\ Consumed(p \o tail).rows = map
      <3> DEFINE q == p \o tail
      <3>1. q \in Seq(Int) /\ Reads(q, "end", at, l, map)
        BY <2>2, <2>3
      <3> HIDE DEF q
      <3>2. Consumed(q).mode = "end" /\ Consumed(q).rows = map
        BY <3>1, ReadsDecodes
      <3> QED BY <3>2 DEF q
    <2>5. map \o Closing(map, to) = map
      <3>1. Closing(map, to) = <<>>
        BY <1>1, <1>6 DEF Closing
      <3> HIDE DEF Row
      <3> QED BY <3>1
    <2>6. Decodes(p \o tail, map, to)
      BY <2>4, <2>5, Zenon DEF Decodes
    <2> QED BY <2>1, <2>6, Zenon
  <1> QED BY <1>5, <1>6

(* While the rows are written, the program tells a consumer the rows so far and leaves it *)
(* where the writer believes it to be.                                                    *)
RowsWritten ==
    /\ i - 1 <= Len(ctx.line_map)
    /\ line.addr = AddressAt(ctx.line_map, i - 1) /\ line.at = LineAt(ctx.line_map, i - 1)
    /\ Reads(line.program, "op", line.addr, line.at, RowsTo(ctx.line_map, i - 1))
LineInv ==
    /\ SortedMap(ctx.line_map)
    /\ stage = "rows" => RowsWritten
    /\ DwarfBuilt => Decodes(line.program, ctx.line_map, text_end)

LEMMA EmptySorted == SortedMap(EmptyContext.line_map)
  BY DEF SortedMap, EmptyContext

LEMMA ContextSorted ==
    ASSUME NEW f \in DOMAIN Contexts, NEW c \in Contexts[f]
    PROVE  SortedMap(c.line_map)
  <1> SUFFICES ASSUME NEW n \in DOMAIN c.line_map
               PROVE  c.line_map[n].address >= AddressAt(c.line_map, n - 1)
    BY DEF SortedMap
  <1>1. c.line_map[n].address >= IF n = 1 THEN base_address ELSE c.line_map[n - 1].address
    BY LineMapsSorted
  <1>2. n \in Nat \ {0}
    <2>1. c.line_map \in Seq(Row)
      BY ContextsTyped DEF Context
    <2> HIDE DEF Row
    <2> QED BY <2>1
  <1>3. (IF n = 1 THEN base_address ELSE c.line_map[n - 1].address) = AddressAt(c.line_map, n - 1)
    <2>1. (n = 1) <=> (n - 1 = 0)
      BY <1>2
    <2> QED BY <2>1, Zenon DEF AddressAt
  <1> QED BY <1>1, <1>3

LEMMA LineStays ==
    ASSUME LineInv, UNCHANGED <<ctx, opt, line, i>>, stage' = stage
    PROVE  LineInv'
  BY Zenon DEF LineInv, RowsWritten, DwarfBuilt, text_end

(* Where no line program is being written, or was.                         *)
LEMMA NothingToDecode ==
    ASSUME SortedMap(ctx'.line_map),
           \/ stage' \notin {"rows", "layout", "written"}
           \/ stage' \in {"layout", "written"} /\ ~ opt'.g
    PROVE  LineInv'
  BY DEF LineInv, DwarfBuilt

LEMMA BeginLineDecodes ==
    ASSUME LineInv, ctx \in Context, ctx' = ctx, opt' = opt, BeginLine
    PROVE  LineInv'
  <1>0. SortedMap(ctx'.line_map)
    BY DEF LineInv
  <1>1. CASE dwarf_overflow
    BY <1>0, <1>1, NothingToDecode DEF dwarf_overflow
  <1>2. CASE ~ dwarf_overflow
    <2>1. /\ line' = [size |-> LineHeader, addr |-> base_address, at |-> 1, program |-> <<>>]
          /\ stage' = "rows" /\ i' = 1
      BY <1>2 DEF BeginLine
    <2>2. line'.addr = base_address /\ line'.at = 1 /\ line'.program = <<>> /\ i' - 1 = 0
      <3> HIDE DEF LineHeader, base_address
      <3> QED BY <2>1
    <2>3. Len(ctx.line_map) \in Nat
      BY CtxFields
    <2>4. i' - 1 <= Len(ctx'.line_map)
      BY <2>2, <2>3
    <2>5. Reads(line'.program, "op", line'.addr, line'.at, RowsTo(ctx'.line_map, i' - 1))
      <3>1. RowsTo(ctx'.line_map, 0) = <<>>
        BY RowsNothing
      <3> QED BY <2>2, <3>1, ReadsStart
    <2>6. line'.addr = AddressAt(ctx'.line_map, i' - 1) /\ line'.at = LineAt(ctx'.line_map, i' - 1)
      BY <2>2 DEF AddressAt, LineAt
    <2>7. RowsWritten'
      BY <2>4, <2>5, <2>6, Zenon DEF RowsWritten
    <2>8. ~ DwarfBuilt'
      BY <2>1 DEF DwarfBuilt
    <2> QED BY <1>0, <2>7, <2>8 DEF LineInv
  <1> QED BY <1>1, <1>2

LEMMA EmitRowDecodes ==
    ASSUME DwarfInv, LineInv, ctx \in Context, ctx' = ctx, opt' = opt, EmitRow
    PROVE  LineInv'
  <1> DEFINE map == ctx.line_map
             row == map[i]
             bytes == RowBytes(row)
             to == IF row.address > line.addr THEN row.address ELSE line.addr
  <1>0. SortedMap(map) /\ SortedMap(ctx'.line_map) /\ map \in Seq(Row) /\ Len(map) \in Nat
    BY CtxFields DEF LineInv
  <1>1. CASE dwarf_overflow
    BY <1>0, <1>1, NothingToDecode DEF dwarf_overflow
  <1>2. CASE ~ dwarf_overflow
    <2>1. stage = "rows" /\ i <= Len(map) /\ i \in Nat \ {0} /\ RowsWritten
      BY DEF EmitRow, DwarfInv, LineInv
    <2>2. i \in 1..Len(map) /\ i - 1 \in 0..Len(map) /\ (i + 1) - 1 = i /\ i # 0
      BY <1>0, <2>1
    <2>3. row.address \in Nat /\ row.line \in Nat \ {0}
      BY <2>2, RowFields
    <2>4. AtLeast1(row.line) = row.line
      BY <2>3, RowBytesTyped
    <2>5. AppendLine(bytes, line' = Written(bytes, to, AtLeast1(row.line)) /\ i' = i + 1 /\ stage' = stage)
      BY Zenon DEF EmitRow
    <2>6. line' = Written(bytes, to, row.line) /\ i' = i + 1 /\ stage' = "rows"
      <3> HIDE DEF bytes, to, row
      <3> QED BY <1>2, <2>1, <2>4, <2>5 DEF AppendLine
    <2>7. row.address >= line.addr
      <3>1. i \in DOMAIN map
        <4> HIDE DEF map, Row
        <4> QED BY <1>0, <2>2
      <3>2. row.address >= AddressAt(map, i - 1)
        BY <1>0, <3>1 DEF SortedMap
      <3> QED BY <2>1, <3>2 DEF RowsWritten
    <2>8. to = row.address
      <3>1. line.addr \in Nat
        BY DEF DwarfInv, LineState
      <3> HIDE DEF row
      <3> QED BY <2>3, <2>7, <3>1
    <2>9. /\ line'.addr = row.address /\ line'.at = row.line
          /\ line'.program = line.program \o bytes
      <3> HIDE DEF bytes, to, row
      <3> QED BY <2>6, <2>8 DEF Written
    <2>10. Reads(line.program \o bytes, "op", row.address, row.line, RowsTo(map, i))
      <3> DEFINE rs == RowsTo(map, i - 1)
      <3>1. rs \in Seq(ReadRow)
        BY <1>0, <2>2, RowsTyped
      <3>2. Reads(line.program, "op", line.addr, line.at, rs)
        BY <2>1 DEF RowsWritten
      <3>3. Append(rs, [address |-> row.address, line |-> row.line]) = RowsTo(map, i)
        BY <1>0, <2>2, RowsMore
      <3> HIDE DEF rs, row
      <3>4. Reads(line.program \o RowBytes(row), "op", row.address, row.line,
                  Append(rs, [address |-> row.address, line |-> row.line]))
        BY <2>3, <2>7, <3>1, <3>2, WritesRow
      <3> QED BY <3>3, <3>4, Zenon
    <2>11. AddressAt(map, i) = row.address /\ LineAt(map, i) = row.line
      BY <2>2 DEF AddressAt, LineAt
    <2>12. i' - 1 = i /\ ctx'.line_map = map
      BY <2>2, <2>6
    <2>13. RowsWritten'
      <3>1. i' - 1 <= Len(ctx'.line_map)
        BY <2>1, <2>12
      <3>2. /\ line'.addr = AddressAt(ctx'.line_map, i' - 1)
            /\ line'.at = LineAt(ctx'.line_map, i' - 1)
        BY <2>9, <2>11, <2>12, Zenon
      <3>3. Reads(line'.program, "op", line'.addr, line'.at, RowsTo(ctx'.line_map, i' - 1))
        BY <2>9, <2>10, <2>12, Zenon
      <3> QED BY <3>1, <3>2, <3>3, Zenon DEF RowsWritten
    <2>14. ~ DwarfBuilt'
      BY <2>6 DEF DwarfBuilt
    <2> QED BY <1>0, <2>13, <2>14 DEF LineInv
  <1> QED BY <1>1, <1>2

LEMMA EndRowsDecodes ==
    ASSUME DwarfInv, LineInv, ctx \in Context, ctx' = ctx, opt' = opt, EndRows
    PROVE  LineInv'
  <1> DEFINE map == ctx.line_map
             bytes == (IF line.addr < text_end
                       THEN <<DW_LNS_advance_pc>> \o uleb128[text_end - line.addr] \o <<DW_LNS_copy>>
                       ELSE <<>>) \o DW_LNE_end_sequence
  <1>0. SortedMap(ctx'.line_map) /\ map \in Seq(Row) /\ Len(map) \in Nat /\ text_end \in Nat
    BY CtxFields DEF LineInv
  <1>1. CASE dwarf_overflow
    BY <1>0, <1>1, NothingToDecode DEF dwarf_overflow
  <1>2. CASE ~ dwarf_overflow
    <2>1. stage = "rows" /\ i > Len(map) /\ i \in Nat \ {0} /\ RowsWritten /\ line.program \in Seq(Int)
      BY DEF EndRows, DwarfInv, LineInv, LineState
    <2>2. i - 1 = Len(map)
      <3>1. i - 1 <= Len(map)
        BY <2>1 DEF RowsWritten
      <3> QED BY <1>0, <2>1, <3>1
    <2>3. AppendLine(bytes, line' = Written(bytes, text_end, line.at)
                            /\ stage' = "layout" /\ UNCHANGED i)
      BY Zenon DEF EndRows
    <2>4. line'.program = line.program \o bytes /\ stage' = "layout"
      <3> HIDE DEF bytes
      <3> QED BY <1>2, <2>3 DEF AppendLine, Written
    <2>5. line.addr = AddressAt(map, Len(map)) /\ line.at = LineAt(map, Len(map))
      BY <2>1, <2>2 DEF RowsWritten
    <2>6. Reads(line.program, "op", AddressAt(map, Len(map)), LineAt(map, Len(map)), map)
      <3>1. RowsTo(map, i - 1) = map
        BY <1>0, <2>2, RowsAll
      <3>2. Reads(line.program, "op", line.addr, line.at, RowsTo(map, i - 1))
        BY <2>1 DEF RowsWritten
      <3> HIDE DEF map
      <3> QED BY <2>5, <3>1, <3>2
    <2>7. Decodes(line.program \o ((IF AddressAt(map, Len(map)) < text_end
                          THEN <<DW_LNS_advance_pc>> \o uleb128[text_end - AddressAt(map, Len(map))] \o <<DW_LNS_copy>>
                          ELSE <<>>) \o DW_LNE_end_sequence), map, text_end)
      <3> HIDE DEF map
      <3> QED BY <1>0, <2>1, <2>6, WritesEnd, Zenon
    <2>8. Decodes(line.program \o bytes, map, text_end)
      BY <2>5, <2>7, Zenon
    <2>9. text_end' = text_end /\ ctx'.line_map = map
      BY DEF text_end
    <2>10. Decodes(line'.program, ctx'.line_map, text_end')
      <3> HIDE DEF bytes
      <3> QED BY <2>4, <2>8, <2>9, Zenon
    <2> QED BY <1>0, <2>4, <2>10 DEF LineInv
  <1> QED BY <1>1, <1>2

LEMMA LineNext == IInv /\ MainInv /\ DwarfInv /\ LineInv /\ [Next]_vars => LineInv'
  <1> SUFFICES ASSUME IInv, MainInv, DwarfInv, LineInv, [Next]_vars PROVE LineInv'
    OBVIOUS
  <1>0. ctx \in Context /\ opt \in Options /\ SortedMap(ctx.line_map)
    BY DEF MainInv, LineInv
  <1>1. CASE TileFrame /\ UNCHANGED elf_vars
    <2>1. UNCHANGED <<ctx, opt, line, i>> /\ stage' = stage
      BY <1>1 DEF elf_vars, TileFrame
    <2> QED BY <2>1, LineStays
  <1>2. CASE ReadOption
    <2>1. stage' = "idle" /\ ctx' = ctx
      BY <1>2 DEF ReadOption, IInv, PhaseInv, Unwritten, elf_vars
    <2> QED BY <1>0, <2>1, NothingToDecode
  <1>3. CASE Assemble
    <2>1. stage' = "idle" /\ ctx' \in Contexts[opt.input] /\ pc = "defines"
      BY <1>3 DEF Assemble, IInv, PhaseInv, Unwritten, elf_vars
    <2>2. opt.input \in DOMAIN Contexts
      BY <1>0, <2>1 DEF IInv, PhaseInv, Options
    <2>3. SortedMap(ctx'.line_map)
      BY <2>1, <2>2, ContextSorted
    <2> QED BY <2>1, <2>3, NothingToDecode
  <1>4. CASE OpenElf
    <2>1. opt' = opt /\ ctx' = ctx /\ stage' = IF opt.g THEN "dwarf" ELSE "layout"
      BY <1>4 DEF OpenElf
    <2> QED BY <1>0, <2>1, NothingToDecode
  <1>5. CASE BuildElf
    <2>1. BuildDwarf /\ ctx' = ctx /\ opt' = opt
      BY <1>5 DEF BuildElf, driver_vars
    <2>2. CASE BeginLine \/ EmitRow \/ EndRows
      BY <1>0, <2>1, <2>2, BeginLineDecodes, EmitRowDecodes, EndRowsDecodes
    <2>3. CASE ~ (BeginLine \/ EmitRow \/ EndRows)
      <3>1. stage' \notin {"rows", "layout", "written"}
        <4>1. CASE BeginDwarf \/ IndexSymbol \/ EnsureStart
          BY <4>1 DEF BeginDwarf, IndexSymbol, EnsureStart, dwarf_overflow
        <4>2. CASE SortFunctions \/ SortLabels
          BY <4>2 DEF SortFunctions, SortLabels, Sort
        <4>3. CASE BeginInfo \/ EmitFunction \/ EndFunctions
          BY <4>3 DEF BeginInfo, EmitFunction, EndFunctions, AppendInfo, dwarf_overflow
        <4>4. CASE EmitLabel \/ EndInfo
          BY <4>4 DEF EmitLabel, EndInfo, AppendInfo, dwarf_overflow
        <4> QED BY <2>1, <2>3, <4>1, <4>2, <4>3, <4>4 DEF BuildDwarf
      <3> QED BY <1>0, <2>1, <3>1, NothingToDecode
    <2> QED BY <2>2, <2>3
  <1>6. CASE WriteElf
    <2>1. stage = "layout" /\ stage' = "written" /\ ctx' = ctx /\ opt' = opt /\ line' = line
      BY <1>6 DEF WriteElf
    <2>2. text_end' = text_end
      BY <2>1 DEF text_end
    <2> QED BY <2>1, <2>2 DEF LineInv, DwarfBuilt
  <1>7. CASE NextInvocation
    <2>1. stage' = "idle" /\ ctx' = EmptyContext
      BY <1>7 DEF NextInvocation
    <2> QED BY <2>1, EmptySorted, NothingToDecode
  <1>8. CASE \/ StopAtOption \/ Disassemble \/ NoInput \/ asm_init
             \/ CollectDefine \/ InvalidDefine \/ PreprocessOnly \/ AssembleFails
             \/ FatalWarning \/ Dependencies \/ BeginOutput
             \/ OpenFails \/ UnknownFormat \/ WriteFlat \/ ElfOverflow
    <2>1. TileFrame /\ UNCHANGED elf_vars
      BY <1>8 DEF StopAtOption, Disassemble, NoInput, asm_init, CollectDefine, InvalidDefine,
                  PreprocessOnly, AssembleFails, FatalWarning, Dependencies, BeginOutput, OpenFails,
                  UnknownFormat, WriteFlat, ElfOverflow, Exit, FreeAndExit, TileFrame
    <2> QED BY <1>1, <2>1
  <1>9. CASE WriteDebugMap \/ WriteListing \/ Finished \/ UNCHANGED vars
    <2>1. TileFrame /\ UNCHANGED elf_vars
      BY <1>9 DEF WriteDebugMap, WriteListing, WriteBeside, Finished, vars, driver_vars, Exit, FreeAndExit, TileFrame
    <2> QED BY <1>1, <2>1
  <1> QED BY <1>2, <1>3, <1>4, <1>5, <1>6, <1>7, <1>8, <1>9 DEF Next

(* A debugger that runs the line program asm_write_elf64 has built, byte by byte, gets    *)
(* exactly the rows of the line map, the row at the end of the text where one is due, and *)
(* the end of the sequence: for every sorted line map, however far apart its lines and    *)
(* addresses are, every length of their LEB128 groups and every size of the buffers.      *)
THEOREM LinesDecode == Spec => []LineProgramDecodes
  <1>1. Init => LineInv
    <2> SUFFICES ASSUME Init PROVE LineInv
      OBVIOUS
    <2>1. stage = "idle" /\ ctx = EmptyContext
      BY DEF Init, Idle
    <2> QED BY <2>1, EmptySorted DEF LineInv, DwarfBuilt
  <1>2. LineInv => LineProgramDecodes
    BY DecodesIs DEF LineInv
  <1> QED BY <1>1, <1>2, LineNext, TypedHolds, PTL DEF Spec

=============================================================================
