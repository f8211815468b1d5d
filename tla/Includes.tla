------------------------------ MODULE Includes ------------------------------
(***************************************************************************)
(* expand_includes_recursive: replaces every .include line by the text of  *)
(* the file it names, before macros and conditionals are looked at.        *)
(*                                                                         *)
(* The recursion is a stack of frames.  One step handles one line, or one  *)
(* return.  The buffers the calls hand to their callers are one sequence   *)
(* here: a caller appends the text of the included file where it stands.   *)
(*                                                                         *)
(* A path is the sequence of its directories and a name.  Two paths may    *)
(* name one file; the code compares paths, the file system opens files.    *)
(***************************************************************************)
EXTENDS Naturals, Sequences, FiniteSets, SequencesExt

CONSTANTS
    FileSystems,            \* functions from files to their lines
    Root,                   \* the file that is assembled
    IncludePaths,           \* the directories of the -I options, in order
    SystemDir,              \* stands for /usr/include and its like
    deps_exclude_system,    \* -MMD rather than -MD
    MAX_INCLUDE_DEPTH,
    MAX_DEPENDENCIES,
    MAX_FILEPATH_LENGTH     \* counted in directories

(***************************************************************************)
(* text: any line that is no include; bad: an include without a well-      *)
(* formed file name; include: dir and name are those between the quotes.   *)
(***************************************************************************)
LineKinds == {"text", "bad", "include"}
IsLine(l) == /\ l.kind \in LineKinds
             /\ l.kind = "include" => l.dir \in Seq(STRING) /\ l.name \in STRING

ASSUME FileSystemsTyped ==
    \A fs \in FileSystems :
        /\ Root \in DOMAIN fs
        /\ \A f \in DOMAIN fs : /\ DOMAIN fs[f] = 1..Len(fs[f])
                               /\ \A k \in DOMAIN fs[f] : IsLine(fs[f][k])
ASSUME DepthPositive == MAX_INCLUDE_DEPTH \in Nat \ {0}
ASSUME LimitsNat == MAX_DEPENDENCIES \in Nat /\ MAX_FILEPATH_LENGTH \in Nat

VARIABLES
    files,              \* the file system; nothing here writes to it
    frames,             \* one frame for every call that has not returned
    tracker,            \* include_ctx.tracker.filenames[0 .. count-1]
    output,             \* the text so far: of every line its file and its place
    dependencies,
    pc,                 \* "run", "unwind", "done", "failed"
    error

vars == <<files, frames, tracker, output, dependencies, pc, error>>

Path(dir, name) == [dir |-> dir, name |-> name]

\* What fopen makes of a path: . and .. are resolved, a link does not occur.
Canonical(path) ==
    LET dir[n \in 0..Len(path.dir)] ==
            IF n = 0 THEN <<>>
            ELSE LET parent == dir[n - 1]
                     d == path.dir[n]
                 IN  CASE d = "." -> parent
                       [] d = ".." /\ parent # <<>> -> Front(parent)
                       [] OTHER -> Append(parent, d)
    IN  Path(dir[Len(path.dir)], path.name)

Opens(path) == Canonical(path) \in DOMAIN files

\* "." and the empty directory are the same base directory.
dirname_from_path(path) == IF path.dir = <<".">> THEN <<>> ELSE path.dir

Absolute(dir) == dir # <<>> /\ dir[1] = "/"

Init ==
    /\ files \in FileSystems
    /\ frames = <<[path |-> Root, pos |-> 1]>>
    /\ tracker = <<>> /\ output = <<>> /\ dependencies = <<>>
    /\ pc = "run" /\ error = "none"

Top     == Last(frames)
Lines   == files[Canonical(Top.path)]
depth   == Len(frames) - 1

(* Mutant: the deepest level that is allowed is refused. *)
InDepth_OffByOne == depth < MAX_INCLUDE_DEPTH

InDepth == depth <= MAX_INCLUDE_DEPTH

AtLine(kind) == pc = "run" /\ InDepth /\ Top.pos <= Len(Lines) /\ Lines[Top.pos].kind = kind

Cur == Lines[Top.pos]

\* The call at the top returns NULL.
Fail(e) == pc' = "unwind" /\ error' = e

TooDeep ==
    /\ pc = "run" /\ ~ InDepth
    /\ Fail("depth")
    /\ UNCHANGED <<files, frames, tracker, output, dependencies>>

CopyLine ==
    /\ AtLine("text")
    /\ output' = Append(output, <<Canonical(Top.path), [k \in DOMAIN frames |-> frames[k].pos]>>)
    /\ frames' = [frames EXCEPT ![Len(frames)].pos = @ + 1]
    /\ UNCHANGED <<files, tracker, dependencies, pc, error>>

BadInclude ==
    /\ AtLine("bad")
    /\ Fail("syntax")
    /\ UNCHANGED <<files, frames, tracker, output, dependencies>>
-----------------------------------------------------------------------------
(* An include line.                                                         *)

\* The path in the directory of the including file, which is tried first.
Candidate ==
    Path(IF Absolute(Cur.dir) THEN Cur.dir ELSE dirname_from_path(Top.path) \o Cur.dir, Cur.name)

TooLong(path) == Len(path.dir) >= MAX_FILEPATH_LENGTH

PathTooLong ==
    /\ AtLine("include") /\ ~ Absolute(Cur.dir) /\ TooLong(Candidate)
    /\ Fail("path")
    /\ UNCHANGED <<files, frames, tracker, output, dependencies>>

Fits == ~ Absolute(Cur.dir) => ~ TooLong(Candidate)

is_circular_include(path) == \E k \in DOMAIN tracker : tracker[k] = path

Circular ==
    /\ AtLine("include") /\ Fits /\ is_circular_include(Candidate)
    /\ Fail("circular")
    /\ UNCHANGED <<files, frames, tracker, output, dependencies>>

(* Mutant: the tracker is written past its end. *)
Entered_Unbounded == Append(tracker, Candidate)

\* The file is entered under the first candidate before it is looked for; a
\* full tracker is left alone.
Entered == IF Len(tracker) < MAX_INCLUDE_DEPTH THEN Append(tracker, Candidate) ELSE tracker

Released(t) == IF t # <<>> THEN Front(t) ELSE t

\* The places where the -I options find the file.
OnPath(k) == Path(IncludePaths[k] \o Cur.dir, Cur.name)
Found == {k \in DOMAIN IncludePaths : ~ TooLong(OnPath(k)) /\ Opens(OnPath(k))}

Missing == ~ Opens(Candidate) /\ (Absolute(Cur.dir) \/ Found = {})

Resolved ==
    IF Opens(Candidate) THEN Candidate
    ELSE OnPath(CHOOSE k \in Found : \A j \in Found : k <= j)

(* Mutant: the error path forgets the tracker. *)
NotFound_KeepsEntry ==
    /\ AtLine("include") /\ Fits /\ ~ is_circular_include(Candidate) /\ Missing
    /\ Fail("missing")
    /\ tracker' = Entered
    /\ UNCHANGED <<files, frames, output, dependencies>>

NotFound ==
    /\ AtLine("include") /\ Fits /\ ~ is_circular_include(Candidate) /\ Missing
    /\ Fail("missing")
    /\ tracker' = Released(Entered)
    /\ UNCHANGED <<files, frames, output, dependencies>>

\* A file that an -I option found is tracked under its own path, unless the
\* tracker is full by now.
Tracked(t) ==
    IF ~ Opens(Candidate) /\ Len(t) < MAX_INCLUDE_DEPTH
    THEN [t EXCEPT ![Len(t)] = Resolved]
    ELSE t

is_system_include_path(path) == IsPrefix(SystemDir, path.dir)

track_dependency(path) ==
    IF \/ deps_exclude_system /\ is_system_include_path(path)
       \/ \E k \in DOMAIN dependencies : dependencies[k] = path
       \/ Len(dependencies) >= MAX_DEPENDENCIES
    THEN dependencies
    ELSE Append(dependencies, path)

(* Mutant: the dependency is recorded under the path that was tried first. *)
Descend_TrackCandidate ==
    /\ AtLine("include") /\ Fits /\ ~ is_circular_include(Candidate) /\ ~ Missing
    /\ tracker' = Tracked(Entered)
    /\ dependencies' = track_dependency(Candidate)
    /\ frames' = Append(frames, [path |-> Resolved, pos |-> 1])
    /\ UNCHANGED <<files, output, pc, error>>

Descend ==
    /\ AtLine("include") /\ Fits /\ ~ is_circular_include(Candidate) /\ ~ Missing
    /\ tracker' = Tracked(Entered)
    /\ dependencies' = track_dependency(Resolved)
    /\ frames' = Append(frames, [path |-> Resolved, pos |-> 1])
    /\ UNCHANGED <<files, output, pc, error>>
-----------------------------------------------------------------------------
(* Returns.                                                                 *)

\* The caller goes on behind the include line.
Return ==
    /\ pc = "run" /\ InDepth /\ Top.pos > Len(Lines) /\ Len(frames) > 1
    /\ frames' = [Front(frames) EXCEPT ![Len(frames) - 1].pos = @ + 1]
    /\ tracker' = Released(tracker)
    /\ UNCHANGED <<files, output, dependencies, pc, error>>

ReturnRoot ==
    /\ pc = "run" /\ Top.pos > Len(Lines) /\ Len(frames) = 1
    /\ pc' = "done"
    /\ UNCHANGED <<files, frames, tracker, output, dependencies, error>>

\* A failed call frees its text; its caller releases the tracker, then fails.
Unwind ==
    /\ pc = "unwind" /\ Len(frames) > 1
    /\ frames' = Front(frames)
    /\ tracker' = Released(tracker)
    /\ UNCHANGED <<files, output, dependencies, pc, error>>

UnwindRoot ==
    /\ pc = "unwind" /\ Len(frames) = 1
    /\ pc' = "failed" /\ output' = <<>>
    /\ UNCHANGED <<files, frames, tracker, dependencies, error>>

Finished == pc \in {"done", "failed"} /\ UNCHANGED vars

Next ==
    \/ TooDeep \/ CopyLine \/ BadInclude
    \/ PathTooLong \/ Circular \/ NotFound \/ Descend
    \/ Return \/ ReturnRoot \/ Unwind \/ UnwindRoot \/ Finished

Spec == Init /\ [][Next]_vars
-----------------------------------------------------------------------------
(***************************************************************************)
(* The reference: which file an include names depends on the file it is in *)
(* and not on the path that led there.  A place is given by the lines to   *)
(* follow from the root file.  Open[d] has the files reached by d nested   *)
(* includes, each with its place.                                          *)
(***************************************************************************)
Hits(f, line) ==
    LET dirs == IF Absolute(line.dir) THEN <<<<>>>> ELSE <<f.dir>> \o IncludePaths
        At(k) == Canonical(Path(dirs[k] \o line.dir, line.name))
    IN  {<<k, At(k)>> : k \in {j \in DOMAIN dirs : At(j) \in DOMAIN files}}

Target(f, line) ==
    LET hits == Hits(f, line)
    IN  (CHOOSE h \in hits : \A g \in hits : h[1] <= g[1])[2]

Names(f, k) == files[f][k].kind = "include" /\ Hits(f, files[f][k]) # {}

Open[d \in 0..(MAX_INCLUDE_DEPTH + 1)] ==
    IF d = 0 THEN {[at |-> <<>>, file |-> Root]}
    ELSE UNION {{[at |-> Append(p.at, k), file |-> Target(p.file, files[p.file][k])] :
                    k \in {j \in DOMAIN files[p.file] : Names(p.file, j)}} : p \in Open[d - 1]}

Sound ==
    /\ Open[MAX_INCLUDE_DEPTH + 1] = {}
    /\ \A d \in 0..MAX_INCLUDE_DEPTH : \A p \in Open[d] :
        \A k \in DOMAIN files[p.file] : files[p.file][k].kind = "text" \/ Names(p.file, k)

TextLines ==
    UNION {{<<p.file, Append(p.at, k)>> :
                k \in {j \in DOMAIN files[p.file] : files[p.file][j].kind = "text"}} :
           p \in UNION {Open[d] : d \in 0..MAX_INCLUDE_DEPTH}}

Before(c, d) ==
    \E n \in DOMAIN c \cap DOMAIN d : c[n] < d[n] /\ SubSeq(c, 1, n - 1) = SubSeq(d, 1, n - 1)
-----------------------------------------------------------------------------
(* Properties.                                                              *)

Errors == {"none", "depth", "syntax", "path", "circular", "missing"}

\* The state of the expansion is well formed and within the arrays of the
\* context; while no call has failed, the tracker has one entry for every
\* included file that is being read.
TypeOK ==
    /\ pc \in {"run", "unwind", "done", "failed"} /\ error \in Errors
    /\ Len(frames) \in 1..(MAX_INCLUDE_DEPTH + 2)
    /\ Len(tracker) <= MAX_INCLUDE_DEPTH
    /\ Len(dependencies) <= MAX_DEPENDENCIES
    /\ pc = "run" /\ InDepth => Len(tracker) = depth

\* What expand_includes_recursive returns is the text of the root file with all
\* includes in place, and it returns NULL exactly when there is no such text:
\* every cycle of files is refused, however its paths are written, and nothing
\* else is, except a path that is too long.
ExpandsExactly ==
    /\ pc = "done" => /\ Sound /\ Range(output) = TextLines
                      /\ \A j, k \in DOMAIN output :
                            j < k => Before(output[j][2], output[k][2])
    /\ pc = "failed" /\ error # "path" => ~ Sound

\* Whatever the outcome, the tracker is empty when preprocess_macros gets the
\* result: the context can be used for another file.
TrackerReleased == pc \in {"done", "failed"} => tracker = <<>>

\* The dependency list holds every path once, and names every file whose lines
\* are in the text, unless it is full or the file is a system one.
DependenciesListed ==
    /\ \A j, k \in DOMAIN dependencies : dependencies[j] = dependencies[k] => j = k
    /\ pc = "done" /\ Len(dependencies) < MAX_DEPENDENCIES =>
        \A k \in DOMAIN output :
            \/ output[k][1] = Root
            \/ deps_exclude_system /\ IsPrefix(SystemDir, output[k][1].dir)
            \/ \E d \in Range(dependencies) : Canonical(d) = output[k][1]
=============================================================================
