------------------------------- MODULE Labels -------------------------------
(***************************************************************************)
(* canonicalize_symbol_labels: the rewriting of local labels (".name") and *)
(* anonymous labels ("@@", "@B", "@F") into ordinary symbol names, which   *)
(* asm_assemble runs between the parser and its first pass.  The first     *)
(* pass of the rewriting renames definitions, the second one references;   *)
(* they count the scopes of local labels separately, and must agree.       *)
(*                                                                         *)
(* A name is a record, one for each text: Scoped(3, "l") is "__loc_3_l",   *)
(* which the program may also contain as written by its author.            *)
(***************************************************************************)
EXTENDS Naturals, Sequences, FiniteSets, FiniteSetsExt

CONSTANTS Programs,       \* the parsed programs considered
          Bases,          \* what is left of a name without dot or prefix
          Fits(_, _),     \* Fits(s, b): "__loc_<s>_<b>" fits MAX_LABEL_LENGTH
          MAX_SYMBOLS     \* capacity of local_aliases and of anon_defs

NameOf(kind, base, number) == [kind |-> kind, base |-> base, number |-> number]

Global(b)    == NameOf("global", b, 0)       \* name
Local(b)     == NameOf("local", b, 0)        \* .name
AnonymousDef == NameOf("@@", "", 0)
Backward     == NameOf("@B", "", 0)
Forward      == NameOf("@F", "", 0)
NoLabel      == NameOf("none", "", 0)        \* has_label is false
Scoped(s, b) == NameOf("__loc_", b, s)
Anonymous(n) == NameOf("__anon_", "", n)

Kinds == {"none", "global", "local", "@@", "@B", "@F", "__loc_", "__anon_"}
Names == {n \in [kind : Kinds, base : Bases \cup {""}, number : Nat] :
            /\ n.kind \in {"none", "@@", "@B", "@F"} => n = NameOf(n.kind, "", 0)
            /\ n.kind \in {"global", "local"} => n.number = 0}

(***************************************************************************)
(* What the rewriting looks at in an instruction: whether it is an equ or  *)
(* a section directive, its label, and the label fields of its operands in *)
(* the order they are visited (one for a label or a memory operand, two    *)
(* for a label difference).                                                *)
(***************************************************************************)
Types == {"equ", "section", "other"}
Insts == [type : Types, label : Names, refs : Seq(Names)]

ASSUME ProgramsTyped == Programs \subseteq Seq(Insts)
ASSUME CapacityNat   == MAX_SYMBOLS \in Nat

VARIABLES source,             \* the program as parsed; never written
          insts,              \* the program as rewritten so far
          pc, error,          \* which pass runs; why the rewriting failed
          i, op,              \* instruction and operand label at hand
          scope_id,
          local_aliases,
          anon_defs           \* its length is also anonymous_counter

vars == <<source, insts, pc, error, i, op, scope_id, local_aliases, anon_defs>>

is_local_label_name(name) == name.kind = "local"

Init ==
    /\ source \in Programs
    /\ insts = source
    /\ pc = "definitions" /\ error = "none"
    /\ i = 1 /\ op = 0
    /\ scope_id = 0
    /\ local_aliases = <<>> /\ anon_defs = <<>>

Fail(e) ==
    /\ pc' = "failed" /\ error' = e
    /\ UNCHANGED <<source, insts, i, op, scope_id, local_aliases, anon_defs>>

Alias(s, b) == [scope_id |-> s, local_name |-> b, scoped_name |-> Scoped(s, b)]

(* Mutant: the scan compares names only. *)
HasAlias_AnyScope(s, b) ==
    \E k \in 1..Len(local_aliases) : local_aliases[k].local_name = b

HasAlias(s, b) ==
    \E k \in 1..Len(local_aliases) :
        local_aliases[k].scope_id = s /\ local_aliases[k].local_name = b

\* The first alias of the scope and name, as the scan of the array finds it.
lookup_local_alias(s, b) ==
    LET k == CHOOSE k \in 1..Len(local_aliases) :
                /\ local_aliases[k].scope_id = s
                /\ local_aliases[k].local_name = b
                /\ \A j \in 1..(k - 1) :
                      ~ (/\ local_aliases[j].scope_id = s
                         /\ local_aliases[j].local_name = b)
    IN  local_aliases[k].scoped_name

CanCreate(b) == Len(local_aliases) < MAX_SYMBOLS /\ Fits(scope_id, b)

CreateAlias(b) == local_aliases' = Append(local_aliases, Alias(scope_id, b))

\* The two error returns of get_or_create_local_alias.
CreateFails(b) ==
    \/ Len(local_aliases) >= MAX_SYMBOLS /\ Fail("aliases")
    \/ Len(local_aliases) < MAX_SYMBOLS /\ ~ Fits(scope_id, b) /\ Fail("long")
-----------------------------------------------------------------------------
(* Pass 1: definitions.                                                     *)

AtDefinition == pc = "definitions" /\ i <= Len(insts)

Label == insts[i].label

NextDefinition == i' = i + 1 /\ UNCHANGED <<source, pc, error, op>>

DefineAnonymous ==
    /\ AtDefinition /\ Label = AnonymousDef
    /\ IF Len(anon_defs) >= MAX_SYMBOLS
       THEN Fail("anonymous")
       ELSE LET name == Anonymous(Len(anon_defs))
            IN  /\ anon_defs' = Append(anon_defs,
                        [instruction_index |-> i, scoped_name |-> name])
                /\ insts' = [insts EXCEPT ![i].label = name]
                /\ UNCHANGED <<scope_id, local_aliases>>
                /\ NextDefinition

(* Mutant: a second definition reuses the alias of the first. *)
DefineLocal_Redefining ==
    /\ AtDefinition /\ is_local_label_name(Label)
    /\ insts' = [insts EXCEPT ![i].label = Scoped(scope_id, Label.base)]
    /\ IF HasAlias(scope_id, Label.base)
       THEN UNCHANGED local_aliases
       ELSE CreateAlias(Label.base)
    /\ UNCHANGED <<scope_id, anon_defs>>
    /\ NextDefinition

DefineLocal ==
    /\ AtDefinition /\ is_local_label_name(Label)
    /\ LET b == Label.base
       IN  \/ HasAlias(scope_id, b) /\ Fail("redefined")
           \/ ~ HasAlias(scope_id, b) /\ CreateFails(b)
           \/ /\ ~ HasAlias(scope_id, b) /\ CanCreate(b)
              /\ CreateAlias(b)
              /\ insts' = [insts EXCEPT ![i].label = Scoped(scope_id, b)]
              /\ UNCHANGED <<scope_id, anon_defs>>
              /\ NextDefinition

\* Any other label opens a scope, unless it names a constant.
OpenScope ==
    /\ AtDefinition
    /\ Label # AnonymousDef /\ ~ is_local_label_name(Label)
    /\ scope_id' = IF Label # NoLabel /\ insts[i].type # "equ"
                   THEN scope_id + 1 ELSE scope_id
    /\ UNCHANGED <<insts, local_aliases, anon_defs>>
    /\ NextDefinition

StartReferences ==
    /\ pc = "definitions" /\ i > Len(insts)
    /\ pc' = "references" /\ i' = 1 /\ op' = 0 /\ scope_id' = 0
    /\ UNCHANGED <<source, insts, error, local_aliases, anon_defs>>
-----------------------------------------------------------------------------
(* Pass 2: references.                                                      *)

(* Mutant: pass 2 also counts the labels of constants. *)
OpensScopeHere_Constants(inst) ==
    inst.label # NoLabel /\ inst.label.kind \notin {"local", "__loc_", "__anon_"}

\* What pass 2 takes for a label that opened a scope in pass 1: it sees the
\* rewritten labels and leaves out those that carry a prefix of the rewriting.
OpensScopeHere(inst) ==
    /\ inst.label # NoLabel
    /\ inst.type # "equ"
    /\ inst.label.kind \notin {"local", "__loc_", "__anon_"}

EnterInst ==
    /\ pc = "references" /\ i <= Len(insts) /\ op = 0
    /\ scope_id' = IF OpensScopeHere(insts[i]) THEN scope_id + 1 ELSE scope_id
    /\ op' = 1
    /\ UNCHANGED <<source, insts, pc, error, i, local_aliases, anon_defs>>

AtReference == /\ pc = "references" /\ i <= Len(insts)
               /\ op > 0 /\ op <= Len(insts[i].refs)

Reference == insts[i].refs[op]

Rewrite(name) ==
    /\ insts' = [insts EXCEPT ![i].refs[op] = name]
    /\ op' = op + 1
    /\ UNCHANGED <<source, pc, error, i, scope_id, anon_defs>>

\* Local references, defined or not: a name without an alias gets one, and is
\* reported much later, as an undefined symbol, if it is ever needed.
NormalizeLocal ==
    /\ AtReference /\ is_local_label_name(Reference)
    /\ LET b == Reference.base
       IN  \/ /\ HasAlias(scope_id, b)
              /\ Rewrite(lookup_local_alias(scope_id, b))
              /\ UNCHANGED local_aliases
           \/ ~ HasAlias(scope_id, b) /\ CreateFails(b)
           \/ /\ ~ HasAlias(scope_id, b) /\ CanCreate(b)
              /\ CreateAlias(b)
              /\ Rewrite(Scoped(scope_id, b))

Following == {k \in 1..Len(anon_defs) : anon_defs[k].instruction_index > i}
(* Mutant: @B may name the label of its own line. *)
Preceding_OrHere == {k \in 1..Len(anon_defs) : anon_defs[k].instruction_index <= i}
Preceding == {k \in 1..Len(anon_defs) : anon_defs[k].instruction_index < i}

\* lookup_anonymous_ref takes the first definition after the instruction, or
\* the last one before it.
NormalizeForward ==
    /\ AtReference /\ Reference = Forward
    /\ \/ Following = {} /\ Fail("forward")
       \/ /\ Following # {}
          /\ Rewrite(anon_defs[Min(Following)].scoped_name)
          /\ UNCHANGED local_aliases

NormalizeBackward ==
    /\ AtReference /\ Reference = Backward
    /\ \/ Preceding = {} /\ Fail("backward")
       \/ /\ Preceding # {}
          /\ Rewrite(anon_defs[Max(Preceding)].scoped_name)
          /\ UNCHANGED local_aliases

KeepReference ==
    /\ AtReference
    /\ ~ is_local_label_name(Reference)
    /\ Reference \notin {Forward, Backward}
    /\ op' = op + 1
    /\ UNCHANGED <<source, insts, pc, error, i, scope_id, local_aliases, anon_defs>>

LeaveInst ==
    /\ pc = "references" /\ i <= Len(insts) /\ op > Len(insts[i].refs)
    /\ i' = i + 1 /\ op' = 0
    /\ UNCHANGED <<source, insts, pc, error, scope_id, local_aliases, anon_defs>>

EndReferences ==
    /\ pc = "references" /\ i > Len(insts)
    /\ pc' = "done"
    /\ UNCHANGED <<source, insts, error, i, op, scope_id, local_aliases, anon_defs>>

Finished == pc \in {"done", "failed"} /\ UNCHANGED vars

Next ==
    \/ DefineAnonymous \/ DefineLocal \/ OpenScope \/ StartReferences
    \/ EnterInst \/ NormalizeLocal \/ NormalizeForward \/ NormalizeBackward
    \/ KeepReference \/ LeaveInst \/ EndReferences
    \/ Finished

Spec == Init /\ [][Next]_vars
-----------------------------------------------------------------------------
(* Properties.                                                              *)

Prefixed == {"__loc_", "__anon_"}
Causes == {"none", "aliases", "long", "anonymous", "redefined", "forward", "backward"}

Lines == 1..Len(source)

\* The scope a line is in, read off the program as written: the number of
\* labels up to it that are neither local, nor anonymous, nor constants.
NonLocal(inst) ==
    /\ inst.label.kind \notin {"none", "local", "@@"}
    /\ inst.type # "equ"
Scope(k) == Cardinality({j \in 1..k : NonLocal(source[j])})

\* No label of the program carries a prefix the rewriting uses itself.
Unprefixed == \A d \in Lines : source[d].label.kind \notin Prefixed

\* Line d defines the local label that local name n means on line k.
Means(k, n, d) == source[d].label = n /\ Scope(d) = Scope(k)

ScopedReferences ==
    \A k \in Lines : \A r \in 1..Len(source[k].refs) :
        LET n == source[k].refs[r]
        IN  n.kind = "local" =>
              \A d \in Lines : insts[d].label = insts[k].refs[r] <=> Means(k, n, d)

\* A reference to a local label names, once rewritten, the definition of that
\* label in its own scope and no other label of the program: passes 1 and 2
\* count the same scopes although they look at different labels.
LocalReferencesResolve == pc = "done" /\ Unprefixed => ScopedReferences

AnonymousLines(a, b) == {d \in a..b : source[d].label = AnonymousDef}

\* @F names the nearest @@ below its line and @B the nearest one above it, the
\* line's own label left out, and no other label of the program.
AnonymousReferencesResolve ==
    pc = "done" /\ Unprefixed =>
        \A k \in Lines : \A r \in 1..Len(source[k].refs) :
            /\ source[k].refs[r] = Forward =>
                 \E d \in AnonymousLines(k + 1, Len(source)) :
                    /\ \A e \in Lines : insts[e].label = insts[k].refs[r] <=> e = d
                    /\ AnonymousLines(k + 1, d - 1) = {}
            /\ source[k].refs[r] = Backward =>
                 \E d \in AnonymousLines(1, k - 1) :
                    /\ \A e \in Lines : insts[e].label = insts[k].refs[r] <=> e = d
                    /\ AnonymousLines(d + 1, k - 1) = {}

\* Two labels get the same name only if they were written with the same one,
\* and that is no local or anonymous one: the names that
\* canonicalize_symbol_labels makes never meet.
DefinitionsStayDistinct ==
    pc = "done" /\ Unprefixed =>
        \A d, e \in Lines :
            /\ d # e /\ source[d].label # NoLabel
            /\ insts[d].label = insts[e].label
            => source[d].label = source[e].label /\ source[d].label.kind \notin {"local", "@@"}

\* The local names a program uses, each with its scope, in labels and operands.
LocalUses ==
    {<<Scope(k), source[k].label.base>> :
            k \in {k \in Lines : source[k].label.kind = "local"}}
    \cup UNION {{<<Scope(k), source[k].refs[r].base>> :
                    r \in {r \in 1..Len(source[k].refs) :
                              source[k].refs[r].kind = "local"}} : k \in Lines}

Redefines ==
    \E d, e \in Lines : /\ d < e /\ source[d].label.kind = "local"
                        /\ Means(d, source[d].label, e)

DanglingForward ==
    \E k \in Lines : /\ Forward \in {source[k].refs[r] : r \in 1..Len(source[k].refs)}
                     /\ AnonymousLines(k + 1, Len(source)) = {}

DanglingBackward ==
    \E k \in Lines : /\ Backward \in {source[k].refs[r] : r \in 1..Len(source[k].refs)}
                     /\ AnonymousLines(1, k - 1) = {}

Cause(e) ==
    CASE e = "aliases"   -> Cardinality(LocalUses) > MAX_SYMBOLS
      [] e = "long"      -> \E u \in LocalUses : ~ Fits(u[1], u[2])
      [] e = "anonymous" -> Cardinality(AnonymousLines(1, Len(source))) > MAX_SYMBOLS
      [] e = "redefined" -> Redefines
      [] e = "forward"   -> DanglingForward
      [] e = "backward"  -> DanglingBackward

\* A program is refused only for a fault that is in it, the one reported, and
\* is accepted only when it has none of them.
RejectsExactly ==
    Unprefixed =>
        /\ pc = "failed" => Cause(error)
        /\ pc = "done" => \A e \in Causes \ {"none"} : ~ Cause(e)
=============================================================================
