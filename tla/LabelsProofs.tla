---------------------------- MODULE LabelsProofs ----------------------------
(***************************************************************************)
(* What canonicalize_symbol_labels does to a program, for every program,   *)
(* every limit on the length of a name and every capacity.                 *)
(***************************************************************************)
EXTENDS Labels, TLAPS, FiniteSetTheorems, WellFoundedInduction

-----------------------------------------------------------------------------
(* Least and greatest elements.                                            *)

LEMMA LeastExists ==
    ASSUME NEW S \in SUBSET Nat, S # {}
    PROVE  \E m \in S : \A y \in S : m <= y
  <1>1. PICK m \in S : \A y \in S : ~(<<y, m>> \in OpToRel(<, Nat))
    BY NatLessThanWellFounded, WFMin
  <1>2. \A y \in S : ~(y < m)
    BY <1>1 DEF OpToRel
  <1> QED BY <1>2

LEMMA GreatestExists ==
    ASSUME NEW S \in SUBSET Nat, S # {}, NEW n \in Nat, \A y \in S : y <= n
    PROVE  \E m \in S : \A y \in S : y <= m
  <1> DEFINE T == {n - y : y \in S}
  <1>1. T \in SUBSET Nat /\ T # {}
    <2>1. \A y \in S : n - y \in Nat
      OBVIOUS
    <2>2. PICK y \in S : TRUE
      OBVIOUS
    <2>3. n - y \in T
      BY <2>2
    <2> HIDE DEF T
    <2>4. \A t \in T : \E z \in S : t = n - z
      BY DEF T
    <2>5. \A t \in T : t \in Nat
      BY <2>1, <2>4
    <2> QED BY <2>3, <2>5
  <1> HIDE DEF T
  <1>2. PICK t \in T : \A u \in T : t <= u
    BY <1>1, LeastExists
  <1>3. PICK m \in S : t = n - m
    BY <1>2 DEF T
  <1>4. \A y \in S : n - m <= n - y
    BY <1>2, <1>3 DEF T
  <1> QED BY <1>4

LEMMA MinIsLeast ==
    ASSUME NEW S \in SUBSET Nat, S # {}
    PROVE  Min(S) \in S /\ \A y \in S : Min(S) <= y
  BY LeastExists DEF Min

LEMMA MaxIsGreatest ==
    ASSUME NEW S \in SUBSET Nat, S # {}, NEW n \in Nat, \A y \in S : y <= n
    PROVE  Max(S) \in S /\ \A y \in S : y <= Max(S)
  <1>1. \E m \in S : \A y \in S : m >= y
    BY GreatestExists
  <1> QED BY <1>1 DEF Max

-----------------------------------------------------------------------------
(* Scopes.                                                                 *)

LEMMA ScopeStart == Scope(0) = 0
  <1>1. {j \in 1 .. 0 : NonLocal(source[j])} = {}
    OBVIOUS
  <1> QED BY <1>1, FS_EmptySet DEF Scope

LEMMA ScopeNat ==
    ASSUME NEW k \in Nat
    PROVE  /\ Scope(k) \in Nat
           /\ IsFiniteSet({j \in 1 .. k : NonLocal(source[j])})
  <1> DEFINE S == {j \in 1 .. k : NonLocal(source[j])}
  <1>1. IsFiniteSet(1 .. k)
    BY FS_Interval
  <1>2. S \in SUBSET (1 .. k)
    OBVIOUS
  <1> HIDE DEF S
  <1>3. IsFiniteSet(S)
    BY <1>1, <1>2, FS_Subset
  <1>4. Cardinality(S) \in Nat
    BY <1>3, FS_CardinalityType
  <1> QED BY <1>3, <1>4 DEF S, Scope

(* A line opens a scope, or is in the scope of the line before it.         *)
LEMMA ScopeStep ==
    ASSUME NEW k \in Nat \ {0}
    PROVE  Scope(k) = IF NonLocal(source[k]) THEN Scope(k - 1) + 1 ELSE Scope(k - 1)
  <1> DEFINE S == {j \in 1 .. k : NonLocal(source[j])}
             T == {j \in 1 .. (k - 1) : NonLocal(source[j])}
  <1>1. IsFiniteSet(T)
    BY ScopeNat
  <1>2. CASE NonLocal(source[k])
    <2>1. S = T \cup {k}
      BY <1>2
    <2>2. k \notin T
      OBVIOUS
    <2> HIDE DEF S, T
    <2>3. Cardinality(T \cup {k}) = Cardinality(T) + 1
      BY <1>1, <2>2, FS_AddElement
    <2> QED BY <1>2, <2>1, <2>3 DEF S, T, Scope
  <1>3. CASE ~NonLocal(source[k])
    <2>1. S = T
      BY <1>3
    <2> QED BY <1>3, <2>1 DEF Scope
  <1> QED BY <1>2, <1>3

-----------------------------------------------------------------------------
(* The inductive invariant.                                                *)

BaseNames   == Bases \cup {""}
AliasRecord == [scope_id : Nat, local_name : BaseNames, scoped_name : Names]
AnonRecord  == [instruction_index : Nat, scoped_name : Names]

Typed ==
    /\ source \in Seq(Insts) /\ insts \in Seq(Insts) /\ Len(insts) = Len(source)
    /\ pc \in {"definitions", "references", "done", "failed"}
    /\ i \in Nat \ {0} /\ op \in Nat /\ scope_id \in Nat
    /\ local_aliases \in Seq(AliasRecord) /\ Len(local_aliases) <= MAX_SYMBOLS
    /\ anon_defs \in Seq(AnonRecord) /\ Len(anon_defs) <= MAX_SYMBOLS

(* Pass 1 has seen the label of line d.                                    *)
Seen(d) == pc = "definitions" => d < i

(* Pass 2 has seen operand r of line k.                                    *)
Read(k, r) == pc = "done" \/ (pc = "references" /\ (k < i \/ (k = i /\ r < op)))

LocalLabel(d) == source[d].label.kind = "local"

(* An alias of the name b in scope s.                                      *)
Aliased(s, b) == \E m \in DOMAIN local_aliases :
                    local_aliases[m].scope_id = s /\ local_aliases[m].local_name = b

(* Both passes are in the scope that the program as written says; the loop *)
(* of pass 2 stays on a line until its operands are read.                  *)
ScopeInv ==
    /\ i <= Len(source) + 1
    /\ pc = "definitions" => scope_id = Scope(i - 1)
    /\ pc = "references" => scope_id = IF op = 0 THEN Scope(i - 1) ELSE Scope(i)
    /\ pc = "references" /\ op > 0 => i <= Len(source)
    /\ pc = "done" => i > Len(source)

(* The labels: those that pass 1 has seen have their final names.          *)
LabelInv ==
    \A d \in Lines :
        /\ insts[d].type = source[d].type
        /\ ~Seen(d) \/ source[d].label.kind \notin {"local", "@@"} =>
              insts[d].label = source[d].label
        /\ Seen(d) /\ LocalLabel(d) =>
              insts[d].label = Scoped(Scope(d), source[d].label.base)
        /\ Seen(d) /\ source[d].label.kind = "@@" =>
              \E m \in DOMAIN anon_defs :
                  /\ anon_defs[m].instruction_index = d
                  /\ insts[d].label = Anonymous(m - 1)

(* local_aliases has an entry for every local name met so far, once, and   *)
(* for no other; in pass 1 the names met are those of definitions, and no  *)
(* scope defines one twice.                                                *)
AliasInv ==
    /\ \A m \in DOMAIN local_aliases :
          LET a == local_aliases[m]
          IN  /\ a.scoped_name = Scoped(a.scope_id, a.local_name)
              /\ Fits(a.scope_id, a.local_name)
              /\ <<a.scope_id, a.local_name>> \in LocalUses
              /\ pc = "definitions" =>
                    \E d \in Lines : /\ d < i /\ source[d].label = Local(a.local_name)
                                     /\ Scope(d) = a.scope_id
    /\ \A m, n \in DOMAIN local_aliases :
          /\ local_aliases[m].scope_id = local_aliases[n].scope_id
          /\ local_aliases[m].local_name = local_aliases[n].local_name
          => m = n
    /\ \A d \in Lines : Seen(d) /\ LocalLabel(d) => Aliased(Scope(d), source[d].label.base)
    /\ \A d, e \in Lines :
          /\ Seen(d) /\ Seen(e) /\ LocalLabel(d)
          /\ source[d].label = source[e].label /\ Scope(d) = Scope(e)
          => d = e

(* anon_defs lists the lines of the anonymous labels from above.           *)
AnonInv ==
    /\ \A m \in DOMAIN anon_defs :
          LET d == anon_defs[m].instruction_index
          IN  /\ anon_defs[m].scoped_name = Anonymous(m - 1)
              /\ d \in Lines /\ Seen(d) /\ source[d].label = AnonymousDef
    /\ \A m, n \in DOMAIN anon_defs :
          m < n => anon_defs[m].instruction_index < anon_defs[n].instruction_index

(* What the anonymous definition m is for a reference on line k.           *)
NearestBelow(k, m) ==
    /\ anon_defs[m].instruction_index > k
    /\ \A n \in DOMAIN anon_defs : anon_defs[n].instruction_index > k => m <= n
NearestAbove(k, m) ==
    /\ anon_defs[m].instruction_index < k
    /\ \A n \in DOMAIN anon_defs : anon_defs[n].instruction_index < k => n <= m

(* Operand r of line k has been rewritten.                                 *)
Rewritten(k, r) ==
    LET n == source[k].refs[r]
    IN  /\ n.kind = "local" => /\ insts[k].refs[r] = Scoped(Scope(k), n.base)
                               /\ Aliased(Scope(k), n.base)
        /\ n = Forward => \E m \in DOMAIN anon_defs :
                            insts[k].refs[r] = Anonymous(m - 1) /\ NearestBelow(k, m)
        /\ n = Backward => \E m \in DOMAIN anon_defs :
                            insts[k].refs[r] = Anonymous(m - 1) /\ NearestAbove(k, m)

RefInv ==
    \A k \in Lines :
        /\ Len(insts[k].refs) = Len(source[k].refs)
        /\ \A r \in 1 .. Len(source[k].refs) :
              IF Read(k, r) THEN Rewritten(k, r) ELSE insts[k].refs[r] = source[k].refs[r]

FailInv == pc = "failed" => error \in Causes \ {"none"} /\ Cause(error)

Progress == ScopeInv /\ LabelInv /\ AliasInv /\ AnonInv /\ RefInv

IInv == Typed /\ (Unprefixed => FailInv /\ (pc # "failed" => Progress))

-----------------------------------------------------------------------------
(* Names and lines.                                                        *)

LEMMA NameShape ==
    ASSUME NEW n \in Names
    PROVE  /\ n.kind = "local" => n = Local(n.base)
           /\ n.kind = "none" <=> n = NoLabel
           /\ n.kind = "@@" <=> n = AnonymousDef
           /\ n.base \in BaseNames
  <1>1. /\ n = [kind |-> n.kind, base |-> n.base, number |-> n.number]
        /\ n.base \in BaseNames
    BY DEF Names, BaseNames
  <1>2. n.kind \in {"none", "@@", "@B", "@F"} => n = NameOf(n.kind, "", 0)
    BY DEF Names
  <1>3. n.kind \in {"global", "local"} => n.number = 0
    BY DEF Names
  <1>4. n.kind = "local" => n = Local(n.base)
    BY <1>1, <1>3 DEF Local, NameOf
  <1>5. n.kind = "none" <=> n = NoLabel
    <2>1. n.kind = "none" => n = NoLabel
      <3>1. n.kind = "none" => n = NameOf("none", "", 0)
        BY <1>2
      <3> QED BY <3>1 DEF NoLabel
    <2>2. NoLabel.kind = "none"
      BY DEF NoLabel, NameOf
    <2> QED BY <2>1, <2>2
  <1>6. n.kind = "@@" <=> n = AnonymousDef
    <2>1. n.kind = "@@" => n = AnonymousDef
      <3>1. n.kind = "@@" => n = NameOf("@@", "", 0)
        BY <1>2
      <3> QED BY <3>1 DEF AnonymousDef
    <2>2. AnonymousDef.kind = "@@"
      BY DEF AnonymousDef, NameOf
    <2> QED BY <2>1, <2>2
  <1> QED BY <1>1, <1>4, <1>5, <1>6

LEMMA NamesMade ==
    ASSUME NEW s, NEW b, NEW m, NEW t, NEW c, NEW n
    PROVE  /\ Scoped(s, b).kind = "__loc_" /\ Anonymous(m).kind = "__anon_"
           /\ Scoped(s, b) = Scoped(t, c) <=> s = t /\ b = c
           /\ Anonymous(m) = Anonymous(n) <=> m = n
           /\ Scoped(s, b) # Anonymous(m)
  BY DEF Scoped, Anonymous, NameOf

LEMMA MadeTyped ==
    ASSUME NEW s \in Nat
    PROVE  Anonymous(s) \in Names /\ \A b \in BaseNames : Scoped(s, b) \in Names
  BY DEF Scoped, Anonymous, NameOf, Names, Kinds, BaseNames

LEMMA LineTyped ==
    ASSUME Typed, NEW d \in Lines
    PROVE  /\ source[d] \in Insts /\ insts[d] \in Insts /\ d \in Nat \ {0} /\ d <= Len(source)
           /\ source[d].label \in Names /\ source[d].refs \in Seq(Names)
           /\ insts[d].label \in Names /\ insts[d].refs \in Seq(Names)
           /\ Scope(d) \in Nat
  <1>1. source[d] \in Insts /\ insts[d] \in Insts /\ d \in Nat \ {0} /\ d <= Len(source)
    BY DEF Typed, Lines
  <1>2. Scope(d) \in Nat
    BY <1>1, ScopeNat
  <1> QED BY <1>1, <1>2 DEF Insts

LEMMA OperandTyped ==
    ASSUME Typed, NEW k \in Lines, NEW r \in 1 .. Len(source[k].refs)
    PROVE  source[k].refs[r] \in Names
  BY LineTyped

-----------------------------------------------------------------------------
(* What the invariant says of a finished rewriting.                        *)

(* Where the final name of a label comes from.                             *)
LEMMA FinalLabel ==
    ASSUME Typed, Progress, pc # "definitions", Unprefixed, NEW d \in Lines
    PROVE  /\ insts[d].label.kind = "__loc_" <=> LocalLabel(d)
           /\ insts[d].label.kind = "__anon_" <=> source[d].label = AnonymousDef
           /\ LocalLabel(d) => insts[d].label = Scoped(Scope(d), source[d].label.base)
           /\ source[d].label = AnonymousDef =>
                 \E m \in DOMAIN anon_defs :
                     /\ anon_defs[m].instruction_index = d
                     /\ insts[d].label = Anonymous(m - 1)
           /\ ~LocalLabel(d) /\ source[d].label # AnonymousDef =>
                 insts[d].label = source[d].label
  <1>1. Seen(d)
    BY DEF Seen
  <1>2. source[d].label \in Names /\ (source[d].label.kind = "@@" <=> source[d].label = AnonymousDef)
    BY LineTyped, NameShape
  <1>3. source[d].label.kind \notin {"__loc_", "__anon_"}
    BY DEF Unprefixed, Prefixed
  <1>4. /\ LocalLabel(d) => insts[d].label = Scoped(Scope(d), source[d].label.base)
        /\ source[d].label = AnonymousDef =>
                 \E m \in DOMAIN anon_defs :
                     /\ anon_defs[m].instruction_index = d
                     /\ insts[d].label = Anonymous(m - 1)
        /\ ~LocalLabel(d) /\ source[d].label # AnonymousDef =>
                 insts[d].label = source[d].label
    BY <1>1, <1>2 DEF Progress, LabelInv, LocalLabel
  <1>5. CASE LocalLabel(d)
    BY <1>2, <1>4, <1>5, NamesMade DEF LocalLabel
  <1>6. CASE source[d].label = AnonymousDef
    BY <1>2, <1>4, <1>6, NamesMade DEF LocalLabel
  <1>7. CASE ~LocalLabel(d) /\ source[d].label # AnonymousDef
    BY <1>3, <1>4, <1>7
  <1> QED BY <1>5, <1>6, <1>7

LEMMA DoneLocal ==
    ASSUME Typed, Progress, pc = "done", Unprefixed
    PROVE  ScopedReferences
  <1> SUFFICES ASSUME NEW k \in Lines, NEW r \in 1 .. Len(source[k].refs),
                      source[k].refs[r].kind = "local", NEW d \in Lines
               PROVE  insts[d].label = insts[k].refs[r] <=> Means(k, source[k].refs[r], d)
    BY DEF ScopedReferences
  <1> DEFINE n == source[k].refs[r]
  <1>1. insts[k].refs[r] = Scoped(Scope(k), n.base)
    BY DEF Progress, RefInv, Read, Rewritten
  <1>2. n = Local(n.base)
    BY OperandTyped, NameShape
  <1>3. LocalLabel(d) => source[d].label = Local(source[d].label.base)
    BY LineTyped, NameShape DEF LocalLabel
  <1>4. \A b, c : Local(b) = Local(c) <=> b = c
    BY DEF Local, NameOf
  <1>5. source[d].label = n => LocalLabel(d)
    BY DEF LocalLabel
  <1>6. CASE LocalLabel(d)
    <2>1. insts[d].label = Scoped(Scope(d), source[d].label.base)
      BY <1>6, FinalLabel
    <2>2. insts[d].label = insts[k].refs[r]
             <=> Scope(d) = Scope(k) /\ source[d].label.base = n.base
      BY <1>1, <2>1, NamesMade
    <2>3. source[d].label = n <=> source[d].label.base = n.base
      BY <1>2, <1>3, <1>4, <1>6
    <2> QED BY <2>2, <2>3 DEF Means
  <1>7. CASE ~LocalLabel(d)
    <2>1. insts[d].label.kind # "__loc_"
      BY <1>7, FinalLabel
    <2>2. insts[d].label # insts[k].refs[r]
      BY <1>1, <2>1, NamesMade
    <2> QED BY <1>5, <1>7, <2>2 DEF Means
  <1> QED BY <1>6, <1>7

(* An anonymous label has one entry, and its name is the entry's.          *)
LEMMA AnonymousLabel ==
    ASSUME Typed, Progress, pc # "definitions", Unprefixed,
           NEW m \in DOMAIN anon_defs, NEW e \in Lines
    PROVE  insts[e].label = Anonymous(m - 1) <=> e = anon_defs[m].instruction_index
  <1>0. /\ \A n \in DOMAIN anon_defs : n \in Nat /\ anon_defs[n].instruction_index \in Nat
        /\ m \in Nat
    <2>1. \A n \in DOMAIN anon_defs : n \in Nat /\ anon_defs[n] \in AnonRecord
      BY DEF Typed
    <2> QED BY <2>1 DEF AnonRecord
  <1>1. \A n \in DOMAIN anon_defs :
          anon_defs[n].instruction_index = anon_defs[m].instruction_index => n = m
    BY <1>0 DEF Progress, AnonInv
  <1>2. source[anon_defs[m].instruction_index].label = AnonymousDef
    BY DEF Progress, AnonInv
  <1>3. ASSUME source[e].label = AnonymousDef
        PROVE  insts[e].label = Anonymous(m - 1) <=> e = anon_defs[m].instruction_index
    <2>1. PICK n \in DOMAIN anon_defs :
            anon_defs[n].instruction_index = e /\ insts[e].label = Anonymous(n - 1)
      BY <1>3, FinalLabel
    <2>2. insts[e].label = Anonymous(m - 1) <=> n - 1 = m - 1
      BY <2>1, NamesMade
    <2>3. n - 1 = m - 1 <=> n = m
      BY <1>0
    <2> QED BY <1>1, <2>1, <2>2, <2>3
  <1>4. ASSUME source[e].label # AnonymousDef
        PROVE  insts[e].label # Anonymous(m - 1)
    BY <1>4, FinalLabel, NamesMade
  <1> QED BY <1>2, <1>3, <1>4

(* The lines listed are in the order of the list.                          *)
LEMMA AnonymousOrder ==
    ASSUME Typed, Progress, pc # "definitions", Unprefixed
    PROVE  /\ \A m \in DOMAIN anon_defs :
                 /\ m \in Nat /\ anon_defs[m].instruction_index \in Lines
                 /\ source[anon_defs[m].instruction_index].label = AnonymousDef
           /\ \A m, n \in DOMAIN anon_defs :
                 m <= n => anon_defs[m].instruction_index <= anon_defs[n].instruction_index
           /\ \A e \in Lines : source[e].label = AnonymousDef =>
                 \E n \in DOMAIN anon_defs : anon_defs[n].instruction_index = e
  <1>1. \A m \in DOMAIN anon_defs :
                 /\ m \in Nat /\ anon_defs[m].instruction_index \in Lines
                 /\ source[anon_defs[m].instruction_index].label = AnonymousDef
    BY DEF Typed, Progress, AnonInv
  <1>2. \A m \in DOMAIN anon_defs : anon_defs[m].instruction_index \in Nat
    BY <1>1, LineTyped
  <1>3. \A m, n \in DOMAIN anon_defs :
                 m <= n => anon_defs[m].instruction_index <= anon_defs[n].instruction_index
    <2>1. \A m, n \in DOMAIN anon_defs :
             m < n => anon_defs[m].instruction_index < anon_defs[n].instruction_index
      BY DEF Progress, AnonInv
    <2> QED BY <1>1, <1>2, <2>1
  <1>4. \A e \in Lines : source[e].label = AnonymousDef =>
                 \E n \in DOMAIN anon_defs : anon_defs[n].instruction_index = e
    BY FinalLabel
  <1> QED BY <1>1, <1>3, <1>4

LEMMA DoneAnonymous ==
    ASSUME Typed, Progress, pc = "done", Unprefixed
    PROVE  AnonymousReferencesResolve
  <1>1. ASSUME NEW k \in Lines, NEW r \in 1 .. Len(source[k].refs), source[k].refs[r] = Forward
        PROVE  \E d \in AnonymousLines(k + 1, Len(source)) :
                  /\ \A e \in Lines : insts[e].label = insts[k].refs[r] <=> e = d
                  /\ AnonymousLines(k + 1, d - 1) = {}
    <2>1. PICK m \in DOMAIN anon_defs :
            insts[k].refs[r] = Anonymous(m - 1) /\ NearestBelow(k, m)
      BY <1>1 DEF Progress, RefInv, Read, Rewritten
    <2> DEFINE d == anon_defs[m].instruction_index
    <2>2. /\ k \in Nat /\ d \in Nat /\ d > k /\ d <= Len(source) /\ source[d].label = AnonymousDef
          /\ Len(source) \in Nat
      BY <2>1, LineTyped, AnonymousOrder DEF NearestBelow, Typed
    <2>3. \A e \in Lines : insts[e].label = insts[k].refs[r] <=> e = d
      BY <2>1, AnonymousLabel
    <2>4. ASSUME NEW e \in AnonymousLines(k + 1, d - 1) PROVE FALSE
      <3>1. e \in Nat /\ e > k /\ e < d /\ e \in Lines /\ source[e].label = AnonymousDef
        BY <2>2 DEF AnonymousLines, Lines
      <3>2. PICK n \in DOMAIN anon_defs : anon_defs[n].instruction_index = e
        BY <3>1, AnonymousOrder
      <3>3. m <= n
        BY <2>1, <3>1, <3>2 DEF NearestBelow
      <3>4. d <= e
        BY <3>2, <3>3, AnonymousOrder
      <3> QED BY <2>2, <3>1, <3>4
    <2>5. d \in AnonymousLines(k + 1, Len(source))
      BY <2>2 DEF AnonymousLines
    <2> QED BY <2>3, <2>4, <2>5
  <1>2. ASSUME NEW k \in Lines, NEW r \in 1 .. Len(source[k].refs), source[k].refs[r] = Backward
        PROVE  \E d \in AnonymousLines(1, k - 1) :
                  /\ \A e \in Lines : insts[e].label = insts[k].refs[r] <=> e = d
                  /\ AnonymousLines(d + 1, k - 1) = {}
    <2>1. PICK m \in DOMAIN anon_defs :
            insts[k].refs[r] = Anonymous(m - 1) /\ NearestAbove(k, m)
      BY <1>2 DEF Progress, RefInv, Read, Rewritten
    <2> DEFINE d == anon_defs[m].instruction_index
    <2>2. /\ k \in Nat /\ k <= Len(source) /\ d \in Nat \ {0} /\ d < k
          /\ source[d].label = AnonymousDef /\ Len(source) \in Nat
      BY <2>1, LineTyped, AnonymousOrder DEF NearestAbove, Typed
    <2>3. \A e \in Lines : insts[e].label = insts[k].refs[r] <=> e = d
      BY <2>1, AnonymousLabel
    <2>4. ASSUME NEW e \in AnonymousLines(d + 1, k - 1) PROVE FALSE
      <3>1. e \in Nat /\ e > d /\ e < k /\ e \in Lines /\ source[e].label = AnonymousDef
        BY <2>2 DEF AnonymousLines, Lines
      <3>2. PICK n \in DOMAIN anon_defs : anon_defs[n].instruction_index = e
        BY <3>1, AnonymousOrder
      <3>3. n <= m
        BY <2>1, <3>1, <3>2 DEF NearestAbove
      <3>4. e <= d
        BY <3>2, <3>3, AnonymousOrder
      <3> QED BY <2>2, <3>1, <3>4
    <2>5. d \in AnonymousLines(1, k - 1)
      BY <2>2 DEF AnonymousLines
    <2> QED BY <2>3, <2>4, <2>5
  <1> QED BY <1>1, <1>2 DEF AnonymousReferencesResolve

LEMMA DoneDistinct ==
    ASSUME Typed, Progress, pc = "done", Unprefixed
    PROVE  DefinitionsStayDistinct
  <1> SUFFICES ASSUME NEW d \in Lines, NEW e \in Lines, d # e,
                      insts[d].label = insts[e].label
               PROVE  /\ source[d].label = source[e].label
                      /\ source[d].label.kind \notin {"local", "@@"}
    BY DEF DefinitionsStayDistinct
  <1>1. CASE LocalLabel(d)
    <2>1. LocalLabel(e)
      BY <1>1, FinalLabel
    <2>2. Scope(d) = Scope(e) /\ source[d].label.base = source[e].label.base
      BY <1>1, <2>1, FinalLabel, NamesMade
    <2>3. source[d].label = source[e].label
      <3>1. source[d].label \in Names /\ source[e].label \in Names
        BY LineTyped
      <3>2. /\ source[d].label = Local(source[d].label.base)
            /\ source[e].label = Local(source[e].label.base)
        BY <1>1, <2>1, <3>1, NameShape DEF LocalLabel
      <3> QED BY <2>2, <3>2
    <2>4. d = e
      BY <1>1, <2>2, <2>3 DEF Progress, AliasInv, Seen
    <2> QED BY <2>4
  <1>2. CASE source[d].label = AnonymousDef
    <2>1. PICK m \in DOMAIN anon_defs :
            anon_defs[m].instruction_index = d /\ insts[d].label = Anonymous(m - 1)
      BY <1>2, FinalLabel
    <2>2. e = d
      BY <2>1, AnonymousLabel
    <2> QED BY <2>2
  <1>3. CASE ~LocalLabel(d) /\ source[d].label # AnonymousDef
    <2>1. ~LocalLabel(e) /\ source[e].label # AnonymousDef
      BY <1>3, FinalLabel
    <2>2. source[d].label = source[e].label
      BY <1>3, <2>1, FinalLabel
    <2> QED BY <1>3, <2>2, LineTyped, NameShape DEF LocalLabel
  <1> QED BY <1>1, <1>2, <1>3

-----------------------------------------------------------------------------
(* The faults of a program.                                                *)

LEMMA LabelUse ==
    ASSUME NEW k \in Lines, LocalLabel(k)
    PROVE  <<Scope(k), source[k].label.base>> \in LocalUses
  BY DEF LocalUses, LocalLabel

LEMMA OperandUse ==
    ASSUME NEW k \in Lines, NEW r \in 1 .. Len(source[k].refs), source[k].refs[r].kind = "local"
    PROVE  <<Scope(k), source[k].refs[r].base>> \in LocalUses
  <1>1. <<Scope(k), source[k].refs[r].base>> \in
          {<<Scope(k), source[k].refs[q].base>> :
              q \in {q \in 1 .. Len(source[k].refs) : source[k].refs[q].kind = "local"}}
    OBVIOUS
  <1> QED BY <1>1 DEF LocalUses

LEMMA UsesAre ==
    ASSUME NEW u \in LocalUses
    PROVE  \/ \E k \in Lines : LocalLabel(k) /\ u = <<Scope(k), source[k].label.base>>
           \/ \E k \in Lines : \E r \in 1 .. Len(source[k].refs) :
                 source[k].refs[r].kind = "local" /\ u = <<Scope(k), source[k].refs[r].base>>
  BY DEF LocalUses, LocalLabel

LEMMA IntervalCount ==
    ASSUME NEW n \in Nat
    PROVE  IsFiniteSet(1 .. n) /\ Cardinality(1 .. n) = n
  <1>1. IsFiniteSet(1 .. n) /\ Cardinality(1 .. n) = IF 1 > n THEN 0 ELSE n - 1 + 1
    BY FS_Interval
  <1> QED BY <1>1

(* Counting the elements of a set along a function on 1 .. n.              *)
LEMMA CoverBound ==
    ASSUME NEW n \in Nat, NEW f, DOMAIN f = 1 .. n, f \in [1 .. n -> {f[m] : m \in 1 .. n}],
           NEW S, \A x \in S : \E m \in 1 .. n : f[m] = x
    PROVE  IsFiniteSet(S) /\ Cardinality(S) \in Nat /\ Cardinality(S) <= n
  <1> DEFINE T == {f[m] : m \in 1 .. n}
  <1>1. f \in Surjection(1 .. n, T)
    BY DEF Surjection
  <1>2. IsFiniteSet(1 .. n) /\ Cardinality(1 .. n) = n
    BY IntervalCount
  <1>3. S \in SUBSET T
    OBVIOUS
  <1> HIDE DEF T
  <1>4. IsFiniteSet(T) /\ Cardinality(T) <= n
    BY <1>1, <1>2, FS_Surjection
  <1>5. IsFiniteSet(S) /\ Cardinality(S) <= Cardinality(T)
    BY <1>3, <1>4, FS_Subset
  <1>6. Cardinality(S) \in Nat /\ Cardinality(T) \in Nat
    BY <1>4, <1>5, FS_CardinalityType
  <1> QED BY <1>4, <1>5, <1>6

LEMMA MissBound ==
    ASSUME NEW n \in Nat, NEW S, IsFiniteSet(S), NEW f \in [1 .. n -> S],
           \A a, b \in 1 .. n : f[a] = f[b] => a = b,
           NEW x \in S, \A m \in 1 .. n : f[m] # x
    PROVE  Cardinality(S) \in Nat /\ Cardinality(S) > n
  <1> DEFINE T == S \ {x}
  <1>1. f \in Injection(1 .. n, T)
    BY DEF Injection, IsInjective
  <1>2. Cardinality(1 .. n) = n
    BY IntervalCount
  <1>3. IsFiniteSet(T) /\ Cardinality(T) = Cardinality(S) - 1
    BY FS_RemoveElement
  <1> HIDE DEF T
  <1>4. n <= Cardinality(T)
    BY <1>1, <1>2, <1>3, FS_Injection
  <1>5. Cardinality(S) \in Nat
    BY FS_CardinalityType
  <1> QED BY <1>3, <1>4, <1>5

LEMMA FiniteLines == Typed => IsFiniteSet(Lines)
  <1>1. Typed => Len(source) \in Nat
    BY DEF Typed
  <1> QED BY <1>1, FS_Interval DEF Lines

(* A program uses finitely many local names.                               *)
LEMMA UsesFinite ==
    ASSUME Typed
    PROVE  IsFiniteSet(LocalUses)
  <1> DEFINE D == {k \in Lines : source[k].label.kind = "local"}
             L == {<<Scope(k), source[k].label.base>> : k \in D}
             R(k) == {r \in 1 .. Len(source[k].refs) : source[k].refs[r].kind = "local"}
             U(k) == {<<Scope(k), source[k].refs[r].base>> : r \in R(k)}
  <1>1. IsFiniteSet(L)
    <2>1. IsFiniteSet(D)
      <3>1. D \in SUBSET Lines
        OBVIOUS
      <3> HIDE DEF D
      <3> QED BY <3>1, FiniteLines, FS_Subset
    <2> DEFINE f == [k \in D |-> <<Scope(k), source[k].label.base>>]
    <2>2. f \in Surjection(D, L)
      BY DEF Surjection
    <2> HIDE DEF f, D, L
    <2> QED BY <2>1, <2>2, FS_Surjection
  <1>2. ASSUME NEW k \in Lines PROVE IsFiniteSet(U(k))
    <2>1. Len(source[k].refs) \in Nat
      BY LineTyped
    <2>2. IsFiniteSet(R(k))
      <3>1. R(k) \in SUBSET (1 .. Len(source[k].refs))
        OBVIOUS
      <3>2. IsFiniteSet(1 .. Len(source[k].refs))
        BY <2>1, FS_Interval
      <3> HIDE DEF R
      <3> QED BY <3>1, <3>2, FS_Subset
    <2> DEFINE f == [r \in R(k) |-> <<Scope(k), source[k].refs[r].base>>]
    <2>3. f \in Surjection(R(k), U(k))
      BY DEF Surjection
    <2> HIDE DEF f, R, U
    <2> QED BY <2>2, <2>3, FS_Surjection
  <1>3. IsFiniteSet({U(k) : k \in Lines})
    <2> DEFINE f == [k \in Lines |-> U(k)]
               V == {U(k) : k \in Lines}
    <2>1. f \in Surjection(Lines, V)
      <3> HIDE DEF U
      <3> QED BY DEF Surjection
    <2> HIDE DEF f
    <2>2. IsFiniteSet(V)
      <3> HIDE DEF V
      <3> QED BY <2>1, FiniteLines, FS_Surjection
    <2> QED BY <2>2
  <1>4. IsFiniteSet(UNION {U(k) : k \in Lines})
    <2> DEFINE V == {U(k) : k \in Lines}
    <2>1. \A x \in V : IsFiniteSet(x)
      <3> HIDE DEF U
      <3> QED BY <1>2
    <2>2. IsFiniteSet(V)
      BY <1>3
    <2> HIDE DEF V
    <2>3. IsFiniteSet(UNION V)
      BY <2>1, <2>2, FS_UNION
    <2> QED BY <2>3 DEF V
  <1>5. LocalUses = L \cup UNION {U(k) : k \in Lines}
    BY DEF LocalUses
  <1> HIDE DEF L, U
  <1> QED BY <1>1, <1>4, <1>5, FS_Union

(* A program that was accepted has no fault.                               *)
LEMMA UsesAliased ==
    ASSUME Typed, Progress, pc = "done"
    PROVE  \A u \in LocalUses : \E m \in DOMAIN local_aliases :
             u = <<local_aliases[m].scope_id, local_aliases[m].local_name>>
  <1> SUFFICES ASSUME NEW u \in LocalUses
               PROVE  \E m \in DOMAIN local_aliases :
                        u = <<local_aliases[m].scope_id, local_aliases[m].local_name>>
    OBVIOUS
  <1>1. ASSUME NEW k \in Lines, LocalLabel(k)
        PROVE  Aliased(Scope(k), source[k].label.base)
    BY <1>1 DEF Progress, AliasInv, Seen
  <1>2. ASSUME NEW k \in Lines, NEW r \in 1 .. Len(source[k].refs),
               source[k].refs[r].kind = "local"
        PROVE  Aliased(Scope(k), source[k].refs[r].base)
    BY <1>2 DEF Progress, RefInv, Read, Rewritten
  <1>3. \E s, b : u = <<s, b>> /\ Aliased(s, b)
    BY <1>1, <1>2, UsesAre
  <1> QED BY <1>3 DEF Aliased

LEMMA DoneAccepts ==
    ASSUME Typed, Progress, pc = "done", Unprefixed, NEW e \in Causes \ {"none"}
    PROVE  ~Cause(e)
  <1>0. MAX_SYMBOLS \in Nat
    BY CapacityNat
  <1>1. CASE e = "aliases"
    <2> DEFINE n == Len(local_aliases)
               f == [m \in 1 .. n |-> <<local_aliases[m].scope_id, local_aliases[m].local_name>>]
    <2>1. n \in Nat /\ n <= MAX_SYMBOLS /\ DOMAIN local_aliases = 1 .. n
      BY DEF Typed
    <2>2. /\ DOMAIN f = 1 .. n
          /\ \A m \in 1 .. n : f[m] = <<local_aliases[m].scope_id, local_aliases[m].local_name>>
          /\ f \in [1 .. n -> {f[m] : m \in 1 .. n}]
      OBVIOUS
    <2>3. \A u \in LocalUses : \E m \in 1 .. n : f[m] = u
      BY <2>1, UsesAliased
    <2> HIDE DEF n, f
    <2>4. Cardinality(LocalUses) \in Nat /\ Cardinality(LocalUses) <= n
      BY <2>1, <2>2, <2>3, CoverBound
    <2>5. ~(Cardinality(LocalUses) > MAX_SYMBOLS)
      BY <1>0, <2>1, <2>4
    <2> QED BY <1>1, <2>5 DEF Cause
  <1>2. CASE e = "long"
    <2>1. \A m \in DOMAIN local_aliases :
            Fits(local_aliases[m].scope_id, local_aliases[m].local_name)
      BY DEF Progress, AliasInv
    <2>2. \A u \in LocalUses : Fits(u[1], u[2])
      BY <2>1, UsesAliased
    <2> QED BY <1>2, <2>2 DEF Cause
  <1>3. CASE e = "anonymous"
    <2> DEFINE n == Len(anon_defs)
               f == [m \in 1 .. n |-> anon_defs[m].instruction_index]
               A == AnonymousLines(1, Len(source))
    <2>1. n \in Nat /\ n <= MAX_SYMBOLS /\ DOMAIN anon_defs = 1 .. n
      BY DEF Typed
    <2>2. /\ DOMAIN f = 1 .. n
          /\ \A m \in 1 .. n : f[m] = anon_defs[m].instruction_index
          /\ f \in [1 .. n -> {f[m] : m \in 1 .. n}]
      OBVIOUS
    <2>3. \A d \in A : \E m \in 1 .. n : f[m] = d
      BY <2>1, AnonymousOrder DEF AnonymousLines, Lines
    <2> HIDE DEF n, f, A
    <2>4. Cardinality(A) \in Nat /\ Cardinality(A) <= n
      BY <2>1, <2>2, <2>3, CoverBound
    <2>5. ~(Cardinality(A) > MAX_SYMBOLS)
      BY <1>0, <2>1, <2>4
    <2> QED BY <1>3, <2>5 DEF Cause, A
  <1>4. CASE e = "redefined"
    <2> SUFFICES ASSUME NEW d \in Lines, NEW c \in Lines, d < c, LocalLabel(d),
                        Means(d, source[d].label, c)
                 PROVE  FALSE
      BY <1>4 DEF Cause, Redefines, LocalLabel
    <2>1. d = c
      BY DEF Means, Progress, AliasInv, Seen
    <2>2. d \in Nat
      BY LineTyped
    <2> QED BY <2>1, <2>2
  <1>5. CASE e = "forward"
    <2> SUFFICES ASSUME NEW k \in Lines, NEW r \in 1 .. Len(source[k].refs),
                        source[k].refs[r] = Forward, AnonymousLines(k + 1, Len(source)) = {}
                 PROVE  FALSE
      BY <1>5 DEF Cause, DanglingForward
    <2>1. AnonymousReferencesResolve
      BY DoneAnonymous
    <2> QED BY <2>1 DEF AnonymousReferencesResolve
  <1>6. CASE e = "backward"
    <2> SUFFICES ASSUME NEW k \in Lines, NEW r \in 1 .. Len(source[k].refs),
                        source[k].refs[r] = Backward, AnonymousLines(1, k - 1) = {}
                 PROVE  FALSE
      BY <1>6 DEF Cause, DanglingBackward
    <2>1. AnonymousReferencesResolve
      BY DoneAnonymous
    <2> QED BY <2>1 DEF AnonymousReferencesResolve
  <1> QED BY <1>1, <1>2, <1>3, <1>4, <1>5, <1>6 DEF Causes

LEMMA InvResult ==
    ASSUME IInv
    PROVE  /\ LocalReferencesResolve /\ AnonymousReferencesResolve
           /\ DefinitionsStayDistinct /\ RejectsExactly
  <1>1. CASE Unprefixed /\ pc = "done"
    <2>1. Typed /\ Progress
      BY <1>1 DEF IInv
    <2>2. /\ ScopedReferences /\ AnonymousReferencesResolve /\ DefinitionsStayDistinct
          /\ \A e \in Causes \ {"none"} : ~Cause(e)
      BY <1>1, <2>1, DoneLocal, DoneAnonymous, DoneDistinct, DoneAccepts
    <2> QED BY <1>1, <2>2 DEF LocalReferencesResolve, RejectsExactly
  <1>2. CASE ~(Unprefixed /\ pc = "done")
    <2>1. LocalReferencesResolve /\ AnonymousReferencesResolve /\ DefinitionsStayDistinct
      BY <1>2 DEF LocalReferencesResolve, AnonymousReferencesResolve, DefinitionsStayDistinct
    <2>2. RejectsExactly
      BY <1>2 DEF IInv, FailInv, RejectsExactly
    <2> QED BY <2>1, <2>2
  <1> QED BY <1>1, <1>2

-----------------------------------------------------------------------------
(* What a step writes.                                                     *)

LEMMA SourceFixed ==
    ASSUME UNCHANGED source
    PROVE  /\ Lines' = Lines /\ LocalUses' = LocalUses
           /\ \A k : Scope(k)' = Scope(k)
           /\ \A k : LocalLabel(k)' <=> LocalLabel(k)
           /\ Unprefixed' <=> Unprefixed
           /\ \A e : Cause(e)' <=> Cause(e)
  <1>1. \A k : Scope(k)' = Scope(k)
    BY DEF Scope, NonLocal
  <1>2. Lines' = Lines
    BY DEF Lines
  <1>3. LocalUses' = LocalUses
    BY <1>1, <1>2 DEF LocalUses
  <1>4. \A a, b : AnonymousLines(a, b)' = AnonymousLines(a, b)
    BY DEF AnonymousLines
  <1>5. /\ Redefines' <=> Redefines
        /\ DanglingForward' <=> DanglingForward
        /\ DanglingBackward' <=> DanglingBackward
    BY <1>1, <1>2, <1>4 DEF Redefines, Means, DanglingForward, DanglingBackward
  <1>6. \A e : Cause(e)' <=> Cause(e)
    BY <1>3, <1>4, <1>5 DEF Cause
  <1>7. /\ \A k : LocalLabel(k)' <=> LocalLabel(k)
        /\ Unprefixed' <=> Unprefixed
    BY <1>2 DEF LocalLabel, Unprefixed
  <1> QED BY <1>1, <1>2, <1>3, <1>6, <1>7

WithLabel(k, n)  == [insts EXCEPT ![k].label = n]
WithRef(k, r, n) == [insts EXCEPT ![k].refs[r] = n]

LEMMA LabelSet ==
    ASSUME Typed, NEW k \in Lines, NEW n \in Names,
           NEW J, J = WithLabel(k, n)
    PROVE  /\ J \in Seq(Insts) /\ Len(J) = Len(insts)
           /\ \A d \in Lines : d # k => J[d] = insts[d]
           /\ J[k].label = n /\ J[k].type = insts[k].type /\ J[k].refs = insts[k].refs
  <1>1. /\ insts \in Seq(Insts) /\ k \in 1 .. Len(insts) /\ insts[k] \in Insts
        /\ Lines = 1 .. Len(insts)
    BY DEF Typed, Lines
  <1>2. [insts[k] EXCEPT !.label = n] \in Insts
    BY <1>1 DEF Insts
  <1>3. J = [insts EXCEPT ![k] = [insts[k] EXCEPT !.label = n]]
    BY DEF WithLabel
  <1>4. J \in Seq(Insts) /\ Len(J) = Len(insts) /\ \A d \in Lines : d # k => J[d] = insts[d]
    BY <1>1, <1>2, <1>3
  <1>5. J[k] = [insts[k] EXCEPT !.label = n]
    BY <1>1, <1>3
  <1> QED BY <1>1, <1>4, <1>5 DEF Insts

LEMMA RefSet ==
    ASSUME Typed, NEW k \in Lines, NEW r \in 1 .. Len(insts[k].refs), NEW n \in Names,
           NEW J, J = WithRef(k, r, n)
    PROVE  /\ J \in Seq(Insts) /\ Len(J) = Len(insts)
           /\ \A d \in Lines : d # k => J[d] = insts[d]
           /\ J[k].label = insts[k].label /\ J[k].type = insts[k].type
           /\ Len(J[k].refs) = Len(insts[k].refs) /\ J[k].refs[r] = n
           /\ \A q \in 1 .. Len(insts[k].refs) : q # r => J[k].refs[q] = insts[k].refs[q]
  <1> DEFINE R == [insts[k].refs EXCEPT ![r] = n]
  <1>1. /\ insts \in Seq(Insts) /\ k \in 1 .. Len(insts) /\ insts[k] \in Insts
        /\ Lines = 1 .. Len(insts)
    BY DEF Typed, Lines
  <1>2. insts[k].refs \in Seq(Names)
    BY <1>1 DEF Insts
  <1>3. /\ R \in Seq(Names) /\ Len(R) = Len(insts[k].refs) /\ R[r] = n
        /\ \A q \in 1 .. Len(insts[k].refs) : q # r => R[q] = insts[k].refs[q]
    BY <1>2
  <1>4. J = [insts EXCEPT ![k] = [insts[k] EXCEPT !.refs = R]]
    BY DEF WithRef
  <1> HIDE DEF R
  <1>5. [insts[k] EXCEPT !.refs = R] \in Insts
    BY <1>1, <1>3 DEF Insts
  <1>6. J \in Seq(Insts) /\ Len(J) = Len(insts) /\ \A d \in Lines : d # k => J[d] = insts[d]
    BY <1>1, <1>4, <1>5
  <1>7. J[k] = [insts[k] EXCEPT !.refs = R]
    BY <1>1, <1>4
  <1>8. J[k].refs = R /\ J[k].label = insts[k].label /\ J[k].type = insts[k].type
    BY <1>1, <1>7 DEF Insts
  <1> QED BY <1>3, <1>6, <1>8

LEMMA SetLabel ==
    ASSUME Typed, NEW k \in Lines, NEW n \in Names, insts' = WithLabel(k, n)
    PROVE  /\ insts' \in Seq(Insts) /\ Len(insts') = Len(insts)
           /\ \A d \in Lines : d # k => insts'[d] = insts[d]
           /\ insts'[k].label = n /\ insts'[k].type = insts[k].type
           /\ insts'[k].refs = insts[k].refs
  <1>1. PICK J : J = insts'
    OBVIOUS
  <1>2. J = WithLabel(k, n)
    BY <1>1
  <1>3. /\ J \in Seq(Insts) /\ Len(J) = Len(insts)
        /\ \A d \in Lines : d # k => J[d] = insts[d]
        /\ J[k].label = n /\ J[k].type = insts[k].type
        /\ J[k].refs = insts[k].refs
    BY <1>2, LabelSet
  <1> QED BY <1>1, <1>3, Zenon

LEMMA SetRef ==
    ASSUME Typed, NEW k \in Lines, NEW r \in 1 .. Len(insts[k].refs), NEW n \in Names,
           insts' = WithRef(k, r, n)
    PROVE  /\ insts' \in Seq(Insts) /\ Len(insts') = Len(insts)
           /\ \A d \in Lines : d # k => insts'[d] = insts[d]
           /\ insts'[k].label = insts[k].label /\ insts'[k].type = insts[k].type
           /\ Len(insts'[k].refs) = Len(insts[k].refs) /\ insts'[k].refs[r] = n
           /\ \A q \in 1 .. Len(insts[k].refs) : q # r => insts'[k].refs[q] = insts[k].refs[q]
  <1>1. PICK J : J = insts'
    OBVIOUS
  <1>2. J = WithRef(k, r, n)
    BY <1>1
  <1>3. /\ J \in Seq(Insts) /\ Len(J) = Len(insts)
        /\ \A d \in Lines : d # k => J[d] = insts[d]
        /\ J[k].label = insts[k].label /\ J[k].type = insts[k].type
        /\ Len(J[k].refs) = Len(insts[k].refs) /\ J[k].refs[r] = n
        /\ \A q \in 1 .. Len(insts[k].refs) : q # r => J[k].refs[q] = insts[k].refs[q]
    BY <1>2, RefSet
  <1> QED BY <1>1, <1>3, Zenon

LEMMA Appended ==
    ASSUME NEW R, NEW s \in Seq(R), NEW x \in R
    PROVE  /\ Append(s, x) \in Seq(R) /\ Len(Append(s, x)) = Len(s) + 1
           /\ Append(s, x)[Len(s) + 1] = x
           /\ \A m \in 1 .. Len(s) : Append(s, x)[m] = s[m]
           /\ DOMAIN Append(s, x) = DOMAIN s \cup {Len(s) + 1}
           /\ DOMAIN s = 1 .. Len(s) /\ Len(s) \in Nat
  OBVIOUS

LEMMA ListTyped ==
    ASSUME Typed
    PROVE  /\ local_aliases \in Seq(AliasRecord) /\ Len(local_aliases) \in Nat
           /\ anon_defs \in Seq(AnonRecord) /\ Len(anon_defs) \in Nat
  BY DEF Typed

(* What the scan of local_aliases finds.                                   *)
LEMMA LookupFinds ==
    ASSUME Typed, NEW s, NEW b, HasAlias(s, b)
    PROVE  \E m \in DOMAIN local_aliases :
              /\ local_aliases[m].scope_id = s /\ local_aliases[m].local_name = b
              /\ lookup_local_alias(s, b) = local_aliases[m].scoped_name
  <1> DEFINE Match(m) == local_aliases[m].scope_id = s /\ local_aliases[m].local_name = b
             S == {m \in 1 .. Len(local_aliases) : Match(m)}
             First(m) == /\ local_aliases[m].scope_id = s
                         /\ local_aliases[m].local_name = b
                         /\ \A j \in 1 .. (m - 1) :
                               ~ (/\ local_aliases[j].scope_id = s
                                  /\ local_aliases[j].local_name = b)
  <1>1. Len(local_aliases) \in Nat /\ DOMAIN local_aliases = 1 .. Len(local_aliases)
    BY DEF Typed
  <1>2. S \in SUBSET Nat /\ S # {}
    BY <1>1 DEF HasAlias
  <1>3. PICK m \in S : \A y \in S : m <= y
    <2> HIDE DEF S
    <2> QED BY <1>2, LeastExists
  <1>4. \E k \in 1 .. Len(local_aliases) : First(k)
    BY <1>1, <1>3
  <1>5. PICK k \in 1 .. Len(local_aliases) :
          First(k) /\ lookup_local_alias(s, b) = local_aliases[k].scoped_name
    BY <1>4 DEF lookup_local_alias
  <1> QED BY <1>1, <1>5

(* Entries of the two lists.                                               *)
LEMMA EntryTyped ==
    ASSUME Typed
    PROVE  /\ \A m \in DOMAIN local_aliases :
                 /\ m \in Nat \ {0} /\ local_aliases[m].scope_id \in Nat
                 /\ local_aliases[m].local_name \in BaseNames
                 /\ local_aliases[m].scoped_name \in Names
           /\ \A m \in DOMAIN anon_defs :
                 /\ m \in Nat \ {0} /\ anon_defs[m].instruction_index \in Nat
                 /\ anon_defs[m].scoped_name \in Names
  <1>1. \A m \in DOMAIN local_aliases : m \in Nat \ {0} /\ local_aliases[m] \in AliasRecord
    BY DEF Typed
  <1>2. \A m \in DOMAIN anon_defs : m \in Nat \ {0} /\ anon_defs[m] \in AnonRecord
    BY DEF Typed
  <1> QED BY <1>1, <1>2 DEF AliasRecord, AnonRecord

(* A new alias keeps the list typed.                                       *)
LEMMA AliasTyped ==
    ASSUME Typed, NEW b \in BaseNames, CanCreate(b), CreateAlias(b)
    PROVE  /\ local_aliases' \in Seq(AliasRecord) /\ Len(local_aliases') <= MAX_SYMBOLS
           /\ Scoped(scope_id, b) \in Names
  <1>1. Scoped(scope_id, b) \in Names
    BY MadeTyped DEF Typed
  <1>2. Alias(scope_id, b) \in AliasRecord
    BY <1>1 DEF Alias, AliasRecord, Typed
  <1>3. local_aliases' = Append(local_aliases, Alias(scope_id, b))
    BY DEF CreateAlias
  <1>4. Len(local_aliases) < MAX_SYMBOLS /\ MAX_SYMBOLS \in Nat
    BY CapacityNat DEF CanCreate
  <1>5. /\ local_aliases' \in Seq(AliasRecord)
        /\ Len(local_aliases') = Len(local_aliases) + 1
    BY <1>2, <1>3, ListTyped, Appended, Zenon
  <1>6. Len(local_aliases) \in Nat
    BY ListTyped
  <1>7. Len(local_aliases') <= MAX_SYMBOLS
    BY <1>4, <1>5, <1>6
  <1> QED BY <1>1, <1>5, <1>7

LEMMA AtLine ==
    ASSUME Typed, i <= Len(insts)
    PROVE  i \in Lines /\ insts[i].label \in Names /\ insts[i].label.base \in BaseNames
  <1>1. i \in Lines
    BY DEF Typed, Lines
  <1> QED BY <1>1, LineTyped, NameShape

LEMMA AtOperand ==
    ASSUME Typed, AtReference
    PROVE  /\ i \in Lines /\ op \in 1 .. Len(insts[i].refs)
           /\ Reference \in Names /\ Reference.base \in BaseNames
  <1>1. i \in Lines
    BY DEF Typed, Lines, AtReference
  <1>2. insts[i].refs \in Seq(Names)
    BY <1>1, LineTyped
  <1>3. op \in 1 .. Len(insts[i].refs)
    BY <1>2 DEF AtReference, Typed
  <1>4. Reference \in Names
    BY <1>2, <1>3 DEF Reference
  <1> QED BY <1>1, <1>3, <1>4, NameShape

LEMMA FailTyped ==
    ASSUME Typed, NEW e, Fail(e)
    PROVE  Typed'
  BY DEF Typed, Fail

LEMMA RewriteTyped ==
    ASSUME Typed, AtReference, NEW n \in Names, Rewrite(n),
           local_aliases' \in Seq(AliasRecord), Len(local_aliases') <= MAX_SYMBOLS
    PROVE  Typed'
  <1>1. insts' = WithRef(i, op, n)
    BY DEF Rewrite, WithRef
  <1>2. insts' \in Seq(Insts) /\ Len(insts') = Len(insts)
    BY <1>1, AtOperand, SetRef
  <1> QED BY <1>2 DEF Typed, Rewrite

LEMMA DefineAnonymousTyped ==
    ASSUME Typed, DefineAnonymous
    PROVE  Typed'
  <1>1. CASE Len(anon_defs) >= MAX_SYMBOLS
    BY <1>1, FailTyped DEF DefineAnonymous
  <1>2. CASE ~(Len(anon_defs) >= MAX_SYMBOLS)
    <2> DEFINE n == Len(anon_defs)
               name == Anonymous(n)
               a == [instruction_index |-> i, scoped_name |-> name]
    <2>1. n \in Nat /\ MAX_SYMBOLS \in Nat
      BY CapacityNat DEF Typed
    <2>2. name \in Names
      <3>1. \A m \in Nat : Anonymous(m) \in Names
        BY MadeTyped
      <3> QED BY <2>1, <3>1
    <2>3. /\ anon_defs' = Append(anon_defs, a)
          /\ insts' = WithLabel(i, name)
          /\ UNCHANGED <<scope_id, local_aliases>> /\ NextDefinition
      BY <1>2 DEF DefineAnonymous, WithLabel
    <2>4. i \in Lines
      BY AtLine DEF DefineAnonymous, AtDefinition
    <2> HIDE DEF name
    <2>5. insts' \in Seq(Insts) /\ Len(insts') = Len(insts)
      BY <2>2, <2>3, <2>4, SetLabel
    <2>6. a \in AnonRecord
      BY <2>2 DEF AnonRecord, Typed
    <2> HIDE DEF a
    <2>7. anon_defs' \in Seq(AnonRecord) /\ Len(anon_defs') <= MAX_SYMBOLS
      <3>1. anon_defs \in Seq(AnonRecord)
        BY DEF Typed
      <3> QED BY <1>2, <2>1, <2>3, <2>6, <3>1
    <2> QED BY <2>3, <2>5, <2>7 DEF Typed, NextDefinition
  <1> QED BY <1>1, <1>2

LEMMA CreateFailsTyped ==
    ASSUME Typed, NEW b, CreateFails(b)
    PROVE  Typed'
  BY FailTyped DEF CreateFails

LEMMA DefineLocalTyped ==
    ASSUME Typed, DefineLocal
    PROVE  Typed'
  <1> DEFINE b == Label.base
  <1>1. /\ i \in Lines /\ b \in BaseNames
    BY AtLine DEF DefineLocal, AtDefinition, Label
  <1>2. \/ HasAlias(scope_id, b) /\ Fail("redefined")
        \/ ~ HasAlias(scope_id, b) /\ CreateFails(b)
        \/ /\ CanCreate(b) /\ CreateAlias(b)
           /\ insts' = WithLabel(i, Scoped(scope_id, b))
           /\ UNCHANGED <<scope_id, anon_defs>>
           /\ NextDefinition
    BY DEF DefineLocal, WithLabel
  <1> HIDE DEF b
  <1>3. CASE /\ CanCreate(b) /\ CreateAlias(b)
             /\ insts' = WithLabel(i, Scoped(scope_id, b))
             /\ UNCHANGED <<scope_id, anon_defs>>
             /\ NextDefinition
    <2>1. /\ local_aliases' \in Seq(AliasRecord) /\ Len(local_aliases') <= MAX_SYMBOLS
          /\ Scoped(scope_id, b) \in Names
      BY <1>1, <1>3, AliasTyped
    <2>2. insts' \in Seq(Insts) /\ Len(insts') = Len(insts)
      BY <1>1, <1>3, <2>1, SetLabel
    <2> QED BY <1>3, <2>1, <2>2 DEF Typed, NextDefinition
  <1> QED BY <1>2, <1>3, FailTyped, CreateFailsTyped

LEMMA NormalizeLocalTyped ==
    ASSUME Typed, NormalizeLocal
    PROVE  Typed'
  <1> DEFINE b == Reference.base
  <1>1. AtReference /\ b \in BaseNames
    BY AtOperand DEF NormalizeLocal
  <1>2. \/ /\ HasAlias(scope_id, b) /\ Rewrite(lookup_local_alias(scope_id, b))
           /\ UNCHANGED local_aliases
        \/ ~ HasAlias(scope_id, b) /\ CreateFails(b)
        \/ CanCreate(b) /\ CreateAlias(b) /\ Rewrite(Scoped(scope_id, b))
    BY DEF NormalizeLocal
  <1> HIDE DEF b
  <1>3. CASE /\ HasAlias(scope_id, b) /\ Rewrite(lookup_local_alias(scope_id, b))
             /\ UNCHANGED local_aliases
    <2>1. lookup_local_alias(scope_id, b) \in Names
      <3>1. PICK m \in DOMAIN local_aliases :
              lookup_local_alias(scope_id, b) = local_aliases[m].scoped_name
        BY <1>3, LookupFinds
      <3> QED BY <3>1, EntryTyped
    <2>2. local_aliases' \in Seq(AliasRecord) /\ Len(local_aliases') <= MAX_SYMBOLS
      BY <1>3 DEF Typed
    <2> QED BY <1>1, <1>3, <2>1, <2>2, RewriteTyped
  <1>4. CASE CanCreate(b) /\ CreateAlias(b) /\ Rewrite(Scoped(scope_id, b))
    <2>1. /\ local_aliases' \in Seq(AliasRecord) /\ Len(local_aliases') <= MAX_SYMBOLS
          /\ Scoped(scope_id, b) \in Names
      BY <1>1, <1>4, AliasTyped
    <2> QED BY <1>1, <1>4, <2>1, RewriteTyped
  <1> QED BY <1>2, <1>3, <1>4, CreateFailsTyped

(* The definitions that @F and @B pick.                                    *)
LEMMA NearestPicked ==
    ASSUME Typed
    PROVE  /\ Following # {} => Min(Following) \in DOMAIN anon_defs /\ NearestBelow(i, Min(Following))
           /\ Preceding # {} => Max(Preceding) \in DOMAIN anon_defs /\ NearestAbove(i, Max(Preceding))
  <1>1. Len(anon_defs) \in Nat /\ DOMAIN anon_defs = 1 .. Len(anon_defs)
    BY DEF Typed
  <1>2. Following \in SUBSET Nat
    BY <1>1 DEF Following
  <1>3. Preceding \in SUBSET Nat /\ \A y \in Preceding : y <= Len(anon_defs)
    BY <1>1 DEF Preceding
  <1>4. ASSUME Following # {}
        PROVE  Min(Following) \in Following /\ \A y \in Following : Min(Following) <= y
    BY <1>2, <1>4, MinIsLeast
  <1>5. ASSUME Preceding # {}
        PROVE  Max(Preceding) \in Preceding /\ \A y \in Preceding : y <= Max(Preceding)
    BY <1>1, <1>3, <1>5, MaxIsGreatest
  <1>6. \A x : x \in Following <=> x \in DOMAIN anon_defs /\ anon_defs[x].instruction_index > i
    BY <1>1 DEF Following
  <1>7. \A x : x \in Preceding <=> x \in DOMAIN anon_defs /\ anon_defs[x].instruction_index < i
    BY <1>1 DEF Preceding
  <1> QED BY <1>4, <1>5, <1>6, <1>7 DEF NearestBelow, NearestAbove

LEMMA NextTyped == Typed /\ [Next]_vars => Typed'
  <1> SUFFICES ASSUME Typed, [Next]_vars PROVE Typed'
    OBVIOUS
  <1>0. local_aliases \in Seq(AliasRecord) /\ Len(local_aliases) <= MAX_SYMBOLS
    BY DEF Typed
  <1>1. CASE OpenScope
    BY <1>1 DEF OpenScope, NextDefinition, Typed
  <1>2. CASE StartReferences
    BY <1>2 DEF StartReferences, Typed
  <1>3. CASE EnterInst
    BY <1>3 DEF EnterInst, Typed
  <1>4. CASE NormalizeForward
    <2>1. CASE Following = {} /\ Fail("forward")
      BY <2>1, FailTyped
    <2>2. CASE /\ Following # {} /\ Rewrite(anon_defs[Min(Following)].scoped_name)
               /\ UNCHANGED local_aliases
      <3>1. anon_defs[Min(Following)].scoped_name \in Names
        BY <2>2, NearestPicked, EntryTyped
      <3> QED BY <1>0, <1>4, <2>2, <3>1, RewriteTyped DEF NormalizeForward
    <2> QED BY <1>4, <2>1, <2>2 DEF NormalizeForward
  <1>5. CASE NormalizeBackward
    <2>1. CASE Preceding = {} /\ Fail("backward")
      BY <2>1, FailTyped
    <2>2. CASE /\ Preceding # {} /\ Rewrite(anon_defs[Max(Preceding)].scoped_name)
               /\ UNCHANGED local_aliases
      <3>1. anon_defs[Max(Preceding)].scoped_name \in Names
        BY <2>2, NearestPicked, EntryTyped
      <3> QED BY <1>0, <1>5, <2>2, <3>1, RewriteTyped DEF NormalizeBackward
    <2> QED BY <1>5, <2>1, <2>2 DEF NormalizeBackward
  <1>6. CASE KeepReference
    BY <1>6 DEF KeepReference, Typed
  <1>7. CASE LeaveInst
    BY <1>7 DEF LeaveInst, Typed
  <1>8. CASE EndReferences
    BY <1>8 DEF EndReferences, Typed
  <1>9. CASE UNCHANGED vars
    BY <1>9 DEF vars, Typed
  <1> QED BY <1>1, <1>2, <1>3, <1>4, <1>5, <1>6, <1>7, <1>8, <1>9,
             DefineAnonymousTyped, DefineLocalTyped, NormalizeLocalTyped
          DEF Next, Finished

-----------------------------------------------------------------------------
(* Pass 1.                                                                 *)

(* What a step leaves to show when the program has no prefixed label.      *)
Ok == FailInv /\ (pc # "failed" => Progress)

LEMMA FailOk ==
    ASSUME NEW e \in Causes \ {"none"}, Cause(e), Fail(e)
    PROVE  Ok'
  <1>1. UNCHANGED source /\ pc' = "failed" /\ error' = e
    BY DEF Fail
  <1>2. Cause(e)'
    BY <1>1, SourceFixed
  <1>3. Cause(error)'
    BY <1>1, <1>2 DEF Cause
  <1> QED BY <1>1, <1>3 DEF Ok, FailInv, Causes

LEMMA ProgressOk ==
    ASSUME Progress', pc' # "failed"
    PROVE  Ok'
  BY DEF Ok, FailInv

(* The line at hand in pass 1.                                             *)
LEMMA DefinitionLine ==
    ASSUME Typed, Progress, AtDefinition
    PROVE  /\ i \in Lines /\ i \in Nat \ {0} /\ pc = "definitions"
           /\ insts[i].label = source[i].label /\ insts[i].type = source[i].type
           /\ scope_id = Scope(i - 1)
           /\ \A d \in Lines : d \in Nat /\ (Seen(d) <=> d < i)
           /\ ~NonLocal(source[i]) => Scope(i) = scope_id
           /\ NonLocal(source[i]) => Scope(i) = scope_id + 1
  <1>1. i \in Lines /\ i \in Nat \ {0} /\ pc = "definitions"
    BY AtLine DEF AtDefinition, Typed
  <1>2. \A d \in Lines : d \in Nat /\ (Seen(d) <=> d < i)
    BY <1>1, LineTyped DEF Seen
  <1>3. ~Seen(i)
    BY <1>1, <1>2
  <1>4. insts[i].label = source[i].label /\ insts[i].type = source[i].type
    BY <1>1, <1>3 DEF Progress, LabelInv
  <1>5. scope_id = Scope(i - 1)
    BY <1>1 DEF Progress, ScopeInv
  <1>6. /\ ~NonLocal(source[i]) => Scope(i) = scope_id
        /\ NonLocal(source[i]) => Scope(i) = scope_id + 1
    BY <1>1, <1>5, ScopeStep
  <1> QED BY <1>1, <1>2, <1>4, <1>5, <1>6

(* A step of pass 1 to the next line.                                      *)
LEMMA DefinitionStep ==
    ASSUME Typed, Progress, AtDefinition, NextDefinition,
           \A k \in Lines : insts'[k].refs = insts[k].refs
    PROVE  /\ UNCHANGED source /\ pc' = "definitions" /\ Lines' = Lines
           /\ \A k : Scope(k)' = Scope(k)
           /\ \A k : LocalLabel(k)' <=> LocalLabel(k)
           /\ \A d \in Lines : Seen(d)' <=> d < i \/ d = i
           /\ scope_id' = Scope(i) => ScopeInv'
           /\ RefInv'
  <1>1. UNCHANGED source /\ pc' = "definitions" /\ i' = i + 1 /\ pc = "definitions"
    BY DEF NextDefinition, AtDefinition
  <1>2. /\ Lines' = Lines /\ \A k : Scope(k)' = Scope(k)
        /\ \A k : LocalLabel(k)' <=> LocalLabel(k)
    BY <1>1, SourceFixed
  <1>3. \A d \in Lines : Seen(d)' <=> d < i \/ d = i
    <2>1. i \in Nat /\ \A d \in Lines : d \in Nat
      BY DefinitionLine
    <2> QED BY <1>1, <2>1 DEF Seen
  <1>4. scope_id' = Scope(i) => ScopeInv'
    <2>1. i \in Nat /\ i <= Len(source) /\ Len(source) \in Nat /\ (i + 1) - 1 = i
      BY DefinitionLine DEF AtDefinition, Typed
    <2>2. i' - 1 = i
      BY <1>1, <2>1
    <2>3. Scope(i - 1)' = Scope(i)
      BY <1>1, <2>2 DEF Scope, NonLocal
    <2>4. i' <= Len(source') + 1
      BY <1>1, <2>1
    <2> QED BY <1>1, <2>3, <2>4 DEF ScopeInv
  <1>5. RefInv'
    <2>1. \A k, r : ~Read(k, r) /\ ~Read(k, r)'
      BY <1>1 DEF Read
    <2> QED BY <1>1, <1>2, <2>1 DEF RefInv, Progress
  <1> QED BY <1>1, <1>2, <1>3, <1>4, <1>5

(* A step of pass 1 that meets no local label keeps the aliases.           *)
LEMMA AliasesKept ==
    ASSUME Typed, Progress, AtDefinition, NextDefinition, UNCHANGED local_aliases,
           \A k \in Lines : insts'[k].refs = insts[k].refs, ~LocalLabel(i)
    PROVE  AliasInv'
  <1>1. /\ UNCHANGED source /\ pc' = "definitions" /\ pc = "definitions" /\ Lines' = Lines
        /\ \A k : Scope(k)' = Scope(k)
        /\ \A k : LocalLabel(k)' <=> LocalLabel(k)
        /\ \A d \in Lines : Seen(d)' <=> d < i \/ d = i
        /\ \A d \in Lines : d \in Nat /\ (Seen(d) <=> d < i)
        /\ LocalUses' = LocalUses /\ i' = i + 1 /\ i \in Nat
    BY DefinitionStep, DefinitionLine, SourceFixed DEF NextDefinition
  <1>2. AliasInv
    BY DEF Progress
  <1>3. ASSUME NEW m \in DOMAIN local_aliases
        PROVE  LET a == local_aliases[m]
               IN  /\ a.scoped_name = Scoped(a.scope_id, a.local_name)
                   /\ Fits(a.scope_id, a.local_name)
                   /\ <<a.scope_id, a.local_name>> \in LocalUses'
                   /\ \E d \in Lines' : /\ d < i' /\ source'[d].label = Local(a.local_name)
                                        /\ Scope(d)' = a.scope_id
    <2> DEFINE a == local_aliases[m]
    <2>1. /\ a.scoped_name = Scoped(a.scope_id, a.local_name)
          /\ Fits(a.scope_id, a.local_name)
          /\ <<a.scope_id, a.local_name>> \in LocalUses
      BY <1>2 DEF AliasInv
    <2>2. PICK d \in Lines : /\ d < i /\ source[d].label = Local(a.local_name)
                             /\ Scope(d) = a.scope_id
      BY <1>1, <1>2 DEF AliasInv
    <2>3. d < i'
      BY <1>1, <2>2
    <2> QED BY <1>1, <2>1, <2>2, <2>3
  <1>4. \A d \in Lines' : Seen(d)' /\ LocalLabel(d)' => Aliased(Scope(d), source[d].label.base)'
    <2> SUFFICES ASSUME NEW d \in Lines, Seen(d)', LocalLabel(d)
                 PROVE  Aliased(Scope(d), source[d].label.base)'
      BY <1>1
    <2>1. Seen(d)
      BY <1>1
    <2>2. Aliased(Scope(d), source[d].label.base)
      BY <1>2, <2>1 DEF AliasInv
    <2> QED BY <1>1, <2>2 DEF Aliased
  <1>5. ASSUME NEW d \in Lines', NEW e \in Lines', Seen(d)', Seen(e)', LocalLabel(d)',
               source'[d].label = source'[e].label, Scope(d)' = Scope(e)'
        PROVE  d = e
    <2>1. /\ d \in Lines /\ e \in Lines /\ LocalLabel(d)
          /\ source[d].label = source[e].label /\ Scope(d) = Scope(e)
      BY <1>1, <1>5
    <2>2. LocalLabel(e)
      BY <2>1 DEF LocalLabel
    <2>3. Seen(d) /\ Seen(e)
      BY <1>1, <1>5, <2>1, <2>2
    <2> QED BY <1>2, <2>1, <2>3 DEF AliasInv
  <1>6. \A m, n \in DOMAIN local_aliases :
          /\ local_aliases[m].scope_id = local_aliases[n].scope_id
          /\ local_aliases[m].local_name = local_aliases[n].local_name
          => m = n
    BY <1>2 DEF AliasInv
  <1> QED BY <1>1, <1>3, <1>4, <1>5, <1>6 DEF AliasInv

LEMMA OpenScopeOk ==
    ASSUME Typed, Progress, OpenScope
    PROVE  Ok'
  <1>1. /\ AtDefinition /\ NextDefinition /\ UNCHANGED <<insts, local_aliases, anon_defs>>
        /\ insts[i].label # AnonymousDef /\ insts[i].label.kind # "local"
        /\ scope_id' = IF insts[i].label # NoLabel /\ insts[i].type # "equ"
                       THEN scope_id + 1 ELSE scope_id
    BY DEF OpenScope, Label, is_local_label_name
  <1>2. /\ i \in Lines /\ insts[i].label = source[i].label /\ insts[i].type = source[i].type
        /\ \A d \in Lines : d \in Nat /\ (Seen(d) <=> d < i)
        /\ ~NonLocal(source[i]) => Scope(i) = scope_id
        /\ NonLocal(source[i]) => Scope(i) = scope_id + 1
    BY <1>1, DefinitionLine
  <1>3. source[i].label \in Names
    BY <1>2, LineTyped
  <1>4. /\ source[i].label.kind \notin {"local", "@@"}
        /\ source[i].label.kind = "none" <=> source[i].label = NoLabel
    BY <1>1, <1>2, <1>3, NameShape
  <1>5. ~LocalLabel(i)
    BY <1>4 DEF LocalLabel
  <1>6. \A k \in Lines : insts'[k].refs = insts[k].refs
    BY <1>1
  <1>7. /\ UNCHANGED source /\ pc' = "definitions" /\ Lines' = Lines
        /\ \A k : Scope(k)' = Scope(k)
        /\ \A k : LocalLabel(k)' <=> LocalLabel(k)
        /\ \A d \in Lines : Seen(d)' <=> d < i \/ d = i
        /\ scope_id' = Scope(i) => ScopeInv'
        /\ RefInv'
    BY <1>1, <1>6, DefinitionStep
  <1>8. ScopeInv'
    BY <1>1, <1>2, <1>4, <1>7 DEF NonLocal
  <1>9. AliasInv'
    BY <1>1, <1>5, <1>6, AliasesKept
  <1>10. LabelInv'
    <2> SUFFICES ASSUME NEW d \in Lines
                 PROVE  /\ insts[d].type = source[d].type
                        /\ ~Seen(d)' \/ source[d].label.kind \notin {"local", "@@"} =>
                              insts[d].label = source[d].label
                        /\ Seen(d)' /\ LocalLabel(d) =>
                              insts[d].label = Scoped(Scope(d), source[d].label.base)
                        /\ Seen(d)' /\ source[d].label.kind = "@@" =>
                              \E m \in DOMAIN anon_defs :
                                  /\ anon_defs[m].instruction_index = d
                                  /\ insts[d].label = Anonymous(m - 1)
      BY <1>1, <1>7 DEF LabelInv
    <2>1. CASE d = i
      BY <1>2, <1>4, <1>5, <2>1
    <2>2. CASE d # i
      <3>1. Seen(d)' <=> Seen(d)
        BY <1>2, <1>7, <2>2
      <3> QED BY <3>1 DEF Progress, LabelInv
    <2> QED BY <2>1, <2>2
  <1>11. AnonInv'
    <2>1. AnonInv
      BY DEF Progress
    <2>2. \A d \in Lines : Seen(d) => Seen(d)'
      BY <1>2, <1>7
    <2> QED BY <1>1, <1>7, <2>1, <2>2 DEF AnonInv
  <1>12. Progress' /\ pc' # "failed"
    BY <1>7, <1>8, <1>9, <1>10, <1>11 DEF Progress
  <1> QED BY <1>12, ProgressOk

(* anon_defs is full: there are more anonymous labels than it can hold.    *)
LEMMA AnonymousFault ==
    ASSUME Typed, Progress, AtDefinition, insts[i].label = AnonymousDef,
           Len(anon_defs) >= MAX_SYMBOLS
    PROVE  Cause("anonymous")
  <1> DEFINE n == Len(anon_defs)
             S == AnonymousLines(1, Len(source))
             f == [m \in 1 .. n |-> anon_defs[m].instruction_index]
  <1>1. n \in Nat /\ DOMAIN anon_defs = 1 .. n /\ MAX_SYMBOLS \in Nat
    BY CapacityNat DEF Typed
  <1>2. /\ i \in Lines /\ source[i].label = AnonymousDef /\ i \in Nat
        /\ \A d \in Lines : Seen(d) <=> d < i
    BY DefinitionLine
  <1>3. \A d : d \in S <=> d \in Lines /\ source[d].label = AnonymousDef
    BY DEF AnonymousLines, Lines
  <1>4. IsFiniteSet(S)
    <2>1. S \in SUBSET Lines
      BY <1>3
    <2> HIDE DEF S
    <2> QED BY <2>1, FiniteLines, FS_Subset
  <1>5. \A m \in 1 .. n : /\ anon_defs[m].instruction_index \in S
                          /\ anon_defs[m].instruction_index < i
                          /\ anon_defs[m].instruction_index \in Nat
    <2>1. \A m \in 1 .. n : /\ anon_defs[m].instruction_index \in Lines
                            /\ Seen(anon_defs[m].instruction_index)
                            /\ source[anon_defs[m].instruction_index].label = AnonymousDef
      BY <1>1 DEF Progress, AnonInv
    <2> HIDE DEF S
    <2> QED BY <1>1, <1>2, <1>3, <2>1, LineTyped
  <1>6. \A a, b \in 1 .. n : f[a] = f[b] => a = b
    <2> SUFFICES ASSUME NEW a \in 1 .. n, NEW b \in 1 .. n,
                        anon_defs[a].instruction_index = anon_defs[b].instruction_index
                 PROVE  a = b
      OBVIOUS
    <2>1. /\ a < b => anon_defs[a].instruction_index < anon_defs[b].instruction_index
          /\ b < a => anon_defs[b].instruction_index < anon_defs[a].instruction_index
      BY <1>1 DEF Progress, AnonInv
    <2>2. a \in Nat /\ b \in Nat
      BY <1>1
    <2> QED BY <1>5, <2>1, <2>2
  <1>7. f \in [1 .. n -> S] /\ \A m \in 1 .. n : f[m] # i
    <2> HIDE DEF S
    <2>1. \A m \in 1 .. n : f[m] = anon_defs[m].instruction_index
      OBVIOUS
    <2>2. \A m \in 1 .. n : f[m] # i
      BY <1>2, <1>5, <2>1
    <2> QED BY <1>5, <2>2
  <1>8. i \in S
    BY <1>2, <1>3
  <1> HIDE DEF n, S, f
  <1>9. Cardinality(S) \in Nat /\ Cardinality(S) > n
    BY <1>1, <1>4, <1>6, <1>7, <1>8, MissBound
  <1>10. Cardinality(S) > MAX_SYMBOLS
    BY <1>1, <1>9 DEF n
  <1> QED BY <1>10 DEF Cause, S

(* A local name that is used and has no alias, in either pass.             *)
LEMMA CreateFailsOk ==
    ASSUME Typed, Progress, NEW b, <<scope_id, b>> \in LocalUses,
           ~HasAlias(scope_id, b), CreateFails(b)
    PROVE  Ok'
  <1>1. CASE Len(local_aliases) >= MAX_SYMBOLS /\ Fail("aliases")
    <2> DEFINE n == Len(local_aliases)
               f == [m \in 1 .. n |-> <<local_aliases[m].scope_id, local_aliases[m].local_name>>]
               x == <<scope_id, b>>
    <2>1. n \in Nat /\ DOMAIN local_aliases = 1 .. n /\ MAX_SYMBOLS \in Nat /\ n >= MAX_SYMBOLS
      BY <1>1, CapacityNat DEF Typed
    <2>2. \A m \in 1 .. n : f[m] = <<local_aliases[m].scope_id, local_aliases[m].local_name>>
      OBVIOUS
    <2>3. \A m \in 1 .. n : f[m] \in LocalUses
      BY <2>1, <2>2 DEF Progress, AliasInv
    <2>4. f \in [1 .. n -> LocalUses]
      BY <2>3
    <2>5. \A c, d \in 1 .. n : f[c] = f[d] => c = d
      BY <2>1, <2>2 DEF Progress, AliasInv
    <2>6. \A m \in 1 .. n : f[m] # x
      BY <2>1, <2>2 DEF HasAlias
    <2>7. IsFiniteSet(LocalUses)
      BY UsesFinite
    <2> HIDE DEF n, f, x
    <2>8. x \in LocalUses
      BY DEF x
    <2>9. Cardinality(LocalUses) \in Nat /\ Cardinality(LocalUses) > n
      BY <2>1, <2>4, <2>5, <2>6, <2>7, <2>8, MissBound
    <2>10. Cardinality(LocalUses) > MAX_SYMBOLS
      BY <2>1, <2>9
    <2>11. Cause("aliases")
      BY <2>10 DEF Cause
    <2> QED BY <1>1, <2>11, FailOk DEF Causes
  <1>2. CASE ~Fits(scope_id, b) /\ Fail("long")
    <2>1. \E u \in LocalUses : ~Fits(u[1], u[2])
      BY <1>2
    <2>2. Cause("long")
      BY <2>1 DEF Cause
    <2> QED BY <1>2, <2>2, FailOk DEF Causes
  <1> QED BY <1>1, <1>2 DEF CreateFails

LEMMA DefineAnonymousOk ==
    ASSUME Typed, Progress, DefineAnonymous
    PROVE  Ok'
  <1>1. AtDefinition /\ insts[i].label = AnonymousDef
    BY DEF DefineAnonymous, Label
  <1>2. CASE Len(anon_defs) >= MAX_SYMBOLS
    BY <1>1, <1>2, AnonymousFault, FailOk DEF DefineAnonymous, Causes
  <1>3. CASE ~(Len(anon_defs) >= MAX_SYMBOLS)
    <2> DEFINE n == Len(anon_defs)
               name == Anonymous(n)
               a == [instruction_index |-> i, scoped_name |-> name]
    <2>1. /\ anon_defs' = Append(anon_defs, a)
          /\ insts' = WithLabel(i, name)
          /\ UNCHANGED <<scope_id, local_aliases>> /\ NextDefinition
      BY <1>3 DEF DefineAnonymous, WithLabel
    <2>2. n \in Nat /\ name \in Names
      BY ListTyped, MadeTyped
    <2>3. /\ i \in Lines /\ source[i].label = AnonymousDef
          /\ \A d \in Lines : d \in Nat /\ (Seen(d) <=> d < i)
          /\ ~NonLocal(source[i]) => Scope(i) = scope_id
          /\ i \in Nat /\ pc = "definitions"
      BY <1>1, DefinitionLine
    <2>4. source[i].label.kind = "@@" /\ ~LocalLabel(i) /\ ~NonLocal(source[i])
      <3>1. AnonymousDef.kind = "@@"
        BY DEF AnonymousDef, NameOf
      <3> QED BY <2>3, <3>1 DEF LocalLabel, NonLocal
    <2>5. a \in AnonRecord
      BY <2>2, <2>3 DEF AnonRecord
    <2>6. a.instruction_index = i /\ a.scoped_name = Anonymous(n)
      OBVIOUS
    <2>7. /\ \A d \in Lines : d # i => insts'[d] = insts[d]
          /\ insts'[i].label = Anonymous(n) /\ insts'[i].type = insts[i].type
          /\ insts'[i].refs = insts[i].refs
      BY <2>1, <2>2, <2>3, SetLabel
    <2> HIDE DEF a
    <2>8. /\ DOMAIN anon_defs = 1 .. n /\ DOMAIN anon_defs' = DOMAIN anon_defs \cup {n + 1}
          /\ \A m \in DOMAIN anon_defs : anon_defs'[m] = anon_defs[m]
          /\ anon_defs'[n + 1] = a
      <3>1. anon_defs \in Seq(AnonRecord)
        BY ListTyped
      <3> QED BY <2>1, <2>5, <3>1, Appended
    <2> HIDE DEF n, name
    <2>9. \A k \in Lines : insts'[k].refs = insts[k].refs
      BY <2>7
    <2>10. /\ UNCHANGED source /\ pc' = "definitions" /\ Lines' = Lines
           /\ \A k : Scope(k)' = Scope(k)
           /\ \A k : LocalLabel(k)' <=> LocalLabel(k)
           /\ \A d \in Lines : Seen(d)' <=> d < i \/ d = i
           /\ scope_id' = Scope(i) => ScopeInv'
           /\ RefInv'
      BY <1>1, <2>1, <2>9, DefinitionStep
    <2>11. ScopeInv'
      BY <2>1, <2>3, <2>4, <2>10
    <2>12. AliasInv'
      BY <1>1, <2>1, <2>4, <2>9, AliasesKept
    <2>13. LabelInv'
      <3> SUFFICES ASSUME NEW d \in Lines
                   PROVE  /\ insts'[d].type = source[d].type
                          /\ ~Seen(d)' \/ source[d].label.kind \notin {"local", "@@"} =>
                                insts'[d].label = source[d].label
                          /\ Seen(d)' /\ LocalLabel(d) =>
                                insts'[d].label = Scoped(Scope(d), source[d].label.base)
                          /\ Seen(d)' /\ source[d].label.kind = "@@" =>
                                \E m \in DOMAIN anon_defs' :
                                    /\ anon_defs'[m].instruction_index = d
                                    /\ insts'[d].label = Anonymous(m - 1)
        BY <2>10 DEF LabelInv
      <3>1. CASE d = i
        <4>1. insts'[d].type = source[d].type
          BY <2>7, <3>1 DEF Progress, LabelInv
        <4>2. (n + 1) - 1 = n /\ n + 1 \in DOMAIN anon_defs'
          BY <2>2, <2>8
        <4>3. \E m \in DOMAIN anon_defs' : /\ anon_defs'[m].instruction_index = d
                                           /\ insts'[d].label = Anonymous(m - 1)
          BY <2>6, <2>7, <2>8, <3>1, <4>2
        <4> QED BY <2>4, <2>10, <3>1, <4>1, <4>3
      <3>2. CASE d # i
        <4>1. (Seen(d)' <=> Seen(d)) /\ insts'[d] = insts[d]
          BY <2>3, <2>7, <2>10, <3>2
        <4>2. /\ insts[d].type = source[d].type
              /\ ~Seen(d) \/ source[d].label.kind \notin {"local", "@@"} =>
                    insts[d].label = source[d].label
              /\ Seen(d) /\ LocalLabel(d) =>
                    insts[d].label = Scoped(Scope(d), source[d].label.base)
              /\ Seen(d) /\ source[d].label.kind = "@@" =>
                    \E m \in DOMAIN anon_defs :
                        /\ anon_defs[m].instruction_index = d
                        /\ insts[d].label = Anonymous(m - 1)
          BY DEF Progress, LabelInv
        <4> QED BY <2>8, <4>1, <4>2
      <3> QED BY <3>1, <3>2
    <2>14. AnonInv'
      <3>1. \A m \in DOMAIN anon_defs :
              LET d == anon_defs[m].instruction_index
              IN  /\ anon_defs[m].scoped_name = Anonymous(m - 1)
                  /\ d \in Lines /\ Seen(d) /\ source[d].label = AnonymousDef
        BY DEF Progress, AnonInv
      <3>2. \A m, k \in DOMAIN anon_defs :
              m < k => anon_defs[m].instruction_index < anon_defs[k].instruction_index
        BY DEF Progress, AnonInv
      <3>3. i < i' /\ \A d \in Lines : Seen(d) => d < i'
        BY <2>1, <2>3 DEF NextDefinition
      <3>4. (n + 1) - 1 = n
        BY <2>2
      <3>5. ASSUME NEW m \in DOMAIN anon_defs'
            PROVE  LET d == anon_defs'[m].instruction_index
                   IN  /\ anon_defs'[m].scoped_name = Anonymous(m - 1)
                       /\ d \in Lines /\ d < i' /\ source[d].label = AnonymousDef
        <4>1. CASE m \in DOMAIN anon_defs
          BY <2>8, <3>1, <3>3, <4>1
        <4>2. CASE m = n + 1
          BY <2>3, <2>6, <2>8, <3>3, <3>4, <4>2
        <4> QED BY <2>8, <3>5, <4>1, <4>2
      <3>6. ASSUME NEW m \in DOMAIN anon_defs', NEW k \in DOMAIN anon_defs', m < k
            PROVE  anon_defs'[m].instruction_index < anon_defs'[k].instruction_index
        <4>1. m \in DOMAIN anon_defs
          BY <2>2, <2>8, <3>6
        <4>2. CASE k \in DOMAIN anon_defs
          BY <2>8, <3>2, <3>6, <4>1, <4>2
        <4>3. CASE k = n + 1
          <5>1. anon_defs'[m].instruction_index < i
            BY <2>3, <2>8, <3>1, <4>1
          <5> QED BY <2>6, <2>8, <4>3, <5>1
        <4> QED BY <2>8, <4>2, <4>3
      <3> QED BY <2>10, <3>5, <3>6 DEF AnonInv, Seen
    <2>15. Progress' /\ pc' # "failed"
      BY <2>10, <2>11, <2>12, <2>13, <2>14 DEF Progress
    <2> QED BY <2>15, ProgressOk
  <1> QED BY <1>2, <1>3

(* A new alias, in either pass.                                            *)
LEMMA AliasAdded ==
    ASSUME Typed, Progress, NEW b \in BaseNames, ~HasAlias(scope_id, b),
           CanCreate(b), CreateAlias(b)
    PROVE  /\ \A m \in DOMAIN local_aliases' :
                 (m \in DOMAIN local_aliases /\ local_aliases'[m] = local_aliases[m])
                 \/ local_aliases'[m] = Alias(scope_id, b)
           /\ \A m \in DOMAIN local_aliases :
                 m \in DOMAIN local_aliases' /\ local_aliases'[m] = local_aliases[m]
           /\ \E m \in DOMAIN local_aliases' :
                 /\ local_aliases'[m].scope_id = scope_id
                 /\ local_aliases'[m].local_name = b
           /\ \A m, n \in DOMAIN local_aliases' :
                 /\ local_aliases'[m].scope_id = local_aliases'[n].scope_id
                 /\ local_aliases'[m].local_name = local_aliases'[n].local_name
                 => m = n
           /\ Fits(scope_id, b)
  <1> DEFINE n == Len(local_aliases)
             a == Alias(scope_id, b)
  <1>1. /\ local_aliases' = Append(local_aliases, a) /\ Fits(scope_id, b)
    BY DEF CreateAlias, CanCreate
  <1>2. /\ a.scope_id = scope_id /\ a.local_name = b
    BY DEF Alias
  <1>3. a \in AliasRecord
    <2>1. scope_id \in Nat /\ Scoped(scope_id, b) \in Names
      BY MadeTyped DEF Typed
    <2> QED BY <2>1 DEF Alias, AliasRecord
  <1> HIDE DEF a
  <1>4. local_aliases \in Seq(AliasRecord)
    BY ListTyped
  <1>5. /\ DOMAIN local_aliases = 1 .. n /\ DOMAIN local_aliases' = DOMAIN local_aliases \cup {n + 1}
        /\ \A m \in DOMAIN local_aliases : local_aliases'[m] = local_aliases[m]
        /\ local_aliases'[n + 1] = a
    BY <1>1, <1>3, <1>4, Appended
  <1> HIDE DEF n
  <1>6. \A m \in DOMAIN local_aliases :
          ~(local_aliases[m].scope_id = scope_id /\ local_aliases[m].local_name = b)
    BY <1>5 DEF HasAlias, n
  <1>7. \A m, k \in DOMAIN local_aliases :
          /\ local_aliases[m].scope_id = local_aliases[k].scope_id
          /\ local_aliases[m].local_name = local_aliases[k].local_name
          => m = k
    BY DEF Progress, AliasInv
  <1>8. \A m, k \in DOMAIN local_aliases' :
          /\ local_aliases'[m].scope_id = local_aliases'[k].scope_id
          /\ local_aliases'[m].local_name = local_aliases'[k].local_name
          => m = k
    BY <1>2, <1>5, <1>6, <1>7
  <1>9. \E m \in DOMAIN local_aliases' :
          /\ local_aliases'[m].scope_id = scope_id
          /\ local_aliases'[m].local_name = b
    BY <1>2, <1>5
  <1> QED BY <1>1, <1>5, <1>8, <1>9 DEF a

LEMMA DefineLocalOk ==
    ASSUME Typed, Progress, DefineLocal
    PROVE  Ok'
  <1> DEFINE b == Label.base
  <1>1. AtDefinition /\ insts[i].label.kind = "local"
    BY DEF DefineLocal, Label, is_local_label_name
  <1>2. /\ i \in Lines /\ insts[i].label = source[i].label
        /\ \A d \in Lines : d \in Nat /\ (Seen(d) <=> d < i)
        /\ ~NonLocal(source[i]) => Scope(i) = scope_id
        /\ i \in Nat /\ pc = "definitions"
    BY <1>1, DefinitionLine
  <1>3. LocalLabel(i) /\ Scope(i) = scope_id
    BY <1>1, <1>2 DEF LocalLabel, NonLocal
  <1>4. source[i].label = Local(b) /\ source[i].label.base = b /\ b \in BaseNames
    <2>1. source[i].label \in Names
      BY <1>2, LineTyped
    <2> QED BY <1>1, <1>2, <2>1, NameShape DEF Label
  <1>5. <<scope_id, b>> \in LocalUses
    BY <1>2, <1>3, <1>4, LabelUse
  <1>6. \/ HasAlias(scope_id, b) /\ Fail("redefined")
        \/ ~ HasAlias(scope_id, b) /\ CreateFails(b)
        \/ /\ ~ HasAlias(scope_id, b) /\ CanCreate(b) /\ CreateAlias(b)
           /\ insts' = WithLabel(i, Scoped(scope_id, b))
           /\ UNCHANGED <<scope_id, anon_defs>>
           /\ NextDefinition
    BY DEF DefineLocal, WithLabel
  <1> HIDE DEF b
  <1>7. CASE HasAlias(scope_id, b) /\ Fail("redefined")
    <2>1. PICK m \in DOMAIN local_aliases :
            local_aliases[m].scope_id = scope_id /\ local_aliases[m].local_name = b
      BY <1>7 DEF HasAlias, Typed
    <2>2. PICK d \in Lines : /\ d < i /\ source[d].label = Local(b)
                             /\ Scope(d) = scope_id
      BY <1>2, <2>1 DEF Progress, AliasInv
    <2>3. source[d].label.kind = "local" /\ Means(d, source[d].label, i)
      BY <1>3, <1>4, <2>2 DEF Means, LocalLabel
    <2>4. Redefines
      BY <1>2, <2>2, <2>3 DEF Redefines
    <2>5. Cause("redefined")
      BY <2>4 DEF Cause
    <2> QED BY <1>7, <2>5, FailOk DEF Causes
  <1>8. CASE ~ HasAlias(scope_id, b) /\ CreateFails(b)
    BY <1>5, <1>8, CreateFailsOk
  <1>9. CASE /\ ~ HasAlias(scope_id, b) /\ CanCreate(b) /\ CreateAlias(b)
             /\ insts' = WithLabel(i, Scoped(scope_id, b))
             /\ UNCHANGED <<scope_id, anon_defs>>
             /\ NextDefinition
    <2>1. Scoped(scope_id, b) \in Names
      BY <1>4, MadeTyped DEF Typed
    <2>2. /\ \A d \in Lines : d # i => insts'[d] = insts[d]
          /\ insts'[i].label = Scoped(scope_id, b) /\ insts'[i].type = insts[i].type
          /\ insts'[i].refs = insts[i].refs
      BY <1>2, <1>9, <2>1, SetLabel
    <2>3. \A k \in Lines : insts'[k].refs = insts[k].refs
      BY <2>2
    <2>4. /\ UNCHANGED source /\ pc' = "definitions" /\ Lines' = Lines
          /\ \A k : Scope(k)' = Scope(k)
          /\ \A k : LocalLabel(k)' <=> LocalLabel(k)
          /\ \A d \in Lines : Seen(d)' <=> d < i \/ d = i
          /\ scope_id' = Scope(i) => ScopeInv'
          /\ RefInv' /\ LocalUses' = LocalUses
      BY <1>1, <1>9, <2>3, DefinitionStep, SourceFixed
    <2>5. ScopeInv'
      BY <1>3, <1>9, <2>4
    <2>6. LabelInv'
      <3> SUFFICES ASSUME NEW d \in Lines
                   PROVE  /\ insts'[d].type = source[d].type
                          /\ ~Seen(d)' \/ source[d].label.kind \notin {"local", "@@"} =>
                                insts'[d].label = source[d].label
                          /\ Seen(d)' /\ LocalLabel(d) =>
                                insts'[d].label = Scoped(Scope(d), source[d].label.base)
                          /\ Seen(d)' /\ source[d].label.kind = "@@" =>
                                \E m \in DOMAIN anon_defs' :
                                    /\ anon_defs'[m].instruction_index = d
                                    /\ insts'[d].label = Anonymous(m - 1)
        BY <2>4 DEF LabelInv
      <3>1. CASE d = i
        <4>1. insts'[d].type = source[d].type
          BY <2>2, <3>1 DEF Progress, LabelInv
        <4>2. source[d].label.kind = "local"
          BY <1>3, <3>1 DEF LocalLabel
        <4> QED BY <1>3, <1>4, <2>2, <2>4, <3>1, <4>1, <4>2
      <3>2. CASE d # i
        <4>1. (Seen(d)' <=> Seen(d)) /\ insts'[d] = insts[d]
          BY <1>2, <2>2, <2>4, <3>2
        <4> QED BY <1>9, <4>1 DEF Progress, LabelInv
      <3> QED BY <3>1, <3>2
    <2>7. AnonInv'
      <3>1. AnonInv
        BY DEF Progress
      <3>2. \A d \in Lines : Seen(d) => Seen(d)'
        BY <1>2, <2>4
      <3> QED BY <1>9, <2>4, <3>1, <3>2 DEF AnonInv
    <2>8. AliasInv'
      <3> DEFINE Entry(a) == /\ a.scoped_name = Scoped(a.scope_id, a.local_name)
                             /\ Fits(a.scope_id, a.local_name)
                             /\ <<a.scope_id, a.local_name>> \in LocalUses
                             /\ \E d \in Lines : /\ d < i' /\ source[d].label = Local(a.local_name)
                                                 /\ Scope(d) = a.scope_id
      <3>1. i' = i + 1 /\ i < i'
        BY <1>2, <1>9 DEF NextDefinition
      <3>2. /\ \A m \in DOMAIN local_aliases' :
                 (m \in DOMAIN local_aliases /\ local_aliases'[m] = local_aliases[m])
                 \/ local_aliases'[m] = Alias(scope_id, b)
            /\ \A m \in DOMAIN local_aliases :
                 m \in DOMAIN local_aliases' /\ local_aliases'[m] = local_aliases[m]
            /\ \E m \in DOMAIN local_aliases' :
                 /\ local_aliases'[m].scope_id = scope_id
                 /\ local_aliases'[m].local_name = b
            /\ \A m, n \in DOMAIN local_aliases' :
                 /\ local_aliases'[m].scope_id = local_aliases'[n].scope_id
                 /\ local_aliases'[m].local_name = local_aliases'[n].local_name
                 => m = n
            /\ Fits(scope_id, b)
        BY <1>4, <1>9, AliasAdded
      <3>3. ASSUME NEW m \in DOMAIN local_aliases PROVE Entry(local_aliases[m])
        <4>1. /\ local_aliases[m].scoped_name =
                    Scoped(local_aliases[m].scope_id, local_aliases[m].local_name)
              /\ Fits(local_aliases[m].scope_id, local_aliases[m].local_name)
              /\ <<local_aliases[m].scope_id, local_aliases[m].local_name>> \in LocalUses
          BY DEF Progress, AliasInv
        <4>2. PICK d \in Lines : /\ d < i /\ source[d].label = Local(local_aliases[m].local_name)
                                 /\ Scope(d) = local_aliases[m].scope_id
          BY <1>2 DEF Progress, AliasInv
        <4>3. d < i'
          BY <1>2, <3>1, <4>2
        <4> QED BY <4>1, <4>2, <4>3
      <3>4. Entry(Alias(scope_id, b))
        <4>1. /\ Alias(scope_id, b).scope_id = scope_id /\ Alias(scope_id, b).local_name = b
              /\ Alias(scope_id, b).scoped_name = Scoped(scope_id, b)
          BY DEF Alias
        <4> QED BY <1>2, <1>3, <1>4, <1>5, <3>1, <3>2, <4>1
      <3>5. \A m \in DOMAIN local_aliases' : Entry(local_aliases'[m])
        <4> HIDE DEF Entry
        <4> QED BY <3>2, <3>3, <3>4
      <3>6. ASSUME NEW d \in Lines, Seen(d)', LocalLabel(d)
            PROVE  \E m \in DOMAIN local_aliases' :
                      /\ local_aliases'[m].scope_id = Scope(d)
                      /\ local_aliases'[m].local_name = source[d].label.base
        <4>1. CASE d = i
          BY <1>3, <1>4, <3>2, <4>1
        <4>2. CASE d # i
          <5>1. Seen(d)
            BY <1>2, <2>4, <3>6, <4>2
          <5>2. Aliased(Scope(d), source[d].label.base)
            BY <3>6, <5>1 DEF Progress, AliasInv
          <5> QED BY <3>2, <5>2 DEF Aliased
        <4> QED BY <4>1, <4>2
      <3>7. ASSUME NEW d \in Lines, Seen(d), LocalLabel(d), source[d].label = source[i].label,
                   Scope(d) = Scope(i)
            PROVE  FALSE
        <4>1. Aliased(scope_id, b)
          BY <1>3, <1>4, <3>7 DEF Progress, AliasInv
        <4> QED BY <1>9, <4>1 DEF Aliased, HasAlias, Typed
      <3>8. ASSUME NEW d \in Lines, NEW e \in Lines, Seen(d)', Seen(e)', LocalLabel(d),
                   source[d].label = source[e].label, Scope(d) = Scope(e)
            PROVE  d = e
        <4>1. LocalLabel(e)
          BY <3>8 DEF LocalLabel
        <4>2. (Seen(d) \/ d = i) /\ (Seen(e) \/ e = i)
          BY <1>2, <2>4, <3>8
        <4>3. CASE Seen(d) /\ Seen(e)
          BY <3>8, <4>3 DEF Progress, AliasInv
        <4>4. CASE Seen(d) /\ e = i
          BY <3>7, <3>8, <4>4
        <4>5. CASE Seen(e) /\ d = i
          BY <3>7, <3>8, <4>1, <4>5
        <4> QED BY <4>2, <4>3, <4>4, <4>5
      <3>9. AliasInv'
        <4>1. \A m \in DOMAIN local_aliases' :
                LET a == local_aliases'[m]
                IN  /\ a.scoped_name = Scoped(a.scope_id, a.local_name)
                    /\ Fits(a.scope_id, a.local_name)
                    /\ <<a.scope_id, a.local_name>> \in LocalUses'
                    /\ \E d \in Lines' : /\ d < i' /\ source'[d].label = Local(a.local_name)
                                         /\ Scope(d)' = a.scope_id
          BY <2>4, <3>5
        <4>2. \A d \in Lines' : Seen(d)' /\ LocalLabel(d)' => Aliased(Scope(d), source[d].label.base)'
          BY <2>4, <3>6 DEF Aliased
        <4>3. \A d, e \in Lines' :
                /\ Seen(d)' /\ Seen(e)' /\ LocalLabel(d)'
                /\ source'[d].label = source'[e].label /\ Scope(d)' = Scope(e)'
                => d = e
          BY <2>4, <3>8
        <4> QED BY <3>2, <4>1, <4>2, <4>3 DEF AliasInv
      <3> QED BY <3>9
    <2>9. Progress' /\ pc' # "failed"
      BY <2>4, <2>5, <2>6, <2>7, <2>8 DEF Progress
    <2> QED BY <2>9, ProgressOk
  <1> QED BY <1>6, <1>7, <1>8, <1>9

-----------------------------------------------------------------------------
(* Pass 2, and the step into it.                                           *)

LEMMA LabelsFixed ==
    ASSUME Progress, \A d \in Lines : Seen(d), pc' # "definitions",
           UNCHANGED <<source, anon_defs>>,
           \A d \in Lines : insts'[d].label = insts[d].label /\ insts'[d].type = insts[d].type
    PROVE  LabelInv' /\ AnonInv'
  <1>1. \A d : Seen(d)'
    BY DEF Seen
  <1>2. /\ Lines' = Lines /\ \A k : Scope(k)' = Scope(k)
        /\ \A k : LocalLabel(k)' <=> LocalLabel(k)
    BY SourceFixed
  <1>3. LabelInv'
    <2> SUFFICES ASSUME NEW d \in Lines
                 PROVE  /\ insts'[d].type = source[d].type
                        /\ source[d].label.kind \notin {"local", "@@"} =>
                              insts'[d].label = source[d].label
                        /\ LocalLabel(d) =>
                              insts'[d].label = Scoped(Scope(d), source[d].label.base)
                        /\ source[d].label.kind = "@@" =>
                              \E m \in DOMAIN anon_defs :
                                  /\ anon_defs[m].instruction_index = d
                                  /\ insts'[d].label = Anonymous(m - 1)
      BY <1>1, <1>2 DEF LabelInv
    <2>1. Seen(d) /\ insts'[d].label = insts[d].label /\ insts'[d].type = insts[d].type
      OBVIOUS
    <2> QED BY <2>1 DEF Progress, LabelInv
  <1>4. AnonInv'
    <2>1. AnonInv
      BY DEF Progress
    <2> QED BY <1>2, <2>1 DEF AnonInv, Seen
  <1> QED BY <1>3, <1>4

LEMMA AliasesFixed ==
    ASSUME Progress, \A d \in Lines : Seen(d), pc' # "definitions",
           UNCHANGED <<source, local_aliases>>
    PROVE  AliasInv'
  <1>1. \A d : Seen(d)'
    BY DEF Seen
  <1>2. /\ Lines' = Lines /\ LocalUses' = LocalUses /\ \A k : Scope(k)' = Scope(k)
        /\ \A k : LocalLabel(k)' <=> LocalLabel(k)
    BY SourceFixed
  <1>3. \A m \in DOMAIN local_aliases :
          LET a == local_aliases[m]
          IN  /\ a.scoped_name = Scoped(a.scope_id, a.local_name)
              /\ Fits(a.scope_id, a.local_name)
              /\ <<a.scope_id, a.local_name>> \in LocalUses
    BY DEF Progress, AliasInv
  <1>4. \A m, n \in DOMAIN local_aliases :
          /\ local_aliases[m].scope_id = local_aliases[n].scope_id
          /\ local_aliases[m].local_name = local_aliases[n].local_name
          => m = n
    BY DEF Progress, AliasInv
  <1>5. \A d \in Lines : LocalLabel(d) => Aliased(Scope(d), source[d].label.base)
    BY DEF Progress, AliasInv
  <1>6. \A d \in Lines' : LocalLabel(d)' => Aliased(Scope(d), source[d].label.base)'
    BY <1>2, <1>5 DEF Aliased
  <1>7. \A d, e \in Lines :
          LocalLabel(d) /\ source[d].label = source[e].label /\ Scope(d) = Scope(e) => d = e
    BY DEF Progress, AliasInv
  <1> QED BY <1>1, <1>2, <1>3, <1>4, <1>6, <1>7 DEF AliasInv

(* Pass 2 meets a local name for the first time.                           *)
LEMMA AliasesGrow ==
    ASSUME Typed, Progress, pc = "references", pc' = "references", UNCHANGED source,
           NEW b \in BaseNames, <<scope_id, b>> \in LocalUses, ~HasAlias(scope_id, b),
           CanCreate(b), CreateAlias(b)
    PROVE  AliasInv'
  <1>1. \A d : Seen(d)' /\ Seen(d)
    BY DEF Seen
  <1>2. /\ Lines' = Lines /\ LocalUses' = LocalUses /\ \A k : Scope(k)' = Scope(k)
        /\ \A k : LocalLabel(k)' <=> LocalLabel(k)
    BY SourceFixed
  <1>3. /\ \A m \in DOMAIN local_aliases' :
                 (m \in DOMAIN local_aliases /\ local_aliases'[m] = local_aliases[m])
                 \/ local_aliases'[m] = Alias(scope_id, b)
        /\ \A m \in DOMAIN local_aliases :
                 m \in DOMAIN local_aliases' /\ local_aliases'[m] = local_aliases[m]
        /\ \A m, n \in DOMAIN local_aliases' :
                 /\ local_aliases'[m].scope_id = local_aliases'[n].scope_id
                 /\ local_aliases'[m].local_name = local_aliases'[n].local_name
                 => m = n
        /\ Fits(scope_id, b)
    BY AliasAdded
  <1> DEFINE Entry(a) == /\ a.scoped_name = Scoped(a.scope_id, a.local_name)
                         /\ Fits(a.scope_id, a.local_name)
                         /\ <<a.scope_id, a.local_name>> \in LocalUses
  <1>4. \A m \in DOMAIN local_aliases : Entry(local_aliases[m])
    BY DEF Progress, AliasInv
  <1>5. Entry(Alias(scope_id, b))
    <2>1. /\ Alias(scope_id, b).scope_id = scope_id /\ Alias(scope_id, b).local_name = b
          /\ Alias(scope_id, b).scoped_name = Scoped(scope_id, b)
      BY DEF Alias
    <2> QED BY <1>3, <2>1
  <1>6. \A m \in DOMAIN local_aliases' : Entry(local_aliases'[m])
    <2> HIDE DEF Entry
    <2> QED BY <1>3, <1>4, <1>5
  <1>7. \A d \in Lines : LocalLabel(d) => Aliased(Scope(d), source[d].label.base)
    BY <1>1 DEF Progress, AliasInv
  <1>8. \A d \in Lines' : LocalLabel(d)' => Aliased(Scope(d), source[d].label.base)'
    BY <1>2, <1>3, <1>7 DEF Aliased
  <1>9. \A d, e \in Lines :
          LocalLabel(d) /\ source[d].label = source[e].label /\ Scope(d) = Scope(e) => d = e
    BY <1>1 DEF Progress, AliasInv
  <1> QED BY <1>1, <1>2, <1>3, <1>6, <1>8, <1>9 DEF AliasInv

(* The operand at hand in pass 2.                                          *)
LEMMA ReferenceOperand ==
    ASSUME Typed, Progress, AtReference
    PROVE  /\ pc = "references" /\ i \in Lines /\ i \in Nat /\ op \in Nat \ {0}
           /\ op \in 1 .. Len(source[i].refs) /\ op \in 1 .. Len(insts[i].refs)
           /\ Reference = source[i].refs[op] /\ Reference \in Names
           /\ Reference.base \in BaseNames
           /\ scope_id = Scope(i)
           /\ \A d \in Lines : Seen(d)
  <1>1. /\ pc = "references" /\ i \in Lines /\ op \in 1 .. Len(insts[i].refs) /\ op > 0
        /\ Reference \in Names /\ Reference.base \in BaseNames
    BY AtOperand DEF AtReference
  <1>2. i \in Nat /\ op \in Nat \ {0}
    BY <1>1 DEF Typed
  <1>3. Len(insts[i].refs) = Len(source[i].refs)
    BY <1>1 DEF Progress, RefInv
  <1>4. ~Read(i, op)
    BY <1>1, <1>2 DEF Read
  <1>5. Reference = source[i].refs[op]
    BY <1>1, <1>3, <1>4 DEF Progress, RefInv, Reference
  <1>6. scope_id = Scope(i)
    BY <1>1, <1>2 DEF Progress, ScopeInv
  <1>7. \A d \in Lines : Seen(d)
    BY <1>1 DEF Seen
  <1> QED BY <1>1, <1>2, <1>3, <1>5, <1>6, <1>7

(* What name x makes of operand r of line k.                               *)
Resolves(k, r, x) ==
    LET n == source[k].refs[r]
    IN  /\ n.kind = "local" => /\ x = Scoped(Scope(k), n.base)
                               /\ Aliased(Scope(k), n.base)'
        /\ n = Forward => \E m \in DOMAIN anon_defs : x = Anonymous(m - 1) /\ NearestBelow(k, m)
        /\ n = Backward => \E m \in DOMAIN anon_defs : x = Anonymous(m - 1) /\ NearestAbove(k, m)

(* A step of pass 2 past an operand.                                       *)
LEMMA ReferenceStep ==
    ASSUME Typed, Progress, AtReference,
           UNCHANGED <<source, pc, i, scope_id, anon_defs>>, op' = op + 1,
           \A m \in DOMAIN local_aliases :
              m \in DOMAIN local_aliases' /\ local_aliases'[m] = local_aliases[m],
           \A k \in Lines :
              /\ Len(insts'[k].refs) = Len(insts[k].refs)
              /\ \A r \in 1 .. Len(insts[k].refs) :
                    k # i \/ r # op => insts'[k].refs[r] = insts[k].refs[r],
           \A k, r : k = i /\ r = op => Resolves(k, r, insts'[k].refs[r])
    PROVE  ScopeInv' /\ RefInv'
  <1>1. /\ pc = "references" /\ i \in Lines /\ i \in Nat /\ op \in Nat \ {0}
        /\ scope_id = Scope(i)
    BY ReferenceOperand
  <1>2. Lines' = Lines /\ \A k : Scope(k)' = Scope(k)
    BY SourceFixed
  <1>3. ScopeInv'
    <2>1. op' > 0 /\ i <= Len(source)
      BY <1>1, LineTyped
    <2>2. Scope(i)' = Scope(i)
      BY DEF Scope, NonLocal
    <2>3. i <= Len(source) + 1
      BY DEF Progress, ScopeInv
    <2> QED BY <1>1, <2>1, <2>2, <2>3 DEF ScopeInv
  <1>4. RefInv'
    <2> SUFFICES ASSUME NEW k \in Lines
                 PROVE  /\ Len(insts'[k].refs) = Len(source[k].refs)
                        /\ \A r \in 1 .. Len(source[k].refs) :
                              IF Read(k, r)' THEN Rewritten(k, r)'
                              ELSE insts'[k].refs[r] = source[k].refs[r]
      BY <1>2 DEF RefInv
    <2>1. Len(insts[k].refs) = Len(source[k].refs) /\ Len(insts'[k].refs) = Len(source[k].refs)
      BY DEF Progress, RefInv
    <2>2. ASSUME NEW r \in 1 .. Len(source[k].refs), k # i \/ r # op
          PROVE  IF Read(k, r)' THEN Rewritten(k, r)'
                 ELSE insts'[k].refs[r] = source[k].refs[r]
      <3>1. insts'[k].refs[r] = insts[k].refs[r]
        BY <2>1, <2>2
      <3>2. r \in Nat /\ k \in Nat
        BY <2>1, LineTyped
      <3>3. Read(k, r)' <=> Read(k, r)
        BY <1>1, <2>2, <3>2 DEF Read
      <3>4. CASE Read(k, r)
        <4>1. Rewritten(k, r)
          BY <3>4 DEF Progress, RefInv
        <4>2. \A s, b : Aliased(s, b) => Aliased(s, b)'
          BY DEF Aliased
        <4>3. \A m : /\ NearestBelow(k, m)' <=> NearestBelow(k, m)
                     /\ NearestAbove(k, m)' <=> NearestAbove(k, m)
          BY DEF NearestBelow, NearestAbove
        <4>4. source[k].refs[r].kind = "local" =>
                 Aliased(Scope(k), source[k].refs[r].base)'
          <5>1. source[k].refs[r].kind = "local" => Aliased(Scope(k), source[k].refs[r].base)
            BY <4>1 DEF Rewritten
          <5> QED BY <1>2, <5>1 DEF Aliased
        <4>5. Rewritten(k, r)'
          BY <1>2, <3>1, <4>1, <4>3, <4>4 DEF Rewritten
        <4> QED BY <3>3, <3>4, <4>5
      <3>5. CASE ~Read(k, r)
        BY <3>1, <3>3, <3>5 DEF Progress, RefInv
      <3> QED BY <3>4, <3>5
    <2>3. ASSUME NEW r \in 1 .. Len(source[k].refs), k = i, r = op
          PROVE  Read(k, r)' /\ Rewritten(k, r)'
      <3>1. Resolves(k, r, insts'[k].refs[r])
        BY <2>3
      <3>2. \A m : /\ NearestBelow(k, m)' <=> NearestBelow(k, m)
                   /\ NearestAbove(k, m)' <=> NearestAbove(k, m)
        BY DEF NearestBelow, NearestAbove
      <3>3. Rewritten(k, r)'
        BY <1>2, <3>1, <3>2 DEF Resolves, Rewritten
      <3>4. Read(k, r)'
        BY <1>1, <2>3 DEF Read
      <3> QED BY <3>3, <3>4
    <2> QED BY <2>1, <2>2, <2>3
  <1> QED BY <1>3, <1>4

(* A step of pass 2 that rewrites an operand.                              *)
LEMMA RewriteOk ==
    ASSUME Typed, Progress, AtReference, NEW x \in Names, Rewrite(x), AliasInv',
           \A m \in DOMAIN local_aliases :
              m \in DOMAIN local_aliases' /\ local_aliases'[m] = local_aliases[m],
           \A k, r : k = i /\ r = op => Resolves(k, r, x)
    PROVE  Ok'
  <1>1. /\ UNCHANGED <<source, pc, i, scope_id, anon_defs>> /\ op' = op + 1
        /\ insts' = WithRef(i, op, x)
    BY DEF Rewrite, WithRef
  <1>2. /\ pc = "references" /\ i \in Lines /\ op \in 1 .. Len(insts[i].refs)
        /\ \A d \in Lines : Seen(d)
    BY ReferenceOperand
  <1>3. /\ \A d \in Lines : d # i => insts'[d] = insts[d]
        /\ insts'[i].label = insts[i].label /\ insts'[i].type = insts[i].type
        /\ Len(insts'[i].refs) = Len(insts[i].refs) /\ insts'[i].refs[op] = x
        /\ \A q \in 1 .. Len(insts[i].refs) : q # op => insts'[i].refs[q] = insts[i].refs[q]
    BY <1>1, <1>2, SetRef
  <1>4. \A k \in Lines :
              /\ Len(insts'[k].refs) = Len(insts[k].refs)
              /\ \A r \in 1 .. Len(insts[k].refs) :
                    k # i \/ r # op => insts'[k].refs[r] = insts[k].refs[r]
    BY <1>3
  <1>5. \A k, r : k = i /\ r = op => Resolves(k, r, insts'[k].refs[r])
    BY <1>3
  <1>6. ScopeInv' /\ RefInv'
    BY <1>1, <1>4, <1>5, ReferenceStep
  <1>7. \A d \in Lines : insts'[d].label = insts[d].label /\ insts'[d].type = insts[d].type
    BY <1>3
  <1>8. LabelInv' /\ AnonInv'
    BY <1>1, <1>2, <1>7, LabelsFixed
  <1>9. Progress' /\ pc' # "failed"
    BY <1>1, <1>2, <1>6, <1>8 DEF Progress
  <1> QED BY <1>9, ProgressOk

LEMMA KindsDiffer ==
    /\ Forward.kind = "@F" /\ Backward.kind = "@B" /\ Forward # Backward
  BY DEF Forward, Backward, NameOf

LEMMA NormalizeLocalOk ==
    ASSUME Typed, Progress, NormalizeLocal
    PROVE  Ok'
  <1>0. PICK b : b = Reference.base
    OBVIOUS
  <1>1. AtReference /\ Reference.kind = "local"
    BY DEF NormalizeLocal, is_local_label_name
  <1>2. /\ pc = "references" /\ i \in Lines /\ op \in 1 .. Len(source[i].refs)
        /\ Reference = source[i].refs[op] /\ b \in BaseNames /\ scope_id = Scope(i)
        /\ \A d \in Lines : Seen(d)
    BY <1>0, <1>1, ReferenceOperand
  <1>3. source[i].refs[op].kind = "local" /\ source[i].refs[op].base = b
    BY <1>0, <1>1, <1>2
  <1>4. \/ /\ HasAlias(scope_id, b) /\ Rewrite(lookup_local_alias(scope_id, b))
           /\ UNCHANGED local_aliases
        \/ ~ HasAlias(scope_id, b) /\ CreateFails(b)
        \/ ~ HasAlias(scope_id, b) /\ CanCreate(b) /\ CreateAlias(b) /\ Rewrite(Scoped(scope_id, b))
    BY <1>0 DEF NormalizeLocal
  <1>5. <<scope_id, b>> \in LocalUses
    BY <1>2, <1>3, OperandUse
  <1>6. Scoped(scope_id, b) \in Names
    BY <1>2, MadeTyped DEF Typed
  <1>7. source[i].refs[op] # Forward /\ source[i].refs[op] # Backward
    BY <1>3, KindsDiffer
  <1>8. ASSUME UNCHANGED source,
               \E m \in DOMAIN local_aliases' : /\ local_aliases'[m].scope_id = scope_id
                                                /\ local_aliases'[m].local_name = b
        PROVE  \A k, r : k = i /\ r = op => Resolves(k, r, Scoped(scope_id, b))
    <2> SUFFICES ASSUME NEW k, NEW r, k = i, r = op
                 PROVE  Resolves(k, r, Scoped(scope_id, b))
      OBVIOUS
    <2>1. Scope(k) = scope_id /\ Scope(k)' = Scope(k) /\ source'[k].refs[r].base = b
      BY <1>2, <1>3, <1>8, SourceFixed
    <2>2. source[k].refs[r].base = b /\ source[k].refs[r] # Forward /\ source[k].refs[r] # Backward
      BY <1>3, <1>7
    <2>3. Aliased(Scope(k), source[k].refs[r].base)'
      BY <1>8, <2>1 DEF Aliased
    <2> QED BY <2>1, <2>2, <2>3 DEF Resolves
  <1>9. CASE /\ HasAlias(scope_id, b) /\ Rewrite(lookup_local_alias(scope_id, b))
             /\ UNCHANGED local_aliases
    <2>1. PICK m \in DOMAIN local_aliases :
              /\ local_aliases[m].scope_id = scope_id /\ local_aliases[m].local_name = b
              /\ lookup_local_alias(scope_id, b) = local_aliases[m].scoped_name
      BY <1>9, LookupFinds
    <2>2. local_aliases[m].scoped_name = Scoped(scope_id, b)
      BY <2>1 DEF Progress, AliasInv
    <2>3. Rewrite(Scoped(scope_id, b))
      BY <1>9, <2>1, <2>2
    <2>4. UNCHANGED <<source, pc>>
      BY <2>3 DEF Rewrite
    <2>5. AliasInv'
      BY <1>2, <1>9, <2>4, AliasesFixed
    <2>6. \A k, r : k = i /\ r = op => Resolves(k, r, Scoped(scope_id, b))
      BY <1>8, <1>9, <2>1, <2>4
    <2> QED BY <1>1, <1>6, <1>9, <2>3, <2>5, <2>6, RewriteOk
  <1>10. CASE ~ HasAlias(scope_id, b) /\ CreateFails(b)
    BY <1>5, <1>10, CreateFailsOk
  <1>11. CASE /\ ~ HasAlias(scope_id, b) /\ CanCreate(b) /\ CreateAlias(b)
              /\ Rewrite(Scoped(scope_id, b))
    <2>1. UNCHANGED <<source, pc>>
      BY <1>11 DEF Rewrite
    <2>2. AliasInv'
      BY <1>2, <1>5, <1>11, <2>1, AliasesGrow
    <2>3. /\ \A m \in DOMAIN local_aliases :
                m \in DOMAIN local_aliases' /\ local_aliases'[m] = local_aliases[m]
          /\ \E m \in DOMAIN local_aliases' :
                /\ local_aliases'[m].scope_id = scope_id
                /\ local_aliases'[m].local_name = b
      BY <1>2, <1>11, AliasAdded
    <2>4. \A k, r : k = i /\ r = op => Resolves(k, r, Scoped(scope_id, b))
      BY <1>8, <2>1, <2>3
    <2> QED BY <1>1, <1>6, <1>11, <2>2, <2>3, <2>4, RewriteOk
  <1> QED BY <1>4, <1>9, <1>10, <1>11

(* The references that pass 2 finds nothing for.                           *)
LEMMA NothingBelow ==
    ASSUME Typed, Progress, pc = "references", Unprefixed, Following = {}, i \in Lines
    PROVE  AnonymousLines(i + 1, Len(source)) = {}
  <1> SUFFICES ASSUME NEW e \in AnonymousLines(i + 1, Len(source)) PROVE FALSE
    OBVIOUS
  <1>1. e \in Nat /\ e > i /\ e \in Lines /\ source[e].label = AnonymousDef
    BY DEF AnonymousLines, Lines, Typed
  <1>2. PICK n \in DOMAIN anon_defs : anon_defs[n].instruction_index = e
    BY <1>1, AnonymousOrder
  <1>3. n \in Following
    BY <1>1, <1>2, ListTyped DEF Following
  <1> QED BY <1>3

LEMMA NothingAbove ==
    ASSUME Typed, Progress, pc = "references", Unprefixed, Preceding = {}, i \in Lines
    PROVE  AnonymousLines(1, i - 1) = {}
  <1> SUFFICES ASSUME NEW e \in AnonymousLines(1, i - 1) PROVE FALSE
    OBVIOUS
  <1>1. e \in Nat /\ e < i /\ e \in Lines /\ source[e].label = AnonymousDef
    BY DEF AnonymousLines, Lines, Typed
  <1>2. PICK n \in DOMAIN anon_defs : anon_defs[n].instruction_index = e
    BY <1>1, AnonymousOrder
  <1>3. n \in Preceding
    BY <1>1, <1>2, ListTyped DEF Preceding
  <1> QED BY <1>3

LEMMA NormalizeForwardOk ==
    ASSUME Typed, Progress, Unprefixed, NormalizeForward
    PROVE  Ok'
  <1>1. AtReference /\ Reference = Forward
    BY DEF NormalizeForward
  <1>2. /\ pc = "references" /\ i \in Lines /\ op \in 1 .. Len(source[i].refs)
        /\ source[i].refs[op] = Forward /\ \A d \in Lines : Seen(d)
    BY <1>1, ReferenceOperand
  <1>3. CASE Following = {} /\ Fail("forward")
    <2>1. AnonymousLines(i + 1, Len(source)) = {}
      BY <1>2, <1>3, NothingBelow
    <2>2. DanglingForward
      BY <1>2, <2>1 DEF DanglingForward
    <2>3. Cause("forward")
      BY <2>2 DEF Cause
    <2> QED BY <1>3, <2>3, FailOk DEF Causes
  <1>4. CASE /\ Following # {} /\ Rewrite(anon_defs[Min(Following)].scoped_name)
             /\ UNCHANGED local_aliases
    <2>1. PICK m : m = Min(Following)
      OBVIOUS
    <2>2. m \in DOMAIN anon_defs /\ NearestBelow(i, m)
      BY <1>4, <2>1, NearestPicked
    <2>3. anon_defs[m].scoped_name = Anonymous(m - 1) /\ anon_defs[m].scoped_name \in Names
      BY <2>2, EntryTyped DEF Progress, AnonInv
    <2>4. Rewrite(Anonymous(m - 1)) /\ Anonymous(m - 1) \in Names
      BY <1>4, <2>1, <2>3
    <2>5. UNCHANGED <<source, pc>>
      BY <2>4 DEF Rewrite
    <2>6. AliasInv'
      BY <1>2, <1>4, <2>5, AliasesFixed
    <2>7. \A k, r : k = i /\ r = op => Resolves(k, r, Anonymous(m - 1))
      BY <1>2, <2>2, KindsDiffer DEF Resolves
    <2> QED BY <1>1, <1>4, <2>4, <2>6, <2>7, RewriteOk
  <1> QED BY <1>3, <1>4 DEF NormalizeForward

LEMMA NormalizeBackwardOk ==
    ASSUME Typed, Progress, Unprefixed, NormalizeBackward
    PROVE  Ok'
  <1>1. AtReference /\ Reference = Backward
    BY DEF NormalizeBackward
  <1>2. /\ pc = "references" /\ i \in Lines /\ op \in 1 .. Len(source[i].refs)
        /\ source[i].refs[op] = Backward /\ \A d \in Lines : Seen(d)
    BY <1>1, ReferenceOperand
  <1>3. CASE Preceding = {} /\ Fail("backward")
    <2>1. AnonymousLines(1, i - 1) = {}
      BY <1>2, <1>3, NothingAbove
    <2>2. DanglingBackward
      BY <1>2, <2>1 DEF DanglingBackward
    <2>3. Cause("backward")
      BY <2>2 DEF Cause
    <2> QED BY <1>3, <2>3, FailOk DEF Causes
  <1>4. CASE /\ Preceding # {} /\ Rewrite(anon_defs[Max(Preceding)].scoped_name)
             /\ UNCHANGED local_aliases
    <2>1. PICK m : m = Max(Preceding)
      OBVIOUS
    <2>2. m \in DOMAIN anon_defs /\ NearestAbove(i, m)
      BY <1>4, <2>1, NearestPicked
    <2>3. anon_defs[m].scoped_name = Anonymous(m - 1) /\ anon_defs[m].scoped_name \in Names
      BY <2>2, EntryTyped DEF Progress, AnonInv
    <2>4. Rewrite(Anonymous(m - 1)) /\ Anonymous(m - 1) \in Names
      BY <1>4, <2>1, <2>3
    <2>5. UNCHANGED <<source, pc>>
      BY <2>4 DEF Rewrite
    <2>6. AliasInv'
      BY <1>2, <1>4, <2>5, AliasesFixed
    <2>7. \A k, r : k = i /\ r = op => Resolves(k, r, Anonymous(m - 1))
      BY <1>2, <2>2, KindsDiffer DEF Resolves
    <2> QED BY <1>1, <1>4, <2>4, <2>6, <2>7, RewriteOk
  <1> QED BY <1>3, <1>4 DEF NormalizeBackward

LEMMA KeepReferenceOk ==
    ASSUME Typed, Progress, KeepReference
    PROVE  Ok'
  <1>1. /\ AtReference /\ op' = op + 1 /\ Reference.kind # "local"
        /\ Reference # Forward /\ Reference # Backward
        /\ UNCHANGED <<source, insts, pc, i, scope_id, local_aliases, anon_defs>>
    BY DEF KeepReference, is_local_label_name
  <1>2. /\ pc = "references" /\ i \in Lines /\ Reference = source[i].refs[op]
        /\ \A d \in Lines : Seen(d)
    BY <1>1, ReferenceOperand
  <1>3. \A k, r : k = i /\ r = op => Resolves(k, r, insts'[k].refs[r])
    BY <1>1, <1>2 DEF Resolves
  <1>4. ScopeInv' /\ RefInv'
    BY <1>1, <1>3, ReferenceStep
  <1>5. LabelInv' /\ AnonInv' /\ AliasInv'
    BY <1>1, <1>2, LabelsFixed, AliasesFixed
  <1>6. Progress' /\ pc' # "failed"
    BY <1>1, <1>2, <1>4, <1>5 DEF Progress
  <1> QED BY <1>6, ProgressOk

(* A step that reads and rewrites no operand, and what it takes for read.  *)
LEMMA RefsFixed ==
    ASSUME Progress, UNCHANGED <<source, insts, local_aliases, anon_defs>>,
           \A k \in Lines : \A r \in 1 .. Len(source[k].refs) : Read(k, r)' <=> Read(k, r)
    PROVE  RefInv'
  <1>1. Lines' = Lines /\ \A k : Scope(k)' = Scope(k)
    BY SourceFixed
  <1>2. \A k, m : /\ NearestBelow(k, m)' <=> NearestBelow(k, m)
                  /\ NearestAbove(k, m)' <=> NearestAbove(k, m)
    BY DEF NearestBelow, NearestAbove
  <1>3. \A k, r : Rewritten(k, r)' <=> Rewritten(k, r)
    BY <1>1, <1>2 DEF Rewritten, Aliased
  <1> QED BY <1>1, <1>3 DEF Progress, RefInv

LEMMA StartReferencesOk ==
    ASSUME Typed, Progress, StartReferences
    PROVE  Ok'
  <1>1. /\ pc = "definitions" /\ i > Len(source) /\ pc' = "references" /\ i' = 1 /\ op' = 0
        /\ scope_id' = 0 /\ UNCHANGED <<source, insts, local_aliases, anon_defs>>
    BY DEF StartReferences, Typed
  <1>2. \A d \in Lines : Seen(d) /\ d \in Nat /\ d >= 1
    BY <1>1 DEF Seen, Lines, Typed
  <1>3. LabelInv' /\ AnonInv' /\ AliasInv'
    BY <1>1, <1>2, LabelsFixed, AliasesFixed
  <1>4. ScopeInv'
    <2>1. Scope(i - 1)' = 0
      <3>1. i' - 1 = 0
        BY <1>1
      <3>2. Scope(i - 1)' = Scope(0)
        BY <1>1, <3>1 DEF Scope, NonLocal
      <3> QED BY <3>2, ScopeStart
    <2>2. i' <= Len(source') + 1
      BY <1>1 DEF Typed
    <2> QED BY <1>1, <2>1, <2>2 DEF ScopeInv
  <1>5. \A k \in Lines : \A r \in 1 .. Len(source[k].refs) : Read(k, r)' <=> Read(k, r)
    <2> SUFFICES ASSUME NEW k \in Lines, NEW r \in 1 .. Len(source[k].refs)
                 PROVE  ~Read(k, r)' /\ ~Read(k, r)
      OBVIOUS
    <2>1. r > 0 /\ r \in Int
      OBVIOUS
    <2> QED BY <1>1, <1>2, <2>1 DEF Read
  <1>6. RefInv'
    BY <1>1, <1>5, RefsFixed
  <1>7. Progress' /\ pc' # "failed"
    BY <1>1, <1>3, <1>4, <1>6 DEF Progress
  <1> QED BY <1>7, ProgressOk

(* The labels that open a scope in pass 2 are those that did in pass 1,    *)
(* though it sees other names.                                             *)
LEMMA SameScopes ==
    ASSUME Typed, Progress, pc = "references", Unprefixed, NEW d \in Lines
    PROVE  OpensScopeHere(insts[d]) <=> NonLocal(source[d])
  <1>1. insts[d].type = source[d].type
    BY DEF Progress, LabelInv
  <1>2. insts[d].label \in Names /\ source[d].label \in Names
    BY LineTyped
  <1>3. /\ insts[d].label.kind = "none" <=> insts[d].label = NoLabel
        /\ source[d].label.kind = "@@" <=> source[d].label = AnonymousDef
    BY <1>2, NameShape
  <1>4. /\ insts[d].label.kind = "__loc_" <=> LocalLabel(d)
        /\ insts[d].label.kind = "__anon_" <=> source[d].label = AnonymousDef
        /\ ~LocalLabel(d) /\ source[d].label # AnonymousDef =>
              insts[d].label = source[d].label
    BY FinalLabel
  <1>5. CASE LocalLabel(d)
    BY <1>4, <1>5 DEF OpensScopeHere, NonLocal, LocalLabel
  <1>6. CASE source[d].label = AnonymousDef
    BY <1>3, <1>4, <1>6 DEF OpensScopeHere, NonLocal
  <1>7. CASE ~LocalLabel(d) /\ source[d].label # AnonymousDef
    BY <1>1, <1>3, <1>4, <1>7 DEF OpensScopeHere, NonLocal, LocalLabel
  <1> QED BY <1>5, <1>6, <1>7

LEMMA EnterInstOk ==
    ASSUME Typed, Progress, Unprefixed, EnterInst
    PROVE  Ok'
  <1>1. /\ pc = "references" /\ i <= Len(insts) /\ op = 0 /\ op' = 1
        /\ scope_id' = IF OpensScopeHere(insts[i]) THEN scope_id + 1 ELSE scope_id
        /\ UNCHANGED <<source, insts, pc, i, local_aliases, anon_defs>>
    BY DEF EnterInst
  <1>2. i \in Lines /\ i \in Nat \ {0} /\ i <= Len(source)
    BY <1>1, AtLine, LineTyped
  <1>3. \A d \in Lines : Seen(d)
    BY <1>1 DEF Seen
  <1>4. LabelInv' /\ AnonInv' /\ AliasInv'
    BY <1>1, <1>3, LabelsFixed, AliasesFixed
  <1>5. ScopeInv'
    <2>1. scope_id = Scope(i - 1)
      BY <1>1 DEF Progress, ScopeInv
    <2>2. OpensScopeHere(insts[i]) <=> NonLocal(source[i])
      BY <1>1, <1>2, SameScopes
    <2>3. scope_id' = Scope(i)
      BY <1>1, <1>2, <2>1, <2>2, ScopeStep
    <2>4. Scope(i)' = Scope(i)
      BY <1>1 DEF Scope, NonLocal
    <2>5. i <= Len(source) + 1
      BY DEF Progress, ScopeInv
    <2> QED BY <1>1, <1>2, <2>3, <2>4, <2>5 DEF ScopeInv
  <1>6. \A k \in Lines : \A r \in 1 .. Len(source[k].refs) : Read(k, r)' <=> Read(k, r)
    <2> SUFFICES ASSUME NEW k \in Lines, NEW r \in 1 .. Len(source[k].refs)
                 PROVE  Read(k, r)' <=> Read(k, r)
      OBVIOUS
    <2>1. ~(r < 0) /\ ~(r < 1)
      OBVIOUS
    <2> QED BY <1>1, <2>1 DEF Read
  <1>7. RefInv'
    BY <1>1, <1>6, RefsFixed
  <1>8. Progress' /\ pc' # "failed"
    BY <1>1, <1>4, <1>5, <1>7 DEF Progress
  <1> QED BY <1>8, ProgressOk

LEMMA LeaveInstOk ==
    ASSUME Typed, Progress, LeaveInst
    PROVE  Ok'
  <1>1. /\ pc = "references" /\ i <= Len(insts) /\ op > Len(insts[i].refs) /\ op' = 0
        /\ i' = i + 1
        /\ UNCHANGED <<source, insts, pc, scope_id, local_aliases, anon_defs>>
    BY DEF LeaveInst
  <1>2. i \in Lines /\ i \in Nat \ {0} /\ i <= Len(source) /\ insts[i].refs \in Seq(Names)
    BY <1>1, AtLine, LineTyped
  <1>3. \A d \in Lines : Seen(d) /\ d \in Nat
    BY <1>1, LineTyped DEF Seen
  <1>4. LabelInv' /\ AnonInv' /\ AliasInv'
    BY <1>1, <1>3, LabelsFixed, AliasesFixed
  <1>5. op \in Nat /\ op > 0 /\ Len(insts[i].refs) = Len(source[i].refs)
    <2>1. Len(insts[i].refs) \in Nat
      BY <1>2
    <2> QED BY <1>1, <1>2, <2>1 DEF Typed, Progress, RefInv
  <1>6. ScopeInv'
    <2>1. scope_id = Scope(i)
      BY <1>1, <1>5 DEF Progress, ScopeInv
    <2>2. i' - 1 = i
      BY <1>1, <1>2
    <2>3. Scope(i - 1)' = Scope(i)
      BY <1>1, <2>2 DEF Scope, NonLocal
    <2>4. i' <= Len(source') + 1
      BY <1>1, <1>2 DEF Typed
    <2> QED BY <1>1, <2>1, <2>3, <2>4 DEF ScopeInv
  <1>7. \A k \in Lines : \A r \in 1 .. Len(source[k].refs) : Read(k, r)' <=> Read(k, r)
    <2> SUFFICES ASSUME NEW k \in Lines, NEW r \in 1 .. Len(source[k].refs)
                 PROVE  Read(k, r)' <=> Read(k, r)
      OBVIOUS
    <2>1. ~(r < 0) /\ r \in Int
      OBVIOUS
    <2>2. k = i => r < op
      BY <1>1, <1>5
    <2>3. Read(k, r)' <=> k < i + 1
      BY <1>1, <2>1 DEF Read
    <2>4. Read(k, r) <=> k < i \/ k = i
      BY <1>1, <2>2 DEF Read
    <2> QED BY <1>2, <1>3, <2>3, <2>4
  <1>8. RefInv'
    BY <1>1, <1>7, RefsFixed
  <1>9. Progress' /\ pc' # "failed"
    BY <1>1, <1>4, <1>6, <1>8 DEF Progress
  <1> QED BY <1>9, ProgressOk

LEMMA EndReferencesOk ==
    ASSUME Typed, Progress, EndReferences
    PROVE  Ok'
  <1>1. /\ pc = "references" /\ i > Len(source) /\ pc' = "done"
        /\ UNCHANGED <<source, insts, i, op, scope_id, local_aliases, anon_defs>>
    BY DEF EndReferences, Typed
  <1>2. \A d \in Lines : Seen(d) /\ d \in Nat /\ d < i
    BY <1>1 DEF Seen, Lines, Typed
  <1>3. LabelInv' /\ AnonInv' /\ AliasInv'
    BY <1>1, <1>2, LabelsFixed, AliasesFixed
  <1>4. ScopeInv'
    BY <1>1 DEF Progress, ScopeInv
  <1>5. \A k \in Lines : \A r \in 1 .. Len(source[k].refs) : Read(k, r)' <=> Read(k, r)
    BY <1>1, <1>2 DEF Read
  <1>6. RefInv'
    BY <1>1, <1>5, RefsFixed
  <1>7. Progress' /\ pc' # "failed"
    BY <1>1, <1>3, <1>4, <1>6 DEF Progress
  <1> QED BY <1>7, ProgressOk

-----------------------------------------------------------------------------
(* The theorems.                                                           *)

LEMMA InitInv == Init => IInv
  <1> SUFFICES ASSUME Init PROVE IInv
    OBVIOUS
  <1>1. /\ source \in Seq(Insts) /\ insts = source /\ pc = "definitions" /\ i = 1 /\ op = 0
        /\ scope_id = 0 /\ local_aliases = <<>> /\ anon_defs = <<>>
    BY ProgramsTyped DEF Init
  <1>2. /\ local_aliases \in Seq(AliasRecord) /\ Len(local_aliases) = 0
        /\ anon_defs \in Seq(AnonRecord) /\ Len(anon_defs) = 0
        /\ DOMAIN local_aliases = {} /\ DOMAIN anon_defs = {}
    BY <1>1
  <1>3. Typed
    BY <1>1, <1>2, CapacityNat DEF Typed
  <1>4. \A d \in Lines : ~Seen(d)
    BY <1>1, LineTyped, <1>3 DEF Seen, Lines
  <1>5. ScopeInv
    <2>1. i - 1 = 0 /\ i <= Len(source) + 1
      BY <1>1, <1>3 DEF Typed
    <2> QED BY <1>1, <2>1, ScopeStart DEF ScopeInv
  <1>6. LabelInv
    BY <1>1, <1>4 DEF LabelInv
  <1>7. AliasInv /\ AnonInv
    BY <1>2, <1>4 DEF AliasInv, AnonInv
  <1>8. RefInv
    BY <1>1 DEF RefInv, Read
  <1> QED BY <1>1, <1>3, <1>5, <1>6, <1>7, <1>8 DEF IInv, FailInv, Progress

LEMMA StutterOk ==
    ASSUME Ok, UNCHANGED vars
    PROVE  Ok'
  <1>1. /\ UNCHANGED <<source, insts, pc, error, i, op, scope_id, local_aliases, anon_defs>>
    BY DEF vars
  <1>2. /\ Lines' = Lines /\ LocalUses' = LocalUses
        /\ \A k : Scope(k)' = Scope(k)
        /\ \A k : LocalLabel(k)' <=> LocalLabel(k)
        /\ \A e : Cause(e)' <=> Cause(e)
    BY <1>1, SourceFixed
  <1>3. FailInv'
    <2>1. Cause(error)' <=> Cause(error)
      <3>1. PICK e : e = error
        OBVIOUS
      <3> QED BY <1>1, <1>2, <3>1 DEF Cause
    <2> QED BY <1>1, <2>1 DEF Ok, FailInv, Causes
  <1>4. ASSUME pc # "failed" PROVE Progress'
    <2>1. Progress
      BY <1>4 DEF Ok
    <2>2. /\ \A d : Seen(d)' <=> Seen(d)
          /\ \A k, r : Read(k, r)' <=> Read(k, r)
      BY <1>1 DEF Seen, Read
    <2>3. RefInv'
      BY <1>1, <2>1, <2>2, RefsFixed
    <2>4. ScopeInv'
      <3>1. Scope(i)' = Scope(i) /\ Scope(i - 1)' = Scope(i - 1)
        BY <1>1 DEF Scope, NonLocal
      <3> QED BY <1>1, <2>1, <3>1 DEF Progress, ScopeInv
    <2>5. LabelInv'
      BY <1>1, <1>2, <2>1, <2>2 DEF Progress, LabelInv
    <2>6. AnonInv'
      <3>1. AnonInv
        BY <2>1 DEF Progress
      <3> QED BY <1>1, <1>2, <3>1 DEF AnonInv, Seen
    <2>7. AliasInv'
      <3>1. AliasInv
        BY <2>1 DEF Progress
      <3>2. \A d : Aliased(Scope(d), source[d].label.base)' <=> Aliased(Scope(d), source[d].label.base)
        BY <1>1, <1>2 DEF Aliased
      <3> QED BY <1>1, <1>2, <2>2, <3>1, <3>2 DEF AliasInv
    <2> QED BY <2>3, <2>4, <2>5, <2>6, <2>7 DEF Progress
  <1> QED BY <1>1, <1>3, <1>4 DEF Ok

LEMMA NextInv == IInv /\ [Next]_vars => IInv'
  <1> SUFFICES ASSUME IInv, [Next]_vars PROVE IInv'
    OBVIOUS
  <1>1. Typed /\ Typed'
    BY NextTyped DEF IInv
  <1>2. UNCHANGED source
    BY DEF Next, vars, DefineAnonymous, DefineLocal, OpenScope, StartReferences, EnterInst,
           NormalizeLocal, NormalizeForward, NormalizeBackward, KeepReference, LeaveInst,
           EndReferences, Finished, NextDefinition, Rewrite, Fail, CreateFails
  <1>3. Unprefixed' <=> Unprefixed
    BY <1>2, SourceFixed
  <1>4. ASSUME Unprefixed PROVE Ok'
    <2>1. Ok
      BY <1>4 DEF IInv, Ok
    <2>2. CASE UNCHANGED vars
      BY <2>1, <2>2, StutterOk
    <2>3. CASE Next /\ pc = "failed"
      <3>1. UNCHANGED vars
        BY <2>3 DEF Next, DefineAnonymous, DefineLocal, OpenScope, AtDefinition, StartReferences,
                    EnterInst, NormalizeLocal, NormalizeForward, NormalizeBackward, KeepReference,
                    AtReference, LeaveInst, EndReferences, Finished
      <3> QED BY <2>1, <3>1, StutterOk
    <2>4. CASE Next /\ pc # "failed"
      <3>1. Progress
        BY <2>1, <2>4 DEF Ok
      <3>2. CASE Finished
        BY <2>1, <3>2, StutterOk DEF Finished
      <3> QED BY <1>1, <1>4, <2>4, <3>1, <3>2, DefineAnonymousOk, DefineLocalOk, OpenScopeOk,
                 StartReferencesOk, EnterInstOk, NormalizeLocalOk, NormalizeForwardOk,
                 NormalizeBackwardOk, KeepReferenceOk, LeaveInstOk, EndReferencesOk
              DEF Next
    <2> QED BY <2>2, <2>3, <2>4
  <1> QED BY <1>1, <1>3, <1>4 DEF IInv, Ok

LEMMA InvHolds == Spec => []IInv
  BY InitInv, NextInv, PTL DEF Spec

(* Once canonicalize_symbol_labels is done, a reference to a local label   *)
(* names its definition in the reference's own scope and nothing else, for *)
(* every program: its two passes count scopes over different names, and    *)
(* agree on every line.                                                    *)
THEOREM LocalsResolve == Spec => []LocalReferencesResolve
  <1>1. IInv => LocalReferencesResolve
    BY InvResult
  <1> QED BY <1>1, InvHolds, PTL

(* lookup_anonymous_ref gives every @F the nearest @@ below its line and   *)
(* every @B the nearest one above, for any number of them.                 *)
THEOREM AnonymousResolve == Spec => []AnonymousReferencesResolve
  <1>1. IInv => AnonymousReferencesResolve
    BY InvResult
  <1> QED BY <1>1, InvHolds, PTL

(* The names that canonicalize_symbol_labels makes meet no other label of  *)
(* the program and not one another, whatever the program.                  *)
THEOREM DefinitionsDistinct == Spec => []DefinitionsStayDistinct
  <1>1. IInv => DefinitionsStayDistinct
    BY InvResult
  <1> QED BY <1>1, InvHolds, PTL

(* canonicalize_symbol_labels fails only for the fault it reports, which   *)
(* is in the program, and no program with one of the six faults gets       *)
(* through: for every capacity of its two lists and every limit on the     *)
(* length of a name.                                                       *)
THEOREM RejectsOnlyFaults == Spec => []RejectsExactly
  <1>1. IInv => RejectsExactly
    BY InvResult
  <1> QED BY <1>1, InvHolds, PTL

=============================================================================
