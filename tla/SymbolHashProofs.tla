-------------------------- MODULE SymbolHashProofs --------------------------
(***************************************************************************)
(* The symbol table implements a map, for every set of names, every hash   *)
(* function, every capacity and every number of buckets.                   *)
(***************************************************************************)
EXTENDS SymbolHash, FiniteSetTheorems, TLAPS

-----------------------------------------------------------------------------
(* A table of chains on its own: what it has, and what it says of a name.  *)

Has(c, n) == \E k \in DOMAIN c[Hash[n]] : c[Hash[n]][k].name = n
Val(c, n) == Strip(c[Hash[n]][CHOOSE k \in DOMAIN c[Hash[n]] : c[Hash[n]][k].name = n])

(* Every entry is in the bucket of its name, and no name is there twice.   *)
Sound(c) ==
    /\ c \in [Buckets -> Seq(Row)]
    /\ \A b \in Buckets : \A k \in DOMAIN c[b] : Hash[c[b][k].name] = b
    /\ \A b \in Buckets : \A j, k \in DOMAIN c[b] : c[b][j].name = c[b][k].name => j = k

(* An array on its own: no name twice.                                     *)
Distinct(s) == \A j, k \in DOMAIN s : s[j].name = s[k].name => j = k
Among(s, n) == \E j \in DOMAIN s : s[j].name = n

LEMMA HashInBuckets == \A n \in Names : Hash[n] \in Buckets
  BY HashAssumption DEF Buckets

LEMMA RowFields ==
    ASSUME NEW r \in Row
    PROVE  /\ r.name \in Names /\ r.address \in Addresses /\ r.external \in BOOLEAN
           /\ r.section \in {-1, 0, 1}
           /\ r = [name |-> r.name, address |-> r.address, external |-> r.external,
                   section |-> r.section]
  BY DEF Row

Rewritten(row, address, external, section) ==
    [row EXCEPT !.address = address, !.external = external, !.section = section]
RowOf(name, address, external, section) ==
    [name |-> name, address |-> address, external |-> external, section |-> section]

LEMMA RowRewritten ==
    ASSUME NEW row \in Row, NEW address, NEW external, NEW section
    PROVE  Rewritten(row, address, external, section) = RowOf(row.name, address, external, section)
  <1>1. [row EXCEPT !.address = address] = RowOf(row.name, address, row.external, row.section)
    BY DEF Row, RowOf
  <1>2. [RowOf(row.name, address, row.external, row.section) EXCEPT !.external = external]
        = RowOf(row.name, address, external, row.section)
    BY DEF RowOf
  <1>3. [RowOf(row.name, address, external, row.section) EXCEPT !.section = section]
        = RowOf(row.name, address, external, section)
    BY DEF RowOf
  <1>4. Rewritten(row, address, external, section)
        = [[[row EXCEPT !.address = address] EXCEPT !.external = external]
              EXCEPT !.section = section]
    BY DEF Row, Rewritten
  <1> QED BY <1>1, <1>2, <1>3, <1>4, Zenon

(* A name has one entry: whoever finds one has found what the table says.  *)
LEMMA ValOfEntry ==
    ASSUME NEW c, Sound(c), NEW n \in Names, NEW k \in DOMAIN c[Hash[n]],
           c[Hash[n]][k].name = n
    PROVE  Has(c, n) /\ Val(c, n) = Strip(c[Hash[n]][k])
  <1>1. Hash[n] \in Buckets
    BY HashInBuckets
  <1>2. \A j \in DOMAIN c[Hash[n]] : c[Hash[n]][j].name = n => j = k
    BY <1>1 DEF Sound
  <1>3. (CHOOSE j \in DOMAIN c[Hash[n]] : c[Hash[n]][j].name = n) = k
    BY <1>2
  <1> QED BY <1>3 DEF Has, Val

(* A chain with a new head.                                                *)
Pushed(x, s) == <<x>> \o s

LEMMA NewHead ==
    ASSUME NEW s \in Seq(Row), NEW x \in Row
    PROVE  /\ Pushed(x, s) \in Seq(Row) /\ 1 \in DOMAIN Pushed(x, s) /\ Pushed(x, s)[1] = x
           /\ \A k \in DOMAIN s :
                 k + 1 \in DOMAIN Pushed(x, s) /\ Pushed(x, s)[k + 1] = s[k]
           /\ \A k \in DOMAIN Pushed(x, s) :
                 k \in Nat /\ (k # 1 => k - 1 \in DOMAIN s /\ Pushed(x, s)[k] = s[k - 1])
  <1> DEFINE t == Pushed(x, s)
  <1>1. t \in Seq(Row) /\ Len(t) = Len(s) + 1 /\ Len(s) \in Nat
    BY DEF Pushed
  <1>2. DOMAIN t = 1..(Len(s) + 1) /\ DOMAIN s = 1..Len(s)
    BY <1>1
  <1>3. t[1] = x
    BY DEF Pushed
  <1>4. \A k \in 1..Len(s) : t[k + 1] = s[k]
    BY DEF Pushed
  <1> HIDE DEF t
  <1>5. ASSUME NEW k \in DOMAIN t, k # 1
        PROVE  k - 1 \in DOMAIN s /\ t[k] = s[k - 1]
    <2>1. k - 1 \in 1..Len(s) /\ (k - 1) + 1 = k
      BY <1>1, <1>2, <1>5
    <2> QED BY <2>1, <1>2, <1>4
  <1>6. /\ t \in Seq(Row) /\ 1 \in DOMAIN t /\ t[1] = x
        /\ \A k \in DOMAIN s : k + 1 \in DOMAIN t /\ t[k + 1] = s[k]
        /\ \A k \in DOMAIN t : k \in Nat /\ (k # 1 => k - 1 \in DOMAIN s /\ t[k] = s[k - 1])
    BY <1>1, <1>2, <1>3, <1>4, <1>5
  <1> QED BY <1>6 DEF t

(* symbol_hash_insert of a new name.                                       *)
Prepended(c, d, r) ==
    LET h == Hash[r.name]
    IN  /\ d \in [Buckets -> Seq(Row)] /\ d[h] = Pushed(r, c[h])
        /\ \A b \in Buckets : b # h => d[b] = c[b]

LEMMA Prepend ==
    ASSUME NEW c, Sound(c), NEW r \in Row, ~ Has(c, r.name),
           NEW d, Prepended(c, d, r)
    PROVE  /\ Sound(d)
           /\ \A n \in Names : Has(d, n) <=> (Has(c, n) \/ n = r.name)
           /\ \A n \in Names : Has(d, n) =>
                 Val(d, n) = IF n = r.name THEN Strip(r) ELSE Val(c, n)
  <1> DEFINE h == Hash[r.name]
  <1>1. r.name \in Names /\ h \in Buckets
    BY RowFields, HashInBuckets
  <1>3. d[h] = Pushed(r, c[h]) /\ \A b \in Buckets : b # h => d[b] = c[b]
    BY DEF Prepended
  <1>4. c[h] \in Seq(Row)
    BY <1>1 DEF Sound
  <1>6. \A k \in DOMAIN c[h] : c[h][k].name # r.name
    BY DEF Has
  <1>H. h = Hash[r.name]
    OBVIOUS
  <1> HIDE DEF h
  <1> DEFINE new == Pushed(r, c[h])
  <1>P. /\ 1 \in DOMAIN new /\ new[1] = r
        /\ \A k \in DOMAIN c[h] : k + 1 \in DOMAIN new /\ new[k + 1] = c[h][k]
        /\ \A k \in DOMAIN new :
              k \in Nat /\ (k # 1 => k - 1 \in DOMAIN c[h] /\ new[k] = c[h][k - 1])
    BY <1>4, NewHead
  <1>D. d[h] = new
    BY <1>3
  <1> HIDE DEF new
  <1>5. /\ 1 \in DOMAIN d[h] /\ d[h][1] = r
        /\ \A k \in DOMAIN c[h] : k + 1 \in DOMAIN d[h] /\ d[h][k + 1] = c[h][k]
        /\ \A k \in DOMAIN d[h] :
              k \in Nat /\ (k # 1 => k - 1 \in DOMAIN c[h] /\ d[h][k] = c[h][k - 1])
    BY <1>P, <1>D
  <1>7. \A b \in Buckets : \A k \in DOMAIN d[b] : Hash[d[b][k].name] = b
    <2> TAKE b \in Buckets
    <2> TAKE k \in DOMAIN d[b]
    <2>1. CASE b # h
      BY <2>1, <1>3 DEF Sound
    <2>2. CASE b = h /\ k = 1
      BY <2>2, <1>5, <1>H
    <2>3. CASE b = h /\ k # 1
      <3>1. k - 1 \in DOMAIN c[h] /\ d[b][k] = c[h][k - 1]
        BY <2>3, <1>5
      <3>2. Hash[c[h][k - 1].name] = h
        BY <3>1, <1>1 DEF Sound
      <3> QED BY <2>3, <3>1, <3>2
    <2> QED BY <2>1, <2>2, <2>3
  <1>8. \A b \in Buckets : \A j, k \in DOMAIN d[b] : d[b][j].name = d[b][k].name => j = k
    <2> TAKE b \in Buckets
    <2>1. CASE b # h
      BY <2>1, <1>3 DEF Sound
    <2>2. CASE b = h
      <3> SUFFICES ASSUME NEW j \in DOMAIN d[h], NEW k \in DOMAIN d[h], d[h][j].name = d[h][k].name
                   PROVE  j = k
        BY <2>2
      <3>1. CASE j = 1 \/ k = 1
        BY <3>1, <1>5, <1>6
      <3>2. CASE j # 1 /\ k # 1
        <4>1. c[h][j - 1].name = c[h][k - 1].name /\ j - 1 \in DOMAIN c[h] /\ k - 1 \in DOMAIN c[h]
          BY <3>2, <1>5
        <4>2. j - 1 = k - 1
          BY <4>1, <1>1 DEF Sound
        <4> QED BY <4>2, <1>5
      <3> QED BY <3>1, <3>2
    <2> QED BY <2>1, <2>2
  <1>9. Sound(d)
    BY <1>7, <1>8 DEF Sound, Prepended
  <1>10. ASSUME NEW n \in Names
         PROVE  /\ Has(d, n) <=> (Has(c, n) \/ n = r.name)
                /\ Has(d, n) => Val(d, n) = IF n = r.name THEN Strip(r) ELSE Val(c, n)
    <2>0. Hash[n] \in Buckets
      BY HashInBuckets
    <2>1. CASE n = r.name
      <3>1. 1 \in DOMAIN d[Hash[n]] /\ d[Hash[n]][1] = r
        BY <2>1, <1>5, <1>H
      <3>2. Has(d, n) /\ Val(d, n) = Strip(r)
        BY <2>1, <3>1, <1>9, ValOfEntry
      <3> QED BY <2>1, <3>2
    <2>2. CASE n # r.name /\ Hash[n] # h
      BY <2>0, <2>2, <1>3 DEF Has, Val
    <2>3. CASE n # r.name /\ Hash[n] = h
      <3>1. Has(c, n) => Has(d, n)
        <4> SUFFICES ASSUME NEW k \in DOMAIN c[h], c[h][k].name = n
                     PROVE  Has(d, n)
          BY <2>3 DEF Has
        <4>1. k + 1 \in DOMAIN d[h] /\ d[h][k + 1].name = n
          BY <1>5
        <4> QED BY <4>1, <2>3 DEF Has
      <3>2. ASSUME Has(d, n) PROVE Has(c, n) /\ Val(d, n) = Val(c, n)
        <4>1. PICK k \in DOMAIN d[h] : d[h][k].name = n
          BY <3>2, <2>3 DEF Has
        <4>2. k # 1
          BY <4>1, <2>3, <1>5
        <4>3. k - 1 \in DOMAIN c[h] /\ c[h][k - 1] = d[h][k]
          BY <4>2, <1>5
        <4>4. Has(c, n) /\ Val(c, n) = Strip(c[h][k - 1])
          <5>1. k - 1 \in DOMAIN c[Hash[n]] /\ c[Hash[n]][k - 1].name = n
            BY <4>1, <4>3, <2>3
          <5>2. Has(c, n) /\ Val(c, n) = Strip(c[Hash[n]][k - 1])
            BY <5>1, ValOfEntry
          <5> QED BY <5>2, <2>3
        <4>5. Val(d, n) = Strip(d[h][k])
          <5>1. k \in DOMAIN d[Hash[n]] /\ d[Hash[n]][k].name = n
            BY <4>1, <2>3
          <5>2. Val(d, n) = Strip(d[Hash[n]][k])
            BY <5>1, <1>9, ValOfEntry
          <5> QED BY <5>2, <2>3
        <4> QED BY <4>3, <4>4, <4>5
      <3> QED BY <2>3, <3>1, <3>2
    <2> QED BY <2>1, <2>2, <2>3
  <1> QED BY <1>9, <1>10

(* symbol_hash_update of an entry, which keeps its name.                   *)
Replaced(c, d, r, p) ==
    LET h == Hash[r.name]
    IN  /\ d \in [Buckets -> Seq(Row)]
        /\ DOMAIN d[h] = DOMAIN c[h] /\ d[h][p] = r
        /\ \A k \in DOMAIN c[h] : k # p => d[h][k] = c[h][k]
        /\ \A b \in Buckets : b # h => d[b] = c[b]

LEMMA Overwrite ==
    ASSUME NEW c, Sound(c), NEW r \in Row, NEW p \in DOMAIN c[Hash[r.name]],
           c[Hash[r.name]][p].name = r.name,
           NEW d, Replaced(c, d, r, p)
    PROVE  /\ Sound(d)
           /\ \A n \in Names : Has(d, n) <=> Has(c, n)
           /\ \A n \in Names : Has(d, n) =>
                 Val(d, n) = IF n = r.name THEN Strip(r) ELSE Val(c, n)
  <1> DEFINE h == Hash[r.name]
  <1>1. r.name \in Names /\ h \in Buckets
    BY RowFields, HashInBuckets
  <1>3. \A b \in Buckets : b # h => d[b] = c[b]
    BY DEF Replaced
  <1>4. DOMAIN d[h] = DOMAIN c[h] /\ d[h][p] = r
        /\ \A k \in DOMAIN c[h] : k # p => d[h][k] = c[h][k]
    BY DEF Replaced
  <1>6. \A b \in Buckets : DOMAIN d[b] = DOMAIN c[b] /\ \A k \in DOMAIN c[b] : d[b][k].name = c[b][k].name
    BY <1>1, <1>3, <1>4
  <1>7. Sound(d)
    BY <1>6 DEF Sound, Replaced
  <1>8. \A n \in Names : Has(d, n) <=> Has(c, n)
    BY <1>6, HashInBuckets DEF Has
  <1>9. ASSUME NEW n \in Names, Has(d, n)
        PROVE  Val(d, n) = IF n = r.name THEN Strip(r) ELSE Val(c, n)
    <2>1. Hash[n] \in Buckets
      BY HashInBuckets
    <2>2. PICK k \in DOMAIN d[Hash[n]] : d[Hash[n]][k].name = n
      BY <1>9 DEF Has
    <2>3. Val(d, n) = Strip(d[Hash[n]][k])
      BY <2>2, <1>7, ValOfEntry
    <2>4. k \in DOMAIN c[Hash[n]] /\ c[Hash[n]][k].name = n
      BY <2>1, <2>2, <1>6
    <2>5. Val(c, n) = Strip(c[Hash[n]][k])
      BY <2>4, ValOfEntry
    <2>6. CASE n = r.name
      <3>1. k = p
        BY <2>4, <2>6, <1>1 DEF Sound
      <3> QED BY <2>3, <2>6, <3>1, <1>4
    <2>7. CASE n # r.name
      <3>1. d[Hash[n]][k] = c[Hash[n]][k]
        BY <2>1, <2>2, <2>4, <2>7, <1>3, <1>4
      <3> QED BY <2>3, <2>5, <2>7, <3>1
    <2> QED BY <2>6, <2>7
  <1> QED BY <1>7, <1>8, <1>9

-----------------------------------------------------------------------------
(* An array and a table that say the same.                                 *)

Tables(s, c) ==
    /\ Sound(c) /\ Distinct(s)
    /\ \A n \in Names : Has(c, n) <=> Among(s, n)
    /\ \A j \in DOMAIN s : Val(c, s[j].name) = Strip(s[j])

(* add_symbol: a row at the end of the array, an entry at the head of a    *)
(* chain.                                                                  *)
LEMMA TablesAdd ==
    ASSUME NEW s \in Seq(Row), NEW c, Tables(s, c), NEW r \in Row, ~ Has(c, r.name),
           NEW d, Prepended(c, d, r)
    PROVE  Append(s, r) \in Seq(Row) /\ Tables(Append(s, r), d)
  <1> DEFINE t == Append(s, r)
  <1>1. /\ t \in Seq(Row) /\ DOMAIN t = 1..(Len(s) + 1) /\ DOMAIN s = 1..Len(s) /\ Len(s) \in Nat
        /\ t[Len(s) + 1] = r /\ \A j \in DOMAIN s : t[j] = s[j]
    OBVIOUS
  <1> HIDE DEF t
  <1>2. Sound(c) /\ r.name \in Names
    BY RowFields DEF Tables
  <1>3. /\ Sound(d)
        /\ \A n \in Names : Has(d, n) <=> (Has(c, n) \/ n = r.name)
        /\ \A n \in Names : Has(d, n) =>
              Val(d, n) = IF n = r.name THEN Strip(r) ELSE Val(c, n)
    BY <1>2, Prepend
  <1>4. \A j \in DOMAIN s : s[j].name \in Names /\ s[j].name # r.name /\ Has(c, s[j].name)
    <2> TAKE j \in DOMAIN s
    <2>1. s[j].name \in Names
      BY RowFields
    <2> QED BY <2>1 DEF Tables, Among
  <1>5. Distinct(t)
    BY <1>1, <1>4 DEF Tables, Distinct
  <1>6. \A n \in Names : Among(t, n) <=> (Among(s, n) \/ n = r.name)
    BY <1>1 DEF Among
  <1>7. \A n \in Names : Has(d, n) <=> Among(t, n)
    BY <1>3, <1>6 DEF Tables
  <1>8. ASSUME NEW j \in DOMAIN t PROVE Val(d, t[j].name) = Strip(t[j])
    <2>1. CASE j \in DOMAIN s
      <3>1. t[j] = s[j] /\ Val(c, s[j].name) = Strip(s[j])
        BY <2>1, <1>1 DEF Tables
      <3>2. Val(d, s[j].name) = Val(c, s[j].name)
        BY <2>1, <1>3, <1>4
      <3> QED BY <3>1, <3>2
    <2>2. CASE j = Len(s) + 1
      BY <2>2, <1>1, <1>2, <1>3
    <2> QED BY <2>1, <2>2, <1>1
  <1>9. Tables(t, d)
    BY <1>3, <1>5, <1>7, <1>8 DEF Tables
  <1> QED BY <1>1, <1>9 DEF t

(* A row and its entry that are overwritten with the same values.          *)
LEMMA TablesSet ==
    ASSUME NEW s \in Seq(Row), NEW c, Tables(s, c), NEW r \in Row,
           NEW p \in DOMAIN c[Hash[r.name]], c[Hash[r.name]][p].name = r.name,
           NEW d, Replaced(c, d, r, p),
           NEW t \in Seq(Row), DOMAIN t = DOMAIN s,
           \A j \in DOMAIN s : t[j] = IF s[j].name = r.name THEN r ELSE s[j]
    PROVE  Tables(t, d)
  <1>1. DOMAIN t = DOMAIN s
    OBVIOUS
  <1>2. \A j \in DOMAIN s : s[j].name \in Names /\ t[j].name = s[j].name
                            /\ (s[j].name = r.name => t[j] = r)
                            /\ (s[j].name # r.name => t[j] = s[j])
    BY RowFields
  <1>3. Sound(c)
    BY DEF Tables
  <1>4. /\ Sound(d)
        /\ \A n \in Names : Has(d, n) <=> Has(c, n)
        /\ \A n \in Names : Has(d, n) =>
              Val(d, n) = IF n = r.name THEN Strip(r) ELSE Val(c, n)
    BY <1>3, Overwrite
  <1>5. Distinct(t) /\ \A n \in Names : Among(t, n) <=> Among(s, n)
    BY <1>1, <1>2 DEF Tables, Distinct, Among
  <1>6. \A n \in Names : Has(d, n) <=> Among(t, n)
    BY <1>4, <1>5 DEF Tables
  <1>7. ASSUME NEW j \in DOMAIN t PROVE Val(d, t[j].name) = Strip(t[j])
    <2>1. Has(d, s[j].name) /\ Val(c, s[j].name) = Strip(s[j]) /\ s[j].name \in Names
      BY <1>1, <1>2, <1>4 DEF Tables, Among
    <2> QED BY <2>1, <1>1, <1>2, <1>4
  <1> QED BY <1>1, <1>4, <1>5, <1>6, <1>7 DEF Tables

(* The array is as long as the table has names.                            *)
LEMMA TablesSize ==
    ASSUME NEW s \in Seq(Row), NEW c, Tables(s, c)
    PROVE  Len(s) = Cardinality({n \in Names : Has(c, n)})
  <1> DEFINE N == {n \in Names : Has(c, n)}
             f == [j \in 1..Len(s) |-> s[j].name]
  <1>1. Len(s) \in Nat /\ DOMAIN s = 1..Len(s)
    OBVIOUS
  <1>2. \A j \in 1..Len(s) : s[j].name \in N
    BY <1>1, RowFields DEF Tables, Among
  <1>3. f \in Injection(1..Len(s), N)
    <2>1. f \in [1..Len(s) -> N]
      BY <1>2
    <2>2. \A j, k \in 1..Len(s) : f[j] = f[k] => j = k
      BY <1>1 DEF Tables, Distinct
    <2> HIDE DEF f, N
    <2> QED BY <2>1, <2>2 DEF Injection, IsInjective
  <1>4. f \in Surjection(1..Len(s), N)
    BY <1>1, <1>2 DEF Tables, Among, Surjection
  <1>5. ExistsBijection(1..Len(s), N)
    BY <1>3, <1>4 DEF Bijection, ExistsBijection
  <1>6. IsFiniteSet(1..Len(s)) /\ Cardinality(1..Len(s)) = Len(s)
    BY <1>1, FS_Interval
  <1> HIDE DEF N
  <1>7. Cardinality(1..Len(s)) = Cardinality(N)
    BY <1>5, <1>6, FS_Bijection
  <1> QED BY <1>6, <1>7 DEF N
-----------------------------------------------------------------------------
(***************************************************************************)
(* The inductive invariant.                                                *)
(***************************************************************************)

Phases  == {"idle", "full", "array", "lookup", "addlookup", "update", "insert", "free", "freed"}
Resting == {"idle", "free", "freed"}

(* What a call may be doing in each phase of its code.                     *)
CallInv ==
    /\ pc \in Resting => call = Map!NoRequest
    /\ pc \notin Resting => call \in Map!Request
    /\ pc \in {"full", "addlookup", "insert"} => call.op \in {"add", "upsert"}
    /\ pc = "lookup" => call.op \in {"find", "upsert"}
    /\ pc = "array" => call.op = "move"
    /\ pc = "update" => call.op \in {"move", "upsert"}

TypeInv ==
    pc \in Phases /\ at \in Nat \ {0} /\ bucket \in 0..HashTableSize /\ CallInv

(* The walk has passed no entry of the name it looks for.                  *)
WalkInv ==
    pc \in Looking => \A k \in DOMAIN Path : k < at => Path[k].name # call.name

(* The array is ahead of the chains by one change at most: the row that    *)
(* waits for its entry, or the new address of a label.  s is the array     *)
(* before that change.                                                     *)
Moving == pc = "update" /\ call.op = "move"

Moved(s, n, a) ==
    [j \in DOMAIN s |-> IF s[j].name = n THEN [s[j] EXCEPT !.address = a] ELSE s[j]]

Ahead(s) ==
    /\ pc = "insert" => symbols = Append(s, NewRow) /\ Len(s) < MaxSymbols
    /\ Moving => symbols = Moved(s, call.name, call.address)
    /\ (pc # "insert" /\ ~ Moving) => symbols = s

AgreeInv == \E s \in Seq(Row) : Tables(s, chain) /\ Ahead(s)

(* What the phases of add_symbol and upsert_constant_symbol have found out.*)
PhaseInv ==
    /\ pc = "insert" => ~ Has(chain, call.name)
    /\ pc = "addlookup" => Len(symbols) < MaxSymbols
    /\ (pc \in {"full", "addlookup"} /\ call.op = "upsert") => ~ Has(chain, call.name)
    /\ pc = "update" => Has(chain, call.name)
    /\ (pc = "update" /\ call.op = "upsert") => ~ Val(chain, call.name).external

(* The buckets that asm_free has left are empty.                           *)
FreeInv ==
    /\ chain \in [Buckets -> Seq(Row)]
    /\ \A b \in Buckets : b < bucket => chain[b] = <<>>
    /\ pc = "freed" => bucket = HashTableSize

IInv ==
    /\ TypeInv
    /\ ~ Freeing => AgreeInv /\ WalkInv /\ PhaseInv
    /\ Freeing => FreeInv

(* What the map of module SymbolMap holds.                                 *)
View(c) == [n \in {m \in Names : Has(c, m)} |-> Val(c, n)]

LEMMA ContentsView == Contents = View(chain) /\ Contents' = View(chain')
  BY DEF Contents, View, Listed, Place, Chain, Has, Val

LEMMA RequestFields ==
    ASSUME NEW q \in Map!Request
    PROVE  /\ q.name \in Names /\ q.address \in Addresses /\ q.external \in BOOLEAN
           /\ q.section \in {-1, 0, 1} /\ q.op \in {"add", "upsert", "move", "find"}
           /\ q # Map!NoRequest
           /\ q.op = "upsert" => q.external = FALSE
  <1>1. /\ q.name \in Names /\ q.address \in Addresses /\ q.external \in BOOLEAN
        /\ q.section \in {-1, 0, 1} /\ q.op \in {"add", "upsert", "move", "find"}
    BY DEF Map!Request
  <1>2. q.op = "upsert" => q.external = FALSE
    BY DEF Map!Request
  <1>3. q # Map!NoRequest
    <2>1. Map!NoRequest.op = "none"
      BY DEF Map!NoRequest
    <2> QED BY <1>1, <2>1
  <1> QED BY <1>1, <1>2, <1>3

LEMMA InitInv == Init => IInv
  <1> SUFFICES ASSUME Init PROVE IInv
    OBVIOUS
  <1>1. TypeInv
    BY SizeAssumption DEF Init, TypeInv, CallInv, Phases, Resting
  <1>2. pc = "idle" /\ symbols = <<>> /\ chain = [b \in Buckets |-> <<>>]
    BY DEF Init
  <1>3. \A n \in Names : ~ Has(chain, n)
    BY <1>2, HashInBuckets DEF Has
  <1>4. Sound(chain)
    BY <1>2 DEF Sound
  <1>5. <<>> \in Seq(Row) /\ Tables(<<>>, chain) /\ Ahead(<<>>)
    BY <1>2, <1>3, <1>4 DEF Tables, Distinct, Among, Ahead, Moving
  <1>6. AgreeInv
    BY <1>5 DEF AgreeInv
  <1> QED BY <1>1, <1>2, <1>6 DEF IInv, WalkInv, PhaseInv, Freeing, Looking

LEMMA InitMap == Init => Map!Init
  <1> SUFFICES ASSUME Init PROVE Map!Init
    OBVIOUS
  <1>1. \A n \in Names : ~ Has(chain, n)
    BY HashInBuckets DEF Has, Init
  <1>2. {m \in Names : Has(chain, m)} = {}
    BY <1>1
  <1>3. Contents = [n \in {} |-> 0]
    BY <1>2, ContentsView DEF View
  <1> QED BY <1>3 DEF Init, Map!Init, Freeing

(* A walk that has come to an entry of its name has found what the table   *)
(* says of it; one that has come to the end has shown that there is none.  *)
LEMMA HitHas ==
    ASSUME IInv, Hit
    PROVE  /\ ~ Freeing /\ call \in Map!Request
           /\ at \in DOMAIN Path /\ Has(chain, call.name) /\ Val(chain, call.name) = Strip(Path[at])
  <1>1. pc \in Looking /\ ~ Freeing /\ call \in Map!Request /\ call.name \in Names
    BY RequestFields DEF IInv, TypeInv, CallInv, Hit, AtEntry, Looking, Freeing, Resting
  <1>2. Sound(chain)
    BY <1>1 DEF IInv, AgreeInv, Tables
  <1>3. Path \in Seq(Row)
    BY <1>1, <1>2, HashInBuckets DEF Sound, Path
  <1>4. at \in DOMAIN Path
    BY <1>3 DEF IInv, TypeInv, Hit, AtEntry
  <1>5. Path[at].name = call.name
    BY DEF Hit
  <1> QED BY <1>1, <1>2, <1>4, <1>5, ValOfEntry DEF Path

LEMMA MissHasNot ==
    ASSUME IInv, Miss
    PROVE  ~ Freeing /\ call \in Map!Request /\ ~ Has(chain, call.name)
  <1>1. pc \in Looking /\ ~ Freeing /\ call \in Map!Request /\ call.name \in Names
    BY RequestFields DEF IInv, TypeInv, CallInv, Miss, Looking, Freeing, Resting
  <1>2. Path \in Seq(Row)
    BY <1>1, HashInBuckets DEF IInv, AgreeInv, Tables, Sound, Path
  <1>3. \A k \in DOMAIN Path : k < at
    BY <1>2 DEF Miss, IInv, TypeInv
  <1>4. \A k \in DOMAIN Path : Path[k].name # call.name
    BY <1>1, <1>3 DEF IInv, WalkInv
  <1> QED BY <1>1, <1>4 DEF Has, Path
-----------------------------------------------------------------------------
(***************************************************************************)
(* The steps.  Each keeps the invariant and is, for the map, a step of its *)
(* own or none.                                                            *)
(***************************************************************************)

MapStep == [Map!Next]_(Map!mapVars)

LEMMA Known ==
    ASSUME ~ Freeing, call.name \in Names
    PROVE  Map!IsKnown <=> Has(chain, call.name)
  BY ContentsView DEF Map!IsKnown, View

LEMMA Value ==
    ASSUME ~ Freeing, call.name \in Names, Has(chain, call.name)
    PROVE  Contents[call.name] = Val(chain, call.name)
  BY ContentsView DEF View

(* Module SymbolMap has its own instance of FiniteSets.                    *)
LEMMA SameCardinality == \A S : Map!Cardinality(S) = Cardinality(S)
  BY DEF Map!Cardinality, Cardinality

LEMMA Fullness ==
    ASSUME ~ Freeing, NEW s \in Seq(Row), Tables(s, chain)
    PROVE  Map!Full <=> Len(s) >= MaxSymbols
  <1>1. DOMAIN Contents = {n \in Names : Has(chain, n)}
    BY ContentsView DEF View
  <1>2. Cardinality(DOMAIN Contents) = Len(s)
    BY <1>1, TablesSize
  <1>3. (IF Freeing THEN [n \in {} |-> 0] ELSE Contents) = Contents
    OBVIOUS
  <1>4. Map!Full <=> Cardinality(DOMAIN Contents) >= MaxSymbols
    BY <1>3, SameCardinality DEF Map!Full
  <1> QED BY <1>2, <1>4

(* The array and the table at rest stay as they are.                       *)
LEMMA AgreeKept ==
    ASSUME AgreeInv, UNCHANGED <<symbols, chain>>, pc # "insert", ~ Moving,
           pc' # "insert", ~ Moving'
    PROVE  AgreeInv'
  <1>1. PICK s \in Seq(Row) : Tables(s, chain) /\ Ahead(s)
    BY DEF AgreeInv
  <1>2. Ahead(s)' /\ Tables(s, chain')
    BY <1>1 DEF Ahead
  <1> QED BY <1>2 DEF AgreeInv

LEMMA AtRest ==
    ASSUME AgreeInv, pc # "insert", ~ Moving
    PROVE  symbols \in Seq(Row) /\ Tables(symbols, chain)
  BY DEF AgreeInv, Ahead

LEMMA ReturnInv ==
    ASSUME IInv, NEW reply, Return(reply), AgreeInv'
    PROVE  IInv'
  <1>1. TypeInv'
    BY DEF IInv, TypeInv, CallInv, Phases, Resting, Return
  <1>2. pc' = "idle"
    BY DEF Return
  <1> QED BY <1>1, <1>2 DEF IInv, WalkInv, PhaseInv, Freeing, Looking

LEMMA Responds ==
    ASSUME ~ Freeing, NEW outcome, Return(Map!Reply(outcome)), UNCHANGED chain
    PROVE  Map!Respond(outcome)
  <1>1. Contents' = Contents
    BY ContentsView
  <1>2. ~ Freeing'
    BY DEF Return, Freeing
  <1> QED BY <1>1, <1>2 DEF Map!Respond, Return

(* A step inside a call.                                                   *)
LEMMA Stutters ==
    ASSUME ~ Freeing, ~ Freeing', UNCHANGED <<chain, call, answer>>
    PROVE  MapStep
  <1>1. Contents' = Contents
    BY ContentsView
  <1> QED BY <1>1 DEF MapStep, Map!mapVars

LEMMA CallStep ==
    ASSUME IInv, Call
    PROVE  IInv' /\ MapStep
  <1>1. /\ pc = "idle" /\ call' \in Map!Request /\ at' = 1 /\ answer' = Map!Reply("none")
        /\ UNCHANGED <<symbols, chain, bucket>>
        /\ pc' = CASE call'.op = "add" -> "full" [] call'.op = "move" -> "array" [] OTHER -> "lookup"
    BY DEF Call, Start
  <1>2. call'.op \in {"add", "upsert", "move", "find"}
    BY <1>1, RequestFields
  <1>3. \/ pc' = "full" /\ call'.op = "add"
        \/ pc' = "array" /\ call'.op = "move"
        \/ pc' = "lookup" /\ call'.op \in {"upsert", "find"}
    BY <1>1, <1>2
  <1>4. ~ Freeing /\ ~ Freeing' /\ call = Map!NoRequest
    BY <1>1, <1>3 DEF Freeing, IInv, TypeInv, CallInv, Resting
  <1>5. TypeInv'
    BY <1>1, <1>3 DEF IInv, TypeInv, CallInv, Phases, Resting
  <1>6. AgreeInv'
    BY <1>1, <1>3, <1>4, AgreeKept DEF IInv, Moving
  <1>7. WalkInv'
    <2>1. Path' \in Seq(Row)
      BY <1>1, <1>4, RequestFields, HashInBuckets DEF IInv, AgreeInv, Tables, Sound, Path
    <2> QED BY <2>1, <1>1 DEF WalkInv
  <1>8. PhaseInv'
    BY <1>3 DEF PhaseInv
  <1>9. MapStep
    <2>1. Contents' = Contents
      BY <1>1, ContentsView
    <2> QED BY <2>1, <1>1, <1>4 DEF MapStep, Map!Next, Map!Invoke
  <1> QED BY <1>4, <1>5, <1>6, <1>7, <1>8, <1>9 DEF IInv

LEMMA CheckCapacityStep ==
    ASSUME IInv, CheckCapacity
    PROVE  IInv' /\ MapStep
  <1>1. /\ pc = "full" /\ ~ Freeing /\ call \in Map!Request /\ call.op \in {"add", "upsert"}
        /\ UNCHANGED <<symbols, chain>>
    BY DEF CheckCapacity, IInv, TypeInv, CallInv, Freeing, Resting
  <1>2. symbols \in Seq(Row) /\ Tables(symbols, chain)
    BY <1>1, AtRest DEF IInv, Moving
  <1>3. CASE Len(symbols) >= MaxSymbols /\ Return(Map!Reply("full"))
    <2>1. AgreeInv'
      BY <1>1, <1>3, AgreeKept DEF IInv, Moving, Return
    <2>2. Map!Full /\ Map!Respond("full")
      BY <1>1, <1>2, <1>3, Fullness, Responds
    <2>3. call.op = "upsert" => ~ Map!IsKnown
      BY <1>1, Known, RequestFields DEF IInv, PhaseInv
    <2>4. Map!Next
      BY <1>1, <2>2, <2>3 DEF Map!Next, Map!Add, Map!Upsert, Map!Insert, Map!Asked
    <2> QED BY <1>3, <2>1, <2>4, ReturnInv DEF MapStep
  <1>4. CASE Len(symbols) < MaxSymbols /\ Start("addlookup") /\ UNCHANGED <<call, answer, bucket>>
    <2>1. pc' = "addlookup" /\ at' = 1 /\ UNCHANGED <<call, answer, bucket>> /\ ~ Freeing'
      BY <1>4 DEF Start, Freeing
    <2>2. TypeInv'
      BY <1>1, <2>1 DEF IInv, TypeInv, CallInv, Phases, Resting
    <2>3. AgreeInv'
      BY <1>1, <2>1, AgreeKept DEF IInv, Moving
    <2>4. WalkInv'
      <3>1. Path' \in Seq(Row)
        BY <1>1, <1>2, <2>1, RequestFields, HashInBuckets DEF Tables, Sound, Path
      <3> QED BY <3>1, <2>1 DEF WalkInv
    <2>5. PhaseInv'
      BY <1>1, <1>4, <2>1 DEF IInv, PhaseInv
    <2>6. MapStep
      BY <1>1, <2>1, Stutters
    <2> QED BY <2>1, <2>2, <2>3, <2>4, <2>5, <2>6 DEF IInv
  <1> QED BY <1>3, <1>4 DEF CheckCapacity

LEMMA MoveInArrayStep ==
    ASSUME IInv, MoveInArray
    PROVE  IInv' /\ MapStep
  <1>1. pc = "array" /\ ~ Freeing /\ call \in Map!Request /\ call.op = "move" /\ UNCHANGED chain
    BY DEF MoveInArray, IInv, TypeInv, CallInv, Freeing, Resting
  <1>2. symbols \in Seq(Row) /\ Tables(symbols, chain) /\ call.name \in Names
    BY <1>1, AtRest, RequestFields DEF IInv, Moving
  <1>3. Has(chain, call.name) <=> InArray(call.name)
    BY <1>2 DEF Tables, Among, InArray
  <1>4. CASE ~ InArray(call.name) /\ Return(Map!Reply("absent")) /\ UNCHANGED symbols
    <2>1. AgreeInv'
      BY <1>1, <1>4, AgreeKept DEF IInv, Moving, Return
    <2>2. Map!Respond("absent") /\ ~ Map!IsKnown
      BY <1>1, <1>2, <1>3, <1>4, Known, Responds
    <2>3. Map!Next
      BY <1>1, <2>2 DEF Map!Next, Map!Move, Map!Asked
    <2> QED BY <1>4, <2>1, <2>3, ReturnInv DEF MapStep
  <1>5. CASE /\ InArray(call.name) /\ symbols' = Relabelled(call.name, call.address)
             /\ Start("update") /\ UNCHANGED <<call, answer, bucket>>
    <2>1. pc' = "update" /\ at' = 1 /\ UNCHANGED <<call, answer, bucket>> /\ ~ Freeing'
      BY <1>5 DEF Start, Freeing
    <2>2. TypeInv'
      BY <1>1, <2>1 DEF IInv, TypeInv, CallInv, Phases, Resting
    <2>3. AgreeInv'
      <3>1. symbols' = Moved(symbols, call.name, call.address)
        BY <1>5 DEF Relabelled, Moved
      <3>2. \E s \in Seq(Row) : /\ Tables(s, chain')
                                /\ symbols' = Moved(s, call'.name, call'.address)
        BY <3>1, <1>1, <1>2, <2>1
      <3> QED BY <3>2, <2>1, <1>1 DEF AgreeInv, Ahead, Moving
    <2>4. WalkInv'
      <3>1. Path' \in Seq(Row)
        BY <1>1, <1>2, <2>1, HashInBuckets DEF Tables, Sound, Path
      <3> QED BY <3>1, <2>1 DEF WalkInv
    <2>5. PhaseInv'
      BY <1>1, <1>3, <1>5, <2>1 DEF PhaseInv
    <2>6. MapStep
      BY <1>1, <2>1, Stutters
    <2> QED BY <2>1, <2>2, <2>3, <2>4, <2>5, <2>6 DEF IInv
  <1> QED BY <1>4, <1>5 DEF MoveInArray

LEMMA NextEntryStep ==
    ASSUME IInv, NextEntry
    PROVE  IInv' /\ MapStep
  <1>1. /\ pc \in Looking /\ Path[at].name # call.name /\ at' = at + 1
        /\ UNCHANGED <<symbols, chain, call, pc, answer, bucket>>
    BY DEF NextEntry, AtEntry
  <1>2. ~ Freeing /\ ~ Freeing' /\ call \in Map!Request /\ call.name \in Names /\ at \in Nat \ {0}
    BY <1>1, RequestFields DEF IInv, TypeInv, CallInv, Freeing, Looking, Resting
  <1>3. TypeInv'
    BY <1>1, <1>2 DEF IInv, TypeInv, CallInv
  <1>4. AgreeInv'
    BY <1>1, <1>2 DEF IInv, AgreeInv, Ahead, Moving, NewRow
  <1>5. WalkInv'
    <2>1. Path \in Seq(Row) /\ Path' = Path
      BY <1>1, <1>2, HashInBuckets DEF IInv, AgreeInv, Tables, Sound, Path
    <2> QED BY <2>1, <1>1, <1>2 DEF IInv, WalkInv
  <1>6. PhaseInv'
    BY <1>1, <1>2 DEF IInv, PhaseInv
  <1>7. MapStep
    BY <1>1, <1>2, Stutters
  <1> QED BY <1>2, <1>3, <1>4, <1>5, <1>6, <1>7 DEF IInv

LEMMA RedefinedStep ==
    ASSUME IInv, Redefined
    PROVE  IInv' /\ MapStep
  <1>1. Hit /\ pc = "addlookup" /\ Return(Map!Reply("redefined")) /\ UNCHANGED <<symbols, chain>>
    BY DEF Redefined
  <1>2. ~ Freeing /\ call.name \in Names /\ Has(chain, call.name)
    BY <1>1, HitHas, RequestFields
  <1>3. call.op = "add" /\ Len(symbols) < MaxSymbols
    BY <1>1, <1>2 DEF IInv, TypeInv, CallInv, PhaseInv
  <1>4. symbols \in Seq(Row) /\ Tables(symbols, chain)
    BY <1>1, <1>2, AtRest DEF IInv, Moving
  <1>5. AgreeInv'
    BY <1>1, <1>2, AgreeKept DEF IInv, Moving, Return
  <1>6. Map!Respond("redefined") /\ Map!IsKnown
    BY <1>1, <1>2, Known, Responds
  <1>7. ~ Map!Full
    BY <1>2, <1>3, <1>4, Fullness, CapacityAssumption
  <1>8. Map!Next
    BY <1>3, <1>6, <1>7 DEF Map!Next, Map!Add, Map!Asked
  <1> QED BY <1>1, <1>5, <1>8, ReturnInv DEF MapStep

LEMMA FindAddressStep ==
    ASSUME IInv, FindAddress
    PROVE  IInv' /\ MapStep
  <1>1. pc = "lookup" /\ call.op = "find" /\ UNCHANGED <<symbols, chain>> /\ ~ Freeing
    BY DEF FindAddress, Freeing
  <1>2. call \in Map!Request /\ call.name \in Names
    BY <1>1, RequestFields DEF IInv, TypeInv, CallInv, Resting
  <1>3. CASE Hit /\ Return(Map!Found(Path[at].address))
    <2>1. AgreeInv'
      BY <1>1, <1>3, AgreeKept DEF IInv, Moving, Return
    <2>2. Has(chain, call.name) /\ Val(chain, call.name) = Strip(Path[at])
      BY <1>3, HitHas
    <2>3. Map!IsKnown /\ Contents[call.name].address = Path[at].address
      BY <1>1, <1>2, <2>2, Known, Value DEF Strip
    <2>4. Contents' = Contents
      BY <1>1, ContentsView
    <2>5. ~ Freeing' /\ answer' = Map!Found(Path[at].address) /\ call' = Map!NoRequest
      BY <1>3 DEF Return, Freeing
    <2>6. Map!Next
      BY <1>1, <2>3, <2>4, <2>5 DEF Map!Next, Map!Find, Map!Asked
    <2> QED BY <1>3, <2>1, <2>6, ReturnInv DEF MapStep
  <1>4. CASE Miss /\ Return(Map!Reply("absent"))
    <2>1. AgreeInv'
      BY <1>1, <1>4, AgreeKept DEF IInv, Moving, Return
    <2>2. ~ Map!IsKnown /\ Map!Respond("absent")
      BY <1>1, <1>2, <1>4, MissHasNot, Known, Responds
    <2>3. Map!Next
      BY <1>1, <2>2 DEF Map!Next, Map!Find, Map!Asked
    <2> QED BY <1>4, <2>1, <2>3, ReturnInv DEF MapStep
  <1> QED BY <1>3, <1>4 DEF FindAddress

LEMMA UpsertStep ==
    ASSUME IInv, Upsert
    PROVE  IInv' /\ MapStep
  <1>1. pc = "lookup" /\ call.op = "upsert" /\ UNCHANGED <<symbols, chain>> /\ ~ Freeing
    BY DEF Upsert, Freeing
  <1>2. call \in Map!Request /\ call.name \in Names
    BY <1>1, RequestFields DEF IInv, TypeInv, CallInv, Resting
  <1>3. CASE Hit /\ Path[at].external /\ Return(Map!Reply("external"))
    <2>1. AgreeInv'
      BY <1>1, <1>3, AgreeKept DEF IInv, Moving, Return
    <2>2. Has(chain, call.name) /\ Val(chain, call.name) = Strip(Path[at])
      BY <1>3, HitHas
    <2>3. Map!IsKnown /\ Contents[call.name].external /\ Map!Respond("external")
      BY <1>1, <1>2, <1>3, <2>2, Known, Value, Responds DEF Strip
    <2>4. Map!Next
      BY <1>1, <2>3 DEF Map!Next, Map!Upsert, Map!Asked
    <2> QED BY <1>3, <2>1, <2>4, ReturnInv DEF MapStep
  <1>4. ASSUME NEW phase \in {"update", "full"}, Start(phase), UNCHANGED <<call, answer, bucket>>,
               phase = "update" => Has(chain, call.name) /\ ~ Val(chain, call.name).external,
               phase = "full" => ~ Has(chain, call.name)
        PROVE  IInv' /\ MapStep
    <2>1. pc' = phase /\ at' = 1 /\ UNCHANGED <<call, answer, bucket>> /\ ~ Freeing'
      BY <1>4 DEF Start, Freeing
    <2>2. TypeInv'
      BY <1>1, <1>2, <2>1 DEF IInv, TypeInv, CallInv, Phases, Resting
    <2>3. AgreeInv'
      BY <1>1, <2>1, AgreeKept DEF IInv, Moving
    <2>4. WalkInv'
      <3>1. Path' \in Seq(Row)
        BY <1>1, <1>2, <2>1, HashInBuckets DEF IInv, AgreeInv, Tables, Sound, Path
      <3> QED BY <3>1, <2>1 DEF WalkInv
    <2>5. PhaseInv'
      BY <1>1, <1>4, <2>1 DEF PhaseInv
    <2>6. MapStep
      BY <1>1, <2>1, Stutters
    <2> QED BY <2>1, <2>2, <2>3, <2>4, <2>5, <2>6 DEF IInv
  <1>5. CASE Hit /\ ~ Path[at].external /\ Start("update") /\ UNCHANGED <<call, answer, bucket>>
    <2>1. Has(chain, call.name) /\ ~ Val(chain, call.name).external
      BY <1>5, HitHas DEF Strip
    <2> QED BY <1>4, <1>5, <2>1
  <1>6. CASE Miss /\ Start("full") /\ UNCHANGED <<call, answer, bucket>>
    <2>1. ~ Has(chain, call.name)
      BY <1>6, MissHasNot
    <2> QED BY <1>4, <1>6, <2>1
  <1> QED BY <1>3, <1>5, <1>6 DEF Upsert

(* An update writes the same row and entry, whether the array was ahead or *)
(* not.                                                                    *)
LEMMA UpdateStep ==
    ASSUME IInv, Update
    PROVE  IInv' /\ MapStep
  <1> DEFINE n == call.name
             r == [name |-> n, address |-> call.address,
                   external |-> Written.external, section |-> Written.section]
  <1>1. pc = "update" /\ Hit /\ Return(Map!Reply("ok"))
    BY DEF Update
  <1>2. /\ ~ Freeing /\ call \in Map!Request /\ n \in Names /\ call.op \in {"move", "upsert"}
        /\ at \in DOMAIN chain[Hash[n]] /\ Has(chain, n) /\ chain[Hash[n]][at].name = n
    BY <1>1, HitHas, RequestFields DEF Path, Hit, IInv, TypeInv, CallInv
  <1>3. PICK s \in Seq(Row) : Tables(s, chain) /\ Ahead(s)
    BY <1>2 DEF IInv, AgreeInv
  <1>4. PICK i \in DOMAIN s : s[i].name = n
    BY <1>2, <1>3 DEF Tables, Among
  <1>5. s[i] \in Row /\ \A j \in DOMAIN s : s[j] \in Row
    BY <1>4
  <1>6. \A j \in DOMAIN s : s[j].name = n => j = i
    BY <1>3, <1>4 DEF Tables, Distinct
  <1>7. /\ symbols \in Seq(Row) /\ DOMAIN symbols = DOMAIN s
        /\ \A j \in DOMAIN s : /\ symbols[j].name = s[j].name
                               /\ symbols[j].external = s[j].external
                               /\ symbols[j].section = s[j].section
                               /\ s[j].name # n => symbols[j] = s[j]
    <2>1. CASE call.op = "move"
      <3>1. symbols = Moved(s, n, call.address)
        BY <1>1, <1>3, <2>1 DEF Ahead, Moving
      <3>2. \A j \in DOMAIN s : [s[j] EXCEPT !.address = call.address] \in Row
        BY <1>2, <1>5, RequestFields DEF Row
      <3>3. symbols \in Seq(Row) /\ DOMAIN symbols = DOMAIN s
        <4>1. DOMAIN s = 1..Len(s) /\ Len(s) \in Nat
          OBVIOUS
        <4>2. symbols \in [1..Len(s) -> Row]
          BY <3>1, <3>2, <1>5, <4>1 DEF Moved
        <4> QED BY <4>1, <4>2
      <3> QED BY <3>1, <3>3, <1>5 DEF Moved, Row
    <2>2. CASE call.op # "move"
      BY <1>1, <1>3, <2>2 DEF Ahead, Moving
    <2> QED BY <2>1, <2>2
  <1>8. call.op = "move" => Written.external = s[i].external /\ Written.section = s[i].section
    <2>1. (CHOOSE j \in DOMAIN symbols : symbols[j].name = call.name) = i
      BY <1>4, <1>6, <1>7
    <2>2. ArrayRow(call.name) = symbols[i]
      BY <2>1 DEF ArrayRow
    <2> QED BY <2>2, <1>4, <1>7 DEF Written
  <1>9. call.op # "move" => Written = Map!Requested(call)
    BY DEF Written
  <1>10. r \in Row /\ r.name = n
    <2>1. Written.external \in BOOLEAN /\ Written.section \in {-1, 0, 1}
      <3>1. CASE call.op = "move"
        BY <3>1, <1>5, <1>8, RowFields
      <3>2. CASE call.op # "move"
        <4>1. Written.external = call.external /\ Written.section = call.section
          BY <3>2, <1>9 DEF Map!Requested
        <4> QED BY <4>1, <1>2, RequestFields
      <3> QED BY <3>1, <3>2
    <2> QED BY <2>1, <1>2, RequestFields DEF Row
  <1>11. \A j \in DOMAIN s : symbols[j].name = n =>
            [symbols[j] EXCEPT !.address = call.address, !.external = Written.external,
                               !.section = Written.section] = r
    <2> TAKE j \in DOMAIN s
    <2>1. symbols[j] \in Row
      BY <1>7
    <2>2. Rewritten(symbols[j], call.address, Written.external, Written.section)
          = RowOf(symbols[j].name, call.address, Written.external, Written.section)
      BY <2>1, RowRewritten
    <2> QED BY <2>2 DEF Rewritten, RowOf
  <1>12. symbols' = [j \in DOMAIN s |-> IF s[j].name = n THEN r ELSE s[j]]
    <2>1. symbols' = [j \in DOMAIN symbols |->
                        IF symbols[j].name = n
                        THEN [symbols[j] EXCEPT !.address = call.address,
                                                !.external = Written.external,
                                                !.section = Written.section]
                        ELSE symbols[j]]
      BY DEF Update
    <2> HIDE DEF r
    <2> QED BY <2>1, <1>7, <1>11
  <1>13. chain' = [chain EXCEPT ![Hash[n]][at] = r]
    BY DEF Update
  <1> HIDE DEF r
  <1>14. symbols' \in Seq(Row) /\ DOMAIN symbols' = DOMAIN s
         /\ \A j \in DOMAIN s : symbols'[j] = IF s[j].name = r.name THEN r ELSE s[j]
    <2>1. DOMAIN s = 1..Len(s) /\ Len(s) \in Nat
      OBVIOUS
    <2>2. symbols' \in [1..Len(s) -> Row]
      BY <2>1, <1>5, <1>10, <1>12
    <2>3. symbols' \in Seq(Row)
      BY <2>1, <2>2
    <2> QED BY <2>3, <1>10, <1>12
  <1>15. Replaced(chain, chain', r, at)
    <2>1. chain \in [Buckets -> Seq(Row)] /\ Hash[n] \in Buckets /\ chain[Hash[n]] \in Seq(Row)
      BY <1>2, <1>3, HashInBuckets DEF Tables, Sound
    <2>2. chain' = [chain EXCEPT ![Hash[n]] = [chain[Hash[n]] EXCEPT ![at] = r]]
      BY <1>13, <2>1
    <2> DEFINE new == [chain[Hash[n]] EXCEPT ![at] = r]
    <2>3. /\ new \in Seq(Row) /\ DOMAIN new = DOMAIN chain[Hash[n]] /\ new[at] = r
          /\ \A k \in DOMAIN chain[Hash[n]] : k # at => new[k] = chain[Hash[n]][k]
      BY <2>1, <1>2, <1>10
    <2> HIDE DEF new
    <2>4. chain' = [chain EXCEPT ![Hash[n]] = new]
      BY <2>2 DEF new
    <2>5. chain' \in [Buckets -> Seq(Row)] /\ chain'[Hash[n]] = new
          /\ \A b \in Buckets : b # Hash[n] => chain'[b] = chain[b]
      BY <2>1, <2>3, <2>4
    <2> QED BY <2>3, <2>5, <1>10 DEF Replaced
  <1>16. Tables(symbols', chain')
    <2>1. at \in DOMAIN chain[Hash[r.name]] /\ chain[Hash[r.name]][at].name = r.name
      BY <1>2, <1>10
    <2> QED BY <2>1, <1>3, <1>10, <1>14, <1>15, TablesSet
  <1>17. AgreeInv'
    BY <1>1, <1>14, <1>16 DEF AgreeInv, Ahead, Moving, Return
  <1>18. MapStep
    <2>1. Sound(chain) /\ at \in DOMAIN chain[Hash[r.name]] /\ chain[Hash[r.name]][at].name = r.name
      BY <1>2, <1>3, <1>10 DEF Tables
    <2>2. /\ \A m \in Names : Has(chain', m) <=> Has(chain, m)
          /\ \A m \in Names : Has(chain', m) =>
                Val(chain', m) = IF m = n THEN Strip(r) ELSE Val(chain, m)
      BY <2>1, <1>10, <1>15, Overwrite
    <2>3. Val(chain, n) = Strip(s[i])
      BY <1>3, <1>4 DEF Tables
    <2>4. Map!IsKnown /\ Contents[n] = Strip(s[i])
      BY <2>3, <1>2, Known, Value
    <2>5. Contents' = [m \in (DOMAIN Contents) \cup {n} |-> IF m = n THEN Strip(r) ELSE Contents[m]]
      <3>1. Contents = View(chain) /\ Contents' = View(chain')
        BY ContentsView
      <3>2. {m \in Names : Has(chain', m)} = {m \in Names : Has(chain, m)} \cup {n}
        BY <2>2, <1>2
      <3> QED BY <3>1, <3>2, <2>2 DEF View
    <2>6. Map!Store(Strip(r))
      <3>1. ~ Freeing' /\ answer' = Map!Reply("ok") /\ call' = Map!NoRequest
        BY <1>1 DEF Return, Freeing
      <3> QED BY <3>1, <2>5, <1>2 DEF Map!Store
    <2>7. CASE call.op = "move"
      <3>1. Strip(r) = [Contents[n] EXCEPT !.address = call.address]
        BY <2>4, <2>7, <1>8 DEF r, Strip
      <3>2. Map!Move
        BY <3>1, <2>4, <2>6, <2>7, <1>2 DEF Map!Move, Map!Asked
      <3> QED BY <3>2 DEF MapStep, Map!Next
    <2>8. CASE call.op = "upsert"
      <3>1. Strip(r) = Map!Requested(call)
        BY <2>8, <1>9 DEF r, Strip, Map!Requested
      <3>2. ~ Contents[n].external
        BY <2>8, <1>1, <1>2, Value DEF IInv, PhaseInv
      <3>3. Map!Upsert
        BY <3>1, <3>2, <2>4, <2>6, <2>8, <1>2 DEF Map!Upsert, Map!Asked
      <3> QED BY <3>3 DEF MapStep, Map!Next
    <2> QED BY <2>7, <2>8, <1>2
  <1> QED BY <1>1, <1>17, <1>18, ReturnInv

LEMMA AppendRowStep ==
    ASSUME IInv, AppendRow
    PROVE  IInv' /\ MapStep
  <1>1. /\ pc = "addlookup" /\ Miss /\ symbols' = Append(symbols, NewRow) /\ pc' = "insert"
        /\ UNCHANGED <<chain, call, at, answer, bucket>> /\ ~ Freeing'
    BY DEF AppendRow, Freeing
  <1>2. ~ Freeing /\ call \in Map!Request /\ ~ Has(chain, call.name)
    BY <1>1, MissHasNot
  <1>3. symbols \in Seq(Row) /\ Tables(symbols, chain) /\ Len(symbols) < MaxSymbols
    BY <1>1, <1>2, AtRest DEF IInv, Moving, PhaseInv
  <1>4. TypeInv'
    BY <1>1, <1>2 DEF IInv, TypeInv, CallInv, Phases, Resting
  <1>5. AgreeInv'
    <2>1. NewRow' = NewRow
      BY <1>1 DEF NewRow
    <2>2. \E s \in Seq(Row) : /\ Tables(s, chain') /\ Len(s) < MaxSymbols
                              /\ symbols' = Append(s, NewRow')
      BY <2>1, <1>1, <1>3
    <2> QED BY <2>2, <1>1 DEF AgreeInv, Ahead, Moving
  <1>6. WalkInv' /\ PhaseInv'
    BY <1>1, <1>2 DEF WalkInv, PhaseInv, Looking
  <1>7. MapStep
    BY <1>1, <1>2, Stutters
  <1> QED BY <1>1, <1>4, <1>5, <1>6, <1>7 DEF IInv

LEMMA InsertPhase ==
    ASSUME IInv, pc = "insert"
    PROVE  /\ ~ Freeing /\ call \in Map!Request /\ call.op \in {"add", "upsert"} /\ NewRow \in Row
           /\ ~ Map!IsKnown /\ ~ Map!Full /\ ~ Has(chain, call.name)
           /\ \E s \in Seq(Row) : Tables(s, chain) /\ symbols = Append(s, NewRow)
  <1>1. ~ Freeing /\ call \in Map!Request /\ call.op \in {"add", "upsert"}
    BY DEF IInv, TypeInv, CallInv, Freeing, Resting
  <1>2. NewRow \in Row /\ call.name \in Names
    BY <1>1, RequestFields DEF NewRow, Row
  <1>3. ~ Has(chain, call.name) /\ ~ Map!IsKnown
    BY <1>1, <1>2, Known DEF IInv, PhaseInv
  <1>4. PICK s \in Seq(Row) : Tables(s, chain) /\ symbols = Append(s, NewRow) /\ Len(s) < MaxSymbols
    BY <1>1 DEF IInv, AgreeInv, Ahead
  <1>5. ~ Map!Full
    BY <1>1, <1>4, Fullness, CapacityAssumption
  <1> QED BY <1>1, <1>2, <1>3, <1>4, <1>5

LEMMA InsertStep ==
    ASSUME IInv, Insert
    PROVE  IInv' /\ MapStep
  <1>1. /\ pc = "insert" /\ chain' = [chain EXCEPT ![Hash[call.name]] = <<NewRow>> \o @]
        /\ Return(Map!Reply("ok")) /\ UNCHANGED symbols
    BY DEF Insert
  <1>2. /\ ~ Freeing /\ call \in Map!Request /\ call.op \in {"add", "upsert"} /\ NewRow \in Row
        /\ ~ Map!IsKnown /\ ~ Map!Full /\ ~ Has(chain, call.name)
    BY <1>1, InsertPhase
  <1>3. PICK s \in Seq(Row) : Tables(s, chain) /\ symbols = Append(s, NewRow)
    BY <1>1, InsertPhase
  <1>4. NewRow.name = call.name /\ call.name \in Names /\ Strip(NewRow) = Map!Requested(call)
    BY <1>2, RequestFields DEF NewRow, Strip, Map!Requested
  <1>5. Prepended(chain, chain', NewRow)
    <2> DEFINE h == Hash[call.name]
               new == Pushed(NewRow, chain[h])
    <2>1. chain \in [Buckets -> Seq(Row)] /\ h \in Buckets /\ chain[h] \in Seq(Row)
      BY <1>3, <1>4, HashInBuckets DEF Tables, Sound
    <2>2. new \in Seq(Row)
      BY <2>1, <1>2, NewHead
    <2>3. chain' = [chain EXCEPT ![h] = new]
      BY <1>1, <2>1 DEF Pushed
    <2> HIDE DEF h, new
    <2>4. chain' \in [Buckets -> Seq(Row)] /\ chain'[h] = new
          /\ \A b \in Buckets : b # h => chain'[b] = chain[b]
      BY <2>1, <2>2, <2>3
    <2> QED BY <2>4, <1>4 DEF Prepended, h, new
  <1> DEFINE r == NewRow
  <1>6. r \in Row /\ r.name = call.name /\ Prepended(chain, chain', r) /\ ~ Has(chain, r.name)
        /\ Strip(r) = Map!Requested(call) /\ symbols = Append(s, r)
    BY <1>2, <1>3, <1>4, <1>5
  <1> HIDE DEF r
  <1>7. symbols' \in Seq(Row) /\ Tables(symbols', chain')
    BY <1>1, <1>3, <1>6, TablesAdd
  <1>8. AgreeInv'
    BY <1>1, <1>7 DEF AgreeInv, Ahead, Moving, Return
  <1>9. /\ \A n \in Names : Has(chain', n) <=> (Has(chain, n) \/ n = call.name)
        /\ \A n \in Names : Has(chain', n) =>
              Val(chain', n) = IF n = call.name THEN Strip(r) ELSE Val(chain, n)
    <2>1. Sound(chain)
      BY <1>3 DEF Tables
    <2> QED BY <2>1, <1>6, Prepend
  <1>10. Contents' = [m \in (DOMAIN Contents) \cup {call.name} |->
                        IF m = call.name THEN Strip(r) ELSE Contents[m]]
    <2>1. Contents = View(chain) /\ Contents' = View(chain')
      BY ContentsView
    <2>2. {m \in Names : Has(chain', m)} = {m \in Names : Has(chain, m)} \cup {call.name}
      BY <1>4, <1>9
    <2> QED BY <2>1, <2>2, <1>9 DEF View
  <1>11. Map!Store(Map!Requested(call))
    <2>1. ~ Freeing' /\ answer' = Map!Reply("ok") /\ call' = Map!NoRequest
      BY <1>1 DEF Return, Freeing
    <2> QED BY <2>1, <1>2, <1>6, <1>10 DEF Map!Store
  <1>12. Map!Insert
    BY <1>2, <1>11 DEF Map!Insert
  <1>13. Map!Next
    BY <1>2, <1>12 DEF Map!Next, Map!Add, Map!Upsert, Map!Asked
  <1> QED BY <1>1, <1>8, <1>13, ReturnInv DEF MapStep

LEMMA LastTaken ==
    ASSUME NEW s \in Seq(Row), NEW r \in Row
    PROVE  SubSeq(Append(s, r), 1, Len(Append(s, r)) - 1) = s
  <1> DEFINE t == SubSeq(Append(s, r), 1, Len(Append(s, r)) - 1)
  <1>1. Append(s, r) \in Seq(Row) /\ Len(Append(s, r)) - 1 = Len(s) /\ Len(s) \in Nat
    OBVIOUS
  <1>2. \A j \in 1..Len(s) : Append(s, r)[j] = s[j]
    OBVIOUS
  <1>3. t \in Seq(Row) /\ Len(t) = Len(s) /\ \A j \in 1..Len(s) : t[j] = s[j]
    BY <1>1, <1>2
  <1> HIDE DEF t
  <1>4. t = s
    BY <1>3
  <1> QED BY <1>4 DEF t

LEMMA OutOfMemoryStep ==
    ASSUME IInv, OutOfMemory
    PROVE  IInv' /\ MapStep
  <1>1. /\ pc = "insert" /\ symbols' = SubSeq(symbols, 1, Len(symbols) - 1)
        /\ Return(Map!Reply("memory")) /\ UNCHANGED chain
    BY DEF OutOfMemory
  <1>2. /\ ~ Freeing /\ call.op \in {"add", "upsert"} /\ NewRow \in Row
        /\ ~ Map!IsKnown /\ ~ Map!Full
    BY <1>1, InsertPhase
  <1>3. PICK s \in Seq(Row) : Tables(s, chain) /\ symbols = Append(s, NewRow)
    BY <1>1, InsertPhase
  <1>4. symbols' = s
    BY <1>1, <1>2, <1>3, LastTaken
  <1>5. AgreeInv'
    BY <1>1, <1>3, <1>4 DEF AgreeInv, Ahead, Moving, Return
  <1>6. Map!Respond("memory")
    BY <1>1, <1>2, Responds
  <1>7. Map!Next
    BY <1>2, <1>6 DEF Map!Next, Map!Add, Map!Upsert, Map!Insert, Map!Asked
  <1> QED BY <1>1, <1>5, <1>7, ReturnInv DEF MapStep

LEMMA FreeStep ==
    ASSUME IInv, Free
    PROVE  IInv' /\ MapStep
  <1>1. pc = "idle" /\ pc' = "free" /\ bucket' = 0 /\ UNCHANGED <<symbols, chain, call, at, answer>>
    BY DEF Free
  <1>2. ~ Freeing /\ Freeing' /\ call = Map!NoRequest
    BY <1>1 DEF Freeing, IInv, TypeInv, CallInv, Resting
  <1>3. TypeInv'
    BY <1>1, <1>2, SizeAssumption DEF IInv, TypeInv, CallInv, Phases, Resting
  <1>4. FreeInv'
    BY <1>1, <1>2 DEF IInv, AgreeInv, Tables, Sound, FreeInv, Buckets
  <1>5. MapStep
    BY <1>1, <1>2 DEF MapStep, Map!Next, Map!Close
  <1> QED BY <1>2, <1>3, <1>4, <1>5 DEF IInv

(* The table of the map is empty while asm_free takes the chains apart.    *)
LEMMA FreeingStep ==
    ASSUME IInv, FreeEntry \/ NextBucket \/ Freed
    PROVE  IInv' /\ MapStep
  <1>1. pc = "free" /\ pc' \in {"free", "freed"} /\ UNCHANGED <<symbols, call, at, answer>>
    BY DEF FreeEntry, NextBucket, Freed
  <1>2. Freeing /\ Freeing' /\ FreeInv /\ bucket \in 0..HashTableSize /\ call = Map!NoRequest
    BY <1>1 DEF Freeing, IInv, TypeInv, CallInv, Resting
  <1>3. bucket' \in 0..HashTableSize /\ FreeInv'
    <2>1. CASE FreeEntry
      <3>1. /\ bucket \in Buckets /\ bucket' = bucket /\ pc' = "free" /\ chain[bucket] # <<>>
            /\ chain' = [chain EXCEPT ![bucket] = Tail(@)]
        BY <2>1, <1>1, <1>2, SizeAssumption DEF FreeEntry, Buckets
      <3>2. Tail(chain[bucket]) \in Seq(Row)
        BY <3>1, <1>2 DEF FreeInv
      <3>3. chain' \in [Buckets -> Seq(Row)] /\ \A b \in Buckets : b # bucket => chain'[b] = chain[b]
        BY <3>1, <3>2, <1>2 DEF FreeInv
      <3>4. \A b \in Buckets : b < bucket => b # bucket
        BY <3>1 DEF Buckets
      <3> QED BY <3>1, <3>3, <3>4, <1>2 DEF FreeInv
    <2>2. CASE NextBucket
      <3>1. bucket < HashTableSize /\ bucket' = bucket + 1 /\ chain[bucket] = <<>>
            /\ UNCHANGED <<chain, pc>>
        BY <2>2 DEF NextBucket
      <3>2. \A b \in Buckets : b < bucket + 1 => b < bucket \/ b = bucket
        BY <1>2 DEF Buckets
      <3> QED BY <3>1, <3>2, <1>1, <1>2, SizeAssumption DEF FreeInv
    <2>3. CASE Freed
      BY <2>3, <1>2 DEF Freed, FreeInv
    <2> QED BY <2>1, <2>2, <2>3
  <1>4. TypeInv'
    BY <1>1, <1>2, <1>3 DEF IInv, TypeInv, CallInv, Phases, Resting
  <1>5. MapStep
    BY <1>1, <1>2 DEF MapStep, Map!mapVars
  <1> QED BY <1>2, <1>3, <1>4, <1>5 DEF IInv

LEMMA StandsStill ==
    ASSUME IInv, UNCHANGED vars
    PROVE  IInv' /\ MapStep
  <1>1. /\ symbols' = symbols /\ chain' = chain /\ call' = call /\ at' = at /\ pc' = pc
        /\ answer' = answer /\ bucket' = bucket
    BY DEF vars
  <1>2. TypeInv' <=> TypeInv
    BY <1>1 DEF TypeInv, CallInv
  <1>3. (AgreeInv' <=> AgreeInv) /\ (WalkInv' <=> WalkInv) /\ (PhaseInv' <=> PhaseInv)
    BY <1>1 DEF AgreeInv, Ahead, Moving, NewRow, WalkInv, Path, PhaseInv
  <1>4. (Freeing' <=> Freeing) /\ (FreeInv' <=> FreeInv)
    BY <1>1 DEF Freeing, FreeInv
  <1>5. Contents' = Contents
    BY <1>1, ContentsView
  <1>6. MapStep
    BY <1>1, <1>4, <1>5 DEF MapStep, Map!mapVars
  <1> QED BY <1>2, <1>3, <1>4, <1>6 DEF IInv

LEMMA NextStep ==
    ASSUME IInv, [Next]_vars
    PROVE  IInv' /\ MapStep
  <1>1. CASE Call
    BY <1>1, CallStep
  <1>2. CASE Step
    BY <1>2, CheckCapacityStep, MoveInArrayStep, NextEntryStep, RedefinedStep, FindAddressStep,
       UpsertStep, UpdateStep, AppendRowStep, InsertStep, OutOfMemoryStep, FreeingStep
    DEF Step
  <1>3. CASE Free
    BY <1>3, FreeStep
  <1>4. CASE Finished \/ UNCHANGED vars
    BY <1>4, StandsStill DEF Finished
  <1> QED BY <1>1, <1>2, <1>3, <1>4 DEF Next

LEMMA InvHolds == Spec => []IInv
  <1>1. IInv /\ [Next]_vars => IInv'
    BY NextStep
  <1> QED BY <1>1, InitInv, PTL DEF Spec

-----------------------------------------------------------------------------
LEMMA InvMatches == IInv => TableMatchesArray
  <1> SUFFICES ASSUME IInv PROVE TableMatchesArray
    OBVIOUS
  <1>1. ASSUME pc = "idle"
        PROVE  /\ \A n \in Names : Listed(n) <=> InArray(n)
               /\ \A j \in DOMAIN symbols : Strip(symbols[j]) = Contents[symbols[j].name]
               /\ Len(symbols) = Cardinality({n \in Names : InArray(n)})
    <2>1. symbols \in Seq(Row) /\ Tables(symbols, chain)
      BY <1>1, AtRest DEF IInv, Freeing, Moving
    <2>2. \A n \in Names : (Listed(n) <=> Has(chain, n)) /\ (InArray(n) <=> Has(chain, n))
      BY <2>1 DEF Listed, Chain, Has, InArray, Among, Tables
    <2>3. ASSUME NEW j \in DOMAIN symbols
          PROVE  Strip(symbols[j]) = Contents[symbols[j].name]
      <3>1. symbols[j].name \in Names /\ Val(chain, symbols[j].name) = Strip(symbols[j])
        BY <2>1, RowFields DEF Tables
      <3>2. Has(chain, symbols[j].name)
        BY <3>1, <2>1 DEF Tables, Among
      <3> QED BY <3>1, <3>2, ContentsView DEF View
    <2>4. {n \in Names : InArray(n)} = {n \in Names : Has(chain, n)}
      BY <2>2
    <2>5. Len(symbols) = Cardinality({n \in Names : Has(chain, n)})
      BY <2>1, TablesSize
    <2> QED BY <2>2, <2>3, <2>4, <2>5
  <1>2. ASSUME pc = "freed" PROVE \A b \in Buckets : chain[b] = <<>>
    BY <1>2, SizeAssumption DEF IInv, Freeing, FreeInv, Buckets
  <1> QED BY <1>1, <1>2 DEF TableMatchesArray

(* Between calls the array of symbols and the chains of the hash table hold *)
(* the same symbols with the same values, each once: after add_symbol, with *)
(* or without memory for the entry, after upsert_constant_symbol, and after *)
(* a label has moved.  asm_free leaves no entry in any chain.               *)
THEOREM TableIsArray == Spec => []TableMatchesArray
  BY InvHolds, InvMatches, PTL

(* The array and the chains implement the map of module SymbolMap: every    *)
(* call has the answer of a map and changes what a map would change, in one *)
(* of its steps, for every hash function and every capacity.                *)
THEOREM TableIsMap == Spec => ImplementsMap
  <1>1. IInv /\ [Next]_vars => [Map!Next]_(Map!mapVars)
    BY NextStep DEF MapStep
  <1> QED BY <1>1, InvHolds, InitMap, PTL DEF Spec, ImplementsMap, Map!Spec
=============================================================================
