----------------------------- MODULE SymbolHash -----------------------------
(***************************************************************************)
(* The symbol table as the code keeps it: the array symbols, which the     *)
(* writers and the passes walk through, and the hash table symbol_hash,    *)
(* whose buckets are chains that lookups follow entry by entry.  Two names *)
(* may share a bucket.  One step looks at one entry of a chain; malloc may *)
(* fail between the update of the array and that of the table; asm_free    *)
(* takes the chains apart.                                                 *)
(*                                                                         *)
(* is_resolved is left out: every entry of either is resolved.             *)
(***************************************************************************)
EXTENDS Integers, Sequences, FiniteSets

CONSTANTS
    Names, Addresses, MaxSymbols,
    HashTableSize,      \* HASH_TABLE_SIZE
    Hash                \* fnv1a_hash modulo the size

ASSUME SizeAssumption == HashTableSize \in Nat \ {0}
ASSUME HashAssumption == Hash \in [Names -> 0..(HashTableSize - 1)]
ASSUME CapacityAssumption == MaxSymbols \in Nat

Buckets == 0..(HashTableSize - 1)
Row     == [name : Names, address : Addresses, external : BOOLEAN, section : {-1, 0, 1}]

VARIABLES
    symbols,            \* the array
    chain,              \* the chain of each bucket, from its head
    call,               \* the call that is being made
    at,                 \* how far its lookup has come in the chain
    pc,
    answer,             \* of the last call
    bucket              \* how far asm_free has come

vars == <<symbols, chain, call, at, pc, answer, bucket>>

\* The abstraction: the names that a lookup finds, and what it finds.
Chain(n)  == chain[Hash[n]]
Listed(n) == \E k \in DOMAIN Chain(n) : Chain(n)[k].name = n
Place(n)  == CHOOSE k \in DOMAIN Chain(n) : Chain(n)[k].name = n
Strip(row) == [address |-> row.address, external |-> row.external, section |-> row.section]
Contents  == [n \in {m \in Names : Listed(m)} |-> Strip(Chain(n)[Place(n)])]

Freeing == pc \in {"free", "freed"}
Map == INSTANCE SymbolMap WITH
    table   <- IF Freeing THEN [n \in {} |-> 0] ELSE Contents,
    request <- call,
    open    <- ~ Freeing

Init ==
    /\ symbols = <<>> /\ chain = [b \in Buckets |-> <<>>]
    /\ call = Map!NoRequest /\ at = 1 /\ pc = "idle"
    /\ answer = Map!Reply("none") /\ bucket = 0
-----------------------------------------------------------------------------
(* Calls and their ends.                                                    *)

Return(reply) ==
    /\ pc' = "idle" /\ call' = Map!NoRequest /\ answer' = reply
    /\ UNCHANGED <<at, bucket>>

Start(phase) == pc' = phase /\ at' = 1

InArray(n) == \E j \in DOMAIN symbols : symbols[j].name = n
ArrayRow(n) == symbols[CHOOSE j \in DOMAIN symbols : symbols[j].name = n]

\* Every row of that name; there is one.
Relabelled(n, address) ==
    [j \in DOMAIN symbols |-> IF symbols[j].name = n
                              THEN [symbols[j] EXCEPT !.address = address]
                              ELSE symbols[j]]

\* Which lookup a call begins with.
Call ==
    /\ pc = "idle"
    /\ call' \in Map!Request
    /\ Start(CASE call'.op = "add" -> "full"
               [] call'.op = "move" -> "array"
               [] OTHER -> "lookup")
    /\ answer' = Map!Reply("none")
    /\ UNCHANGED <<symbols, chain, bucket>>

\* add_symbol: the capacity is tested before the name is looked up.
CheckCapacity ==
    /\ pc = "full"
    /\ \/ Len(symbols) >= MaxSymbols /\ Return(Map!Reply("full"))
          /\ UNCHANGED <<symbols, chain>>
       \/ Len(symbols) < MaxSymbols /\ Start("addlookup")
          /\ UNCHANGED <<symbols, chain, call, answer, bucket>>

\* A label that moves: the array is searched and changed first, the table
\* follows.
MoveInArray ==
    /\ pc = "array"
    /\ \/ ~ InArray(call.name) /\ Return(Map!Reply("absent"))
          /\ UNCHANGED <<symbols, chain>>
       \/ InArray(call.name)
          /\ symbols' = Relabelled(call.name, call.address)
          /\ Start("update")
          /\ UNCHANGED <<chain, call, answer, bucket>>
-----------------------------------------------------------------------------
(* symbol_hash_lookup, and what its callers do with the entry.              *)

Looking == {"lookup", "addlookup", "update"}
Path    == chain[Hash[call.name]]
AtEntry == pc \in Looking /\ at <= Len(Path)
Hit     == AtEntry /\ Path[at].name = call.name
Miss    == pc \in Looking /\ at > Len(Path)

(* Mutant: the walk stops one entry before the end of the chain. *)
NextEntry_StopsEarly ==
    /\ AtEntry /\ Path[at].name # call.name
    /\ at' = IF at + 1 = Len(Path) THEN at + 2 ELSE at + 1
    /\ UNCHANGED <<symbols, chain, call, pc, answer, bucket>>

(* Mutant: the walk does not advance past an entry of another name. *)
NextEntry_Stays ==
    /\ AtEntry /\ Path[at].name # call.name
    /\ at' = at
    /\ UNCHANGED <<symbols, chain, call, pc, answer, bucket>>

NextEntry ==
    /\ AtEntry /\ Path[at].name # call.name
    /\ at' = at + 1
    /\ UNCHANGED <<symbols, chain, call, pc, answer, bucket>>

Redefined ==
    /\ Hit /\ pc = "addlookup"
    /\ Return(Map!Reply("redefined"))
    /\ UNCHANGED <<symbols, chain>>

FindAddress ==
    /\ pc = "lookup" /\ call.op = "find"
    /\ \/ Hit /\ Return(Map!Found(Path[at].address))
       \/ Miss /\ Return(Map!Reply("absent"))
    /\ UNCHANGED <<symbols, chain>>

\* upsert_constant_symbol: an external name is refused, a known one is looked
\* up once more to be changed, a new one is added.
Upsert ==
    /\ pc = "lookup" /\ call.op = "upsert"
    /\ \/ Hit /\ Path[at].external /\ Return(Map!Reply("external"))
          /\ UNCHANGED <<symbols, chain>>
       \/ /\ Hit /\ ~ Path[at].external
          /\ Start("update") /\ UNCHANGED <<symbols, chain, call, answer, bucket>>
       \/ Miss /\ Start("full") /\ UNCHANGED <<symbols, chain, call, answer, bucket>>

\* symbol_hash_update.  A label keeps what the array says of it; a constant loses
\* its section, in the array too.
Written == IF call.op = "move" THEN ArrayRow(call.name) ELSE Map!Requested(call)

Update ==
    /\ Hit /\ pc = "update"
    /\ chain' = [chain EXCEPT ![Hash[call.name]][at] =
                    [name |-> call.name, address |-> call.address,
                     external |-> Written.external, section |-> Written.section]]
    /\ symbols' = [j \in DOMAIN symbols |->
                    IF symbols[j].name = call.name
                    THEN [symbols[j] EXCEPT !.address = call.address,
                                            !.external = Written.external,
                                            !.section = Written.section]
                    ELSE symbols[j]]
    /\ Return(Map!Reply("ok"))
-----------------------------------------------------------------------------
(* add_symbol behind the lookup: the array first, then symbol_hash_insert.  *)

NewRow == [name |-> call.name, address |-> call.address,
           external |-> call.external, section |-> call.section]

AppendRow ==
    /\ Miss /\ pc = "addlookup"
    /\ symbols' = Append(symbols, NewRow)
    /\ pc' = "insert"
    /\ UNCHANGED <<chain, call, at, answer, bucket>>

\* The new entry becomes the head of its chain.
Insert ==
    /\ pc = "insert"
    /\ chain' = [chain EXCEPT ![Hash[call.name]] = <<NewRow>> \o @]
    /\ Return(Map!Reply("ok"))
    /\ UNCHANGED symbols

(* Mutant: the row stays in the array. *)
OutOfMemory_KeepsRow ==
    /\ pc = "insert"
    /\ Return(Map!Reply("memory"))
    /\ UNCHANGED <<symbols, chain>>

\* malloc fails: the row is taken back.
OutOfMemory ==
    /\ pc = "insert"
    /\ symbols' = SubSeq(symbols, 1, Len(symbols) - 1)
    /\ Return(Map!Reply("memory"))
    /\ UNCHANGED chain
-----------------------------------------------------------------------------
(* asm_free.                                                                *)

Free ==
    /\ pc = "idle" /\ pc' = "free" /\ bucket' = 0
    /\ UNCHANGED <<symbols, chain, call, at, answer>>

FreeEntry ==
    /\ pc = "free" /\ bucket < HashTableSize /\ chain[bucket] # <<>>
    /\ chain' = [chain EXCEPT ![bucket] = Tail(@)]
    /\ UNCHANGED <<symbols, call, at, pc, answer, bucket>>

NextBucket ==
    /\ pc = "free" /\ bucket < HashTableSize /\ chain[bucket] = <<>>
    /\ bucket' = bucket + 1
    /\ UNCHANGED <<symbols, chain, call, at, pc, answer>>

Freed ==
    /\ pc = "free" /\ bucket = HashTableSize
    /\ pc' = "freed"
    /\ UNCHANGED <<symbols, chain, call, at, answer, bucket>>

\* A call runs to its end without waiting for anything.
Step ==
    \/ CheckCapacity \/ MoveInArray \/ NextEntry \/ Redefined \/ FindAddress \/ Upsert
    \/ Update \/ AppendRow \/ Insert \/ OutOfMemory \/ FreeEntry \/ NextBucket \/ Freed

Finished == pc = "freed" /\ UNCHANGED vars

Next == Call \/ Step \/ Free \/ Finished

Spec == Init /\ [][Next]_vars

FairSpec == Spec /\ WF_vars(Step)
-----------------------------------------------------------------------------
(* Properties.                                                              *)

\* Between calls the array and the chains hold the same symbols, each once and
\* with the same values, whichever names share a bucket and whichever insert ran
\* out of memory half-way: what the writers print is what the lookups found, and
\* asm_free leaves no entry behind in any chain.
TableMatchesArray ==
    /\ pc = "idle" =>
        /\ \A n \in Names : Listed(n) <=> InArray(n)
        /\ \A j \in DOMAIN symbols :
              Strip(symbols[j]) = Contents[symbols[j].name]
        /\ Len(symbols) = Cardinality({n \in Names : InArray(n)})
    /\ pc = "freed" => \A b \in Buckets : chain[b] = <<>>

\* The array and the chains together behave like a map: every call has the
\* answer of a map, and changes what a map would change, in one step.
ImplementsMap == Map!Spec

\* Every call returns, and asm_free ends: a walk along a chain terminates
\* although insertions keep making it longer.
CallsReturn == pc # "idle" ~> pc \in {"idle", "freed"}
=============================================================================
