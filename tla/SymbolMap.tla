------------------------------ MODULE SymbolMap ------------------------------
(***************************************************************************)
(* What the symbol table promises to its callers: a map from names to      *)
(* entries.  A caller makes a request and waits for the answer; the map    *)
(* changes, at once, in the step that answers.  Module SymbolHash has the  *)
(* buckets, chains and the array behind it.                                *)
(*                                                                         *)
(* add_symbol and the part of upsert_constant_symbol that adds may be      *)
(* refused for want of memory, and then nothing has changed.               *)
(***************************************************************************)
EXTENDS Integers, FiniteSets

CONSTANTS
    Names, Addresses,
    MaxSymbols          \* MAX_SYMBOLS

Sections == {-1, 0, 1}              \* equ constant, text, data
Entry    == [address : Addresses, external : BOOLEAN, section : Sections]

\* add_symbol, upsert_constant_symbol, a label that moves, find_symbol_address.
Request ==
    [op : {"add"}, name : Names, address : Addresses, external : {FALSE},
     section : {0, 1}]
    \cup [op : {"add"}, name : Names, address : Addresses, external : {TRUE},
          section : {0}]
    \cup [op : {"upsert"}, name : Names, address : Addresses, external : {FALSE},
          section : {-1}]
    \cup [op : {"move"}, name : Names, address : Addresses, external : {FALSE},
          section : {0}]
    \cup [op : {"find"}, name : Names, address : Addresses, external : {FALSE},
          section : {0}]

NoRequest == [op |-> "none"]

Reply(outcome)  == [outcome |-> outcome, value |-> <<>>]
Found(address)  == [outcome |-> "ok", value |-> <<address>>]
Requested(r)    == [address |-> r.address, external |-> r.external, section |-> r.section]

VARIABLES table, request, answer, open
mapVars == <<table, request, answer, open>>

Init ==
    /\ table = [n \in {} |-> 0]
    /\ request = NoRequest /\ answer = Reply("none") /\ open = TRUE

Invoke ==
    /\ open /\ request = NoRequest
    /\ request' \in Request /\ answer' = Reply("none")
    /\ UNCHANGED <<table, open>>

Respond(outcome) ==
    answer' = Reply(outcome) /\ request' = NoRequest /\ UNCHANGED <<table, open>>

Store(entry) ==
    /\ table' = [n \in (DOMAIN table) \cup {request.name} |->
                    IF n = request.name THEN entry ELSE table[n]]
    /\ answer' = Reply("ok") /\ request' = NoRequest /\ UNCHANGED open

Asked(op)  == request.op = op
IsKnown    == request.name \in DOMAIN table
Full       == Cardinality(DOMAIN table) >= MaxSymbols

\* A new name.
Insert ==
    \/ Full /\ Respond("full")
    \/ ~ Full /\ ~ IsKnown /\ (Store(Requested(request)) \/ Respond("memory"))

Add == Asked("add") /\ (Insert \/ (~ Full /\ IsKnown /\ Respond("redefined")))

Upsert ==
    /\ Asked("upsert")
    /\ \/ ~ IsKnown /\ Insert
       \/ IsKnown /\ table[request.name].external /\ Respond("external")
       \/ IsKnown /\ ~ table[request.name].external /\ Store(Requested(request))

Move ==
    /\ Asked("move")
    /\ \/ ~ IsKnown /\ Respond("absent")
       \/ IsKnown /\ Store([table[request.name] EXCEPT !.address = request.address])

Find ==
    /\ Asked("find")
    /\ \/ ~ IsKnown /\ Respond("absent")
       \/ IsKnown /\ answer' = Found(table[request.name].address)
          /\ request' = NoRequest /\ UNCHANGED <<table, open>>

\* asm_free.
Close ==
    /\ open /\ request = NoRequest
    /\ open' = FALSE /\ table' = [n \in {} |-> 0]
    /\ UNCHANGED <<request, answer>>

Next == Invoke \/ Add \/ Upsert \/ Move \/ Find \/ Close

Spec == Init /\ [][Next]_mapVars
=============================================================================
