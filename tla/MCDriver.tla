------------------------------ MODULE MCDriver ------------------------------
(* Contexts with the sizes, symbols and line maps at which the writers change their    *)
(* behaviour, and sessions in which invocations find the files of earlier ones.        *)
EXTENDS Driver

base == base_address
Sym(name, len, address, section, function) ==
    [name |-> name, len |-> len, address |-> address, section |-> section, external |-> FALSE,
     function |-> function, line |-> 1, column |-> 1]
Func(name, at) == Sym(name, 4, base + at, 0, TRUE)
Lab(name, at) == Sym(name, 4, base + at, 0, FALSE)
Extern(name) == [Sym(name, 6, 0, 0, FALSE) EXCEPT !.external = TRUE]
RowAt(at, line_number) == [address |-> base + at, line |-> line_number]
Ctx(text, data, symbols, rows) ==
    [text_size |-> text, data_size |-> data, name_len |-> 5, dir_len |-> 1, base_len |-> 5,
     symbols |-> symbols, line_map |-> rows]

\* Three functions in every order of definition, two of them at one address.
Orders == {<<Func("f", a), Lab("x", 1), Func("g", b), Func("h", c), Lab("y", 0)>> :
              a \in {0, 3}, b \in {0, 6}, c \in {2, 10}}
\* Steps of line and address at the boundaries of a group of seven bits.
Steps == {Ctx(300, 0, <<>>, <<RowAt(0, 1), RowAt(d, 1 + s), RowAt(d, 1 + s), RowAt(299, 9000)>>) :
              d \in {1, 127, 128, 200}, s \in {1, 63, 64, 127, 128, 8191, 8192}}

SmallContexts ==
    {Ctx(0, 0, <<>>, <<>>), Ctx(10, 4096, <<Func("_start", 0), Sym("d", 4, base + 10, 1, FALSE)>>,
                               <<RowAt(0, 3), RowAt(2, 4)>>)}
DebugContexts ==
    SmallContexts \cup Steps \cup {Ctx(10, 3, o, <<RowAt(0, 1)>>) : o \in Orders} \cup
    {Ctx(4096, 0, <<Lab("_start", 4)>>, <<RowAt(0, 1), RowAt(4096, 2)>>),
     Ctx(4095, 1, <<Extern("_start")>>, <<RowAt(0, 1)>>),
     Ctx(8, 8, <<Extern("puts"), Func("_start", 8)>>, <<RowAt(0, 2)>>),
     \* each of the three buffers too small
     Ctx(10, 0, <<Sym("long", 200, base, 0, TRUE)>>, <<>>),
     Ctx(10, 0, [n \in 1..8 |-> Func("f", n)], <<>>),
     Ctx(10, 0, <<Func("_start", 0)>>, [n \in 1..60 |-> RowAt(n \div 10, n)]),
     [Ctx(10, 0, <<>>, <<>>) EXCEPT !.name_len = 200],
     [Ctx(10, 0, <<>>, <<>>) EXCEPT !.base_len = 250],
     Ctx(10, 0, <<[Extern("_start") EXCEPT !.len = 200]>>, <<>>)}
MCContexts == "a.asm" :> SmallContexts @@ "b.asm" :> DebugContexts

MCSessions ==
    {<<<<"b.asm", "-g">>, <<"--disassemble">>>>, <<<<"-l", "a.asm">>, <<"-g", "a.asm", "-Werror">>>>}
    \cup {<<<<"a.asm", "bin", "-g", "-l">>, second>> :
             second \in {<<"a.asm", "hex">>, <<"-M", "a.asm", "-g">>, <<"-E", "a.asm">>,
                         <<"a.asm", "coff", "-l">>, <<"--disassemble">>, <<"-g", "-h">>,
                         <<"?", "a.asm">>, <<"-l">>, <<"-D", "-D", "a.asm", "-D", "hex">>,
                         <<"-D", "a.asm", "-D!", "-I">>}}
=============================================================================
