----------------------------- MODULE MCIncludes -----------------------------
(***************************************************************************)
(* Instances of Includes: the root file and two or three other files, in   *)
(* the directory of the root, in one an -I option names and in a system    *)
(* directory, with every content of a few lines.                           *)
(***************************************************************************)
EXTENDS Includes

R == Path(<<>>, "r")
A == Path(<<>>, "a")
B == Path(<<"inc">>, "b")
S == Path(<<"/", "sys">>, "s")

Plain == [kind |-> "text"]
Bad   == [kind |-> "bad"]
Include(dir, name) == [kind |-> "include", dir |-> dir, name |-> name]

Texts(L, n) == UNION {[1..k -> L] : k \in 0..n}

Paths == <<<<".">>, <<"inc">>>>
System == <<"/", "sys">>

\* a is found beside the root and from inc through its parent directory, b
\* through -I inc, z nowhere.
Graphs ==
    LET In == {Plain, Include(<<>>, "a"), Include(<<>>, "b"), Include(<<>>, "r")}
    IN  {(R :> r) @@ (A :> a) @@ (B :> b) @@ (S :> s) :
            r \in Texts(In \cup {Bad, Include(<<>>, "z"), Include(System, "s")}, 2),
            a \in Texts(In \cup {Include(<<"inc", "..">>, "a"), Include(System, "s")}, 2),
            b \in Texts({Plain, Include(<<"..">>, "a"), Include(<<>>, "b"),
                         Include(<<>>, "a")}, 1),
            s \in {<<Plain>>}}

\* Files that include each other under ever new paths, and paths that are too
\* long.
Chains ==
    LET Up == Include(<<"inc", "..">>, "a")
    IN  {(R :> r) @@ (A :> a) @@ (B :> b) :
            r \in Texts({Plain, Bad, Include(<<>>, "a"), Include(<<>>, "b"), Include(<<>>, "z")}, 2),
            a \in Texts({Plain, Up, Include(<<>>, "b"), Include(<<>>, "z")}, 2),
            b \in Texts({Plain, Include(<<"..">>, "a"), Include(<<>>, "a"),
                         Include(<<"inc", "..", "inc">>, "b")}, 1)}

AllFiles == Graphs \cup Chains
=============================================================================
