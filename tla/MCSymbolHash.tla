---------------------------- MODULE MCSymbolHash ----------------------------
(***************************************************************************)
(* Three names of which two share a bucket, and room for two.              *)
(***************************************************************************)
EXTENDS SymbolHash, TLC

CONSTANTS a, b, c

ThreeNames == {a, b, c}
Collide    == (a :> 0) @@ (b :> 0) @@ (c :> 1)
=============================================================================
