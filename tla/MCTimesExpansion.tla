-------------------------- MODULE MCTimesExpansion --------------------------
(***************************************************************************)
(* Instances of TimesExpansion: texts of a few lines whose expansion is    *)
(* shorter than, as long as and longer than the buffer.                    *)
(***************************************************************************)
EXTENDS TimesExpansion

CONSTANT MaxLines

Plain(n) == [len |-> n, count |-> 0, inst |-> 0]
Times(n, count, inst) == [len |-> n, count |-> count, inst |-> inst]

\* An empty line, `nop', `times 5 nop', `times 12 nop', the last that fits by
\* itself, `times 13 nop', `times 20 nop', `times 99 nop', which is above the
\* limit here, and `times 5'.
Lines == {Plain(1), Plain(4), Times(12, 5, 3), Times(13, 12, 3), Times(13, 13, 3),
          Times(13, 20, 3), Times(13, 99, 3), Times(8, 5, 0)}
Texts == UNION {[1..n -> Lines] : n \in 0..MaxLines}
=============================================================================
