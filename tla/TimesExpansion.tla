--------------------------- MODULE TimesExpansion ---------------------------
(***************************************************************************)
(* parser_expand_times_only: the first thing done to the text of the root  *)
(* file.  Every line `times N instruction' is replaced by N lines, in a    *)
(* buffer whose size is fixed before.  What counts is how long the lines   *)
(* are; one step handles one line, or one copy of a times line.            *)
(***************************************************************************)
EXTENDS Naturals, Sequences

CONSTANTS
    Sources,            \* the texts considered
    MaxTimesCount       \* max_times_count of parse_times_count

(***************************************************************************)
(* A line: its length in bytes with its newline, the count behind `times'  *)
(* (0 for any other line) and the length of the instruction behind it.     *)
(***************************************************************************)
Line == [len : Nat \ {0}, count : Nat, inst : Nat]

ASSUME SourcesTyped == Sources \subseteq Seq(Line)
ASSUME CountNat == MaxTimesCount \in Nat

VARIABLES
    source,
    i,              \* the line at hand
    r,              \* copies of it tried so far
    out_pos,
    output,         \* what was written: <<line, copy>>, copy 0 for a line as it was
    done

vars == <<source, i, r, out_pos, output, done>>

\* The sums of the first 0, 1, 2 ... numbers of a sequence, and of all of them.
Totals(s) == LET t[k \in 0..Len(s)] == IF k = 0 THEN 0 ELSE t[k - 1] + s[k] IN t
Total(s) == Totals(s)[Len(s)]

strlen == Total([k \in DOMAIN source |-> source[k].len])

output_size == strlen * 4 + 1

Init ==
    /\ source \in Sources
    /\ i = 1 /\ r = 0 /\ out_pos = 0 /\ output = <<>> /\ done = FALSE

\* A count of 0, one that is too large or a missing instruction: no times line.
parse_times_directive(line) == line.count \in 1..MaxTimesCount /\ line.inst > 0

(* Mutant: the newline and the final NUL are not counted. *)
Fits_NoTerminator(n) == out_pos + n <= output_size

Fits(n) == out_pos + n < output_size - 1

Write(what, n) ==
    IF Fits(n) THEN output' = Append(output, what) /\ out_pos' = out_pos + n
    ELSE UNCHANGED <<output, out_pos>>

RepeatLine ==
    /\ i <= Len(source) /\ parse_times_directive(source[i])
    /\ Write(<<i, r + 1>>, source[i].inst + 1)
    /\ IF r + 1 < source[i].count THEN r' = r + 1 /\ i' = i ELSE r' = 0 /\ i' = i + 1
    /\ UNCHANGED <<source, done>>

(* Mutant: a times line that cannot be expanded is left out. *)
CopyLine_DropsRejected ==
    /\ i <= Len(source) /\ ~ parse_times_directive(source[i])
    /\ IF source[i].count = 0 THEN Write(<<i, 0>>, source[i].len)
       ELSE UNCHANGED <<output, out_pos>>
    /\ i' = i + 1
    /\ UNCHANGED <<source, r, done>>

CopyLine ==
    /\ i <= Len(source) /\ ~ parse_times_directive(source[i])
    /\ Write(<<i, 0>>, source[i].len)
    /\ i' = i + 1
    /\ UNCHANGED <<source, r, done>>

Terminate ==
    /\ i > Len(source)
    /\ done' = TRUE
    /\ UNCHANGED <<source, i, r, out_pos, output>>

Next == RepeatLine \/ CopyLine \/ Terminate

Spec == Init /\ [][Next]_vars
-----------------------------------------------------------------------------
(* What the text stands for.                                                *)

Copies(k) ==
    IF parse_times_directive(source[k]) THEN [c \in 1..source[k].count |-> <<k, c>>]
    ELSE <<<<k, 0>>>>

\* The first 0, 1, 2 ... lines, expanded.
Expansions ==
    LET e[k \in 0..Len(source)] == IF k = 0 THEN <<>> ELSE e[k - 1] \o Copies(k) IN e
Expanded == Expansions[Len(source)]

Length(w) == IF w[2] = 0 THEN source[w[1]].len ELSE source[w[1]].inst + 1
Lengths(text) == [k \in DOMAIN text |-> Length(text[k])]

\* The buffer is never overrun, its final NUL included, and the position in it
\* is the length of what was written.
TypeOK ==
    /\ i \in 1..(Len(source) + 1) /\ r \in Nat /\ done \in BOOLEAN
    /\ out_pos = Total(Lengths(output))
    /\ out_pos <= output_size - 1

\* A text whose expansion is less than four times as long comes out whole, and so
\* does one without times lines, whatever its length: the buffer's size and the
\* comparisons in front of the copies agree.
SmallTextsComeOutWhole ==
    done /\ Total(Lengths(Expanded)) < output_size - 1 => output = Expanded
=============================================================================
