------------------------ MODULE TimesExpansionProofs ------------------------
(***************************************************************************)
(* The expansion of times lines, for every text and every limit on the     *)
(* count: the buffer is not overrun, and a text that fits comes out whole. *)
(***************************************************************************)
EXTENDS TimesExpansion, Integers, TLAPS, WellFoundedInduction, SequenceTheorems

-----------------------------------------------------------------------------
(* Sums.  That the recursion has a solution takes an induction, which is   *)
(* made with the least element of a set of naturals.                       *)

\* A set of naturals that is not empty has a least element.
LEMMA LeastNat ==
    ASSUME NEW T, T \subseteq Nat, T # {}
    PROVE  \E x \in T : \A y \in T : x <= y
<1> DEFINE Less == {ss \in Nat \X Nat : ss[1] < ss[2]}
<1>1. IsWellFoundedOn(Less, Nat)
  BY NatLessThanWellFounded DEF OpToRel
<1>2. PICK x \in T : \A y \in T : ~ (<<y, x>> \in Less)
  BY <1>1, WFMin, Zenon
<1>3. \A y \in T : ~ (y < x)
  <2> TAKE y \in T
  <2>1. x \in Nat /\ y \in Nat
    OBVIOUS
  <2>2. y < x => <<y, x>> \in Less
    BY <2>1
  <2> QED
    BY <2>2, <1>2
<1> QED
  BY <1>3

\* What holds of 0 and is handed on holds up to the bound.
LEMMA Upwards ==
    ASSUME NEW N \in Nat, NEW P \in SUBSET (0..N), 0 \in P,
           \A k \in 0..N-1 : k \in P => k + 1 \in P
    PROVE  0..N \subseteq P
<1> SUFFICES ASSUME (0..N) \ P # {} PROVE FALSE
  OBVIOUS
<1>1. PICK x \in (0..N) \ P : \A y \in (0..N) \ P : x <= y
  BY LeastNat, (0..N) \ P \subseteq Nat
<1>2. x # 0 /\ x - 1 \in 0..N-1 /\ x - 1 \in P
  BY <1>1
<1> QED
  BY <1>1, <1>2

\* Totals starts with 0 and adds one number after the other.
LEMMA TotalsAdd ==
    ASSUME NEW s \in Seq(Nat)
    PROVE  /\ Totals(s) \in [0..Len(s) -> Nat]
           /\ Totals(s)[0] = 0
           /\ \A k \in 1..Len(s) : Totals(s)[k] = Totals(s)[k-1] + s[k]
<1> DEFINE N == Len(s)
           Sums(m) == {t \in [0..m -> Nat] : t[0] = 0 /\ \A k \in 1..m : t[k] = t[k-1] + s[k]}
           P == {m \in 0..N : Sums(m) # {}}
<1>0. N \in Nat /\ \A k \in 1..N : s[k] \in Nat
  OBVIOUS
<1>1. 0 \in P
  <2>1. [k \in 0..0 |-> 0] \in Sums(0)
    OBVIOUS
  <2> QED
    BY <2>1, <1>0
<1>2. \A m \in 0..N-1 : m \in P => m + 1 \in P
  <2> SUFFICES ASSUME NEW m \in 0..N-1, m \in P PROVE m + 1 \in P
    OBVIOUS
  <2>1. PICK t \in [0..m -> Nat] : t[0] = 0 /\ \A k \in 1..m : t[k] = t[k-1] + s[k]
    OBVIOUS
  <2> DEFINE u == [k \in 0..m+1 |-> IF k <= m THEN t[k] ELSE t[m] + s[m+1]]
  <2>2. u \in [0..m+1 -> Nat]
    BY <1>0, <2>1
  <2>3. u[0] = 0 /\ \A k \in 1..m+1 : u[k] = u[k-1] + s[k]
    BY <1>0, <2>1
  <2>4. u \in Sums(m+1)
    BY <2>2, <2>3
  <2>5. m + 1 \in 0..N
    BY <1>0
  <2> HIDE DEF u, N, Sums
  <2> QED
    BY <2>4, <2>5
<1>3. N \in P
  <2>1. P \in SUBSET (0..N)
    OBVIOUS
  <2>2. N \in 0..N
    BY <1>0
  <2> HIDE DEF P, N
  <2> QED
    BY <2>1, <2>2, <1>0, <1>1, <1>2, Upwards
<1>4. PICK t \in [0..N -> Nat] : t[0] = 0 /\ \A k \in 1..N : t[k] = t[k-1] + s[k]
  BY <1>3
<1>5. t = [k \in 0..N |-> IF k = 0 THEN 0 ELSE t[k-1] + s[k]]
  BY <1>4, <1>0
<1>6. \E f : f = [k \in 0..Len(s) |-> IF k = 0 THEN 0 ELSE f[k-1] + s[k]]
  BY <1>5
<1> DEFINE T == Totals(s)
<1>7. T = [k \in 0..Len(s) |-> IF k = 0 THEN 0 ELSE T[k-1] + s[k]]
  BY <1>6, Zenon DEF Totals
<1> HIDE DEF T
<1>8. T[0] = 0
  BY <1>7
<1>9. \A k \in 1..Len(s) : T[k] = T[k-1] + s[k]
  BY <1>7, <1>0
<1>10. \A k \in 0..N : T[k] \in Nat
  <2> DEFINE Q == {k \in 0..N : T[k] \in Nat}
  <2>1. 0 \in Q
    BY <1>8
  <2>2. \A k \in 0..N-1 : k \in Q => k + 1 \in Q
    <3> SUFFICES ASSUME NEW k \in 0..N-1, k \in Q PROVE k + 1 \in Q
      OBVIOUS
    <3>1. k + 1 \in 1..N /\ k + 1 \in 0..N /\ k + 1 - 1 = k
      BY <1>0
    <3>2. T[k + 1] = T[k] + s[k + 1]
      BY <3>1, <1>9
    <3> QED
      BY <3>1, <3>2, <1>0
  <2>3. Q \in SUBSET (0..N)
    OBVIOUS
  <2> HIDE DEF Q
  <2>4. 0..N \subseteq Q
    BY <2>1, <2>2, <2>3, <1>0, Upwards
  <2> QED
    BY <2>4 DEF Q
<1> QED
  BY <1>7, <1>8, <1>9, <1>10 DEF T

\* The sums of the first numbers depend on these numbers only.
LEMMA TotalsPrefix ==
    ASSUME NEW s \in Seq(Nat), NEW u \in Seq(Nat), NEW n \in Nat, n <= Len(s), n <= Len(u),
           \A k \in 1..n : s[k] = u[k]
    PROVE  \A k \in 0..n : Totals(s)[k] = Totals(u)[k]
<1> DEFINE P == {k \in 0..n : Totals(s)[k] = Totals(u)[k]}
<1>1. Len(s) \in Nat /\ Len(u) \in Nat /\ P \in SUBSET (0..n)
  OBVIOUS
<1>2. 0 \in P
  BY TotalsAdd
<1>3. \A k \in 0..n-1 : k \in P => k + 1 \in P
  <2> SUFFICES ASSUME NEW k \in 0..n-1, k \in P PROVE k + 1 \in P
    OBVIOUS
  <2>1. k + 1 \in 1..n /\ k + 1 \in 1..Len(s) /\ k + 1 \in 1..Len(u) /\ k + 1 - 1 = k
    BY <1>1
  <2>2. Totals(s)[k + 1] = Totals(s)[k] + s[k + 1] /\ Totals(u)[k + 1] = Totals(u)[k] + u[k + 1]
    BY <2>1, TotalsAdd
  <2> QED
    BY <2>1, <2>2
<1> HIDE DEF P
<1>4. 0..n \subseteq P
  BY <1>1, <1>2, <1>3, Upwards
<1> QED
  BY <1>4 DEF P

LEMMA TotalNat ==
    ASSUME NEW s \in Seq(Nat)
    PROVE  Total(s) \in Nat
  BY TotalsAdd DEF Total

LEMMA TotalEmpty == Total(<<>>) = 0
<1>1. <<>> \in Seq(Nat) /\ Len(<<>>) = 0
  OBVIOUS
<1> QED
  BY <1>1, TotalsAdd DEF Total

LEMMA TotalAppend ==
    ASSUME NEW s \in Seq(Nat), NEW x \in Nat
    PROVE  Total(Append(s, x)) = Total(s) + x
<1> DEFINE u == Append(s, x)
           n == Len(s)
           f == Totals(u)
<1>1. u \in Seq(Nat) /\ Len(u) = n + 1 /\ n \in Nat /\ u[n + 1] = x /\ \A k \in 1..n : s[k] = u[k]
  OBVIOUS
<1> HIDE DEF u
<1>2. \A k \in 0..n : Totals(s)[k] = f[k]
  <2>1. n <= Len(s) /\ n <= Len(u)
    BY <1>1
  <2> HIDE DEF n
  <2> QED
    BY <1>1, <2>1, TotalsPrefix
<1>3. \A k \in 1..Len(u) : f[k] = f[k - 1] + u[k]
  BY <1>1, TotalsAdd
<1> HIDE DEF f
<1>4. n + 1 \in 1..Len(u) /\ (n + 1) - 1 = n /\ n \in 0..n
  BY <1>1
<1>5. f[n + 1] = f[n] + x /\ Totals(s)[n] = f[n]
  BY <1>1, <1>2, <1>3, <1>4
<1> QED
  BY <1>1, <1>5 DEF Total, u, f

LEMMA TotalPrefix ==
    ASSUME NEW s \in Seq(Nat), NEW t \in Seq(Nat)
    PROVE  Total(s) <= Total(s \o t)
<1> DEFINE u == s \o t
           n == Len(s)
           m == Len(t)
           f == Totals(u)
           P == {k \in 0..m : f[n] <= f[n + k]}
<1>1. u \in Seq(Nat) /\ Len(u) = n + m /\ n \in Nat /\ m \in Nat /\ \A k \in 1..n : s[k] = u[k]
  OBVIOUS
<1>0. n = Len(s)
  OBVIOUS
<1> HIDE DEF u, n, m
<1>2. \A k \in 0..n : Totals(s)[k] = f[k]
  <2>1. n <= Len(s) /\ n <= Len(u)
    BY <1>1, <1>0
  <2> QED
    BY <1>1, <2>1, TotalsPrefix
<1>3. f \in [0..(n + m) -> Nat] /\ \A k \in 1..Len(u) : f[k] = f[k - 1] + u[k]
  BY <1>1, TotalsAdd
<1> HIDE DEF f
<1>4. 0 \in P
  BY <1>1, <1>3
<1>5. \A k \in 0..m-1 : k \in P => k + 1 \in P
  <2> SUFFICES ASSUME NEW k \in 0..m-1, k \in P PROVE k + 1 \in P
    OBVIOUS
  <2> DEFINE j == n + k + 1
  <2>1. j \in 1..Len(u) /\ j - 1 = n + k /\ n + k \in 0..(n + m) /\ j = n + (k + 1) /\ n \in 0..(n + m)
    BY <1>1
  <2> HIDE DEF j
  <2>2. f[j] = f[n + k] + u[j]
    BY <1>3, <2>1
  <2>3. f[n + k] \in Nat /\ f[n] \in Nat
    BY <1>3, <2>1
  <2>5. u[j] \in Nat
    BY <1>1, <2>1
  <2>4. f[n] <= f[j]
    BY <2>2, <2>3, <2>5
  <2> QED
    BY <2>4, <2>1, <1>1
<1>6. P \in SUBSET (0..m)
  OBVIOUS
<1> HIDE DEF P
<1>7. 0..m \subseteq P
  BY <1>1, <1>4, <1>5, <1>6, Upwards
<1>8. m \in P
  BY <1>1, <1>7
<1>9. f[n] <= f[n + m]
  BY <1>8 DEF P
<1>10. Totals(s)[n] = f[n]
  BY <1>1, <1>2
<1> QED
  BY <1>1, <1>9, <1>10 DEF Total, u, n, f

-----------------------------------------------------------------------------
(* The operators of the model that read the text, with the text as a       *)
(* parameter.                                                              *)

Places(src) == (1..Len(src)) \X Nat

LengthIn(src, w) == IF w[2] = 0 THEN src[w[1]].len ELSE src[w[1]].inst + 1
LengthsIn(src, text) == [k \in DOMAIN text |-> LengthIn(src, text[k])]

CopiesIn(src, k) ==
    IF parse_times_directive(src[k]) THEN [c \in 1..src[k].count |-> <<k, c>>]
    ELSE <<<<k, 0>>>>

ExpansionsIn(src) ==
    LET e[k \in 0..Len(src)] == IF k = 0 THEN <<>> ELSE e[k - 1] \o CopiesIn(src, k) IN e

\* The room in front of the final NUL.
RoomIn(src) == Total([k \in DOMAIN src |-> src[k].len]) * 4

\* The copies of line k that were made when m were tried.
Made(k, m) == [c \in 1..m |-> <<k, c>>]

-----------------------------------------------------------------------------
(* The invariant.                                                          *)

\* The line at hand, the copies made of it, and the position in the buffer.
BufferInv ==
    /\ source \in Seq(Line)
    /\ i \in 1..(Len(source) + 1) /\ r \in Nat /\ done \in BOOLEAN
    /\ output \in Seq(Places(source))
    /\ out_pos = Total(LengthsIn(source, output))
    /\ out_pos <= RoomIn(source)
    /\ r > 0 => /\ i <= Len(source) /\ parse_times_directive(source[i])
                /\ r < source[i].count
    /\ done => i = Len(source) + 1

\* When all of the text fits, what was written is the expansion of the lines
\* before this one and the copies made of it.
WholeInv ==
    Total(LengthsIn(source, ExpansionsIn(source)[Len(source)])) < RoomIn(source)
        => output = ExpansionsIn(source)[i - 1] \o Made(i, r)

ExpandInv == BufferInv /\ WholeInv

-----------------------------------------------------------------------------
(* The expansion of a text.                                                *)

LEMMA LineFields ==
    ASSUME NEW src \in Seq(Line), NEW k \in 1..Len(src)
    PROVE  /\ src[k] \in Line
           /\ src[k].len \in Nat /\ src[k].count \in Nat /\ src[k].inst \in Nat
<1>1. src[k] \in Line
  OBVIOUS
<1> QED
  BY <1>1 DEF Line

LEMMA RoomNat ==
    ASSUME NEW src \in Seq(Line)
    PROVE  RoomIn(src) \in Nat
<1> DEFINE s == [k \in DOMAIN src |-> src[k].len]
<1>1. s \in Seq(Nat)
  BY LineFields
<1> HIDE DEF s
<1>2. Total(s) \in Nat
  BY <1>1, TotalNat
<1>3. Total(s) * 4 \in Nat
  BY <1>2
<1> QED
  BY <1>3 DEF s, RoomIn

LEMMA CopiesTyped ==
    ASSUME NEW src \in Seq(Line), NEW k \in 1..Len(src)
    PROVE  CopiesIn(src, k) \in Seq(Places(src))
<1>1. CASE parse_times_directive(src[k])
  <2> DEFINE c == src[k].count
             s == [d \in 1..c |-> <<k, d>>]
  <2>1. c \in Nat
    BY LineFields
  <2> HIDE DEF c
  <2>2. s \in [1..c -> Places(src)]
    BY <2>1 DEF Places
  <2>3. s \in Seq(Places(src))
    BY <2>1, <2>2
  <2> QED
    BY <2>3, <1>1 DEF CopiesIn, c
<1>2. CASE ~ parse_times_directive(src[k])
  <2>1. <<k, 0>> \in Places(src)
    BY DEF Places
  <2>2. <<<<k, 0>>>> \in Seq(Places(src))
    BY <2>1
  <2> QED
    BY <2>2, <1>2 DEF CopiesIn
<1> QED
  BY <1>1, <1>2

\* The expansion starts empty and takes one line after the other.
LEMMA ExpansionsAdd ==
    ASSUME NEW src \in Seq(Line)
    PROVE  /\ ExpansionsIn(src) \in [0..Len(src) -> Seq(Places(src))]
           /\ ExpansionsIn(src)[0] = <<>>
           /\ \A k \in 1..Len(src) :
                ExpansionsIn(src)[k] = ExpansionsIn(src)[k-1] \o CopiesIn(src, k)
<1> DEFINE N == Len(src)
           S == Seq(Places(src))
           C(k) == CopiesIn(src, k)
           Texts(m) == {t \in [0..m -> S] : t[0] = <<>> /\ \A k \in 1..m : t[k] = t[k-1] \o C(k)}
           P == {m \in 0..N : Texts(m) # {}}
<1>0. N \in Nat /\ <<>> \in S /\ \A k \in 1..N : C(k) \in S
  BY CopiesTyped
<1>00. \A a \in S, b \in S : a \o b \in S
  OBVIOUS
<1> HIDE DEF C, S
<1>1. 0 \in P
  <2>1. [k \in 0..0 |-> <<>>] \in Texts(0)
    BY <1>0
  <2> QED
    BY <2>1, <1>0
<1>2. \A m \in 0..N-1 : m \in P => m + 1 \in P
  <2> SUFFICES ASSUME NEW m \in 0..N-1, m \in P PROVE m + 1 \in P
    OBVIOUS
  <2>1. PICK t \in [0..m -> S] : t[0] = <<>> /\ \A k \in 1..m : t[k] = t[k-1] \o C(k)
    OBVIOUS
  <2> DEFINE last == t[m] \o C(m+1)
             u == [k \in 0..m+1 |-> IF k <= m THEN t[k] ELSE last]
  <2>6. last \in S
    <3>1. t[m] \in S /\ C(m+1) \in S
      BY <1>0, <2>1
    <3> QED
      BY <3>1, <1>00
  <2> HIDE DEF last
  <2>2. u \in [0..m+1 -> S]
    BY <1>0, <2>1, <2>6
  <2>3. u[0] = <<>> /\ \A k \in 1..m+1 : u[k] = u[k-1] \o C(k)
    <3>1. u[0] = <<>>
      BY <2>1, <1>0
    <3>2. ASSUME NEW k \in 1..m PROVE u[k] = u[k-1] \o C(k)
      <4>1. u[k] = t[k] /\ u[k-1] = t[k-1]
        BY <1>0
      <4> HIDE DEF u
      <4> QED
        BY <4>1, <2>1
    <3>4. \A k \in 1..m+1 : k \in 1..m \/ k = m+1
      BY <1>0
    <3> HIDE DEF u
    <3>5. ASSUME NEW k \in 1..m+1 PROVE u[k] = u[k-1] \o C(k)
      <4>1. CASE k \in 1..m
        BY <4>1, <3>2
      <4>2. CASE k = m + 1
        <5>1. u[k] = last /\ u[k-1] = t[m]
          BY <4>2, <1>0 DEF u
        <5>2. last = t[m] \o C(k)
          BY <4>2 DEF last
        <5> QED
          BY <5>1, <5>2
      <4> QED
        BY <3>4, <4>1, <4>2
    <3> QED
      BY <3>1, <3>5
  <2>4. u \in Texts(m+1)
    BY <2>2, <2>3
  <2>5. m + 1 \in 0..N
    BY <1>0
  <2> HIDE DEF u, N, Texts
  <2> QED
    BY <2>4, <2>5
<1>3. N \in P
  <2>1. P \in SUBSET (0..N)
    OBVIOUS
  <2>2. N \in 0..N
    BY <1>0
  <2> HIDE DEF P, N
  <2> QED
    BY <2>1, <2>2, <1>0, <1>1, <1>2, Upwards
<1>4. PICK t \in [0..N -> S] : t[0] = <<>> /\ \A k \in 1..N : t[k] = t[k-1] \o C(k)
  BY <1>3
<1>5. t = [k \in 0..N |-> IF k = 0 THEN <<>> ELSE t[k-1] \o C(k)]
  BY <1>4, <1>0
<1>6. \E f : f = [k \in 0..Len(src) |-> IF k = 0 THEN <<>> ELSE f[k-1] \o C(k)]
  BY <1>5
<1> DEFINE T == ExpansionsIn(src)
<1>7. T = [k \in 0..Len(src) |-> IF k = 0 THEN <<>> ELSE T[k-1] \o C(k)]
  BY <1>6, Zenon DEF ExpansionsIn, C
<1> HIDE DEF T
<1>8. T[0] = <<>>
  BY <1>7, <1>0
<1>9. \A k \in 1..Len(src) : T[k] = T[k-1] \o C(k)
  <2> SUFFICES ASSUME NEW k \in 1..Len(src) PROVE T[k] = T[k-1] \o C(k)
    OBVIOUS
  <2>1. k \in 0..Len(src) /\ k # 0
    BY <1>0
  <2> QED
    BY <1>7, <2>1
<1>10. \A k \in 0..N : T[k] \in S
  <2> DEFINE Q == {k \in 0..N : T[k] \in S}
  <2>1. 0 \in Q
    BY <1>8, <1>0
  <2>2. \A k \in 0..N-1 : k \in Q => k + 1 \in Q
    <3> SUFFICES ASSUME NEW k \in 0..N-1, k \in Q PROVE k + 1 \in Q
      OBVIOUS
    <3>1. k + 1 \in 1..N /\ k + 1 \in 0..N /\ k + 1 - 1 = k
      BY <1>0
    <3> DEFINE j == k + 1
    <3>4. j \in 1..Len(src) /\ j - 1 = k
      BY <3>1
    <3> HIDE DEF j
    <3>5. T[j] = T[k] \o C(j)
      BY <3>4, <1>9
    <3>2. T[k + 1] = T[k] \o C(k + 1)
      BY <3>5 DEF j
    <3>3. T[k + 1] \in S
      BY <3>1, <3>2, <1>0, <1>00
    <3> QED
      BY <3>1, <3>3
  <2>3. Q \in SUBSET (0..N)
    OBVIOUS
  <2> HIDE DEF Q
  <2>4. 0..N \subseteq Q
    BY <2>1, <2>2, <2>3, <1>0, Upwards
  <2> QED
    BY <2>4 DEF Q
<1>11. T \in [0..N -> S]
  BY <1>7, <1>10
<1> QED
  BY <1>8, <1>9, <1>11 DEF T, C, S

\* The expansion of the first lines is a prefix of that of all lines.
LEMMA RestOfExpansion ==
    ASSUME NEW src \in Seq(Line), NEW k \in 0..Len(src)
    PROVE  \E rest \in Seq(Places(src)) :
             ExpansionsIn(src)[Len(src)] = ExpansionsIn(src)[k] \o rest
<1> DEFINE N == Len(src)
           S == Seq(Places(src))
           e == ExpansionsIn(src)
           P == {d \in 0..N : \E rest \in S : e[N] = e[N - d] \o rest}
<1>1. N \in Nat /\ <<>> \in S
  OBVIOUS
<1>2. e \in [0..N -> S] /\ \A j \in 1..N : e[j] = e[j-1] \o CopiesIn(src, j) /\ CopiesIn(src, j) \in S
  BY ExpansionsAdd, CopiesTyped
<1>3. \A a \in S : a \o <<>> = a
  OBVIOUS
<1>4. \A a \in S, b \in S, c \in S : a \o b \in S /\ (a \o b) \o c = a \o (b \o c)
  OBVIOUS
<1> HIDE DEF e, S
<1>5. 0 \in P
  <2>1. e[N] = e[N - 0] \o <<>>
    <3>1. N - 0 = N /\ N \in 0..N
      BY <1>1
    <3> QED
      BY <3>1, <1>2, <1>3
  <2>2. 0 \in 0..N
    BY <1>1
  <2> HIDE DEF N
  <2> QED
    BY <2>1, <2>2, <1>1, Zenon
<1>6. \A d \in 0..N-1 : d \in P => d + 1 \in P
  <2> SUFFICES ASSUME NEW d \in 0..N-1, d \in P PROVE d + 1 \in P
    OBVIOUS
  <2>1. PICK rest \in S : e[N] = e[N - d] \o rest
    OBVIOUS
  <2> DEFINE j == N - d
  <2>2. j \in 1..N /\ j - 1 = N - (d + 1) /\ j - 1 \in 0..N /\ d + 1 \in 0..N
    BY <1>1
  <2>3. j = N - d
    OBVIOUS
  <2> HIDE DEF j
  <2>4. e[j] = e[j-1] \o CopiesIn(src, j) /\ CopiesIn(src, j) \in S /\ e[j-1] \in S
    BY <1>2, <2>2
  <2>5. CopiesIn(src, j) \o rest \in S
    BY <2>4, <1>4
  <2>6. e[N] = e[j-1] \o (CopiesIn(src, j) \o rest)
    <3>1. e[N] = (e[j-1] \o CopiesIn(src, j)) \o rest
      BY <2>1, <2>3, <2>4, Zenon
    <3> QED
      BY <3>1, <2>4, <1>4
  <2> QED
    BY <2>2, <2>5, <2>6
<1>7. P \in SUBSET (0..N)
  OBVIOUS
<1>8. N - k \in 0..N /\ N - (N - k) = k
  BY <1>1
<1> HIDE DEF P
<1>9. N - k \in P
  <2>1. 0..N \subseteq P
    BY <1>1, <1>5, <1>6, <1>7, Upwards
  <2> QED
    BY <2>1, <1>8
<1>10. PICK rest \in S : e[N] = e[N - (N - k)] \o rest
  BY <1>9 DEF P
<1> QED
  BY <1>8, <1>10 DEF e, S

LEMMA LengthTyped ==
    ASSUME NEW src \in Seq(Line), NEW w \in Places(src)
    PROVE  LengthIn(src, w) \in Nat
<1>1. w[1] \in 1..Len(src)
  BY DEF Places
<1>2. src[w[1]].len \in Nat /\ src[w[1]].inst \in Nat
  BY <1>1, LineFields
<1> QED
  BY <1>2 DEF LengthIn

LEMMA LengthsTyped ==
    ASSUME NEW src \in Seq(Line), NEW text \in Seq(Places(src))
    PROVE  /\ LengthsIn(src, text) \in Seq(Nat)
           /\ Len(LengthsIn(src, text)) = Len(text)
<1>1. DOMAIN text = 1..Len(text) /\ Len(text) \in Nat /\ \A k \in 1..Len(text) : text[k] \in Places(src)
  OBVIOUS
<1>2. LengthsIn(src, text) \in [1..Len(text) -> Nat]
  BY <1>1, LengthTyped DEF LengthsIn
<1> QED
  BY <1>1, <1>2

LEMMA LengthsConcat ==
    ASSUME NEW src \in Seq(Line), NEW a \in Seq(Places(src)), NEW b \in Seq(Places(src))
    PROVE  LengthsIn(src, a \o b) = LengthsIn(src, a) \o LengthsIn(src, b)
<1> DEFINE x == LengthsIn(src, a)   y == LengthsIn(src, b)   c == a \o b
           z == LengthsIn(src, c)
<1>1. c \in Seq(Places(src)) /\ Len(c) = Len(a) + Len(b) /\ Len(a) \in Nat /\ Len(b) \in Nat
  OBVIOUS
<1>2. /\ \A k \in 1..Len(a) : c[k] = a[k]
      /\ \A k \in 1..Len(b) : c[Len(a) + k] = b[k]
  OBVIOUS
<1> HIDE DEF c
<1>3. /\ x \in Seq(Nat) /\ y \in Seq(Nat) /\ z \in Seq(Nat)
      /\ Len(x) = Len(a) /\ Len(y) = Len(b) /\ Len(z) = Len(c)
  BY <1>1, LengthsTyped
<1>4. /\ \A k \in 1..Len(a) : x[k] = LengthIn(src, a[k])
      /\ \A k \in 1..Len(b) : y[k] = LengthIn(src, b[k])
      /\ \A k \in 1..Len(c) : z[k] = LengthIn(src, c[k])
  BY <1>1 DEF LengthsIn
<1> HIDE DEF x, y, z
<1>5. x \o y \in Seq(Nat) /\ Len(x \o y) = Len(z)
  <2>1. x \o y \in Seq(Nat) /\ Len(x \o y) = Len(x) + Len(y)
    BY <1>3, ConcatProperties
  <2> QED
    BY <2>1, <1>1, <1>3
<1>6. ASSUME NEW k \in 1..Len(z) PROVE z[k] = (x \o y)[k]
  <2>1. CASE k \in 1..Len(a)
    <3>1. (x \o y)[k] = x[k]
      BY <2>1, <1>3
    <3>2. k \in 1..Len(c)
      BY <1>1, <2>1
    <3> QED
      BY <3>1, <3>2, <2>1, <1>2, <1>4
  <2>2. CASE k \notin 1..Len(a)
    <3> DEFINE j == k - Len(a)
    <3>1. j \in 1..Len(b) /\ Len(a) + j = k /\ k \in 1..Len(c)
      BY <1>1, <1>3, <2>2
    <3>2. (x \o y)[k] = y[j]
      BY <2>2, <1>1, <1>3
    <3> HIDE DEF j
    <3>3. c[k] = b[j]
      BY <3>1, <1>2
    <3> QED
      BY <3>1, <3>2, <3>3, <1>4
  <2> QED
    BY <2>1, <2>2
<1>7. z = x \o y
  BY <1>3, <1>5, <1>6, SeqEqual
<1> QED
  BY <1>7 DEF x, y, z, c

LEMMA LengthsAppend ==
    ASSUME NEW src \in Seq(Line), NEW a \in Seq(Places(src)), NEW w \in Places(src)
    PROVE  Total(LengthsIn(src, Append(a, w))) = Total(LengthsIn(src, a)) + LengthIn(src, w)
<1> DEFINE x == LengthsIn(src, a)   c == Append(a, w)   z == LengthsIn(src, c)   n == LengthIn(src, w)
<1>1. c \in Seq(Places(src)) /\ Len(c) = Len(a) + 1 /\ Len(a) \in Nat
  OBVIOUS
<1>2. c[Len(a) + 1] = w /\ \A k \in 1..Len(a) : c[k] = a[k]
  OBVIOUS
<1> HIDE DEF c
<1>3. /\ x \in Seq(Nat) /\ z \in Seq(Nat) /\ Len(x) = Len(a) /\ Len(z) = Len(c) /\ n \in Nat
  BY <1>1, LengthsTyped, LengthTyped
<1>4. /\ \A k \in 1..Len(a) : x[k] = LengthIn(src, a[k])
      /\ \A k \in 1..Len(c) : z[k] = LengthIn(src, c[k])
  BY <1>1 DEF LengthsIn
<1>8. z[Len(a) + 1] = n
  BY <1>1, <1>2, <1>4
<1> HIDE DEF x, z, n
<1>5. Append(x, n) \in Seq(Nat) /\ Len(Append(x, n)) = Len(z)
  <2>1. Append(x, n) \in Seq(Nat) /\ Len(Append(x, n)) = Len(x) + 1
    BY <1>3, AppendProperties
  <2> QED
    BY <2>1, <1>1, <1>3
<1>6. ASSUME NEW k \in 1..Len(z) PROVE z[k] = Append(x, n)[k]
  <2>1. CASE k \in 1..Len(a)
    <3>1. Append(x, n)[k] = x[k]
      BY <2>1, <1>3
    <3>2. k \in 1..Len(c)
      BY <1>1, <2>1
    <3> QED
      BY <3>1, <3>2, <2>1, <1>2, <1>4
  <2>2. CASE k \notin 1..Len(a)
    <3>1. k = Len(a) + 1
      BY <1>1, <1>3, <2>2
    <3>2. Append(x, n)[k] = n
      BY <3>1, <1>1, <1>3
    <3> QED
      BY <3>1, <3>2, <1>8
  <2> QED
    BY <2>1, <2>2
<1>7. z = Append(x, n)
  BY <1>3, <1>5, <1>6, SeqEqual
<1>9. Total(z) = Total(x) + n
  BY <1>3, <1>7, TotalAppend
<1> QED
  BY <1>9 DEF x, z, c, n

\* The beginning of a text is not longer than the text.
LEMMA PrefixShorter ==
    ASSUME NEW src \in Seq(Line), NEW a \in Seq(Places(src)), NEW b \in Seq(Places(src))
    PROVE  Total(LengthsIn(src, a)) <= Total(LengthsIn(src, a \o b))
  BY LengthsConcat, LengthsTyped, TotalPrefix

-----------------------------------------------------------------------------
(* The copies of one line.                                                 *)

LEMMA MadeTyped ==
    ASSUME NEW src \in Seq(Line), NEW k \in 1..Len(src), NEW m \in Nat
    PROVE  Made(k, m) \in Seq(Places(src)) /\ Len(Made(k, m)) = m
<1>1. Made(k, m) \in [1..m -> Places(src)]
  BY DEF Made, Places
<1> QED
  BY <1>1

LEMMA MadeNone ==
    ASSUME NEW k
    PROVE  Made(k, 0) = <<>>
  BY DEF Made

LEMMA MadeSplit ==
    ASSUME NEW src \in Seq(Line), NEW k \in 1..Len(src), NEW m \in Nat, NEW c \in Nat, m <= c
    PROVE  \E rest \in Seq(Places(src)) :
             /\ Made(k, c) = Made(k, m) \o rest
             /\ m = c => rest = <<>>
<1> DEFINE x == Made(k, m)   z == Made(k, c)   y == [d \in 1..(c - m) |-> <<k, m + d>>]
<1>1. /\ x \in Seq(Places(src)) /\ Len(x) = m /\ z \in Seq(Places(src)) /\ Len(z) = c
      /\ \A j \in 1..m : x[j] = <<k, j>>
      /\ \A j \in 1..c : z[j] = <<k, j>>
  <2>1. \A j \in 1..m : x[j] = <<k, j>>
    BY DEF Made
  <2>2. \A j \in 1..c : z[j] = <<k, j>>
    BY DEF Made
  <2> QED
    BY <2>1, <2>2, MadeTyped
<1>0. PICK q \in Nat : q = c - m
  OBVIOUS
<1>2. y \in Seq(Places(src)) /\ Len(y) = q
  <2>1. y \in [1..q -> Places(src)]
    BY <1>0 DEF Places
  <2> HIDE DEF y
  <2> QED
    BY <2>1
<1>3. \A j \in 1..q : y[j] = <<k, m + j>>
  BY <1>0
<1> HIDE DEF x, y, z
<1>7. m = c => y = <<>>
  BY <1>0, <1>2, EmptySeq
<1>4. x \o y \in Seq(Places(src)) /\ Len(x \o y) = Len(z)
  <2>1. x \o y \in Seq(Places(src)) /\ Len(x \o y) = Len(x) + Len(y)
    BY <1>1, <1>2, ConcatProperties
  <2> QED
    BY <2>1, <1>0, <1>1, <1>2
<1>5. ASSUME NEW j \in 1..Len(z) PROVE z[j] = (x \o y)[j]
  <2>1. CASE j <= m
    <3>1. (x \o y)[j] = x[j]
      BY <2>1, <1>1, <1>2
    <3>2. j \in 1..m /\ j \in 1..c
      BY <1>1, <2>1
    <3> QED
      BY <3>1, <3>2, <1>1
  <2>2. CASE ~ (j <= m)
    <3> DEFINE d == j - m
    <3>1. d \in 1..q /\ m + d = j /\ j \in 1..c
      BY <1>0, <1>1, <2>2
    <3>2. (x \o y)[j] = y[d]
      BY <2>2, <3>1, <1>0, <1>1, <1>2, ConcatProperties
    <3> HIDE DEF d
    <3> QED
      BY <3>1, <3>2, <1>3, <1>1
  <2> QED
    BY <2>1, <2>2
<1>6. z = x \o y
  BY <1>1, <1>4, <1>5, SeqEqual
<1> QED
  BY <1>2, <1>6, <1>7 DEF x, z

LEMMA MadeMore ==
    ASSUME NEW k, NEW m \in Nat
    PROVE  Append(Made(k, m), <<k, m + 1>>) = Made(k, m + 1)
<1> DEFINE x == Made(k, m)   z == Made(k, m + 1)   y == Append(x, <<k, m + 1>>)   S == {k} \X Nat
<1>1. /\ x \in [1..m -> S] /\ z \in [1..(m + 1) -> S]
      /\ \A j \in 1..m : x[j] = <<k, j>>
      /\ \A j \in 1..(m + 1) : z[j] = <<k, j>>
  BY DEF Made
<1> HIDE DEF x, z
<1>2. x \in Seq(S) /\ Len(x) = m /\ z \in Seq(S) /\ Len(z) = m + 1 /\ <<k, m + 1>> \in S
  BY <1>1
<1> HIDE DEF S
<1>3. y \in Seq(S) /\ Len(y) = m + 1 /\ y[m + 1] = <<k, m + 1>> /\ \A j \in 1..m : y[j] = x[j]
  BY <1>2
<1> HIDE DEF y
<1>4. ASSUME NEW j \in 1..Len(z) PROVE z[j] = y[j]
  <2>1. CASE j \in 1..m
    BY <2>1, <1>1, <1>2, <1>3
  <2>2. CASE j \notin 1..m
    <3>1. j = m + 1
      BY <2>2, <1>2
    <3> QED
      BY <3>1, <1>1, <1>2, <1>3
  <2> QED
    BY <2>1, <2>2
<1>5. z = y
  BY <1>2, <1>3, <1>4, SeqEqual
<1> QED
  BY <1>5 DEF x, y, z

-----------------------------------------------------------------------------
(* One line of the expansion more.                                         *)

\* What is written next when m copies of line k were made.
Piece(src, k, m) == IF parse_times_directive(src[k]) THEN <<k, m + 1>> ELSE <<k, 0>>

Written(src, k, m) == ExpansionsIn(src)[k - 1] \o Made(k, m)

\* The copies of a line made so far and the next one begin its expansion.
LEMMA CopiesBegin ==
    ASSUME NEW src \in Seq(Line), NEW k \in 1..Len(src), NEW m \in Nat,
           parse_times_directive(src[k]) => m < src[k].count,
           ~ parse_times_directive(src[k]) => m = 0
    PROVE  /\ Piece(src, k, m) \in Places(src)
           /\ \E rest \in Seq(Places(src)) :
                /\ CopiesIn(src, k) = Append(Made(k, m), Piece(src, k, m)) \o rest
                /\ ~ parse_times_directive(src[k]) \/ m + 1 = src[k].count => rest = <<>>
<1>1. CASE parse_times_directive(src[k])
  <2>1. PICK c \in Nat : c = src[k].count
    BY LineFields
  <2>2. m + 1 \in Nat /\ m + 1 <= c
    BY <2>1, <1>1
  <2>3. PICK rest \in Seq(Places(src)) :
          Made(k, c) = Made(k, m + 1) \o rest /\ (m + 1 = c => rest = <<>>)
    BY <2>1, <2>2, MadeSplit
  <2>4. CopiesIn(src, k) = Made(k, c)
    BY <1>1, <2>1 DEF CopiesIn, Made
  <2>5. Append(Made(k, m), <<k, m + 1>>) = Made(k, m + 1)
    BY MadeMore
  <2>6. Piece(src, k, m) = <<k, m + 1>>
    BY <1>1 DEF Piece
  <2>7. <<k, m + 1>> \in Places(src)
    BY <2>2 DEF Places
  <2> QED
    BY <2>1, <2>3, <2>4, <2>5, <2>6, <2>7, <1>1
<1>2. CASE ~ parse_times_directive(src[k])
  <2> DEFINE w == <<k, 0>>
  <2>1. Piece(src, k, m) = w /\ CopiesIn(src, k) = <<w>>
    BY <1>2 DEF Piece, CopiesIn
  <2>2. Made(k, m) = <<>>
    BY <1>2, MadeNone
  <2>3. w \in Places(src)
    BY DEF Places
  <2> HIDE DEF w
  <2>4. Append(<<>>, w) = <<w>> /\ <<w>> \o <<>> = <<w>>
    BY <2>3
  <2>5. <<>> \in Seq(Places(src))
    OBVIOUS
  <2>6. CopiesIn(src, k) = Append(Made(k, m), Piece(src, k, m)) \o <<>>
    BY <2>1, <2>2, <2>4
  <2> QED
    BY <2>1, <2>3, <2>5, <2>6
<1> QED
  BY <1>1, <1>2

\* What was written and the next piece begin the whole expansion; after the last
\* copy of a line they are the expansion up to that line.
LEMMA NextPiece ==
    ASSUME NEW src \in Seq(Line), NEW k \in 1..Len(src), NEW m \in Nat,
           parse_times_directive(src[k]) => m < src[k].count,
           ~ parse_times_directive(src[k]) => m = 0
    PROVE  /\ Piece(src, k, m) \in Places(src)
           /\ Written(src, k, m) \in Seq(Places(src))
           /\ \E rest \in Seq(Places(src)) :
                ExpansionsIn(src)[Len(src)] = Append(Written(src, k, m), Piece(src, k, m)) \o rest
           /\ ~ parse_times_directive(src[k]) \/ m + 1 = src[k].count
                => Append(Written(src, k, m), Piece(src, k, m)) = ExpansionsIn(src)[k]
<1> DEFINE S == Seq(Places(src))
           e == ExpansionsIn(src)
           w == Piece(src, k, m)
           md == Made(k, m)
<1>1. PICK tail \in S :
        /\ CopiesIn(src, k) = Append(md, w) \o tail
        /\ ~ parse_times_directive(src[k]) \/ m + 1 = src[k].count => tail = <<>>
  BY CopiesBegin
<1>2. w \in Places(src) /\ md \in S
  BY CopiesBegin, MadeTyped
<1>3. k - 1 \in 0..Len(src) /\ k \in 0..Len(src)
  OBVIOUS
<1>4. e[k - 1] \in S /\ e[k] = e[k - 1] \o CopiesIn(src, k)
  BY <1>3, ExpansionsAdd
<1>5. PICK more \in S : e[Len(src)] = e[k] \o more
  BY <1>3, RestOfExpansion
<1>6. \A a \in S : Append(a, w) \in S /\ a \o <<>> = a
  BY <1>2
<1>7. \A a \in S, b \in S : Append(a \o b, w) = a \o Append(b, w) /\ a \o b \in S
  <2> TAKE a \in S, b \in S
  <2>1. a \o b \in S
    OBVIOUS
  <2>2. Append(a \o b, w) = (a \o b) \o <<w>> /\ Append(b, w) = b \o <<w>>
    BY <2>1, <1>2, AppendIsConcat
  <2>3. <<w>> \in S
    BY <1>2
  <2>4. (a \o b) \o <<w>> = a \o (b \o <<w>>)
    BY <2>3
  <2> QED
    BY <2>1, <2>2, <2>4
<1>8. \A a \in S, b \in S, c \in S : (a \o b) \o c = a \o (b \o c)
  <2> HIDE DEF e, w, md
  <2> TAKE a \in S, b \in S, c \in S
  <2> DEFINE P == Places(src)
  <2>1. a \in Seq(P) /\ b \in Seq(P) /\ c \in Seq(P)
    OBVIOUS
  <2> HIDE DEF S, P
  <2> QED BY <2>1
<1> HIDE DEF S, e, w, md
<1> DEFINE wr == e[k - 1] \o md
           ap == Append(md, w)
<1>9. wr \in S /\ ap \in S /\ Append(wr, w) = e[k - 1] \o ap /\ Append(wr, w) \in S
  BY <1>2, <1>4, <1>6, <1>7
<1> HIDE DEF wr, ap
<1>10. e[k] = Append(wr, w) \o tail
  <2>1. e[k] = e[k - 1] \o (ap \o tail)
    BY <1>1, <1>4 DEF ap
  <2>2. (e[k - 1] \o ap) \o tail = e[k - 1] \o (ap \o tail)
    BY <1>4, <1>8, <1>9
  <2> QED
    BY <2>1, <2>2, <1>9
<1>11. e[Len(src)] = Append(wr, w) \o (tail \o more) /\ tail \o more \in S
  <2>1. (Append(wr, w) \o tail) \o more = Append(wr, w) \o (tail \o more)
    BY <1>8, <1>9
  <2>2. tail \o more \in S
    BY <1>7
  <2> QED
    BY <2>1, <2>2, <1>5, <1>10
<1>12. ~ parse_times_directive(src[k]) \/ m + 1 = src[k].count => Append(wr, w) = e[k]
  BY <1>1, <1>6, <1>9, <1>10
<1>13. Written(src, k, m) = wr
  BY DEF Written, wr, e, md
<1> QED
  BY <1>2, <1>9, <1>11, <1>12, <1>13 DEF S, e, w

\* A piece of a text that fits, fits.
LEMMA PieceFits ==
    ASSUME NEW src \in Seq(Line), NEW k \in 1..Len(src), NEW m \in Nat,
           parse_times_directive(src[k]) => m < src[k].count,
           ~ parse_times_directive(src[k]) => m = 0,
           Total(LengthsIn(src, ExpansionsIn(src)[Len(src)])) < RoomIn(src)
    PROVE  Total(LengthsIn(src, Written(src, k, m))) + LengthIn(src, Piece(src, k, m)) < RoomIn(src)
<1> DEFINE S == Seq(Places(src))
           w == Piece(src, k, m)
           wr == Written(src, k, m)
           whole == ExpansionsIn(src)[Len(src)]
<1>1. PICK rest \in S : whole = Append(wr, w) \o rest
  BY NextPiece
<1>2. w \in Places(src) /\ wr \in S
  BY NextPiece
<1> HIDE DEF w, wr
<1>3. Append(wr, w) \in S
  BY <1>2
<1>4. Total(LengthsIn(src, Append(wr, w))) <= Total(LengthsIn(src, whole))
  BY <1>1, <1>3, PrefixShorter
<1>5. Total(LengthsIn(src, Append(wr, w))) = Total(LengthsIn(src, wr)) + LengthIn(src, w)
  BY <1>2, LengthsAppend
<1>6. Total(LengthsIn(src, wr)) \in Nat /\ LengthIn(src, w) \in Nat /\ RoomIn(src) \in Nat
  BY <1>2, LengthsTyped, TotalNat, LengthTyped, RoomNat
<1>7. Total(LengthsIn(src, whole)) \in Nat
  <2>1. whole \in S
    BY <1>1, <1>3
  <2> QED
    BY <2>1, LengthsTyped, TotalNat
<1> QED
  BY <1>4, <1>5, <1>6, <1>7 DEF w, wr

-----------------------------------------------------------------------------
(* The operators of the model are those of this module, now and after a    *)
(* step.                                                                   *)

LEMMA ReadsSource ==
    /\ Lengths(output) = LengthsIn(source, output)
    /\ Lengths(Expanded) = LengthsIn(source, Expanded)
    /\ Expanded = ExpansionsIn(source)[Len(source)]
    /\ output_size = RoomIn(source) + 1
<1>1. Lengths(output) = LengthsIn(source, output)
  BY Zenon DEF Lengths, LengthsIn, Length, LengthIn
<1>2. Lengths(Expanded) = LengthsIn(source, Expanded)
  BY Zenon DEF Lengths, LengthsIn, Length, LengthIn
<1>3. Expanded = ExpansionsIn(source)[Len(source)]
  BY Zenon DEF Expanded, Expansions, ExpansionsIn, Copies, CopiesIn
<1>4. output_size = RoomIn(source) + 1
  BY DEF output_size, strlen, RoomIn
<1> QED
  BY <1>1, <1>2, <1>3, <1>4, Zenon

LEMMA Room ==
    ASSUME source \in Seq(Line)
    PROVE  RoomIn(source) \in Nat /\ output_size - 1 = RoomIn(source)
<1>1. RoomIn(source) \in Nat
  BY RoomNat
<1> QED
  BY <1>1, ReadsSource

\* Nothing is written at first.
LEMMA InitExpand == Init => ExpandInv
<1> SUFFICES ASSUME Init PROVE ExpandInv
  OBVIOUS
<1>1. source \in Seq(Line) /\ i = 1 /\ r = 0 /\ out_pos = 0 /\ output = <<>> /\ done = FALSE
  BY SourcesTyped DEF Init
<1>2. LengthsIn(source, <<>>) = <<>>
  BY DEF LengthsIn
<1>3. Len(source) \in Nat
  BY <1>1
<1>4. BufferInv
  <2>1. i \in 1..(Len(source) + 1) /\ r \in Nat
    BY <1>1, <1>3
  <2>6. done \in BOOLEAN
    BY <1>1, Zenon
  <2>2. output \in Seq(Places(source))
    BY <1>1
  <2>3. out_pos = Total(LengthsIn(source, output))
    BY <1>1, <1>2, TotalEmpty
  <2>4. out_pos <= RoomIn(source)
    BY <1>1, RoomNat
  <2>5. ~ (r > 0) /\ ~ done
    BY <1>1
  <2> QED
    BY <2>1, <2>2, <2>3, <2>4, <2>5, <2>6, <1>1 DEF BufferInv
<1>5. WholeInv
  <2>1. Made(i, r) = <<>>
    BY <1>1, MadeNone
  <2>2. ExpansionsIn(source)[i - 1] = <<>>
    <3>1. i - 1 = 0
      BY <1>1
    <3> QED
      BY <1>1, <3>1, ExpansionsAdd
  <2>3. <<>> \o <<>> = <<>>
    OBVIOUS
  <2> QED
    BY <1>1, <2>1, <2>2, <2>3 DEF WholeInv
<1> QED
  BY <1>4, <1>5 DEF ExpandInv

\* Write puts one place behind what was written, when there is room for it.
LEMMA WriteKeeps ==
    ASSUME ExpandInv, source' = source, i \in 1..Len(source), NEW w \in Places(source),
           Write(w, LengthIn(source, w))
    PROVE  /\ output' \in Seq(Places(source))
           /\ out_pos' = Total(LengthsIn(source, output'))
           /\ out_pos' <= RoomIn(source)
           /\ out_pos + LengthIn(source, w) < RoomIn(source) => output' = Append(output, w)
<1> DEFINE n == LengthIn(source, w)
<1>1. /\ source \in Seq(Line) /\ output \in Seq(Places(source))
      /\ out_pos = Total(LengthsIn(source, output)) /\ out_pos <= RoomIn(source)
  BY DEF ExpandInv, BufferInv
<1>2. n \in Nat /\ out_pos \in Nat /\ RoomIn(source) \in Nat /\ output_size - 1 = RoomIn(source)
  BY <1>1, LengthTyped, LengthsTyped, TotalNat, Room
<1>3. Fits(n) <=> out_pos + n < RoomIn(source)
  BY <1>2 DEF Fits
<1>4. CASE Fits(n)
  <2>1. output' = Append(output, w) /\ out_pos' = out_pos + n
    BY <1>4 DEF Write
  <2>2. Append(output, w) \in Seq(Places(source))
    BY <1>1
  <2>3. Total(LengthsIn(source, Append(output, w))) = out_pos + n
    BY <1>1, LengthsAppend
  <2>4. out_pos + n <= RoomIn(source)
    BY <1>2, <1>3, <1>4
  <2> QED
    BY <2>1, <2>2, <2>3, <2>4
<1>5. CASE ~ Fits(n)
  <2>1. output' = output /\ out_pos' = out_pos
    BY <1>5 DEF Write
  <2> QED
    BY <2>1, <1>1, <1>3, <1>5
<1> QED
  BY <1>4, <1>5

\* A copy of a times line.
LEMMA RepeatKeeps == ExpandInv /\ RepeatLine => ExpandInv'
<1> SUFFICES ASSUME ExpandInv, RepeatLine PROVE ExpandInv'
  OBVIOUS
<1>1. /\ source \in Seq(Line) /\ i \in 1..(Len(source) + 1) /\ r \in Nat /\ done \in BOOLEAN
      /\ r > 0 => r < source[i].count
      /\ done => i = Len(source) + 1
  BY DEF ExpandInv, BufferInv
<1>2. /\ i <= Len(source) /\ parse_times_directive(source[i])
      /\ Write(<<i, r + 1>>, source[i].inst + 1)
      /\ IF r + 1 < source[i].count THEN r' = r + 1 /\ i' = i ELSE r' = 0 /\ i' = i + 1
      /\ source' = source /\ done' = done
  BY DEF RepeatLine
<1>3. i \in 1..Len(source) /\ Len(source) \in Nat
  BY <1>1, <1>2
<1> DEFINE w == <<i, r + 1>>   c == source[i].count
<1>4. c \in Nat /\ c > 0 /\ r < c
  <2>1. c \in Nat /\ c \in 1..MaxTimesCount
    BY <1>1, <1>2, <1>3, LineFields DEF parse_times_directive
  <2>2. c > 0
    BY <2>1, CountNat
  <2> QED
    BY <1>1, <2>1, <2>2
<1>5. w \in Places(source) /\ w = Piece(source, i, r)
  BY <1>1, <1>2, <1>3 DEF Places, Piece
<1>6. LengthIn(source, w) = source[i].inst + 1
  <2>1. w[1] = i /\ w[2] # 0
    BY <1>1
  <2> HIDE DEF w
  <2> QED
    BY <2>1 DEF LengthIn
<1> HIDE DEF w
<1>7. /\ output' \in Seq(Places(source))
      /\ out_pos' = Total(LengthsIn(source, output'))
      /\ out_pos' <= RoomIn(source)
      /\ out_pos + LengthIn(source, w) < RoomIn(source) => output' = Append(output, w)
  <2>1. Write(w, LengthIn(source, w))
    BY <1>2, <1>6 DEF w
  <2> QED
    BY <2>1, <1>2, <1>3, <1>5, WriteKeeps
<1>8. ~ done
  BY <1>1, <1>3
<1>9. BufferInv'
  <2>1. i' \in 1..(Len(source) + 1) /\ r' \in Nat
    BY <1>1, <1>2, <1>3
  <2>2. r' > 0 => i' = i /\ r' < c
    BY <1>1, <1>2, <1>4
  <2> QED
    BY <2>1, <2>2, <1>1, <1>2, <1>3, <1>7, <1>8 DEF BufferInv
<1>10. WholeInv'
  <2> SUFFICES ASSUME Total(LengthsIn(source, ExpansionsIn(source)[Len(source)])) < RoomIn(source)
               PROVE  output' = ExpansionsIn(source)[i' - 1] \o Made(i', r')
    BY <1>2 DEF WholeInv
  <2>1. output = Written(source, i, r)
    BY DEF ExpandInv, WholeInv, Written
  <2>2. out_pos = Total(LengthsIn(source, output))
    BY DEF ExpandInv, BufferInv
  <2>3. output' = Append(output, w)
    <3>1. out_pos + LengthIn(source, w) < RoomIn(source)
      BY <1>1, <1>2, <1>3, <1>4, <1>5, <2>1, <2>2, PieceFits
    <3> QED
      BY <3>1, <1>7
  <2>4. CASE r + 1 < c
    <3>1. i' = i /\ r' = r + 1
      BY <2>4, <1>2
    <3> DEFINE e == ExpansionsIn(source)[i - 1]
               md == Made(i, r)
    <3>2. e \in Seq(Places(source)) /\ md \in Seq(Places(source))
      <4>1. i - 1 \in 0..Len(source)
        BY <1>3
      <4> QED
        BY <4>1, <1>1, <1>3, ExpansionsAdd, MadeTyped
    <3>3. Append(md, w) = Made(i, r + 1)
      BY <1>1, MadeMore DEF w
    <3>4. output = e \o md
      BY <2>1 DEF Written
    <3> HIDE DEF e, md
    <3>5. Append(e \o md, w) = e \o Append(md, w)
      BY <3>2, <1>5
    <3> QED
      BY <2>3, <3>1, <3>3, <3>4, <3>5 DEF e
  <2>5. CASE ~ (r + 1 < c)
    <3>1. i' = i + 1 /\ r' = 0 /\ r + 1 = c
      BY <2>5, <1>1, <1>2, <1>4
    <3>2. output' = ExpansionsIn(source)[i]
      BY <1>1, <1>2, <1>3, <1>4, <1>5, <2>1, <2>3, <3>1, NextPiece
    <3>3. i' - 1 = i /\ Made(i', r') = <<>>
      BY <3>1, <1>3, MadeNone
    <3>4. ExpansionsIn(source)[i] \o <<>> = ExpansionsIn(source)[i]
      <4>1. ExpansionsIn(source)[i] \in Seq(Places(source))
        <5>1. i \in 0..Len(source)
          BY <1>3
        <5> QED
          BY <5>1, <1>1, ExpansionsAdd
      <4> QED
        BY <4>1
    <3> QED
      BY <3>2, <3>3, <3>4
  <2> QED
    BY <2>4, <2>5
<1> QED
  BY <1>9, <1>10 DEF ExpandInv

\* A line that is copied.
LEMMA CopyKeeps == ExpandInv /\ CopyLine => ExpandInv'
<1> SUFFICES ASSUME ExpandInv, CopyLine PROVE ExpandInv'
  OBVIOUS
<1>1. /\ source \in Seq(Line) /\ i \in 1..(Len(source) + 1) /\ r \in Nat /\ done \in BOOLEAN
      /\ r > 0 => parse_times_directive(source[i])
      /\ done => i = Len(source) + 1
  BY DEF ExpandInv, BufferInv
<1>2. /\ i <= Len(source) /\ ~ parse_times_directive(source[i])
      /\ Write(<<i, 0>>, source[i].len)
      /\ i' = i + 1 /\ r' = r
      /\ source' = source /\ done' = done
  BY DEF CopyLine
<1>3. i \in 1..Len(source) /\ Len(source) \in Nat /\ r = 0
  BY <1>1, <1>2
<1> DEFINE w == <<i, 0>>
<1>5. w \in Places(source) /\ w = Piece(source, i, r)
  BY <1>1, <1>2, <1>3 DEF Places, Piece
<1>6. LengthIn(source, w) = source[i].len
  BY DEF LengthIn
<1> HIDE DEF w
<1>7. /\ output' \in Seq(Places(source))
      /\ out_pos' = Total(LengthsIn(source, output'))
      /\ out_pos' <= RoomIn(source)
      /\ out_pos + LengthIn(source, w) < RoomIn(source) => output' = Append(output, w)
  <2>1. Write(w, LengthIn(source, w))
    BY <1>2, <1>6 DEF w
  <2> QED
    BY <2>1, <1>2, <1>3, <1>5, WriteKeeps
<1>8. ~ done
  BY <1>1, <1>3
<1>9. BufferInv'
  <2>1. i' \in 1..(Len(source) + 1) /\ r' = 0
    BY <1>1, <1>2, <1>3
  <2> QED
    BY <2>1, <1>1, <1>2, <1>3, <1>7, <1>8 DEF BufferInv
<1>10. WholeInv'
  <2> SUFFICES ASSUME Total(LengthsIn(source, ExpansionsIn(source)[Len(source)])) < RoomIn(source)
               PROVE  output' = ExpansionsIn(source)[i' - 1] \o Made(i', r')
    BY <1>2 DEF WholeInv
  <2>1. output = Written(source, i, r)
    BY DEF ExpandInv, WholeInv, Written
  <2>2. out_pos = Total(LengthsIn(source, output))
    BY DEF ExpandInv, BufferInv
  <2>3. output' = Append(output, w)
    <3>1. out_pos + LengthIn(source, w) < RoomIn(source)
      BY <1>1, <1>2, <1>3, <1>5, <2>1, <2>2, PieceFits
    <3> QED
      BY <3>1, <1>7
  <2>4. output' = ExpansionsIn(source)[i]
    BY <1>1, <1>2, <1>3, <1>5, <2>1, <2>3, NextPiece
  <2>5. i' - 1 = i /\ Made(i', r') = <<>>
    BY <1>2, <1>3, MadeNone
  <2>6. ExpansionsIn(source)[i] \o <<>> = ExpansionsIn(source)[i]
    <3>1. i \in 0..Len(source)
      BY <1>3
    <3>2. ExpansionsIn(source)[i] \in Seq(Places(source))
      BY <3>1, <1>1, ExpansionsAdd
    <3> QED
      BY <3>2
  <2> QED
    BY <2>4, <2>5, <2>6
<1> QED
  BY <1>9, <1>10 DEF ExpandInv

LEMMA NextExpand == ExpandInv /\ [Next]_vars => ExpandInv'
<1> SUFFICES ASSUME ExpandInv, [Next]_vars PROVE ExpandInv'
  OBVIOUS
<1>1. CASE RepeatLine
  BY <1>1, RepeatKeeps
<1>2. CASE CopyLine
  BY <1>2, CopyKeeps
<1>3. CASE Terminate
  <2>1. /\ i > Len(source) /\ done' = TRUE /\ source' = source /\ i' = i /\ r' = r
        /\ out_pos' = out_pos /\ output' = output
    BY <1>3 DEF Terminate
  <2>2. i = Len(source) + 1
    BY <2>1 DEF ExpandInv, BufferInv
  <2>3. BufferInv'
    BY <2>1, <2>2 DEF ExpandInv, BufferInv
  <2>4. WholeInv'
    BY <2>1 DEF ExpandInv, WholeInv
  <2> QED
    BY <2>3, <2>4 DEF ExpandInv
<1>4. CASE UNCHANGED vars
  <2>1. /\ done' = done /\ source' = source /\ i' = i /\ r' = r
        /\ out_pos' = out_pos /\ output' = output
    BY <1>4 DEF vars
  <2> QED
    BY <2>1 DEF ExpandInv, BufferInv, WholeInv
<1> QED
  BY <1>1, <1>2, <1>3, <1>4 DEF Next

LEMMA ExpandHolds == Spec => []ExpandInv
  BY InitExpand, NextExpand, PTL DEF Spec

\* The buffer of the expansion is not overrun, its final NUL included, and the
\* position in it is the length of what was written, for every text: the two
\* comparisons in front of the copies are enough.
THEOREM TimesTyped == Spec => []TypeOK
<1>1. ExpandInv => TypeOK
  <2> SUFFICES ASSUME ExpandInv PROVE TypeOK
    OBVIOUS
  <2>1. BufferInv
    BY DEF ExpandInv
  <2>2. output_size - 1 = RoomIn(source) /\ Lengths(output) = LengthsIn(source, output)
    BY <2>1, Room, ReadsSource DEF BufferInv
  <2> QED
    BY <2>1, <2>2 DEF BufferInv, TypeOK
<1> QED
  BY <1>1, ExpandHolds, PTL

\* A text whose expansion fits into the buffer comes out whole, line by line and
\* copy by copy, for every text and every limit on the count.
THEOREM ExpandsWhole == Spec => []SmallTextsComeOutWhole
<1>1. ExpandInv => SmallTextsComeOutWhole
  <2> SUFFICES ASSUME ExpandInv, done, Total(Lengths(Expanded)) < output_size - 1
               PROVE  output = Expanded
    BY DEF SmallTextsComeOutWhole
  <2>1. source \in Seq(Line) /\ i = Len(source) + 1 /\ r \in Nat /\ (r > 0 => i <= Len(source))
    BY DEF ExpandInv, BufferInv
  <2>2. output_size - 1 = RoomIn(source)
    BY <2>1, Room
  <2>3. Total(LengthsIn(source, ExpansionsIn(source)[Len(source)])) < RoomIn(source)
    BY <2>2, ReadsSource
  <2>4. output = ExpansionsIn(source)[i - 1] \o Made(i, r)
    BY <2>3 DEF ExpandInv, WholeInv
  <2>5. Len(source) \in Nat /\ i - 1 = Len(source) /\ r = 0
    BY <2>1
  <2>6. ExpansionsIn(source)[Len(source)] \in Seq(Places(source))
    <3>1. Len(source) \in 0..Len(source)
      BY <2>5
    <3> QED
      BY <3>1, <2>1, ExpansionsAdd
  <2>7. ExpansionsIn(source)[Len(source)] \o <<>> = ExpansionsIn(source)[Len(source)]
    BY <2>6
  <2>8. Made(i, r) = <<>>
    BY <2>5, MadeNone
  <2> QED
    BY <2>4, <2>5, <2>7, <2>8, ReadsSource
<1> QED
  BY <1>1, ExpandHolds, PTL

=============================================================================
