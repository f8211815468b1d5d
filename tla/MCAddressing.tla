---------------------------- MODULE MCAddressing ----------------------------
(***************************************************************************)
(* Instances of Addressing.                                                *)
(***************************************************************************)
EXTENDS Addressing

Reg(sign, r, scale) == [sign |-> sign, kind |-> "reg", reg |-> r, scale |-> scale, num |-> 0]
Num(sign, v) == [sign |-> sign, kind |-> "num", reg |-> 0, scale |-> 0, num |-> v]
Dlr(sign, v) == [Num(sign, v) EXCEPT !.kind = "dollar"]
Bare(sign, kind) == [sign |-> sign, kind |-> kind, reg |-> 0, scale |-> 0, num |-> 0]

\* rax, rcx, rsp, rbp, r8, r12 and r13: the plain case, and those whose low
\* three bits mean something else in ModRM or SIB.
Special == {0, 1, 4, 5, 8, 12, 13}
Values  == {0, 1, 127, 128, 129, 1000000}

Bases   == {<<Reg("", r, 0)>> : r \in Special}
Indexes == {<<Reg("+", r, s)>> : r \in Special, s \in {0, 1, 2, 4, 8}}
Numbers == {<<Num(sign, v)>> : sign \in {"+", "-"}, v \in Values}

Then(S, T) == {s \o t : s \in S, t \in T}

\* The same with a $, as in [rbx + $10].
Dollars == {<<Dlr(sign, v)>> : sign \in {"+", "-"}, v \in {1, 128}}

\* Every documented form.
Forms ==
    LET Registers == Bases \cup Then(Bases, Indexes)
        Leads == Registers \cup {<<Bare("", "rip")>>, <<Bare("", "rip"), Bare("+", "label")>>,
                                  <<Bare("", "label")>>, <<Num("", 4)>>}
    IN  Leads \cup {<<Dlr("", 4)>>} \cup Then(Leads, Numbers \cup Dollars) \cup Then(Then(Bases, Numbers), Indexes)
        \cup {<<[Num("", v) EXCEPT !.kind = "abs"]>> : v \in Values}

\* Every operand of up to three terms, well written or not.  A scale behind a
\* register belongs to the register's term.
AnyTerm ==
    {Reg(sign, 0, s) : sign \in Signs, s \in {0, 2}}
    \cup {Reg("", 13, 0), Reg("+", 1, 3), Num("+", 1), Num("", 128), Dlr("+", 1),
          [Bare("", "star") EXCEPT !.scale = 4], [Bare("", "star") EXCEPT !.scale = 5]}
    \cup {Bare(sign, kind) : sign \in Signs, kind \in {"rip", "label"}}
AnyOperand ==
    {o \in UNION {[1..k -> AnyTerm] : k \in 1..3} :
        \A k \in 2..Len(o) : o[k].kind = "star" =>
            /\ ~ (o[k - 1].kind = "reg" /\ o[k - 1].scale = 0)
            /\ ~ (o[k - 1].kind = "rip" /\ o[k - 1].sign # "")}

AllOperands == Forms \cup AnyOperand
=============================================================================
