----------------------------- MODULE MCRegAlloc -----------------------------
(***************************************************************************)
(* Functions for RegAlloc.  Most are three parts: values put in temporaries *)
(* and variables, something that needs or destroys registers, and uses of   *)
(* the values in different orders.                                          *)
(***************************************************************************)
EXTENDS RegAlloc

Tree(op, w, sym, kids) == [op |-> op, w |-> w, sym |-> sym, kids |-> kids]
Id(kind, n) == Sym(kind, n, 0)
Const(n)        == Tree("CNST", 1, Id("const", n), <<>>)
Addr(n)         == Tree("ADDRG", 1, Id("global", n), <<>>)
LocalVal(w, n)  == Tree("INDIR", w, Id("local", n), <<>>)
At(w, a)        == Tree("INDIR", w, NoReg, <<a>>)
Global(w, n)    == At(w, Addr(n))
Op(w, n, a, b)  == Tree("OP", w, Id("op", n), <<a, b>>)
Neg(a)          == Tree("OP", 1, Id("op", 9), <<a>>)
Fop(n, a, b)    == Tree("FOP", 1, Id("op", n), <<a, b>>)
Widen(a)        == Tree("CVT", 2, NoReg, <<a>>)
Narrow(a)       == Tree("CVT", 1, NoReg, <<a>>)
T1(n) == Sym("temp", n, 1)
T2(n) == Sym("temp", n, 2)
V1(n) == Sym("name", n, 1)
V2(n) == Sym("name", n, 2)
Read(s)         == Tree("READ", s.w, s, <<>>)
Write(s, a)     == Tree("WRITE", s.w, s, <<a>>)
ToLocal(w, n, a)  == Tree("ASGN", w, Id("local", n), <<a>>)
ToGlobal(w, n, a) == Tree("ASGN", w, NoReg, <<Addr(n), a>>)
ToAddr(w, p, a) == Tree("ASGN", w, NoReg, <<p, a>>)
Arg(w, a)       == Tree("ARG", w, NoReg, <<a>>)
Call(w)         == Tree("CALL", w, NoReg, <<>>)
CallAt(w, a)    == Tree("CALL", w, NoReg, <<a>>)
Ret(w, a)       == Tree("RET", w, NoReg, <<a>>)
Cmp(w, a, b, l) == Tree("CMP", w, Id("label", l), <<a, b>>)
Fcmp(a, b, l)   == Tree("FCMP", 1, Id("label", l), <<a, b>>)
Label(l)        == Tree("LABEL", 0, Id("label", l), <<>>)
Jump(l)         == Tree("JUMP", 0, Id("label", l), <<>>)

\* n values in temporaries, each from memory or computed
Temps(n)  == [i \in 1 .. n |-> Write(T1(i), IF i % 2 = 0 THEN Global(1, i) ELSE Op(1, i, LocalVal(1, i), Const(i)))]
\* ... used last in the order they came, in reverse, or as operands of one expression
InOrder(n)   == [i \in 1 .. n |-> ToGlobal(1, i, Read(T1(i)))]
InReverse(n) == [i \in 1 .. n |-> ToLocal(1, i, Op(1, 1, Read(T1(n + 1 - i)), LocalVal(1, 20)))]
TogetherF[n \in Nat] == IF n = 1 THEN Read(T1(1)) ELSE Op(1, n, Read(T1(n)), TogetherF[n - 1])
LeftwardF[n \in Nat] == IF n = 1 THEN Read(T1(1)) ELSE Op(1, n, LeftwardF[n - 1], Read(T1(n)))
Uses(n) == {InOrder(n), InReverse(n), <<ToLocal(1, 9, TogetherF[n])>>, <<ToLocal(1, 9, LeftwardF[n])>>,
            <<Tree("CMP", 1, Id("label", 1), <<TogetherF[n], Const(0)>>), ToLocal(1, 8, Read(T1(n))), Label(1)>>}

\* deep trees of values that are used once
DeepF[n \in Nat] == IF n = 1 THEN LocalVal(1, 1) ELSE Op(1, n, Global(1, n), DeepF[n - 1])

Helped(t, a, b) == Write(T2(t), Op(2, t, a, b))     \* 8-byte results come in a temporary
PairMiddles ==
    {<<Helped(8, LocalVal(2, 1), LocalVal(2, 2)), ToLocal(2, 30, Read(T2(8)))>>,
     <<Helped(9, LocalVal(2, 1), Widen(LocalVal(1, 3))), ToLocal(2, 31, Read(T2(9))),
       ToLocal(1, 11, Narrow(Read(T2(9))))>>}
Middles ==
    {<<>>,
     <<ToLocal(1, 10, DeepF[4])>>,
     <<Write(T1(9), Fop(1, LocalVal(1, 5), Const(0))), ToLocal(1, 12, Read(T1(9)))>>,
     <<Fcmp(LocalVal(1, 5), LocalVal(1, 6), 2)>>,
     <<Arg(1, Const(3)), Write(T1(9), Call(1)), ToGlobal(1, 9, Read(T1(9)))>>}

Fun(vars_, forests) == [vars |-> vars_, forests |-> forests]
Around(k, m, u) == Fun(<<>>, <<Temps(k) \o m \o u \o <<Label(2)>>, <<Call(0)>>>>)
Pressure == UNION {{Around(k, m, u) : m \in Middles, u \in Uses(k)} : k \in 1 .. 7}
            \* a fourth temporary would take a word of the last free pair
            \cup UNION {{Around(k, m, u) : m \in PairMiddles, u \in Uses(k)} : k \in 1 .. 3}

\* register variables: copied to temporaries, changed and copied back around their uses
Par(w) == [param |-> TRUE, w |-> w]
Loc(w) == [param |-> FALSE, w |-> w]
Step(v) == Write(v, Op(1, 5, Read(v), Const(1)))
Copies(t) ==   \* 1 and 2 are variables of one word, t is a temporary of the forest
    LET v == V1(1)  u == V1(2)
    IN  {<<Write(t, Read(v)), ToGlobal(1, 1, Read(t)), ToLocal(1, 2, Read(t))>>,
         <<Write(t, Read(v)), Step(v), ToGlobal(1, 1, Read(t)), ToLocal(1, 2, Read(v))>>,
         <<Write(t, Read(v)), ToGlobal(1, 1, Read(t)), Step(v), ToLocal(1, 2, Read(t))>>,
         <<Write(t, Read(v)), Write(v, Read(t)), ToGlobal(1, 1, Op(1, 1, Read(t), Read(v)))>>,
         <<Write(t, Read(v)), Write(v, Read(u)), Write(u, Read(t)), ToLocal(1, 2, Read(u))>>,
         <<Write(t, Read(v)), Cmp(1, Read(t), Read(u), 1), Step(v), Write(u, Read(t)), Label(1)>>,
         <<Write(t, Read(v)), ToLocal(1, 2, Op(1, 1, Read(t), DeepF[6])), Write(u, Read(t))>>,
         <<Write(v, Op(1, 1, Read(u), Const(0))), Write(u, Op(1, 2, Read(v), Neg(Read(u))))>>}
WithCalls ==
    LET t == T1(1)  v == V1(1)
    IN  {<<Write(t, Read(v)), Call(0), ToGlobal(1, 1, Read(t)), ToLocal(1, 2, Read(t))>>,
         <<Write(t, Read(v)), ToGlobal(1, 3, Read(t)), Call(0), ToGlobal(1, 1, Read(t))>>,
         <<Write(t, Op(1, 1, Read(v), Const(2))), Arg(1, Read(t)), Arg(1, Read(v)), CallAt(0, Addr(7)),
           ToGlobal(1, 1, Read(t))>>}
\* the word that follows is in memory when the variables are too many
Many == [i \in 1 .. 12 |-> IF i <= 2 THEN Par(1) ELSE Loc(1)]
Setting(n) == [i \in 1 .. n |-> Write(V1(i + 2), Op(1, i, Read(V1(i + 1)), Const(i)))]
Variables == {Fun(<<Par(1), Par(1)>>, <<c, d>>) : c \in Copies(T1(1)), d \in Copies(T1(2))}
             \cup {Fun(<<Par(1), Par(1)>>, <<c, <<Call(0)>>>>) : c \in Copies(T1(1)) \cup WithCalls}
             \cup {Fun(Many, <<c, Setting(10), <<Step(V1(12))>>, <<Call(0)>>>>) : c \in Copies(T1(1)) \cup WithCalls}

\* pairs: parameters of a leaf function, variables of one that calls
PairCopies(t) ==
    LET v == V2(1)  u == V2(2)
    IN  {<<Write(t, Read(v)), Write(v, Read(u)), ToLocal(2, 2, Read(t))>>,
         <<Write(t, Read(v)), ToGlobal(2, 1, Read(t)), Write(u, Read(t)), ToLocal(2, 2, Read(v))>>,
         <<ToGlobal(1, 4, Narrow(Read(v))), Write(u, Widen(LocalVal(1, 6))), Write(v, Read(u))>>}
PairCalls ==
    LET t == T2(1)  v == V2(1)  u == V2(2)
    IN  {<<Write(v, LocalVal(2, 3)), Write(u, Read(v)), Helped(1, Read(v), Read(u)), Write(v, Read(t)),
           ToGlobal(2, 1, Read(t))>>,
         <<Write(v, LocalVal(2, 3)), Helped(1, Read(v), LocalVal(2, 5)), Helped(2, Read(t), Read(u)),
           ToLocal(2, 1, Read(T2(2))), Call(0), ToGlobal(2, 1, Read(v))>>}
Pairs == {Fun(<<Par(2), Par(2)>>, <<c, d>>) : c \in PairCopies(T2(1)), d \in PairCopies(T2(2))}
         \cup {Fun(<<Loc(2), Loc(2)>>, <<<<Write(V2(2), LocalVal(2, 9))>>, c, d>>) :
                  c \in PairCalls, d \in PairCopies(T2(3))}

\* arguments: pairs aligned to registers of even number, from the seventh word on in memory
ArgsOf(n) == [i \in 1 .. n |-> Arg(1, IF i % 3 = 0 THEN Const(0) ELSE LocalVal(1, i))]
PassAll(k) == [i \in 1 .. k |-> Arg(1, Read(T1(i)))]
CallTrees ==
    {ArgsOf(n) \o c : n \in {1, 6, 8},
        c \in {<<Call(0)>>, <<CallAt(0, LocalVal(1, 30))>>, <<Write(T1(9), Call(1)), ToGlobal(1, 8, Read(T1(9)))>>}}
    \cup {<<Arg(1, Const(1)), Arg(2, LocalVal(2, 1)), Arg(1, Addr(1)), Arg(2, Global(2, 2)), Call(0)>>,
          <<Arg(1, Const(1)), Write(T1(9), Call(1)), Arg(1, Read(T1(9))), Arg(1, LocalVal(1, 1)),
            Write(T1(8), CallAt(1, Addr(3))), ToLocal(1, 1, Op(1, 1, Read(T1(8)), Read(T1(9))))>>,
          <<Write(T2(9), Call(2)), ToGlobal(2, 1, Read(T2(9))), Arg(2, Read(T2(9))), Call(0)>>,
          <<Write(T2(9), LocalVal(2, 4)), Write(T1(8), Narrow(Read(T2(9)))), Arg(2, Read(T2(9))), Call(0),
            ToGlobal(2, 1, Read(T2(9))), ToLocal(2, 2, Read(T2(9))), ToLocal(1, 3, Read(T1(8)))>>,
          <<Write(T2(9), Call(2)), Jump(1), ToGlobal(2, 1, Read(T2(9))), Label(1)>>}
Returns == {Ret(1, DeepF[3]), Ret(2, LocalVal(2, 1)), Ret(1, Const(0))}
CallsOf == {Fun(<<>>, <<c, <<r>>>>) : c \in CallTrees, r \in Returns}
           \cup {Fun(<<>>, <<Temps(k) \o PassAll(k) \o <<Call(0)>> \o u>>) : k \in {2, 4, 7}, u \in {InOrder(2), InReverse(2)}}

MCPrograms == Pressure \cup Variables \cup Pairs \cup CallsOf

\* h = a * b; x = x + y; return a * b; and a parameter of two words that is read after a call
HelperKeeps == Fun(<<>>, <<<<Write(T1(1), Op(1, 1, LocalVal(1, 1), LocalVal(1, 2))), ToGlobal(1, 1, Read(T1(1))),
                             Helped(2, Global(2, 2), Global(2, 3)), ToGlobal(2, 2, Read(T2(2))),
                             Ret(1, Read(T1(1)))>>>>)
PairParameter == Fun(<<Par(2)>>, <<<<Call(0)>>, <<ToGlobal(2, 1, Read(V2(1)))>>>>)
\* six temporaries, the last of which, in x5, is read after 8-byte values are compared
Scratch == Fun(<<>>, <<Temps(6) \o [i \in 1 .. 3 |-> Cmp(1, Read(T1(2 * i - 1)), Read(T1(2 * i)), 1)]
                       \o <<Cmp(2, Global(2, 1), Global(2, 2), 1), Cmp(1, Read(T1(6)), Const(1), 1), Label(1)>>>>)
\* y == *p, where p is a temporary that is read here last
LoadOverAddress == Fun(<<>>, <<Temps(3) \o <<ToLocal(1, 1, Op(1, 1, Read(T1(1)), Read(T1(2)))),
                               ToLocal(2, 1, At(2, Read(T1(3))))>>>>)

\* a + 1 != a && x == y && a + 1 > 2, and the same with more temporaries in use
PairsAndOne == Fun(<<>>, <<<<Write(T1(1), LocalVal(1, 1)), Write(T1(2), Op(1, 1, Read(T1(1)), Const(1))),
                             Cmp(1, Read(T1(2)), Read(T1(1)), 1), Cmp(2, Global(2, 1), Global(2, 2), 1),
                             Cmp(1, Read(T1(2)), Const(2), 1), Label(1)>>>>)
PairsAndFour == Fun(<<>>, <<Temps(4) \o <<Cmp(2, Global(2, 1), Global(2, 2), 1)>> \o InOrder(4) \o <<Label(1)>>>>)
\* a register variable is compared with an 8-byte value, or kept while floats are compared
PairVariable   == Fun(<<Loc(2)>>, <<<<Write(V2(1), Global(2, 1))>>, <<Cmp(2, Read(V2(1)), Global(2, 2), 1), Call(0), Label(1)>>>>)
LeafWithFloats == Fun(<<Par(1)>>, <<<<Fcmp(Global(1, 1), Global(1, 2), 1), Ret(1, Read(V1(1))), Label(1)>>>>)
\* if (f == h) ...; in a function that calls nothing else
LeafComparesFloats == Fun(<<>>, <<<<Fcmp(Global(1, 1), Global(1, 2), 1), Label(1)>>>>)
FaultyPrograms == {HelperKeeps, PairParameter, Scratch, LoadOverAddress, PairsAndOne,
                   PairsAndFour, PairVariable, LeafWithFloats, LeafComparesFloats}
=============================================================================
