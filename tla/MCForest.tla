------------------------------ MODULE MCForest ------------------------------
(***************************************************************************)
(* Programs for Forest: a global x that called functions assign, a local w, *)
(* a register variable y, a volatile v, a pointer p to x or w, and a local z *)
(* that takes results.  Each family puts one kind of expression next to     *)
(* expressions it can share values with or spoil values of.                 *)
(***************************************************************************)
EXTENDS Forest

MCAddress == [x |-> 10, w |-> 11, y |-> 12, v |-> 13, p |-> 14, z |-> 15]
MCStores == {[x |-> a, w |-> b, y |-> c, v |-> 0, p |-> q, z |-> 7] :
                a \in 0 .. 1, b \in 0 .. 1, c \in 0 .. 1, q \in {10, 11}}

x   == <<"var", "x">>
w   == <<"var", "w">>
y   == <<"var", "y">>
z   == <<"var", "z">>
v   == <<"var", "v">>
ptr == <<"star", <<"var", "p">>>>
one == <<"num", 1>>
Plus(a, b)    == <<"add", a, b>>
Less(a, b)    == <<"lt", a, b>>
Is(a, b)      == <<"eq", a, b>>
Set(a, b)     == <<"asgn", a, b>>
AddTo(a, b)   == <<"addasgn", a, b>>
And(a, b)     == <<"and", a, b>>
Or(a, b)      == <<"or", a, b>>
Not(a)        == <<"not", a>>
Cond(a, b, c) == <<"cond", a, b, c>>
Comma(a, b)   == <<"comma", a, b>>
Call(args)    == <<"call", args>>
Post(a)       == <<"post", a>>
x1 == Plus(x, one)

\* values that share, and effects that spoil what was shared
Shared   == {x1, ptr, Plus(ptr, one), y, Plus(x, w), Plus(y, one), v, <<"mulf", x, w>>}
Effects  == {Post(x), Post(ptr), Post(y), Set(w, one), Set(ptr, y), Set(<<"var", "p">>, <<"addrof", "w">>),
             AddTo(ptr, y), Call(<<y>>)}
Straight == [stmts |-> {Set(z, e) : e \in Shared \cup {Post(x), Post(y), Set(y, x1), Call(<<x1>>)}}
                       \cup Effects,
             conds |-> {x1, Is(ptr, Post(y))}, len |-> 3]

\* conditions of every shape, before and after statements that share with them
Atoms  == {x, Less(one, x1), Is(x1, Set(y, one)), Post(w), Not(y)}
Logic1 == {And(a, b) : a, b \in Atoms} \cup {Or(a, b) : a, b \in Atoms}
Logic2 == {And(a, b) : a \in Atoms, b \in Logic1} \cup {Or(b, a) : a \in Atoms, b \in Logic1}
          \cup {Not(b) : b \in Logic1}
          \cup {And(Plus(x1, Cond(y, x1, w)), Less(one, x1)), Or(Cond(Less(x1, y), x1, y), x1)}
Logic  == [stmts |-> {Set(z, x1), Set(w, Plus(y, one))} \cup {And(a, Set(w, x1)) : a \in Atoms}
                     \cup {Or(Not(a), Set(w, x1)) : a \in Atoms},
           conds |-> Logic1 \cup Logic2, len |-> 2]

\* conditional and logical values, comma, and statements with idle parts
Tests  == {y, Less(x, x1), Or(y, w), And(x, Not(w))}
Arms   == {one, x1, Post(w), Set(x, y), Cond(w, y, x1), Comma(Set(w, x1), x1)}
Values == {Cond(t, a, b) : t \in Tests, a, b \in Arms}
Choice == [stmts |-> {Set(z, x1)} \cup Values \cup {Set(z, e) : e \in Values}
                     \cup {Set(z, Plus(x1, e)) : e \in Tests \cup {Cond(t, x1, y) : t \in Tests}}
                     \cup {Set(z, Comma(e, f)) : e \in Tests, f \in Arms},
           conds |-> {}, len |-> 1]
ChoiceThen == [Choice EXCEPT !.stmts = {Set(z, x1), Set(z, Cond(Or(y, w), x1, Set(w, x1))),
                                        Cond(And(x, Not(w)), Set(x, y), one), AddTo(ptr, And(x, y))},
                             !.conds = {x1, Cond(Or(y, w), x1, Post(w))}, !.len = 3]

\* calls: arguments that call or branch, and results that are used twice
Args  == {y, x1, Plus(y, one), Post(w), <<"mulf", y, w>>, Call(<<y>>), Set(w, y), And(y, w),
          Cond(y, w, one)}
Calls == [stmts |-> {Set(z, Call(<<a, b>>)) : a, b \in Args} \cup {Call(<<a>>) : a \in Args}
                    \cup {Set(z, x1), Set(z, Set(w, Call(<<y>>))), Set(z, Plus(<<"mull", y, w>>, y)),
                          Set(z, Plus(Call(<<y>>), <<"mulf", y, w>>))},
          conds |-> {And(Call(<<y>>), Less(one, x1)), x1}, len |-> 2]

MCFamilies == [straight |-> Straight, logic |-> Logic, choice |-> Choice,
               choicethen |-> ChoiceThen, calls |-> Calls]

\* a logical value inside an operand of a logical expression, and an 8-byte operation,
\* which is a call, in an argument
Nested == [stmts |-> {}, len |-> 1,
           conds |-> {And(w, Less(Plus(a, Set(z, And(y, b))), w)) : a, b \in {x1, x, y}}]
Long   == [stmts |-> {Call(<<a, b>>) : a, b \in {y, <<"mull", y, w>>, Call(<<y>>)}},
           conds |-> {}, len |-> 1]
MCFaulty == [nested |-> Nested, long |-> Long]
=============================================================================
