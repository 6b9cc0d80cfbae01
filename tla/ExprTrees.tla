----------------------------- MODULE ExprTrees ------------------------------
(***************************************************************************)
(* Expressions as the parser reads them, what C says they mean, and the     *)
(* trees the front end of lcc builds for them (expr.c, enode.c, tree.c).    *)
(*                                                                          *)
(* An expression is a tuple: <<"num", n>>, <<"var", v>>, <<"star", e>>,     *)
(* <<"addrof", v>>, <<"add", l, r>>, <<"mulf", l, r>> (float),              *)
(* <<"mull", l, r>> (long long), <<"lt", l, r>>, <<"eq", l, r>>,            *)
(* <<"and", l, r>>, <<"or", l, r>>, <<"not", e>>, <<"cond", c, a, b>>,      *)
(* <<"asgn", lv, e>>, <<"addasgn", lv, e>> (lv += e), <<"post", lv>>        *)
(* (lv++), <<"comma", l, r>>, <<"call", args>>.  One operator stands for    *)
(* the others of its row of tree.c's and dag.c's case labels.               *)
(* Every operator here that recurses is only evaluated by TLC.              *)
(***************************************************************************)
EXTENDS Integers, SequencesExt

CONSTANTS
    Address,      \* the address of each variable: [Vars -> Int]
    Globals,      \* the variables that are global
    Registers,    \* the variables that are given a register
    Volatile,     \* the variables that are volatile; each read gives a new value
    Pointees,     \* the variables a pointer may point to
    Callee        \* the global every called function assigns

Vars == DOMAIN Address
VarAt(a) == CHOOSE v \in Vars : Address[v] = a

ASSUME VariablesOfEachKind ==
    /\ Globals \cup Registers \cup Volatile \cup Pointees \subseteq Vars
    /\ Registers \cap (Globals \cup Volatile \cup Pointees) = {}
    /\ Callee \in Globals

Bool2Int(b) == IF b THEN 1 ELSE 0

----------------------------------------------------------------------------
(* What C says.  A machine is [store, reads]: reads counts the volatile     *)
(* reads, and the n-th of them yields n, so losing, adding or moving one    *)
(* shows.  A called function stores its first argument in Callee and        *)
(* returns its last argument plus one.                                      *)

Fetch(m, v) == IF v \in Volatile
               THEN [v |-> m.reads + 1, m |-> [m EXCEPT !.reads = @ + 1]]
               ELSE [v |-> m.store[v], m |-> m]
Store(m, v, x) == [m EXCEPT !.store[v] = x]

Arith(op, a, b) == CASE op \in {"add", "ADD"}          -> a + b
                     [] op \in {"mulf", "MULF"}        -> 2 * a + b
                     [] op \in {"mull", "MULL"}        -> a + 2 * b
                     [] op \in {"lt", "LT"}            -> Bool2Int(a < b)
                     [] op = "GE"                      -> Bool2Int(a >= b)
                     [] op \in {"eq", "EQ"}            -> Bool2Int(a = b)
                     [] op = "NE"                      -> Bool2Int(a # b)

RECURSIVE Meaning(_, _), MeaningSeq(_, _)
Lvalue(e, m) == IF e[1] = "var" THEN [v |-> Address[e[2]], m |-> m] ELSE Meaning(e[2], m)
Meaning(e, m) ==
    CASE e[1] = "num"    -> [v |-> e[2], m |-> m]
      [] e[1] = "addrof" -> [v |-> Address[e[2]], m |-> m]
      [] e[1] \in {"var", "star"} ->
            LET a == Lvalue(e, m) IN Fetch(a.m, VarAt(a.v))
      [] e[1] \in {"add", "mulf", "mull", "lt", "eq"} ->
            LET a == Meaning(e[2], m)  b == Meaning(e[3], a.m)
            IN  [v |-> Arith(e[1], a.v, b.v), m |-> b.m]
      [] e[1] \in {"and", "or"} ->
            LET a == Meaning(e[2], m)
            IN  IF (a.v # 0) = (e[1] = "or") THEN [v |-> Bool2Int(e[1] = "or"), m |-> a.m]
                ELSE LET b == Meaning(e[3], a.m) IN [v |-> Bool2Int(b.v # 0), m |-> b.m]
      [] e[1] = "not"    -> LET a == Meaning(e[2], m) IN [v |-> Bool2Int(a.v = 0), m |-> a.m]
      [] e[1] = "cond"   -> LET c == Meaning(e[2], m)
                            IN  Meaning(IF c.v # 0 THEN e[3] ELSE e[4], c.m)
      [] e[1] = "comma"  -> Meaning(e[3], Meaning(e[2], m).m)
      [] e[1] = "asgn"   -> LET a == Lvalue(e[2], m)  b == Meaning(e[3], a.m)
                            IN  [v |-> b.v, m |-> Store(b.m, VarAt(a.v), b.v)]
      [] e[1] = "addasgn" ->
            LET a == Lvalue(e[2], m)  f == Fetch(a.m, VarAt(a.v))  b == Meaning(e[3], f.m)
            IN  [v |-> f.v + b.v, m |-> Store(b.m, VarAt(a.v), f.v + b.v)]
      [] e[1] = "post"   ->
            LET a == Lvalue(e[2], m)  f == Fetch(a.m, VarAt(a.v))
            IN  [v |-> f.v, m |-> Store(f.m, VarAt(a.v), f.v + 1)]
      [] e[1] = "call"   -> LET as == MeaningSeq(e[2], m)
                            IN  [v |-> Last(as.v) + 1, m |-> Store(as.m, Callee, Head(as.v))]
MeaningSeq(es, m) ==
    IF es = <<>> THEN [v |-> <<>>, m |-> m]
    ELSE LET a == Meaning(Head(es), m)  rest == MeaningSeq(Tail(es), a.m)
         IN  [v |-> <<a.v>> \o rest.v, m |-> rest.m]

----------------------------------------------------------------------------
(* C leaves the order of the operands of an operator open: an expression    *)
(* one of whose operands changes what another one reads has no one meaning. *)

Kids(e) == IF e[1] = "call" THEN e[2]
           ELSE IF e[1] \in {"num", "var", "addrof"} THEN <<>> ELSE Tail(e)
Cells(lv) == IF lv[1] = "var" THEN {lv[2]} ELSE Pointees

RECURSIVE Writes(_), Reads(_), Sequenced(_)
Writes(e) ==
    UNION {Writes(Kids(e)[i]) : i \in DOMAIN Kids(e)}
    \cup (CASE e[1] \in {"asgn", "addasgn", "post"} -> Cells(e[2])
            [] e[1] = "call" -> {Callee}
            [] e[1] \in {"var", "star"} -> Cells(e) \cap Volatile
            [] OTHER -> {})
Reads(e) ==
    UNION {Reads(Kids(e)[i]) : i \in DOMAIN Kids(e)}
    \cup (CASE e[1] \in {"var", "star"} -> Cells(e) [] e[1] = "call" -> {Callee} [] OTHER -> {})
Sequenced(e) ==
    LET k == Kids(e)  n == Len(k)
        Apart(i, j) == Writes(k[i]) \cap (Reads(k[j]) \cup Writes(k[j])) = {}
        LvReads == IF e[2][1] = "var" THEN {} ELSE Reads(e[2])
    IN  /\ \A i \in 1 .. n : Sequenced(k[i])
        /\ e[1] \in {"add", "mulf", "mull", "lt", "eq", "call"} =>
               \A i, j \in 1 .. n : i # j => Apart(i, j)
        /\ e[1] \in {"asgn", "addasgn"} =>
               /\ Writes(k[2]) \cap (LvReads \cup Cells(e[2])) = {}
               /\ Writes(k[1]) \cap (Reads(k[2]) \cup Writes(k[2]) \cup Cells(e[2])) \subseteq
                      (IF e[2][1] = "var" THEN Volatile ELSE {})
               /\ e[1] = "addasgn" => Cells(e[2]) \cap Volatile = {}

----------------------------------------------------------------------------
(* Trees, as tuples headed by lcc's operator: <<"CNST", n>>, <<"ADDR", s>>, *)
(* <<"INDIR", t>>, <<"ADD", l, r>> and so on; <<"COND", c, l, r, s>> where  *)
(* s says that a generated variable holds the value; <<"POST", lv>> the     *)
(* RIGHT(RIGHT(p, p = p + 1), p) of lv++, which shares p;                   *)
(* <<"ASGNOP", lv, e>> the lv = lv + e of lv += e, which shares lv; and     *)
(* <<"NONE">> for no tree.                                                  *)

NoTree == <<"NONE">>

\* symbols: a variable, a constant, a label, a generated variable, a temporary
VarSym(v)     == <<v, 0>>
ConstSym(n)   == <<"constant", n>>
LabelSym(lab) == <<"label", lab>>
CondSym(n)    == <<"cond", n>>
TempSym(p)    == <<"temp", p>>

RECURSIVE rightkid(_)
rightkid(t) == IF t[1] = "RIGHT" THEN rightkid(IF t[3] # NoTree THEN t[3] ELSE t[2]) ELSE t

IsConditional(t) == rightkid(t)[1] \in {"AND", "OR", "NOT", "EQ", "NE", "LT", "GE"}

cond(t) == IF IsConditional(t) THEN t ELSE <<"NE", t, <<"CNST", 0>>>>

condtree(c, l, r) == <<"COND", cond(c), l, r, TRUE>>

value(t) == IF IsConditional(t) THEN condtree(t, <<"CNST", 1>>, <<"CNST", 0>>) ELSE t

\* mulops_calls asked with the operator of a tree, which carries no size: the
\* operations that are calls only because their operands are 8 bytes are missed
TreeOpCalls(op) == op \in {"CALL", "MULF"}

SubTrees(t) == IF t[1] = "CALL" THEN t[2]
               ELSE IF t[1] \in {"CNST", "ADDR", "NONE"} THEN <<>>
               ELSE IF t[1] = "COND" THEN SubSeq(t, 2, 4) ELSE Tail(t)

RECURSIVE hascall(_)
hascall(t) == \/ TreeOpCalls(t[1])
              \/ \E i \in DOMAIN SubTrees(t) : hascall(SubTrees(t)[i])

RECURSIVE Tree(_), root(_)
lvalue(e) == IF e[1] = "var" THEN <<"ADDR", VarSym(e[2])>> ELSE value(Tree(e[2]))
Tree(e) ==
    LET V(x) == value(Tree(x)) IN
    CASE e[1] = "num"     -> <<"CNST", e[2]>>
      [] e[1] = "addrof"  -> <<"ADDR", VarSym(e[2])>>
      [] e[1] \in {"var", "star"} -> <<"INDIR", lvalue(e)>>
      [] e[1] = "add"     -> <<"ADD", V(e[2]), V(e[3])>>
      [] e[1] = "mulf"    -> <<"MULF", V(e[2]), V(e[3])>>
      [] e[1] = "mull"    -> <<"MULL", V(e[2]), V(e[3])>>
      [] e[1] = "lt"      -> <<"LT", V(e[2]), V(e[3])>>
      [] e[1] = "eq"      -> <<"EQ", V(e[2]), V(e[3])>>
      [] e[1] = "and"     -> <<"AND", cond(Tree(e[2])), cond(Tree(e[3]))>>
      [] e[1] = "or"      -> <<"OR", cond(Tree(e[2])), cond(Tree(e[3]))>>
      [] e[1] = "not"     -> <<"NOT", cond(Tree(e[2]))>>
      [] e[1] = "cond"    -> condtree(Tree(e[2]), V(e[3]), V(e[4]))
      [] e[1] = "asgn"    -> <<"ASGN", lvalue(e[2]), V(e[3])>>
      [] e[1] = "addasgn" -> <<"ASGNOP", lvalue(e[2]), V(e[3])>>
      [] e[1] = "post"    -> <<"POST", lvalue(e[2])>>
      [] e[1] = "comma"   -> <<"RIGHT", root(V(e[2])), Tree(e[3])>>
      [] e[1] = "call"    -> <<"CALL", [i \in DOMAIN e[2] |-> V(e[2][i])]>>

RIGHT(l, r) == IF l = NoTree /\ r = NoTree THEN NoTree ELSE <<"RIGHT", l, r>>

root(t) ==
    CASE t[1] = "COND" ->
            LET l == root(t[3])  r == root(t[4])
            IN  IF l = NoTree /\ r = NoTree THEN root(t[2])
                ELSE <<"COND", t[2], l, r, FALSE>>
      [] t[1] \in {"AND", "OR"} ->
            IF root(t[3]) = NoTree THEN root(t[2]) ELSE <<t[1], t[2], root(t[3])>>
      [] t[1] \in {"NOT", "INDIR"} -> root(t[2])
      [] t[1] \in {"RIGHT", "EQ", "NE", "LT", "GE", "ADD", "MULF", "MULL"} ->
            IF t[3] = NoTree THEN root(t[2]) ELSE RIGHT(root(t[2]), root(t[3]))
      [] t[1] = "POST" -> <<"ASGNOP", t[2], <<"CNST", 1>>>>
      [] t[1] \in {"CNST", "ADDR"} -> NoTree
      [] OTHER -> t

=============================================================================
