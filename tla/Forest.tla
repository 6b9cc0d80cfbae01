------------------------------- MODULE Forest -------------------------------
(***************************************************************************)
(* lcc's expression forest (dag.c): expression trees are turned into a list *)
(* of root nodes with common subexpressions found through a table, the      *)
(* table is emptied where a remembered value may no longer be current, and  *)
(* undag replaces a node with several uses by a temporary assigned where    *)
(* the first root that needs it is emitted.  The back end this compiler     *)
(* targets (sirius.md) sets wants_dag = 0, left_to_right = 1, wants_callb=1.*)
(*                                                                          *)
(* The forest, the table, nodecount and depth live across the expression    *)
(* statements of a stretch of code until walk() hands the forest over, so   *)
(* a behaviour is a sequence of statements; what is compared is the meaning *)
(* of the emitted list, executed, with the meaning C gives the statements.  *)
(***************************************************************************)
EXTENDS ExprTrees

CONSTANTS
    Families,    \* the programs: records [stmts, conds, len] of source expressions
    MaxNodes     \* a statement that leaves more nodes than this ends the forest (200)

ASSUME MaxNodesNat == MaxNodes \in Nat

VARIABLES
    fam,     \* the family the program is taken from
    prog,    \* the statements since the last walk
    d,       \* the state of dag.c: see EmptyDag
    code,    \* the list the last walk handed to the code list
    open     \* FALSE between a walk and the next statement

vars == <<fam, prog, d, code, open>>

----------------------------------------------------------------------------
(* Nodes.  A node is its index in d.nodes; 0 is NULL.  d.table holds the    *)
(* nodes reachable through buckets (nodecount is its cardinality), d.forest *)
(* the root list in order, d.equ what equatelab recorded, d.lab the labels  *)
(* and generated variables handed out, d.bad whether an assertion failed;   *)
(* d.tmp, d.cse and d.out belong to undag.                                  *)

EmptyDag == [nodes |-> <<>>, table |-> {}, forest |-> <<>>, depth |-> 0,
             equ |-> <<>>, lab |-> 1, bad |-> FALSE,
             tmp |-> {}, cse |-> {}, out |-> <<>>]

Result(p, s) == [p |-> p, d |-> s]
Assert_(s, test) == [s EXCEPT !.bad = @ \/ ~test]

\* sirius.md mulops_calls asked with the operator of a node
IsCall(op) == op \in {"CALL", "MULF", "MULL"}

Last_(s) == s.forest[Len(s.forest)]

newnode(s, op, l, r, sym) ==
    LET counted == [i \in DOMAIN s.nodes |->
                       [s.nodes[i] EXCEPT !.count = @ + (IF i = l THEN 1 ELSE 0)
                                                     + (IF i = r THEN 1 ELSE 0)]]
    IN  Result(Len(s.nodes) + 1,
               [s EXCEPT !.nodes = Append(counted,
                   [op |-> op, l |-> l, r |-> r, sym |-> sym, count |-> 0])])

node(s, op, l, r, sym) ==
    LET hits == {i \in s.table : /\ s.nodes[i].op = op /\ s.nodes[i].sym = sym
                                 /\ s.nodes[i].l = l   /\ s.nodes[i].r = r}
        new  == newnode(s, op, l, r, sym)
    IN  IF hits # {} THEN Result(CHOOSE i \in hits : TRUE, s)
        ELSE Result(new.p, [new.d EXCEPT !.table = @ \cup {new.p}])

reset(s) == [s EXCEPT !.table = {}]

IsAddr(s, i) == s.nodes[i].op \in {"ADDRL", "ADDRG"}

\* mutant: only the values of the variable itself are forgotten
killnodesDirect(s, v) ==
    [s EXCEPT !.table = {i \in @ : ~ /\ s.nodes[i].op = "INDIR"
                                     /\ IsAddr(s, s.nodes[i].l)
                                     /\ s.nodes[s.nodes[i].l].sym = v}]

killnodes(s, v) ==
    [s EXCEPT !.table = {i \in @ : \/ s.nodes[i].op # "INDIR"
                                   \/ /\ IsAddr(s, s.nodes[i].l)
                                      /\ s.nodes[s.nodes[i].l].sym # v}]

list(s, p) == IF p = 0 \/ p \in ToSet(s.forest) THEN s
              ELSE [s EXCEPT !.forest = Append(@, p)]

ListNew(s, op, l, r, sym) == LET n == newnode(s, op, l, r, sym) IN list(n.d, n.p)

EndsInLabel(s) == s.forest # <<>> /\ s.nodes[Last_(s)].op = "LABEL"

\* equatelab(old, new): a use of old becomes a use of new
equatelab(s, old, new) ==
    [Assert_(s, old \notin {s.equ[i][1] : i \in DOMAIN s.equ})
        EXCEPT !.equ = Append(@, <<old, new>>)]

labelnode(s, lab) ==
    reset(IF EndsInLabel(s) THEN equatelab(s, LabelSym(lab), s.nodes[Last_(s)].sym)
          ELSE ListNew(s, "LABEL", 0, 0, LabelSym(lab)))

unlist(s) == [Assert_(s, Len(s.forest) > 1) EXCEPT !.forest = SubSeq(@, 1, Len(@) - 1)]

jump(s, lab) == ListNew(s, "JUMP", 0, 0, LabelSym(lab))

genlabel(s, n) == [s EXCEPT !.lab = @ + n]

----------------------------------------------------------------------------
(* listnodes(tp, tlab, flab): list what has to be executed for tp, jumping  *)
(* to tlab if it is true or to flab if it is false, and give its node.      *)

NoSym == ConstSym(0)

AddrOp(sym) == IF sym[1] \in Globals THEN "ADDRG" ELSE "ADDRL"

\* the INDIR node of an lvalue whose node is l; a volatile one is never shared
Fetched(lv, l, s) == IF lv[1] = "ADDR" /\ lv[2][1] \in Volatile
                     THEN newnode(s, "INDIR", l, 0, NoSym)
                     ELSE node(s, "INDIR", l, 0, NoSym)

RECURSIVE listnodes(_, _, _, _)
Value(tp, s) == listnodes(tp, 0, 0, s)

Enter(s) == [IF s.depth = 0 THEN reset(s) ELSE s EXCEPT !.depth = @ + 1]
Leave(s) == [s EXCEPT !.depth = @ - 1]

ListAnd(tp, tlab, flab, s) ==
    LET e == Enter(s)
        f == IF flab # 0 THEN flab ELSE e.lab
        a == listnodes(tp[2], 0, f, IF flab # 0 THEN e ELSE genlabel(e, 1)).d
    IN  Leave(IF flab # 0 THEN listnodes(tp[3], 0, f, a).d
              ELSE labelnode(listnodes(tp[3], tlab, 0, a).d, f))

ListOr(tp, tlab, flab, s) ==
    LET e == Enter(s)
        t == IF tlab # 0 THEN tlab ELSE e.lab
        a == listnodes(tp[2], t, 0, IF tlab # 0 THEN e ELSE genlabel(e, 1)).d
    IN  Leave(IF tlab # 0 THEN listnodes(tp[3], t, 0, a).d
              ELSE labelnode(listnodes(tp[3], 0, flab, a).d, t))

\* an arm whose code ends in a label has that label equated with the exit
DropLabel(s, exit) ==
    IF EndsInLabel(s) THEN unlist(equatelab(s, s.nodes[Last_(s)].sym, LabelSym(exit)))
    ELSE Assert_(s, s.forest # <<>>)

ListCond(tp, s) ==
    LET held    == tp[5]
        v       == <<"ADDR", CondSym(s.lab)>>
        s0      == IF held THEN genlabel(s, 1) ELSE s
        flab    == s0.lab
        arm(t)  == IF held THEN <<"ASGN", v, t>> ELSE t
        tested  == reset(listnodes(tp[2], 0, flab, genlabel(s0, 2)).d)
        first   == DropLabel(Value(arm(tp[3]), tested).d, flab + 1)
        between == labelnode(jump(first, flab + 1), flab)
        second  == DropLabel(Value(arm(tp[4]), between).d, flab + 1)
        joined  == labelnode(second, flab + 1)
    IN  IF held THEN Value(<<"INDIR", v>>, joined) ELSE Result(0, joined)

Inverse_ == [EQ |-> "NE", NE |-> "EQ", LT |-> "GE", GE |-> "LT"]

ListCompare(tp, tlab, flab, s) ==
    LET l == Value(tp[2], Assert_(s, tlab # 0 \/ flab # 0))
        r == Value(tp[3], l.d)
    IN  IF tlab # 0 THEN ListNew(r.d, tp[1], l.p, r.p, LabelSym(tlab))
        ELSE ListNew(r.d, Inverse_[tp[1]], l.p, r.p, LabelSym(flab))

\* mutant: a store through a pointer is taken for one to a variable
AssignVariable(tp, l, r, s) ==
    LET a == ListNew(s, "ASGN", l, r, ConstSym(0))
    IN  Result(r, IF tp[2][1] = "ADDR" THEN killnodes(a, tp[2][2]) ELSE a)

\* the end of the ASGN case: list the assignment, forget what it may change
Assign(tp, l, r, s) ==
    LET a == ListNew(s, "ASGN", l, r, ConstSym(0))
    IN  Result(r, IF tp[2][1] = "ADDR" THEN killnodes(a, tp[2][2]) ELSE reset(a))

ListAsgn(tp, s) == LET l == Value(tp[2], s)  r == Value(tp[3], l.d)
                   IN  Assign(tp, l.p, r.p, r.d)

\* lv = lv + e, where both lv are one tree: its second visit finds tp->node
ListAsgnOp(tp, s) ==
    LET l == Value(tp[2], s)
        f == Fetched(tp[2], l.p, l.d)
        e == Value(tp[3], f.d)
        r == node(e.d, "ADD", f.p, e.p, NoSym)
    IN  Assign(tp, l.p, r.p, r.d)

\* RIGHT(p, lv = p + 1) with p the value of lv: p is listed before the assignment
ListPost(tp, s) ==
    LET l == Value(tp[2], s)
        f == Fetched(tp[2], l.p, l.d)
        c == Value(<<"CNST", 1>>, list(f.d, f.p))
        r == node(c.d, "ADD", f.p, c.p, NoSym)
    IN  Result(f.p, Assign(tp, l.p, r.p, r.d).d)

\* the arguments that call are listed first, then the ARG nodes, which find the
\* node of such an argument in tp->node, then the call
ListCall(tp, s) ==
    LET args == tp[2]  n == Len(args)
        early[i \in 0 .. n] ==
            IF i = 0 THEN [p |-> <<>>, d |-> s]
            ELSE LET a == early[i - 1]
                     x == IF hascall(args[i]) THEN Value(args[i], a.d) ELSE Result(0, a.d)
                 IN  [p |-> Append(a.p, x.p), d |-> x.d]
        passed[i \in 0 .. n] ==
            IF i = 0 THEN early[n].d
            ELSE LET x == IF hascall(args[i]) THEN Result(early[n].p[i], passed[i - 1])
                          ELSE Value(args[i], passed[i - 1])
                 IN  ListNew(x.d, "ARG", x.p, 0, NoSym)
        f == node(passed[n], "ADDRG", 0, 0, VarSym("function"))
        c == newnode(f.d, "CALL", f.p, 0, ConstSym(n))
    IN  Result(c.p, reset(list(c.d, c.p)))

ListDyadic(tp, s) ==
    LET l == Value(tp[2], s)  r == Value(tp[3], l.d)
        n == node(r.d, tp[1], l.p, r.p, NoSym)
    IN  IF IsCall(tp[1]) THEN Result(n.p, list(n.d, n.p)) ELSE n

ListConst(tp, tlab, flab, s) ==
    CASE tlab # 0 -> Result(0, IF tp[2] # 0 THEN jump(s, tlab) ELSE s)
      [] flab # 0 -> Result(0, IF tp[2] = 0 THEN jump(s, flab) ELSE s)
      [] OTHER    -> node(s, "CNST", 0, 0, ConstSym(tp[2]))

listnodes(tp, tlab, flab, s0) ==
    LET s == Assert_(s0, /\ tlab = 0 \/ flab = 0
                         /\ tp[1] \in {"AND", "OR", "NOT", "CNST", "RIGHT", "EQ", "NE",
                                       "LT", "GE", "NONE"} \/ tlab + flab = 0)
    IN  CASE tp = NoTree        -> Result(0, s)
          [] tp[1] = "AND"      -> Result(0, ListAnd(tp, tlab, flab, s))
          [] tp[1] = "OR"       -> Result(0, ListOr(tp, tlab, flab, s))
          [] tp[1] = "NOT"      -> listnodes(tp[2], flab, tlab, s)
          [] tp[1] = "COND"     -> ListCond(tp, s)
          [] tp[1] = "CNST"     -> ListConst(tp, tlab, flab, s)
          [] tp[1] = "RIGHT"    -> IF tp[3] = NoTree THEN listnodes(tp[2], tlab, flab, s)
                                   ELSE listnodes(tp[3], tlab, flab, Value(tp[2], s).d)
          [] tp[1] = "POST"     -> ListPost(tp, s)
          [] tp[1] = "CALL"     -> ListCall(tp, s)
          [] tp[1] \in {"EQ", "NE", "LT", "GE"} ->
                                   Result(0, ListCompare(tp, tlab, flab, s))
          [] tp[1] = "ASGN"     -> ListAsgn(tp, s)
          [] tp[1] = "ASGNOP"   -> ListAsgnOp(tp, s)
          [] tp[1] \in {"ADD", "MULF", "MULL"} -> ListDyadic(tp, s)
          [] tp[1] = "INDIR"    -> LET l == Value(tp[2], s) IN Fetched(tp[2], l.p, l.d)
          [] tp[1] = "ADDR"     -> node(s, AddrOp(tp[2]), 0, 0, tp[2])

----------------------------------------------------------------------------
(* undag: the roots in order, each node with several uses replaced by a     *)
(* temporary that is assigned where the first root that needs it stands.    *)
(* s.tmp is the nodes whose syms[2] is a temporary, s.cse those temporaries *)
(* that still remember the node they hold.                                  *)

tmpnode(p, s) ==
    LET left == s.nodes[p].count - 1
        s0   == [s EXCEPT !.nodes[p].count = left, !.tmp = IF left = 0 THEN @ \ {p} ELSE @]
        a    == newnode(s0, "ADDRL", 0, 0, TempSym(p))
        n    == newnode(a.d, "INDIR", a.p, 0, NoSym)
    IN  Result(n.p, [n.d EXCEPT !.nodes[n.p].count = 1])

asgnnode(p, s) == LET a == newnode(s, "ADDRL", 0, 0, TempSym(p))
                  IN  newnode(a.d, "ASGN", a.p, p, NoSym)

RECURSIVE visit(_, _, _)
VisitKids(p, s) ==
    LET l == visit(s.nodes[p].l, FALSE, s)
        r == visit(s.nodes[p].r, FALSE, [l.d EXCEPT !.nodes[p].l = l.p])
    IN  [r.d EXCEPT !.nodes[p].r = r.p]
visit(p, listed, s) ==
    IF p = 0 THEN Result(0, s)
    ELSE IF p \in s.tmp THEN tmpnode(p, s)
    ELSE IF s.nodes[p].count <= (IF IsCall(s.nodes[p].op) THEN 0 ELSE 1)
    THEN Result(p, VisitKids(p, s))
    ELSE IF s.nodes[p].op = "ADDRL"
    THEN LET n == newnode(Assert_(s, ~listed), "ADDRL", 0, 0, s.nodes[p].sym)
         IN  Result(n.p, [n.d EXCEPT !.nodes[n.p].count = 1])
    ELSE LET a    == asgnnode(p, VisitKids(p, s))
             held == [a.d EXCEPT !.tmp = @ \cup {p}, !.cse = @ \cup {p}, !.out = Append(@, a.p)]
         IN  IF listed THEN Result(p, held) ELSE tmpnode(p, held)

UndagRoot(s, p) ==
    LET n == s.nodes[p]
        v == visit(p, TRUE, Assert_(s, \/ n.op = "INDIR" /\ n.count >= 1
                                       \/ IsCall(n.op)
                                       \/ n.op # "INDIR" /\ n.count = 0)).d
    IN  IF n.op = "INDIR"
        THEN [Assert_(v, p \in v.tmp => p \in v.cse) EXCEPT !.cse = IF p \in v.tmp THEN @ \ {p} ELSE @]
        ELSE IF IsCall(n.op) /\ n.count >= 1 THEN v
        ELSE [v EXCEPT !.out = Append(@, p)]

RECURSIVE UndagFrom(_, _)
UndagFrom(s, i) == IF i > Len(s.forest) THEN s ELSE UndagFrom(UndagRoot(s, s.forest[i]), i + 1)

undag(s) == UndagFrom(s, 1)

\* prune: a temporary that copies a register variable is replaced by the variable
Copies(s, p) == LET n == s.nodes[p]  x == s.nodes[n.r]
                IN  /\ n.op = "ASGN" /\ n.l # 0 /\ s.nodes[n.l].op = "ADDRL"
                    /\ s.nodes[n.l].sym \in {TempSym(i) : i \in s.cse}
                    /\ s.nodes[n.l].sym = TempSym(n.r)
                    /\ x.op = "INDIR" /\ IsAddr(s, x.l)
                    /\ s.nodes[x.l].sym[1] \in Registers

prune(s) ==
    LET gone == {p \in ToSet(s.out) : Copies(s, p)}
        to   == [t \in {s.nodes[s.nodes[p].l].sym : p \in gone} |-> s.nodes[s.nodes[t[2]].l].sym]
    IN  [s EXCEPT !.out = SelectSeq(@, LAMBDA p : p \notin gone),
                  !.nodes = [i \in DOMAIN @ |->
                      IF @[i].op = "ADDRL" /\ @[i].sym \in DOMAIN to
                      THEN [@[i] EXCEPT !.sym = to[@]] ELSE @[i]]]

\* what walk hands to the code list
Emitted(s) == prune(undag(s))

----------------------------------------------------------------------------
(* What the emitted list does.  A machine is ExprTrees' with the generated  *)
(* variables and temporaries set so far, the arguments waiting for a call,  *)
(* and ok, which a read of an unset temporary or a call that does not get   *)
(* its arguments turns to FALSE.  A call, and an operation that is one,     *)
(* takes the argument registers, so an argument that waits is lost.         *)

Machine(m) == [store |-> m.store, reads |-> m.reads, gen |-> <<>>, args |-> <<>>, ok |-> TRUE]
Broken(m) == [v |-> 0, m |-> [m EXCEPT !.ok = FALSE]]

Cell(sym) == sym[1] \in Vars
Peek(m, sym) == IF Cell(sym) THEN Fetch(m, sym[1])
                ELSE IF sym \in DOMAIN m.gen THEN [v |-> m.gen[sym], m |-> m] ELSE Broken(m)
Poke(m, sym, x) == IF Cell(sym) THEN Store(m, sym[1], x)
                   ELSE [m EXCEPT !.gen = (sym :> x) @@ @]
AtAddress(a) == \E v \in Vars : Address[v] = a

RECURSIVE Exec(_, _, _)
Exec(s, p, m) ==
    LET n == s.nodes[p]  direct == n.l # 0 /\ IsAddr(s, n.l)
        a == Exec(s, n.l, m)  b == Exec(s, n.r, IF direct THEN m ELSE a.m)
        two == Exec(s, n.r, a.m)
    IN  CASE n.op = "CNST" -> [v |-> n.sym[2], m |-> m]
          [] n.op \in {"ADDRL", "ADDRG"} ->
                IF Cell(n.sym) THEN [v |-> Address[n.sym[1]], m |-> m] ELSE Broken(m)
          [] n.op = "INDIR" ->
                IF direct THEN Peek(m, s.nodes[n.l].sym)
                ELSE IF AtAddress(a.v) THEN Fetch(a.m, VarAt(a.v)) ELSE Broken(a.m)
          [] n.op = "ASGN" ->
                IF direct THEN [v |-> 0, m |-> Poke(b.m, s.nodes[n.l].sym, b.v)]
                ELSE IF AtAddress(a.v) THEN [v |-> 0, m |-> Store(b.m, VarAt(a.v), b.v)]
                ELSE Broken(b.m)
          [] n.op = "ARG" -> [v |-> 0, m |-> [a.m EXCEPT !.args = Append(@, [v |-> a.v, kept |-> TRUE])]]
          [] n.op = "CALL" ->
                IF Len(m.args) = n.sym[2] /\ \A i \in DOMAIN m.args : m.args[i].kept
                THEN [v |-> Last(m.args).v + 1,
                      m |-> [Store(m, Callee, Head(m.args).v) EXCEPT !.args = <<>>]]
                ELSE Broken(m)
          [] n.op \in {"MULF", "MULL"} ->
                [v |-> Arith(n.op, a.v, two.v),
                 m |-> [two.m EXCEPT !.args = [i \in DOMAIN @ |-> [@[i] EXCEPT !.kept = FALSE]]]]
          [] n.op = "JUMP" -> [v |-> 0, m |-> m]
          [] OTHER -> [v |-> Arith(n.op, a.v, two.v), m |-> two.m]

RECURSIVE Equated(_, _), RunFrom(_, _, _)
Equated(s, lab) == LET to == {i \in DOMAIN s.equ : s.equ[i][1] = lab}
                   IN  IF to = {} THEN lab ELSE Equated(s, s.equ[CHOOSE i \in to : TRUE][2])

\* runs to the end of the list or to a jump out of it: exit is 0 or the label
RunFrom(s, pc, m) ==
    LET n     == s.nodes[s.out[pc]]
        x     == Exec(s, s.out[pc], m)
        a     == Exec(s, n.l, m)
        taken == \/ n.op = "JUMP"
                 \/ n.op \in {"EQ", "NE", "LT", "GE"} /\ x.v # 0
        at    == {i \in DOMAIN s.out : /\ s.nodes[s.out[i]].op = "LABEL"
                                       /\ s.nodes[s.out[i]].sym = Equated(s, n.sym)}
        after == IF n.op \in {"LABEL", "JUMP"} THEN m ELSE x.m
    IN  IF pc > Len(s.out) \/ ~m.ok THEN [exit |-> NoSym, m |-> m]
        ELSE IF n.op = "RET" THEN [exit |-> <<"return", a.v>>, m |-> a.m]
        ELSE IF ~taken THEN RunFrom(s, pc + 1, after)
        ELSE IF at = {} THEN [exit |-> n.sym, m |-> after]
        ELSE RunFrom(s, Min(at), after)

----------------------------------------------------------------------------
(* A stretch of code.  Each element of prog is [kind, e]: an expression     *)
(* statement, or the controlling expression of an if (jump to Elsewhere if  *)
(* false) or of a loop (jump to Elsewhere if true).                         *)

Elsewhere == 99

Init == /\ fam \in DOMAIN Families
        /\ prog = <<>> /\ d = EmptyDag /\ code = EmptyDag /\ open = TRUE

\* walk, once everything is listed
WalkWith(s) == code' = Emitted(s) /\ d' = EmptyDag /\ open' = FALSE

\* stmt.c statement, default: list the expression; walk if nothing is shared
\* or the forest has grown large
ExpressionStatement ==
    \E e \in Families[fam].stmts :
        LET s == listnodes(root(Tree(e)), 0, 0, d).d
        IN  /\ open /\ Len(prog) < Families[fam].len /\ Sequenced(e)
            /\ prog' = Append(prog, [kind |-> "expr", e |-> e])
            /\ IF s.table = {} \/ Cardinality(s.table) > MaxNodes
               THEN WalkWith(s)
               ELSE d' = s /\ UNCHANGED <<code, open>>
            /\ UNCHANGED fam

\* ifstmt, whilestmt, dostmt, forstmt: walk(conditional, tlab, flab)
Controlled(kind, tlab, flab) ==
    \E e \in Families[fam].conds :
        /\ open /\ Len(prog) < Families[fam].len /\ Sequenced(e)
        /\ prog' = Append(prog, [kind |-> kind, e |-> e])
        /\ WalkWith(listnodes(cond(Tree(e)), tlab, flab, d).d)
        /\ UNCHANGED fam

If   == Controlled("if", 0, Elsewhere)
Loop == Controlled("loop", Elsewhere, 0)

\* retcode: the value is listed under a RET root and walked
Return ==
    \E e \in Families[fam].conds :
        LET v == Value(value(Tree(e)), d)
        IN  /\ open /\ Len(prog) < Families[fam].len /\ Sequenced(e)
            /\ prog' = Append(prog, [kind |-> "return", e |-> e])
            /\ WalkWith(ListNew(v.d, "RET", v.p, 0, NoSym))
            /\ UNCHANGED fam

\* walk(NULL, 0, 0): a label, a break, the end of the function
Walk == /\ open /\ prog # <<>>
        /\ WalkWith(d)
        /\ UNCHANGED <<fam, prog>>

\* a walk leaves nothing behind, so the statements after it are another behaviour
\* from the start (labels are numbered from the start again)
Restart == ~open /\ open' = TRUE /\ prog' = <<>> /\ code' = EmptyDag /\ UNCHANGED <<fam, d>>

Next == ExpressionStatement \/ If \/ Loop \/ Return \/ Walk \/ Restart

Spec == Init /\ [][Next]_vars

----------------------------------------------------------------------------
CONSTANT InitialStores

RECURSIVE MeaningOf(_, _)
MeaningOf(p, m) ==
    IF p = <<>> THEN [exit |-> NoSym, m |-> m]
    ELSE LET x == Meaning(Head(p).e, m)
         IN  IF Head(p).kind = "return" THEN [exit |-> <<"return", x.v>>, m |-> x.m]
             ELSE IF Head(p).kind # "expr" /\ (Head(p).kind = "loop") = (x.v # 0)
             THEN [exit |-> LabelSym(Elsewhere), m |-> x.m] ELSE MeaningOf(Tail(p), x.m)

\* For every store it may start from, the code handed over computes what the
\* statements mean: the same variables, volatile reads and way out.
SameMeaning ==
    ~open =>
        \A st \in InitialStores :
            LET m == [store |-> st, reads |-> 0]
                c == MeaningOf(prog, m)
                r == RunFrom(code, 1, Machine(m))
            IN  r.m.ok /\ r.exit = c.exit /\ r.m.store = c.m.store /\ r.m.reads = c.m.reads

\* No value read from memory is in the table once something listed after it may
\* have changed it or may be skipped: an assignment, a call or a label.
TableCurrent ==
    \A n \in d.table : d.nodes[n].op = "INDIR" =>
        \A r \in ToSet(d.forest) : r > n =>
            /\ d.nodes[r].op \notin {"CALL", "LABEL", "JUMP"}
            /\ d.nodes[r].op = "ASGN" =>
                   /\ IsAddr(d, d.nodes[r].l) /\ IsAddr(d, d.nodes[n].l)
                   /\ d.nodes[d.nodes[r].l].sym # d.nodes[d.nodes[n].l].sym
============================================================================
