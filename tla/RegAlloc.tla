------------------------------ MODULE RegAlloc ------------------------------
(***************************************************************************)
(* lcc's register allocation (gen.c) with the registers, targets and        *)
(* clobbered registers of the Sirius (sirius.md).  gen() takes one forest   *)
(* of instruction trees at a time, lists the instructions in the order of   *)
(* execution, and gives each the register of its result; a register in use  *)
(* that is needed is spilled to a local and reloaded before each later use. *)
(* emit() then prints the instructions of all forests, leaving out copies   *)
(* that requate() shows to be superfluous.                                  *)
(*                                                                          *)
(* A tree here is an instruction after labelling and reduction: constant    *)
(* operands, labels and the addresses of locals are part of it.  What the   *)
(* printed instructions do to the machine is compared with what the trees   *)
(* mean.                                                                    *)
(***************************************************************************)
EXTENDS Integers, Sequences, FiniteSets, TLC

CONSTANTS
    Programs,         \* the functions compiled: [vars, forests]
    HelperPreserves,  \* the temporaries that __add64 and its like leave alone
    MaxNodes          \* the nodes one function may allocate before memory runs out

ASSUME MaxNodesPositive == MaxNodes \in Nat \ {0}

VARIABLES
    fun,     \* the function being compiled
    g,       \* the state of gen.c: see NewGen
    phase,   \* what it is doing: "vars", "gen", "ralloc", "emit", "done", "aborted"
    left,    \* the forests that gen() has not seen
    order,   \* the instructions of the forest at hand, in order
    at,      \* the position in order of the next one for ralloc() or emit()
    lists,   \* the lists of the forests that wait for emit()
    code     \* the instructions printed so far

vars == <<fun, g, phase, left, order, at, lists, code>>

----------------------------------------------------------------------------
(* Registers.  A symbol that can stand in syms[RX]: a register (width 2 for *)
(* a pair, which starts at an even number), a set of them (a wildcard), a   *)
(* variable kept in a register, or a temporary of the forest.               *)

INTTMP   == {5, 6, 7, 28, 29, 30}
INTTMP64 == {22, 24, 26, 28}
INTVAR   == 18 .. 27
INTRET   == {10}
CallerSaved == {1} \cup (5 .. 7) \cup (10 .. 17) \cup (28 .. 30)

Sym(kind, n, w) == [kind |-> kind, n |-> n, w |-> w]
NoReg    == Sym("none", 0, 0)
Ireg(n)  == Sym("reg", n, 1)
Ireg2(n) == Sym("reg", n, 2)
Reg(n, w) == Sym("reg", n, w)
rmap(w)  == Sym("wildcard", 0, w)

IsWild(r)   == r.kind = "wildcard"
HasRegnode(r) == r.kind \in {"reg", "var"}
Mask(r)     == IF HasRegnode(r) THEN r.n .. (r.n + r.w - 1) ELSE {}
Overlaps(r, q) == Mask(r) \cap Mask(q) # {}
Wildcard(w) == {Reg(n, w) : n \in {m \in 0 .. 31 : m % w = 0}}

\* argreg: the register of the argument at a word offset, none from the seventh word on
RoundUp(n, w) == IF n % w = 0 THEN n ELSE n + 1
argreg(off, w) == IF off + w > 6 THEN NoReg ELSE Reg(12 + off, w)

NeedsReg == {"CNST", "ADDRG", "INDIR", "READ", "OP", "FOP", "CVT", "LOAD", "CALL"}

----------------------------------------------------------------------------
(* Trees are records [op, w, sym, kids]: sym is the constant, cell, label   *)
(* or the variable or temporary that READ and WRITE name, kids a sequence.  *)
(* mulops_calls: 8-byte operations and those on floats are calls of helpers.*)

IsHelper(op, w) == (op = "OP" /\ w = 2) \/ op = "FOP"

RECURSIVE Calls(_)
Calls(t) == (IF t.op = "CALL" \/ IsHelper(t.op, t.w) THEN 1 ELSE 0)
            + (IF Len(t.kids) > 0 THEN Calls(t.kids[1]) ELSE 0)
            + (IF Len(t.kids) > 1 THEN Calls(t.kids[2]) ELSE 0)

RECURSIVE SumCalls(_)
SumCalls(trees) == IF trees = <<>> THEN 0 ELSE Calls(Head(trees)) + SumCalls(Tail(trees))

RECURSIVE Concat(_)
Concat(forests) == IF forests = <<>> THEN <<>> ELSE Head(forests) \o Concat(Tail(forests))

ncalls(f) == SumCalls(Concat(f.forests))

----------------------------------------------------------------------------
(* The state of gen.c.  A node is its index in g.node; 0 is NULL.  g.vbl is *)
(* the set of registers whose regnode has a variable, g.cell the number of  *)
(* locals made for spills, g.failed the assertion that failed, if any.      *)

NewGen == [node |-> <<>>, freemask |-> 0 .. 31, usedmask |-> {}, vbl |-> {},
           var |-> <<>>, lastuse |-> <<>>, argoffset |-> 0, cell |-> 0, failed |-> ""]

Gone(s) == s.failed # ""    \* abort() does not return
Fail(s, what) == IF Gone(s) THEN s ELSE [s EXCEPT !.failed = what]
Assert_(s, test, what) == IF test THEN s ELSE Fail(s, what)

Node(s, p)   == s.node[p]
RegOf(s, p)  == s.node[p].reg
Kids(s, p)   == s.node[p].kids
KidRegs(s, p) == [i \in DOMAIN Kids(s, p) |-> RegOf(s, Kids(s, p)[i])]
readsreg(s, p) == s.node[p].op = "READ"
Lastuse(s, r) == IF r \in DOMAIN s.lastuse THEN s.lastuse[r] ELSE 0
SetLastuse(s, r, p) == [s EXCEPT !.lastuse = (r :> p) @@ @]

newnode(s, op, w, sym, kids, reg) ==
    [s EXCEPT !.node = Append(@, [op |-> op, w |-> w, sym |-> sym, kids |-> kids, reg |-> reg,
                                  registered |-> FALSE, listed |-> FALSE, copy |-> op = "LOAD",
                                  equatable |-> FALSE, spills |-> FALSE, prevuse |-> 0])]
Newest(s) == Len(s.node)

\* setreg of prelabel and of target: the register, or set, of a node's own result
OwnReg(s, op, w, sym) ==
    CASE op = "READ"                    -> sym
      [] op = "CNST" /\ w = 1 /\ sym.n = 0 -> Ireg(0)
      [] op = "OP" /\ w = 2             -> Ireg2(10)
      [] op \in {"FOP", "FCMP"}         -> Ireg(10)
      [] op = "CALL" /\ w > 0           -> Reg(10, w)
      [] op \in NeedsReg /\ w > 0       -> rmap(w)
      [] OTHER                          -> NoReg

\* rtarget of prelabel and of target: the register a node wants kid i in
TargetOf(op, w, sym, i) ==
    CASE op = "OP" /\ w = 2             -> Ireg2(10 + 2 * i)
      [] op \in {"FOP", "FCMP"}         -> Ireg(11 + i)
      [] op = "RET"                     -> Reg(10, w)
      [] op = "ARG"                     -> argreg(sym.n, w)
      [] op = "WRITE"                   -> sym
      [] OTHER                          -> NoReg

\* rtarget: a kid that has a register already is copied to the wanted one
rtarget(s, q, r) ==
    IF r = NoReg THEN [g |-> s, q |-> q]
    ELSE IF r # RegOf(s, q) /\ ~IsWild(RegOf(s, q))
         THEN LET s1 == newnode(s, "LOAD", s.node[q].w, NoReg, <<q>>, r)
              IN  [g |-> s1, q |-> Newest(s1)]
         ELSE [g |-> [s EXCEPT !.node[q].reg = r], q |-> q]

\* a variable is its register, or a local if it has none
Lowered(s, t) ==
    IF t.sym.kind # "name" THEN t
    ELSE IF s.var[t.sym.n] # NoReg THEN [t EXCEPT !.sym = s.var[t.sym.n]]
    ELSE [t EXCEPT !.op = IF t.op = "READ" THEN "INDIR" ELSE "ASGN", !.sym.kind = "auto"]

\* mkactual and docall: the words of the arguments up to here
ArgSym(s, t) == IF t.op = "ARG" THEN [t.sym EXCEPT !.n = RoundUp(s.argoffset, t.w)] ELSE t.sym
ArgOffset(s, t, sym) == IF t.op = "ARG" THEN sym.n + t.w
                        ELSE IF t.op = "CALL" THEN 0 ELSE s.argoffset

\* rewrite and linearize: the nodes of a tree, and their order of execution
\* a placed tree is [g, p, list]: the state, its root and the nodes in order; the kids
\* of a node placed so far are [g, ps, list]
Moved(k, r) == [g |-> r.g, p |-> r.q, list |-> IF r.q = k.p THEN k.list ELSE Append(k.list, r.q)]
Wanted(k, reg) == Moved(k, rtarget(k.g, k.p, reg))
AddKid(kids, k) == [g |-> k.g, ps |-> Append(kids.ps, k.p), list |-> kids.list \o k.list]
AddRoot(s, list, p) == [g |-> [s EXCEPT !.node[p].registered = RegOf(s, p) = Ireg(0)],
                        p |-> p, list |-> Append(list, p)]
AddNode(kids, t, reg) ==
    LET s == newnode([kids.g EXCEPT !.argoffset = ArgOffset(kids.g, t, t.sym)],
                     t.op, t.w, t.sym, kids.ps, reg)
    IN  AddRoot(s, kids.list, Newest(s))

\* the offset of an argument is that of the words before it when its tree is begun
RECURSIVE PlaceTree(_, _), PlaceKids(_, _, _)
PlaceKids(kids, t, i) ==
    IF i > Len(t.kids) THEN kids
    ELSE PlaceKids(AddKid(kids, Wanted(PlaceTree(kids.g, t.kids[i]), TargetOf(t.op, t.w, t.sym, i))),
                   t, i + 1)
PlaceLowered(s, t) ==
    AddNode(PlaceKids([g |-> s, ps |-> <<>>, list |-> <<>>], t, 1), t, OwnReg(s, t.op, t.w, t.sym))
PlaceTree(s, tree) ==
    LET t == Lowered(s, tree) IN PlaceLowered(s, [t EXCEPT !.sym = ArgSym(s, t)])

Listed(r, list) == [g |-> [r.g EXCEPT !.node[r.p].listed = TRUE], list |-> list \o r.list]
RECURSIVE PlaceAll(_, _)
PlaceAll(done, trees) ==
    IF Gone(done.g) \/ trees = <<>> THEN done
    ELSE PlaceAll(Listed(PlaceTree(done.g, Head(trees)), done.list), Tail(trees))

\* the chain of the nodes that hold a temporary, latest first: prevuse and lastuse
RECURSIVE Chain(_, _)
Chain(s, uses) ==
    IF Gone(s) \/ uses = <<>> THEN s
    ELSE LET k == Head(uses)
             t == RegOf(s, k)
         IN  Chain(IF t.kind = "temp"
                   THEN SetLastuse([s EXCEPT !.node[k].prevuse = Lastuse(s, t)], t, k) ELSE s,
                   Tail(uses))
KidsInOrder(s, list) == Concat([i \in DOMAIN list |-> Kids(s, list[i])])

----------------------------------------------------------------------------
(* Asking for registers.                                                    *)

putregForgotten(s, r) == s    \* a mutant of putreg
putreg(s, r) == [s EXCEPT !.freemask = @ \cup Mask(r)]
IsFree(s, r) == Mask(r) \subseteq s.freemask

askfixedregUnmarked(s, r) == [s EXCEPT !.freemask = @ \ Mask(r)]    \* a mutant of askfixedreg
askfixedreg(s, r) == [s EXCEPT !.freemask = @ \ Mask(r), !.usedmask = @ \cup Mask(r)]

\* askreg: the candidate, the highest one of a wildcard that lies in mask and is free
Candidates(s, set, mask) ==
    IF IsWild(set) THEN {r \in Wildcard(set.w) : Mask(r) \subseteq mask /\ IsFree(s, r)}
                   ELSE {r \in {set} : IsFree(s, r)}
Highest(rs) == CHOOSE r \in rs : \A q \in rs : q.n <= r.n

\* the nodes after p in the list
PosOf(list, p) == CHOOSE i \in DOMAIN list : list[i] = p
From(list, p)  == SubSeq(list, PosOf(list, p), Len(list))
After(list, p) == Tail(From(list, p))

uses(s, p, r) == \E i \in DOMAIN Kids(s, p) : LET k == Kids(s, p)[i] IN
                     s.node[k].registered /\ Overlaps(RegOf(s, k), r)

\* the distance to the next use of r, -1 when there is none
Distance(s, list, r) ==
    LET at_ == {i \in DOMAIN list : uses(s, list[i], r)}
    IN  IF at_ = {} THEN -1 ELSE CHOOSE i \in at_ : \A j \in at_ : i <= j

\* spillee: the register of the set whose next use is farthest; NoReg when there is none
spillee(s, set, list) ==
    LET taken == {r \in Wildcard(set.w) : /\ Lastuse(s, r) # 0
                                          /\ Mask(r) \cap INTTMP # {}
                                          /\ Distance(s, list, r) > 0}
        far   == {r \in taken : \A q \in taken : Distance(s, list, q) <= Distance(s, list, r)}
    IN  IF ~IsWild(set) THEN set
        ELSE IF far = {} THEN NoReg ELSE Highest(far)

----------------------------------------------------------------------------
(* Spilling.  sl is a state of gen.c with the list of instructions: [g, l]. *)

InsertAt(list, i, new) == SubSeq(list, 1, i) \o new \o SubSeq(list, i + 1, Len(list))
OnG(sl, s) == [sl EXCEPT !.g = s]

\* genspill: after its definition r is stored in a new local
genspill(sl, r, last) ==
    LET s    == sl.g
        w    == s.node[last].w
        cell == Sym("spill", s.cell + 1, w)
        s1   == newnode(s, "READ", w, NoReg, <<>>, Sym("var", r.n, r.w))
        s2   == newnode(s1, "ASGN", w, cell, <<Newest(s1)>>, NoReg)
    IN  [g |-> [s2 EXCEPT !.cell = @ + 1,
                          !.node[Newest(s1)].registered = TRUE,
                          !.node[Newest(s2)].registered = TRUE,
                          !.node[Newest(s2)].spills = TRUE],
         l |-> InsertAt(sl.l, PosOf(sl.l, last), <<Newest(s1), Newest(s2)>>)]

\* genreload: kid i of p is replaced by a load from the local, wanted where the kid was
genreload(sl, p, cell, i) ==
    LET s  == sl.g
        n  == s.node[p]
        k  == s.node[n.kids[i]]
        r  == IF n.op = "WRITE" THEN NoReg ELSE TargetOf(n.op, n.w, n.sym, i)
        s1 == newnode(s, "INDIR", k.w, cell, <<>>, IF r = NoReg THEN rmap(k.w) ELSE r)
    IN  [g |-> [s1 EXCEPT !.node[p].kids[i] = Newest(s1)],
         l |-> InsertAt(sl.l, PosOf(sl.l, p) - 1, <<Newest(s1)>>)]

\* the kids of the nodes of a list, as <<node, index>>
KidSlots(s, list) == Concat([i \in DOMAIN list |-> [j \in DOMAIN Kids(s, list[i]) |-> <<list[i], j>>]])

RECURSIVE Reload(_, _, _, _)
Reload(sl, slots, r, cell) ==
    IF Gone(sl.g) \/ slots = <<>> THEN sl
    ELSE LET p == Head(slots)[1]
             i == Head(slots)[2]
             k == sl.g.node[Kids(sl.g, p)[i]]
         IN  Reload(IF k.registered /\ k.reg = r THEN genreload(sl, p, cell, i) ELSE sl,
                    Tail(slots), r, cell)

\* the chain of nodes that hold what a register holds, the one that defined it first
RECURSIVE Holders(_, _)
Holders(s, p) == IF p = 0 THEN <<>> ELSE Append(Holders(s, s.node[p].prevuse), p)
Definition(s, p) == Head(Holders(s, p))

\* spillr: store what r holds, and load it again before every use after here
spillr(sl, r, here) ==
    IF Lastuse(sl.g, r) = 0 THEN OnG(sl, Fail(sl.g, "spillr: lastuse"))
    ELSE LET held == Holders(sl.g, Lastuse(sl.g, r))
             p  == Head(held)
             s1 == Assert_(sl.g, /\ \A i \in 2 .. Len(held) : RegOf(sl.g, held[i]) = r
                                 /\ sl.g.node[p].registered /\ ~readsreg(sl.g, p), "spillr: definition")
             a  == genspill(OnG(sl, s1), r, p)
             b  == Reload(a, KidSlots(a.g, After(a.l, here)), r, Sym("spill", a.g.cell, a.g.node[p].w))
         IN  OnG(b, putreg(b.g, r))

RECURSIVE SpillSlots(_, _, _, _)
SpillSlots(sl, slots, mask, here) ==
    IF Gone(sl.g) \/ slots = <<>> THEN sl
    ELSE LET p == Head(slots)[1]
             k == sl.g.node[Kids(sl.g, p)[Head(slots)[2]]]
         IN  SpillSlots(IF k.registered /\ Mask(k.reg) \cap mask # {} THEN spillr(sl, k.reg, here) ELSE sl,
                        Tail(slots), mask, here)

\* spill: empty the registers of mask, which are in use after here
spill(sl, mask, here) ==
    LET n  == sl.g.node[here]
        s1 == [sl.g EXCEPT !.node[here].spills = TRUE, !.usedmask = @ \cup mask]
        s2 == Assert_(s1, ~n.registered \/ Mask(n.reg) \cap mask = {}, "spill: target")
    IN  IF mask \subseteq s1.freemask THEN OnG(sl, s1)
        ELSE SpillSlots(OnG(sl, s2), KidSlots(s2, From(sl.l, here)), mask, here)

\* one of the candidates, or none: the result is [sl, r]
askreg(sl, candidates) ==
    IF candidates = {} THEN [sl |-> OnG(sl, Fail(sl.g, "getreg")), r |-> NoReg]
    ELSE LET r == Highest(candidates)
         IN  [sl |-> OnG(sl, [askfixedreg(sl.g, r) EXCEPT !.vbl = @ \ {r}]), r |-> r]
AskAgain(sl, set, mask) == askreg(sl, Candidates(sl.g, set, mask))

Freed(sl, best, here) ==
    LET s1 == Assert_(Assert_(sl.g, best # NoReg, "spillee: bestreg"),
                      best \notin sl.g.vbl, "spillee: register variable")
    IN  IF Gone(s1) THEN OnG(sl, s1) ELSE spill(OnG(sl, s1), Mask(best), here)

\* getreg: a register of the set, after a spill if none is free
getreg(sl, set, mask, here) ==
    IF Candidates(sl.g, set, mask) # {} THEN askreg(sl, Candidates(sl.g, set, mask))
    ELSE AskAgain(Freed(sl, spillee(sl.g, set, From(sl.l, here)), here), set, mask)

----------------------------------------------------------------------------
(* ralloc, one instruction.                                                 *)

\* a mutant of Released: lastuse is not looked at
ReleasedAlways(s, p) == UNION {Mask(RegOf(s, k)) : k \in {k \in {Kids(s, p)[i] : i \in DOMAIN Kids(s, p)} :
                                                               RegOf(s, k).kind # "var"}}

\* a kid used for the last time gives up its register; one of a variable stays
Released(s, p) ==
    UNION {Mask(RegOf(s, k)) : k \in {Kids(s, p)[i] : i \in
              {j \in DOMAIN Kids(s, p) : LET r == KidRegs(s, p)[j] IN
                   r.kind # "var" /\ Lastuse(s, r) = Kids(s, p)[j]}}}

\* the nodes of a temporary's chain all get its register
RECURSIVE Settle(_, _, _)
Settle(s, q, r) ==
    IF Gone(s) \/ q = 0 THEN s
    ELSE Settle([s EXCEPT !.node[q].reg = r, !.node[q].registered = TRUE,
                          !.node[q].equatable = @ \/ s.node[q].copy], s.node[q].prevuse, r)

Given(s, p, r) ==
    LET reg == RegOf(s, p)
    IN  IF reg.kind = "temp" THEN Settle(SetLastuse(s, r, Lastuse(s, reg)), Lastuse(s, reg), r)
        ELSE SetLastuse([s EXCEPT !.node[p].reg = r], r, p)
Hold(got, p) == IF Gone(got.sl.g) THEN got.sl ELSE OnG(got.sl, Given(got.sl.g, p, got.r))
Allocate(sl, p) ==
    LET n == sl.g.node[p]
    IN  Hold(getreg(sl, IF n.reg.kind = "temp" THEN rmap(n.w) ELSE n.reg, INTTMP, p), p)

clobbered(op, w) ==
    CASE op = "CALL" /\ w > 0                     -> INTTMP
      [] op = "CALL" /\ w = 0                     -> INTTMP \cup INTRET
      [] op \in {"FOP", "FCMP"}                   -> INTTMP
      [] op \in {"OP", "CMP"} /\ w = 2            -> INTTMP64
      [] OTHER                                    -> {}

clobber(sl, p) ==
    LET lost == clobbered(sl.g.node[p].op, sl.g.node[p].w)
    IN  IF Gone(sl.g) \/ lost = {} THEN sl ELSE spill(sl, lost, p)
Registered(sl, p) == OnG(sl, [sl.g EXCEPT !.node[p].registered = TRUE])
KidsRegistered(s, p) == \A i \in DOMAIN Kids(s, p) : s.node[Kids(s, p)[i]].registered
Needy(n) == ~n.registered /\ n.op \in NeedsReg /\ n.w > 0 /\ n.reg.kind # "var"

ralloc(sl, p) ==
    LET s == [Assert_(sl.g, KidsRegistered(sl.g, p), "ralloc: kids")
                 EXCEPT !.freemask = @ \cup Released(sl.g, p)]
    IN  clobber(Registered(IF Needy(s.node[p]) THEN Allocate(OnG(sl, s), p) ELSE OnG(sl, s), p), p)

\* gen: the value of an instruction that is a root is not used
Discard(s, p) ==
    LET n == s.node[p]
    IN  IF n.listed /\ n.op \in NeedsReg /\ n.w > 0
        THEN putreg(Assert_(s, n.op \in {"CALL", "LOAD"}, "gen: root"), n.reg) ELSE s

----------------------------------------------------------------------------
(* emit: printing a list.                                                   *)

moveself(s, p) == s.node[p].copy /\ RegOf(s, p).n = KidRegs(s, p)[1].n

\* setsrc: the instruction destroys the register a copy was taken from
setsrcMissed(s, p, src) == FALSE    \* a mutant of setsrc
setsrc(s, p, src) == Overlaps(RegOf(s, p), src) /\ ~moveself(s, p) /\ ~readsreg(s, p)

\* requate looks at the instructions after a copy from src to tmp.  It may leave the
\* copy out if src keeps the value as long as tmp is read; n counts those reads.
RECURSIVE Scan(_, _, _, _, _)
Scan(s, rest, src, tmp, n) ==
    LET p     == Head(rest)
        r     == RegOf(s, p)
        back  == s.node[p].copy /\ r = src /\ KidRegs(s, p)[1] = tmp
        stops == s.node[p].spills \/ (Len(rest) > 1 /\ s.node[p].op \in {"CALL", "LABEL"})
    IN  IF Gone(s) \/ rest = <<>> THEN [g |-> s, n |-> n, ok |-> TRUE]
        ELSE IF back THEN Scan([s EXCEPT !.node[p].reg = tmp], Tail(rest), src, tmp, n)
        ELSE IF setsrc(s, p, src) \/ stops THEN [g |-> s, n |-> 0, ok |-> FALSE]
        ELSE IF r # tmp THEN Scan(s, Tail(rest), src, tmp, n)
        ELSE IF readsreg(s, p) THEN Scan(s, Tail(rest), src, tmp, n + 1)
        ELSE [g |-> s, n |-> n, ok |-> TRUE]

RECURSIVE Rename(_, _, _, _, _)
Rename(s, rest, src, tmp, n) ==
    IF Gone(s) \/ n = 0 \/ rest = <<>> THEN s
    ELSE LET p == Head(rest)
             hit == RegOf(s, p) = tmp /\ readsreg(s, p)
         IN  Rename(IF hit THEN [s EXCEPT !.node[p].reg = src] ELSE s, Tail(rest), src, tmp,
                    IF hit THEN n - 1 ELSE n)

requate(s, q, rest) ==
    LET src  == KidRegs(s, q)[1]
        tmp  == RegOf(s, q)
        seen == Scan(s, rest, src, tmp, 0)
    IN  IF ~seen.ok THEN [g |-> seen.g, ok |-> FALSE]
        ELSE [g |-> Rename(Assert_(seen.g, seen.n > 0, "requate"), rest, src, tmp, seen.n), ok |-> TRUE]

\* the printed instruction, with the registers its nodes have at that time
Printed(s, p) == [op |-> s.node[p].op, w |-> s.node[p].w, sym |-> s.node[p].sym,
                  dst |-> RegOf(s, p), src |-> KidRegs(s, p)]

----------------------------------------------------------------------------
(* The actions: function() of sirius.md, which calls gencode and then       *)
(* emitcode, each going through the forests of the code list.               *)

Init == /\ fun \in Programs
        /\ g = NewGen /\ phase = "vars" /\ left = fun.forests
        /\ order = <<>> /\ at = 1 /\ lists = <<>> /\ code = <<>>

\* where parameter v is passed: parameters come first among the variables
RECURSIVE ArgEnd(_)
ArgEnd(v) == IF v = 0 THEN 0 ELSE RoundUp(ArgEnd(v - 1), fun.vars[v].w) + fun.vars[v].w
ParamReg(v) == argreg(RoundUp(ArgEnd(v - 1), fun.vars[v].w), fun.vars[v].w)

\* function and local ask for a register for every variable, in order (askregvar): a
\* parameter of a function without calls stays where it is passed
RECURSIVE AskVars(_, _)
AskVars(s, v) ==
    LET var  == fun.vars[v]
        set  == IF var.param /\ ncalls(fun) = 0 THEN ParamReg(v) ELSE rmap(var.w)
        cand == Candidates(s, set, INTVAR)
        r    == Highest(cand)
        s1   == [askfixedreg(s, r) EXCEPT !.vbl = @ \cup {r}, !.var = Append(@, Sym("var", r.n, r.w))]
    IN  IF v > Len(fun.vars) THEN s
        ELSE AskVars(IF cand = {} THEN [s EXCEPT !.var = Append(@, NoReg)] ELSE s1, v + 1)

Allocates(s) == g' = s /\ phase' = (IF Gone(s) THEN "aborted" ELSE phase)

Variables_ == /\ phase = "vars"
              /\ g' = AskVars(g, 1) /\ phase' = "gen"
              /\ UNCHANGED <<fun, left, order, at, lists, code>>

Orders(placed) == /\ g' = Chain(placed.g, KidsInOrder(placed.g, placed.list))
                  /\ order' = placed.list

Gen == /\ phase = "gen" /\ left # <<>>
       /\ Orders(PlaceAll([g |-> g, list |-> <<>>], Head(left)))
       /\ phase' = "ralloc" /\ at' = 1 /\ left' = Tail(left)
       /\ UNCHANGED <<fun, lists, code>>

\* newnode may find no memory for a reload
InMemory(s) == IF Len(s.node) > MaxNodes THEN Fail(s, "newnode") ELSE s
Continues(sl, p) == /\ Allocates(InMemory(IF Gone(sl.g) THEN sl.g ELSE Discard(sl.g, p)))
                    /\ order' = sl.l /\ at' = PosOf(sl.l, p) + 1

\* one instruction
Ralloc == /\ phase = "ralloc" /\ at <= Len(order)
          /\ Continues(ralloc([g |-> g, l |-> order], order[at]), order[at])
          /\ UNCHANGED <<fun, left, lists, code>>

Allocated == /\ phase = "ralloc" /\ at > Len(order)
             /\ lists' = Append(lists, order) /\ phase' = "gen"
             /\ UNCHANGED <<fun, g, left, order, at, code>>

StartEmit == /\ phase = "gen" /\ left = <<>>
             /\ phase' = "emit" /\ order' = Head(lists) /\ lists' = Tail(lists) /\ at' = 1
             /\ UNCHANGED <<fun, g, left, code>>

Emit == /\ phase = "emit" /\ at <= Len(order)
        /\ LET p == order[at]
               r == IF g.node[p].equatable THEN requate(g, p, SubSeq(order, at + 1, Len(order)))
                    ELSE [g |-> g, ok |-> FALSE]
               idle == r.ok \/ moveself(r.g, p)
           IN  Allocates(r.g) /\ code' = IF idle THEN code ELSE Append(code, Printed(r.g, p))
        /\ at' = at + 1
        /\ UNCHANGED <<fun, left, order, lists>>

NextList == /\ phase = "emit" /\ at > Len(order)
            /\ IF lists = <<>> THEN phase' = "done" /\ UNCHANGED <<order, at, lists>>
               ELSE phase' = phase /\ order' = Head(lists) /\ lists' = Tail(lists) /\ at' = 1
            /\ UNCHANGED <<fun, g, left, code>>

Next == Variables_ \/ Gen \/ Ralloc \/ Allocated \/ StartEmit \/ Emit \/ NextList
Spec == Init /\ [][Next]_vars

----------------------------------------------------------------------------
(* What trees and instructions mean.  A value is a term [f, n, a]; a state  *)
(* [env, regs, mem, args, trace, cmps] has the variables and temporaries of *)
(* the trees, or the registers, memory, the arguments so far, what can be   *)
(* observed, and the number of comparisons made; taken is the set of those  *)
(* that branch.                                                             *)

T(f, n, a) == [f |-> f, n |-> n, a |-> a]
Hi(v) == T("hi", 0, <<v>>)
Lo(v) == T("lo", 0, <<v>>)
Junk  == T("junk", 0, <<>>)
LocalCell(sym) == T(sym.kind, sym.n, <<>>)
Mem(m, cell) == IF cell \in DOMAIN m.mem THEN m.mem[cell] ELSE T("init", 0, <<cell>>)

Observe(m, f, a) == [m EXCEPT !.trace = Append(@, T(f, 0, a))]
StoreTo(m, cell, v) ==
    LET m1 == [m EXCEPT !.mem = (cell :> v) @@ @]
    IN  IF cell.f \in {"spill", "auto"} THEN m1 ELSE Observe(m1, "store", <<cell, v>>)
Called(m, to) == [Observe(m, "call", to \o m.args) EXCEPT !.args = <<>>]
CallValue(m)  == T("call", Len(m.trace), <<>>)
Compared(m, f, a) == [Observe(m, f, a) EXCEPT !.cmps = @ + 1]

Computed(op, w, sym, a) ==
    CASE op = "CNST"            -> T("cnst", sym.n, <<>>)
      [] op = "ADDRG"           -> T("addr", sym.n, <<>>)
      [] op = "CVT" /\ w = 1    -> Lo(a[1])
      [] op = "CVT" /\ w = 2    -> T("ext", 0, a)
      [] op = "LOAD"            -> a[1]
      [] OTHER                  -> T(op, sym.n, a)

SkipTo(list, n) == LET i == CHOOSE j \in DOMAIN list : list[j].op = "LABEL" /\ list[j].sym.n = n
                   IN  SubSeq(list, i, Len(list))
Branches(list) == Cardinality({i \in DOMAIN list : list[i].op \in {"CMP", "FCMP"}})

\* trees
RECURSIVE Value(_, _)
Value(m, t) ==
    LET a == [i \in DOMAIN t.kids |-> Value(m, t.kids[i])]
    IN  CASE t.op = "READ"  -> m.env[t.sym]
          [] t.op = "INDIR" -> Mem(m, IF a = <<>> THEN LocalCell(t.sym) ELSE a[1])
          [] t.op = "CALL"  -> CallValue(m)
          [] OTHER          -> Computed(t.op, t.w, t.sym, a)

RECURSIVE MeaningOf(_, _, _)
MeaningOf(list, m, taken) ==
    IF m.cmps < 0 \/ list = <<>> THEN m    \* the first test has TLC evaluate m
    ELSE LET t    == Head(list)
             a    == [i \in DOMAIN t.kids |-> Value(m, t.kids[i])]
             v    == a[Len(a)]
             rest == Tail(list)
             Call(t_) == Called(m, [i \in DOMAIN t_.kids |-> Value(m, t_.kids[i])])
             On(m1)   == MeaningOf(rest, m1, taken)
         IN  CASE t.op = "WRITE" -> On([(IF t.kids[1].op = "CALL" THEN Call(t.kids[1]) ELSE m)
                                           EXCEPT !.env = (t.sym :> v) @@ @])
               [] t.op = "ASGN"  -> On(StoreTo(m, IF Len(a) = 1 THEN LocalCell(t.sym) ELSE a[1], v))
               [] t.op = "ARG"   -> On([m EXCEPT !.args = Append(@, v)])
               [] t.op = "CALL"  -> On(Call(t))
               [] t.op = "RET"   -> On(Observe(m, "ret", a))
               [] t.op \in {"CMP", "FCMP"} ->
                    MeaningOf(IF m.cmps + 1 \in taken THEN SkipTo(rest, t.sym.n) ELSE rest,
                              Compared(m, t.op, a), taken)
               [] t.op = "JUMP"  -> MeaningOf(SkipTo(rest, t.sym.n), m, taken)
               [] OTHER          -> On(m)

\* instructions
Got(m, r) == IF r.w = 1 THEN m.regs[r.n]
             ELSE LET h == m.regs[r.n]
                      l == m.regs[r.n + 1]
                  IN  IF h.f = "hi" /\ l.f = "lo" /\ h.a = l.a THEN h.a[1] ELSE T("mix", 0, <<h, l>>)
Put(m, r, v) == IF r.w = 1 THEN [m EXCEPT !.regs[r.n] = v]
                ELSE [m EXCEPT !.regs[r.n] = Hi(v), !.regs[r.n + 1] = Lo(v)]
Lose(m, lost) == [m EXCEPT !.regs = [n \in 0 .. 31 |-> IF n \in lost THEN Junk ELSE m.regs[n]]]

\* a pair is loaded word by word through the register of the address
LoadPair(m, i) ==
    LET m1 == [m EXCEPT !.regs[i.dst.n] = Hi(Mem(m, Got(m, i.src[1])))]
    IN  [m1 EXCEPT !.regs[i.dst.n + 1] = Lo(Mem(m1, Got(m1, i.src[1])))]

\* what is lost in an instruction: external, except for the scratch register of the 8-byte compares
Lost(i) == CASE i.op \in {"CALL", "FOP", "FCMP"} -> CallerSaved
             [] i.op = "OP" /\ i.w = 2           -> CallerSaved \ HelperPreserves
             [] i.op = "CMP" /\ i.w = 2          -> {5}
             [] OTHER                            -> {}

RECURSIVE Execute(_, _, _)
Execute(list, m, taken) ==
    IF m.cmps < 0 \/ list = <<>> THEN m    \* the first test has TLC evaluate m
    ELSE LET i    == Head(list)
             a    == [j \in DOMAIN i.src |-> Got(m, i.src[j])]
             rest == Tail(list)
             lost == Lose(m, Lost(i))
             On(m1) == Execute(rest, m1, taken)
         IN  CASE i.op \in {"READ", "WRITE", "LABEL"} -> On(m)
               [] i.op = "INDIR" /\ a = <<>> -> On(Put(m, i.dst, Mem(m, LocalCell(i.sym))))
               [] i.op = "INDIR" /\ a # <<>> ->
                    On(IF i.w = 2 THEN LoadPair(m, i) ELSE Put(m, i.dst, Mem(m, a[1])))
               [] i.op = "ASGN"  -> On(StoreTo(m, IF Len(a) = 1 THEN LocalCell(i.sym) ELSE a[1], a[Len(a)]))
               [] i.op = "ARG"   -> On([m EXCEPT !.args = Append(@,
                        IF argreg(i.sym.n, i.w) = NoReg THEN [r |-> NoReg, v |-> a[1]]
                                                       ELSE [r |-> i.src[1], v |-> Junk])])
               [] i.op = "CALL"  ->
                    LET args == [j \in DOMAIN m.args |-> IF m.args[j].r = NoReg THEN m.args[j].v
                                                        ELSE Got(m, m.args[j].r)]
                        done == Called([lost EXCEPT !.args = args], a)
                    IN  On(IF i.w = 0 THEN done ELSE Put(done, i.dst, CallValue(m)))
               [] i.op = "RET"   -> On(Observe(m, "ret", <<Got(m, Reg(10, i.w))>>))
               [] i.op \in {"CMP", "FCMP"} ->
                    Execute(IF m.cmps + 1 \in taken THEN SkipTo(rest, i.sym.n) ELSE rest,
                            Compared(lost, i.op, a), taken)
               [] i.op = "JUMP"  -> Execute(SkipTo(rest, i.sym.n), m, taken)
               [] OTHER          -> On(Put(lost, i.dst, Computed(i.op, i.w, i.sym, a)))

VarNames == DOMAIN fun.vars
Name(v)  == Sym("name", v, fun.vars[v].w)
NewMeaning == [env |-> [s \in {Name(v) : v \in VarNames} |-> T("var", s.n, <<>>)],
               mem |-> <<>>, args |-> <<>>, trace |-> <<>>, cmps |-> 0]

\* the caller's values, and the code of function() that copies the parameters of a
\* function with calls to their registers
InReg(v) == g.var[v] # NoReg
PutVar(m, v) == IF fun.vars[v].param THEN Put(m, ParamReg(v), T("var", v, <<>>))
                ELSE IF InReg(v) THEN Put(m, g.var[v], T("var", v, <<>>))
                ELSE [m EXCEPT !.mem = (T("auto", v, <<>>) :> T("var", v, <<>>)) @@ @]
Enter(m, v)  == IF fun.vars[v].param /\ InReg(v) /\ Mask(g.var[v]) # Mask(ParamReg(v))
                THEN [m EXCEPT !.regs[g.var[v].n] = m.regs[ParamReg(v).n]] ELSE m
RECURSIVE Entered(_, _)
Entered(m, v) == IF v = 0 THEN m ELSE Enter(PutVar(Entered(m, v - 1), v), v)
NewMachine == Entered([regs |-> [n \in 0 .. 31 |-> IF n = 0 THEN T("cnst", 0, <<>>) ELSE T("reg", n, <<>>)],
                       mem |-> <<>>, args |-> <<>>, trace |-> <<>>, cmps |-> 0], Len(fun.vars))
Final(m, v) == IF InReg(v) THEN Got(m, g.var[v]) ELSE Mem(m, T("auto", v, <<>>))

----------------------------------------------------------------------------
(* Properties.                                                              *)

\* The printed instructions of a function store, pass, compare and return the values its
\* trees do, on every path through its branches, and leave the same values in its register
\* variables: whatever was spilled, reloaded, copied, renamed by requate or destroyed by a
\* call in between.
SameEffects ==
    phase = "done" =>
        \A taken \in SUBSET (1 .. Branches(Concat(fun.forests))) :
            LET want == MeaningOf(Concat(fun.forests), NewMeaning, taken)
                have == Execute(code, NewMachine, taken)
            IN  /\ have.trace = want.trace
                /\ \A v \in VarNames : Final(have, v) = want.env[Name(v)]

\* A register is marked as taken exactly while a later instruction reads what it holds, or
\* while it belongs to a variable; and no register holds two such values at once.
Pending == {order[j] : j \in at .. Len(order)}
LiveNodes == {k \in UNION {{Kids(g, p)[i] : i \in DOMAIN Kids(g, p)} : p \in Pending} :
                 g.node[k].registered /\ RegOf(g, k).kind = "reg" /\ RegOf(g, k) # Ireg(0)}
VarMask == UNION {Mask(g.var[v]) : v \in DOMAIN g.var}
TakenWhileRead ==
    /\ phase = "ralloc" =>
          /\ 0 .. 31 \ g.freemask = VarMask \cup UNION {Mask(RegOf(g, k)) : k \in LiveNodes}
          /\ \A j, k \in LiveNodes :
                Overlaps(RegOf(g, j), RegOf(g, k)) => Definition(g, j) = Definition(g, k)
    /\ phase \in {"gen", "emit", "done"} => g.freemask = 0 .. 31 \ VarMask

\* What function() saves on entry covers the return address and the variables' registers
\* that its instructions, and what they call, destroy.
Saved == (g.usedmask \cup (IF ncalls(fun) # 0 THEN {1} ELSE {})) \cap (INTVAR \cup {1})
CalleeSaved ==
    phase = "done" =>
        (INTVAR \cup {1}) \cap UNION {Mask(code[i].dst) \cup Lost(code[i]) : i \in DOMAIN code} \subseteq Saved

\* Every function gets its code: no assertion of gen.c fails, there is always a register that
\* can be spilled, and the reloads that spills add, which may need spills themselves, end
\* before memory does.
Compiled == phase # "aborted"

\* An ANSI C compiler (doc/lcc.1), whose comment in gen.c says that spillee must be able to
\* spill something, compiles every function, and into code that does what it means and that
\* saves on entry what it and the helpers it calls destroy.
CompiledRight == Compiled /\ SameEffects /\ CalleeSaved
=============================================================================
