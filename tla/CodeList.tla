----------------------------- MODULE CodeList -----------------------------
(***************************************************************************)
(* The list of code entries lcc builds for a function, with the jump       *)
(* optimisations made while it is built (src/lcc/src/stmt.c: code, walk,   *)
(* definelab, jump, branch, equatelab).                                    *)
(*                                                                         *)
(* A list is a record of                                                   *)
(*   list    the entries from codehead to codelist,                        *)
(*   forest  the nodes that are listed but not yet in a Gen entry,         *)
(*   ref     the reference count of each label symbol,                     *)
(*   eq      the label each label is equated to, or NoLab,                 *)
(*   label   the next number genlabel gives,                               *)
(*   node    the next node,                                                *)
(* and of a history that no optimisation touches:                          *)
(*   raw     every node, label and jump in the order it was asked for.     *)
(*                                                                         *)
(* A node stands for an expression with its effects.  `on' says whether    *)
(* control leaves it by a jump: "no", "cond" (to lab or on) or "always".   *)
(* The body of an expression, and labels inside one, are left out.         *)
(***************************************************************************)
EXTENDS Integers, Sequences, FiniteSets, SequencesExt

CONSTANTS MaxLabel   \* bound: label numbers

ASSUME MaxLabelAssumption == MaxLabel \in Nat

NoLab == 0
Lab == 1 .. MaxLabel

-----------------------------------------------------------------------------
(* Entries.  `enum { Blockbeg, Blockend, Local, Address, Defpoint, Label,  *)
(* Start, Gen, Jump, Switch }': the loops compare kinds with Label.        *)

Point(kind) == [kind |-> kind]          \* Blockbeg, Blockend or Defpoint
Start == [kind |-> "Start"]
Label(lab) == [kind |-> "Label", lab |-> lab]
Jump(lab) == [kind |-> "Jump", lab |-> lab]
Gen(nodes) == [kind |-> "Gen", nodes |-> nodes]
SwitchHead(sw) == [kind |-> "Switch", sw |-> sw]
SwitchTable(labs) == [kind |-> "Switch", labs |-> labs]

BelowLabel(e) == e.kind \in {"Blockbeg", "Blockend", "Defpoint"}
UpToLabel(e) == BelowLabel(e) \/ e.kind = "Label"
EndsFlow(e) == e.kind \in {"Jump", "Switch"}

EmptyList ==
    [list |-> <<Start>>, forest |-> << >>, ref |-> [l \in Lab |-> 0],
     eq |-> [l \in Lab |-> NoLab], label |-> 1, node |-> 1, raw |-> << >>]

\* genlabel(n)
TakeLabels(cl, n) == [cl EXCEPT !.label = @ + n]

\* code(kind)
Code(cl, entry) == [cl EXCEPT !.list = Append(@, entry)]

\* definept(p)
DefinePoint(cl) == Code(cl, Point("Defpoint"))

\* reachable(Gen): the last entry that is at least a Label is not a jump.
Reachable(cl) ==
    LET at == CHOOSE p \in DOMAIN cl.list :
                  /\ ~ BelowLabel(cl.list[p])
                  /\ \A q \in p+1 .. Len(cl.list) : BelowLabel(cl.list[q])
    IN  ~ EndsFlow(cl.list[at])

-----------------------------------------------------------------------------
(* Nodes *)

\* listnodes(tree, tlab, flab) of an expression with at most one jump.
ListNodeAs(cl, on, lab, id) ==
    LET n == [id |-> id, on |-> on, lab |-> lab]
    IN  [cl EXCEPT !.forest = Append(@, n),
                   !.raw = Append(@, Gen(<<n>>)),
                   !.ref = IF on = "no" THEN @ ELSE [@ EXCEPT ![lab] = @ + 1]]

\* The next node of the program.
ListNode(cl, on, lab, what) ==
    [ListNodeAs(cl, on, lab, <<what, cl.node>>) EXCEPT !.node = @ + 1]

\* walk(NULL, 0, 0): the listed nodes become a Gen entry.
Flush(cl) ==
    IF cl.forest = << >> THEN cl
    ELSE [Code(cl, Gen(cl.forest)) EXCEPT !.forest = << >>]

-----------------------------------------------------------------------------
(* Labels and jumps *)

\* The jumps to lab with only labels, points and such jumps behind them.
JumpsBefore(list, lab) ==
    {p \in DOMAIN list :
        /\ list[p] = Jump(lab)
        /\ \A q \in p .. Len(list) : UpToLabel(list[q]) \/ list[q] = Jump(lab)}

\* Mutant: a jump that is taken out still counts.
WithoutCounted(ref, gone, lab) == ref

\* The reference count of lab when the jumps at positions gone are taken out.
Without(ref, gone, lab) == [ref EXCEPT ![lab] = @ - Cardinality(gone)]

KeepingOrder(list, gone) ==
    FoldLeftDomain(LAMBDA kept, p : IF p \in gone THEN kept
                                    ELSE Append(kept, list[p]), << >>, list)

\* definelab(lab): jumps that would go to the next entry are taken out.
DefineLab(cl, lab) ==
    LET f    == Flush(cl)
        gone == JumpsBefore(f.list, lab)
    IN  [f EXCEPT !.list = Append(KeepingOrder(f.list, gone), Label(lab)),
                  !.ref = Without(f.ref, gone, lab),
                  !.raw = Append(@, Label(lab))]

\* The labels reached from lab by `equatedto'.
Chain(eq, lab) ==
    LET from[n \in 0 .. MaxLabel, l \in Lab \cup {NoLab}] ==
            IF l = NoLab THEN {}
            ELSE IF n = 0 THEN {l} ELSE {l} \cup from[n-1, eq[l]]
    IN  from[MaxLabel, lab]

\* equated(p) of dag.c
Equated(eq, lab) == CHOOSE l \in Chain(eq, lab) : eq[l] = NoLab

\* Mutant: only the label itself is compared, not those it is equated to.
EqualAlone(eq, lprime, dst) == lprime = dst

\* equal(lprime, dst)
Equal(eq, lprime, dst) == lprime \in Chain(eq, dst)

\* The labels at the end of the list that a jump to lab makes synonyms of lab.
LabelsBefore(list, eq, lab) ==
    {p \in DOMAIN list :
        \A q \in p .. Len(list) :
            \/ BelowLabel(list[q]) /\ q # p
            \/ list[q].kind = "Label" /\ ~ Equal(eq, list[q].lab, lab)}

\* The entry before a new jump already ends the flow.
DropsJump(list) ==
    \E p \in DOMAIN list :
        /\ EndsFlow(list[p])
        /\ \A q \in p+1 .. Len(list) : BelowLabel(list[q])

\* branch(lab): labels right before the jump are equated to lab and taken out;
\* the jump itself is dropped when nothing can reach it.
Branch(cl, lab) ==
    LET f      == Flush(cl)
        gone   == LabelsBefore(f.list, f.eq, lab)
        olds   == {f.list[p].lab : p \in gone}
        rest   == KeepingOrder(f.list, gone)
        counts == [f.ref EXCEPT ![lab] = @ + Cardinality(olds)]
        eqs    == [l \in Lab |-> IF l \in olds THEN lab ELSE f.eq[l]]
    IN  [f EXCEPT !.list = IF DropsJump(rest) THEN rest
                           ELSE Append(rest, Jump(lab)),
                  !.ref = IF DropsJump(rest) THEN counts
                          ELSE [counts EXCEPT ![lab] = @ + 1],
                  !.eq = eqs,
                  !.raw = Append(@, Jump(lab))]

\* `if (findlabel(lab)->ref) definelab(lab)': without a reference not even the
\* listed nodes are put in an entry.
DefineLabIfUsed(cl, lab) ==
    IF cl.ref[lab] > 0 THEN DefineLab(cl, lab)
    ELSE [cl EXCEPT !.raw = Append(@, Label(lab))]
=============================================================================
