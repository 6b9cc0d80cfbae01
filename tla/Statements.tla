---------------------------- MODULE Statements ----------------------------
(***************************************************************************)
(* lcc parses the statements of one function and appends their code to the *)
(* list of CodeList (src/lcc/src/stmt.c; compound and the end of funcdefn  *)
(* of decl.c).                                                             *)
(*                                                                         *)
(* The recursive descent is a stack of frames, one for each statement that *)
(* is not finished.  `at' says what the parser stands before: "list" (a    *)
(* statement or the } of the innermost block), "one" (a statement), "end"  *)
(* (the statement in the innermost frame is complete) or "done".           *)
(*                                                                         *)
(* Labels inside expressions, locals and the events of the profiler are    *)
(* left out.  The search of a switch is that of one bucket of cases; the   *)
(* binary search over buckets is module Switch.                            *)
(***************************************************************************)
EXTENDS CodeList

CONSTANTS
    UserLabels,    \* names of user labels
    SmallBucket,   \* the most cases that are compared one by one (3)
    BracedBodies,  \* TRUE: the body of a switch is a block
    Families       \* bound: the families of functions considered

(***************************************************************************)
(* A family has kinds of statement and of condition ("var", "true" or      *)
(* "false"), the type of the function (int or void), and how many          *)
(* statements and open frames there may be.                                *)
(***************************************************************************)
ASSUME FamiliesAssumption ==
    /\ SmallBucket \in Nat \ {0}
    /\ BracedBodies \in BOOLEAN
    /\ \A f \in Families :
          /\ f.conditions \subseteq {"var", "true", "false"}
          /\ f.int \in BOOLEAN
          /\ f.statements \in Nat
          /\ f.depth \in Nat

VARIABLES
    family,   \* the family the function belongs to
    cl,       \* the code list and its history
    stack,    \* the open frames, innermost first
    at,       \* what the parser stands before
    sws,      \* for each switch, by its label: cases and default
    named,    \* the label of each user label mentioned so far, or NoLab
    defined,  \* the user labels defined so far
    used      \* statements so far

vars == <<family, cl, stack, at, sws, named, defined, used>>

FunctionLabel == 1   \* cfunc->u.f.label

-----------------------------------------------------------------------------
Top == Head(stack)

\* What statement(loop, swp, lev) gets: the label of the innermost loop and
\* of the innermost switch, 0 for none.
Loop == Top.loop
Sw == Top.sw

Frame(kind, lab, loop, sw) ==
    [kind |-> kind, lab |-> lab, loop |-> loop, sw |-> sw]

Init ==
    /\ family \in Families
    /\ cl = DefinePoint(Code(TakeLabels(EmptyList, 1), Point("Blockbeg")))
    /\ stack = <<Frame("block", NoLab, NoLab, NoLab)>>
    /\ at = "list"
    /\ sws = << >>
    /\ named = [u \in UserLabels |-> NoLab]
    /\ defined = {}
    /\ used = 0

\* A statement of some kind may come next.
Statement(kind) ==
    /\ at \in {"list", "one"}
    /\ kind \in family.kinds
    /\ used < family.statements
    /\ used' = used + 1
    /\ cl.label + 4 <= MaxLabel
    /\ Top.kind = "switch" => kind = "block" \/ ~ BracedBodies

Opens(frame) ==
    /\ Len(stack) < family.depth
    /\ stack' = <<frame>> \o stack
    /\ at' = "one"

\* Where the parser stands when the statement before the frames s is complete.
After(s) == IF Head(s).kind = "block" THEN "list" ELSE "end"

Simple == stack' = stack /\ at' = After(stack)

\* A condition that jumps to lab when it is true (iftrue) or false; a constant
\* one either always jumps or leaves no node.
Condition(c, cond, iftrue, lab) ==
    CASE cond = "var" -> Flush(ListNode(c, "cond", lab, "test"))
      [] (cond = "true") = iftrue /\ cond # "var" ->
             Flush(ListNode(c, "always", lab, "test"))
      [] OTHER -> Flush(c)

-----------------------------------------------------------------------------
(* Simple statements *)

\* An expression: its nodes wait for the next walk unless there are no nodes
\* left to share, or too many.
Expression ==
    /\ Statement("expr")
    /\ LET listed == ListNode(DefinePoint(cl), "no", NoLab, "expr")
       IN  cl' = listed \/ cl' = Flush(listed)
    /\ Simple
    /\ UNCHANGED <<sws, named, defined>>

\* ; (always possible, so that every function can be completed)
NullStatement ==
    /\ at = "one"
    /\ Top.kind = "switch" => ~ BracedBodies
    /\ cl' = DefinePoint(cl)
    /\ Simple
    /\ UNCHANGED <<sws, named, defined, used>>

\* Labels grow inwards: the greater of the two belongs to the inner statement.
BreakLabel(loop, sw) == IF sw # NoLab /\ sw > loop THEN sw + 1 ELSE loop + 2

BreakStatement ==
    /\ Statement("break")
    /\ Loop # NoLab \/ Sw # NoLab
    /\ cl' = Branch(DefinePoint(Flush(cl)), BreakLabel(Loop, Sw))
    /\ Simple
    /\ UNCHANGED <<sws, named, defined>>

ContinueStatement ==
    /\ Statement("continue")
    /\ Loop # NoLab
    /\ cl' = Branch(DefinePoint(Flush(cl)), Loop + 1)
    /\ Simple
    /\ UNCHANGED <<sws, named, defined>>

\* retcode: a RET node when there is a value.
ReturnCode(c) == IF family.int THEN Flush(ListNode(c, "no", NoLab, "ret")) ELSE c

ReturnStatement ==
    /\ Statement("return")
    /\ cl' = Branch(ReturnCode(DefinePoint(cl)), FunctionLabel)
    /\ Simple
    /\ UNCHANGED <<sws, named, defined>>

\* The symbol of a user label, installed when it is first mentioned.
Named(u) == IF named[u] = NoLab THEN cl.label ELSE named[u]
Installed(u, c) == IF named[u] = NoLab THEN TakeLabels(c, 1) ELSE c

GotoStatement(u) ==
    /\ Statement("goto")
    /\ cl' = Branch(Installed(u, DefinePoint(Flush(cl))), Named(u))
    /\ named' = [named EXCEPT ![u] = Named(u)]
    /\ Simple
    /\ UNCHANGED <<sws, defined>>

-----------------------------------------------------------------------------
(* Labels: a statement must follow *)

UserLabel(u) ==
    /\ Statement("label")
    /\ u \notin defined
    /\ cl' = DefineLab(Installed(u, cl), Named(u))
    /\ named' = [named EXCEPT ![u] = Named(u)]
    /\ defined' = defined \cup {u}
    /\ at' = "one"
    /\ UNCHANGED <<stack, sws>>

CaseLabel ==
    /\ Statement("case")
    /\ Sw # NoLab
    /\ cl' = DefineLab(TakeLabels(cl, 1), cl.label)
    /\ sws' = [sws EXCEPT ![Sw].cases = Append(@, cl.label)]
    /\ at' = "one"
    /\ UNCHANGED <<stack, named, defined>>

DefaultLabel ==
    /\ Statement("default")
    /\ Sw # NoLab
    /\ ~ sws[Sw].def
    /\ cl' = DefineLab(cl, Sw)
    /\ sws' = [sws EXCEPT ![Sw].def = TRUE]
    /\ at' = "one"
    /\ UNCHANGED <<stack, named, defined>>

-----------------------------------------------------------------------------
(* if *)

IfStatement ==
    /\ Statement("if")
    /\ \E cond \in family.conditions :
          cl' = Condition(DefinePoint(TakeLabels(cl, 2)), cond, FALSE, cl.label)
    /\ Opens(Frame("if", cl.label, Loop, Sw))
    /\ UNCHANGED <<sws, named, defined>>

Ends(kind) == at = "end" /\ Top.kind = kind

Closes == stack' = Tail(stack) /\ at' = After(Tail(stack))

Else ==
    /\ Ends("if")
    /\ cl' = DefineLab(Branch(cl, Top.lab + 1), Top.lab)
    /\ stack' = <<Frame("else", Top.lab, Loop, Sw)>> \o Tail(stack)
    /\ at' = "one"
    /\ UNCHANGED <<sws, named, defined, used>>

EndIf ==
    /\ Ends("if")
    /\ cl' = DefineLab(cl, Top.lab)
    /\ Closes
    /\ UNCHANGED <<sws, named, defined, used>>

EndElse ==
    /\ Ends("else")
    /\ cl' = DefineLabIfUsed(cl, Top.lab + 1)
    /\ Closes
    /\ UNCHANGED <<sws, named, defined, used>>

-----------------------------------------------------------------------------
(* Loops: lab before the body, lab + 1 for continue, lab + 2 for break *)

LoopFrame(kind, cond) ==
    [kind |-> kind, lab |-> cl.label, loop |-> cl.label, sw |-> Sw,
     cond |-> cond]

WhileStatement ==
    /\ Statement("while")
    /\ \E cond \in family.conditions : Opens(LoopFrame("while", cond))
    /\ cl' = DefineLab(Branch(Flush(TakeLabels(cl, 3)), cl.label + 1), cl.label)
    /\ UNCHANGED <<sws, named, defined>>

DoStatement ==
    /\ Statement("do")
    /\ \E cond \in family.conditions : Opens(LoopFrame("do", cond))
    /\ cl' = DefineLab(TakeLabels(cl, 3), cl.label)
    /\ UNCHANGED <<sws, named, defined>>

\* The end of a while or do loop: the condition after the label of continue.
EndLoop ==
    /\ Ends("while") \/ Ends("do")
    /\ LET test == Condition(DefinePoint(DefineLab(cl, Top.lab + 1)),
                             Top.cond, TRUE, Top.lab)
       IN  cl' = DefineLabIfUsed(test, Top.lab + 2)
    /\ Closes
    /\ UNCHANGED <<sws, named, defined, used>>

\* for (e1; e2; e3): cond "none" stands for a missing e2 and "once" for one that
\* foldcond knows to be true the first time; e1 and e3 are both there or not.
ForStatement ==
    /\ Statement("for")
    /\ \E cond \in family.conditions \cup {"none", "once"}, e1 \in BOOLEAN :
          LET lab   == cl.label
              point == DefinePoint(TakeLabels(cl, 4))
              first == Flush(IF e1 THEN ListNode(point, "no", NoLab, "expr")
                             ELSE point)
          IN  /\ cond = "once" => e1
              /\ cl' = DefineLab(IF cond \in {"none", "once"} THEN first
                                 ELSE Branch(first, lab + 3), lab)
              /\ Opens([kind |-> "for", lab |-> lab, loop |-> lab, sw |-> Sw,
                        cond |-> cond, e3 |-> e1])
    /\ UNCHANGED <<sws, named, defined>>

EndFor ==
    /\ Ends("for")
    /\ LET lab  == Top.lab
           cont == DefinePoint(DefineLab(cl, lab + 1))
           incr == IF Top.e3 THEN Flush(ListNode(cont, "no", NoLab, "expr"))
                   ELSE cont
           test == IF Top.cond = "none" THEN Branch(DefinePoint(incr), lab)
                   ELSE IF Top.cond = "once"
                   THEN Condition(DefinePoint(incr), "var", TRUE, lab)
                   ELSE Condition(DefinePoint(DefineLab(incr, lab + 3)),
                                  Top.cond, TRUE, lab)
       IN  cl' = DefineLabIfUsed(test, lab + 2)
    /\ Closes
    /\ UNCHANGED <<sws, named, defined, used>>

-----------------------------------------------------------------------------
(* Blocks *)

Block ==
    /\ Statement("block")
    /\ Len(stack) < family.depth
    /\ cl' = DefinePoint(Code(Flush(cl), Point("Blockbeg")))
    /\ stack' = <<Frame("block", NoLab, Loop, Sw)>> \o stack
    /\ at' = "list"
    /\ UNCHANGED <<sws, named, defined>>

\* The end of a block: reachable(Gen) decides about the last point.
BlockEnd(c) ==
    LET ended == Code(c, Point("Blockend"))
    IN  IF Reachable(ended) THEN DefinePoint(ended) ELSE ended

EndBlock ==
    /\ at = "list"
    /\ Len(stack) > 1
    /\ cl' = BlockEnd(Flush(cl))
    /\ Closes
    /\ UNCHANGED <<sws, named, defined, used>>

-----------------------------------------------------------------------------
(* switch *)

SwitchStatement ==
    /\ Statement("switch")
    /\ BracedBodies => used + 2 <= family.statements /\ Len(stack) + 2 <= family.depth
    /\ \E variable \in BOOLEAN :
          LET lab   == cl.label
              value == IF variable THEN Flush(DefinePoint(TakeLabels(cl, 2)))
                       ELSE Flush(ListNode(DefinePoint(TakeLabels(cl, 2)),
                                           "no", NoLab, "expr"))
          IN  /\ cl' = [Code(value, SwitchHead(lab)) EXCEPT
                           !.raw = Append(@, SwitchHead(lab))]
              /\ sws' = sws @@ lab :> [cases |-> << >>, def |-> FALSE]
              /\ Opens(Frame("switch", lab, Loop, lab))
    /\ UNCHANGED <<named, defined>>

\* swgen and swcode for the cases of one bucket.
Search(c, sw) ==
    LET cases == sws[sw].cases
        Compare(d, lab) == ListNodeAs(d, "cond", lab, <<"search", sw>>)
    IN  CASE cases = << >> -> c
          [] Len(cases) \in 1 .. SmallBucket ->
                 Branch(FoldLeft(Compare, c, cases), sw)
          [] OTHER ->
                 Code(Flush(ListNodeAs(Compare(Compare(c, sw), sw),
                                       "no", NoLab, <<"search", sw>>)),
                      SwitchTable(ToSet(cases) \cup {sw}))

HeadOf(list, sw) == CHOOSE p \in DOMAIN list : list[p] = SwitchHead(sw)

\* Mutant: no jump behind the search, which always ends with one if it is there.
SplicedWithoutBranch(c, sw) ==
    LET head   == HeadOf(c.list, sw)
        before == [c EXCEPT !.list = SubSeq(@, 1, head - 1)]
        search == Flush(Search(before, sw))
    IN  [search EXCEPT !.list = @ \o SubSeq(c.list, head + 1, Len(c.list)),
                       !.raw = c.raw]

\* The search takes the place of the head: what is listed by then goes in front
\* of it, and what comes after the head is appended unchanged.
Spliced(c, sw) ==
    LET head   == HeadOf(c.list, sw)
        before == [c EXCEPT !.list = SubSeq(@, 1, head - 1)]
        search == Branch(Search(before, sw), sw)
    IN  [search EXCEPT !.list = @ \o SubSeq(c.list, head + 1, Len(c.list)),
                       !.raw = c.raw]

EndSwitch ==
    /\ Ends("switch")
    /\ LET lab  == Top.lab
           body == IF sws[lab].def THEN cl ELSE DefineLab(cl, lab)
       IN  cl' = Spliced(DefineLabIfUsed(body, lab + 1), lab)
    /\ Closes
    /\ UNCHANGED <<sws, named, defined, used>>

-----------------------------------------------------------------------------
\* Mutant: the value is only returned after an expression.
EndsWithoutJumpGen(list) ==
    \E p \in DOMAIN list :
        /\ list[p].kind = "Gen"
        /\ \A q \in p+1 .. Len(list) : BelowLabel(list[q])

\* compound: the last entry that is at least a Label is not a Jump.
EndsWithoutJump(list) ==
    ~ \E p \in DOMAIN list :
        /\ list[p].kind = "Jump"
        /\ \A q \in p+1 .. Len(list) : BelowLabel(list[q])

\* The } of the function: a missing return is added, and the label of the
\* function defined.  checklab reports a goto to a label that is not defined.
EndFunction ==
    /\ at = "list"
    /\ Len(stack) = 1
    /\ LET body == Flush(cl)
           ret  == IF EndsWithoutJump(body.list) THEN ReturnCode(body) ELSE body
       IN  cl' = DefineLab(BlockEnd(ret), FunctionLabel)
    /\ stack' = << >>
    /\ at' = "done"
    /\ UNCHANGED <<sws, named, defined, used>>

Terminating == at = "done" /\ UNCHANGED vars

Next ==
    /\ UNCHANGED family
    /\ \/ Expression \/ NullStatement
       \/ BreakStatement \/ ContinueStatement \/ ReturnStatement
       \/ \E u \in UserLabels : GotoStatement(u) \/ UserLabel(u)
       \/ CaseLabel \/ DefaultLabel
       \/ IfStatement \/ Else \/ EndIf \/ EndElse
       \/ WhileStatement \/ DoStatement \/ EndLoop
       \/ ForStatement \/ EndFor
       \/ Block \/ EndBlock
       \/ SwitchStatement \/ EndSwitch
       \/ EndFunction
       \/ Terminating

Spec == Init /\ [][Next]_vars
-----------------------------------------------------------------------------
(* The flow of a list: which node comes after which *)

Exit == <<"exit", 0>>
Endless == <<"endless", 0>>
Undefined == <<"undefined", 0>>

\* Where label lab has its entry, or its synonym by Res; 0 for nowhere.
EntryOf(list, Res(_), lab) ==
    LET entry == Label(Res(lab))
        here  == {d \in DOMAIN list : list[d] = entry}
    IN  IF here = {} THEN 0 ELSE CHOOSE d \in here : TRUE

\* The nodes that may come first from position p of list on.
FirstFrom(list, Res(_), p) ==
    LET N == Len(list)
        first[n \in 0 .. N + 1, q \in 0 .. N + 1] ==
            LET To(lab) == first[n - 1, EntryOf(list, Res, lab)]
                e == list[q]
            IN  CASE q = 0 -> {Undefined}
                  [] q > N -> {Exit}
                  [] q \in 1 .. N /\ n = 0 -> {Endless}
                  [] q \in 1 .. N /\ n > 0 ->
                     CASE e.kind = "Gen" -> {e.nodes[1].id}
                       [] e.kind = "Jump" -> To(e.lab)
                       [] e.kind = "Switch" ->
                          IF "labs" \in DOMAIN e
                          THEN UNION {To(lab) : lab \in e.labs}
                          ELSE IF sws[e.sw].cases = << >> THEN To(e.sw)
                          ELSE {<<"search", e.sw>>}
                       [] OTHER -> first[n - 1, q + 1]
    IN  first[N + 1, p]

Landing(list, Res(_), lab) == FirstFrom(list, Res, EntryOf(list, Res, lab))

\* The pairs of nodes of which the second may come right after the first.
Edges(list, Res(_)) ==
    LET Out(p, i) ==
            LET n    == list[p].nodes[i]
                next == IF i < Len(list[p].nodes) THEN {list[p].nodes[i+1].id}
                        ELSE FirstFrom(list, Res, p + 1)
            IN  {n.id} \X
                (CASE n.on = "no"     -> next
                   [] n.on = "cond"   -> next \cup Landing(list, Res, n.lab)
                   [] n.on = "always" -> Landing(list, Res, n.lab))
        gens  == {p \in DOMAIN list : list[p].kind = "Gen"}
        heads == {p \in DOMAIN list : list[p].kind = "Switch"
                                         /\ "sw" \in DOMAIN list[p]}
        pairs == UNION {UNION {Out(p, i) : i \in DOMAIN list[p].nodes} :
                        p \in gens}
                 \cup UNION {{<<"search", list[p].sw>>} \X
                             UNION {Landing(list, Res, lab) :
                                    lab \in ToSet(sws[list[p].sw].cases)
                                               \cup {list[p].sw}} : p \in heads}
    IN  {e \in pairs : e[1][1] = "search" => e[1] # e[2]}

\* What can be executed: from the nodes in `from' along the edges.
Executed(from, edges) ==
    LET step[n \in Nat] ==
            IF n = 0 THEN from
            ELSE LET before == step[n-1]
                 IN  before \cup {e[2] : e \in {d \in edges : d[1] \in before}}
    IN  step[cl.node + Cardinality(DOMAIN sws)]

Itself(lab) == lab
Final(lab) == Equated(cl.eq, lab)
Entry == FirstFrom(cl.raw, Itself, 1)

\* The part of edges that starts at something the program can execute.
OfExecuted(edges) ==
    LET run == Executed(Entry, Edges(cl.raw, Itself))
    IN  {e \in edges : e[1] \in run}

\* The function is complete, and goto only names labels that are defined.
Complete ==
    at = "done" /\ \A u \in UserLabels : named[u] # NoLab => u \in defined

-----------------------------------------------------------------------------
(* Properties *)

\* The optimisations of definelab, branch and the splice of a switch keep the
\* program: each expression that can be executed is followed by the same
\* expressions as if no jump had been dropped and no label equated, and the
\* function begins and ends with the same ones.
SameFlow ==
    Complete =>
        /\ FirstFrom(cl.list, Final, 1) = Entry
        /\ OfExecuted(Edges(cl.list, Final)) = OfExecuted(Edges(cl.raw, Itself))

\* A function with a value only comes to its end behind a RET node: where the
\* source has no return statement compound adds one.
EveryExitReturns ==
    Complete /\ family.int =>
        \A e \in OfExecuted(Edges(cl.list, Final)) :
            e[2] = Exit => e[1][1] = "ret"

\* The assertions of fixup and equated (dag.c): a label that still has its
\* entry is not equated to another one, and no chain of synonyms is a circle.
LabelsResolvable ==
    /\ \A p \in DOMAIN cl.list :
          cl.list[p].kind = "Label" => cl.eq[cl.list[p].lab] = NoLab
    /\ \A l \in 1 .. cl.label - 1 : cl.eq[l] # NoLab =>
          \E r \in Chain(cl.eq, l) : cl.eq[r] = NoLab

\* The reference count that decides whether a label is defined counts exactly
\* the jumps and conditions that still name it and the labels equated to it.
ReferencesExact ==
    LET gens  == SelectSeq(cl.list, LAMBDA e : e.kind = "Gen")
        nodes == FlattenSeq([p \in DOMAIN gens |-> gens[p].nodes]) \o cl.forest
    IN  \A l \in 1 .. cl.label - 1 :
            cl.ref[l] =
                Cardinality({p \in DOMAIN cl.list : cl.list[p] = Jump(l)})
                + Cardinality({i \in DOMAIN nodes :
                                  nodes[i].on # "no" /\ nodes[i].lab = l})
                + Cardinality({m \in 1 .. cl.label - 1 : cl.eq[m] = l})
=============================================================================
