---------------------------- MODULE MCArchiver ----------------------------
(***************************************************************************)
(* Two files, two contents (exporting two symbols or none), and the        *)
(* commands with every flag, each naming a file at most once.              *)
(***************************************************************************)
EXTENDS Archiver

CONSTANTS x, y, two, none, f, g

MCFile == {x, y}
MCObject == {two, none}
MCSymbol == {f, g}
MCExports == [o \in MCObject |-> IF o = two THEN <<g, f>> ELSE << >>]
MCSize == [o \in MCObject |-> IF o = two THEN 8 ELSE 0]

Line(op, names, where, at, u, s) ==
    [op |-> op, args |-> names, where |-> where, at |-> at, u |-> u, s |-> s]
MCCommand ==
    {Line("d", names, "none", x, FALSE, FALSE) : names \in {<<x>>, <<x, y>>}}
    \cup {Line("x", names, "none", x, FALSE, FALSE) : names \in {<< >>, <<y>>}}
    \cup {Line("t", <<x>>, "none", x, FALSE, FALSE)}
    \cup {Line("r", names, "none", x, FALSE, s) :
            names \in {<< >>, <<y>>, <<x, y>>, <<y, x>>}, s \in BOOLEAN}
    \cup {Line("r", names, "b", x, FALSE, FALSE) : names \in {<<y>>, <<y, x>>}}
    \cup {Line("r", names, "none", x, TRUE, FALSE) : names \in {<< >>, <<x>>}}
    \cup {Line("r", <<y>>, "a", x, FALSE, FALSE),
          Line("none", << >>, "none", x, FALSE, TRUE)}
===========================================================================
