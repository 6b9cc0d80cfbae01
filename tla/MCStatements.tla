----------------------------- MODULE MCStatements -----------------------------
(***************************************************************************)
(* Three families of functions: every function with jumps of all kinds and *)
(* a label, with all loops, or with switches and loops in each other.      *)
(***************************************************************************)
EXTENDS Statements

Jumps == [kinds |-> {"expr", "if", "while", "break", "goto", "label"},
          conditions |-> {"var"}, int |-> FALSE, statements |-> 4, depth |-> 4]
Loops == [kinds |-> {"expr", "if", "while", "do", "for", "break", "continue",
                     "return"},
          conditions |-> {"var", "true", "false"}, int |-> TRUE,
          statements |-> 3, depth |-> 4]
Switches == [kinds |-> {"while", "break", "continue", "switch", "case",
                        "default", "block"},
             conditions |-> {"var"}, int |-> TRUE, statements |-> 6, depth |-> 5]

MCFamilies == {Jumps, Loops, Switches}
===============================================================================
