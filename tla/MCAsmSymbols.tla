--------------------------- MODULE MCAsmSymbols ---------------------------
(***************************************************************************)
(* Two source files, two names, every text of up to MaxStatements          *)
(* statements.  The bounds keep what matters: a name used, labelled,       *)
(* exported and imported in both files, in every order.                    *)
(***************************************************************************)
EXTENDS AsmSymbols

CONSTANTS a, b
MCName == {a, b}
MCNameOrder == <<a, b>>
===========================================================================
