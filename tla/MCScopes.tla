----------------------------- MODULE MCScopes -----------------------------
(***************************************************************************)
(* Two kinds of source files: one name declared in every way the language  *)
(* has, in blocks and outside; and two names with linkage, which move      *)
(* between the tables in any order.                                        *)
(***************************************************************************)
EXTENDS Scopes

MCName == {"x", "y"}
MCUnit == {[names |-> {"x"}, functions |-> FALSE, symbols |-> 3, level |-> LOCAL_ + 1],
           [names |-> {"x", "y"}, functions |-> TRUE, symbols |-> 3, level |-> LOCAL_]}
===========================================================================
