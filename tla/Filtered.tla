----------------------------- MODULE Filtered -----------------------------
(***************************************************************************)
(* A walk through a list that keeps some of its elements: the files that   *)
(* ar could open (moveargfiles), the symbols that as writes (writeSymbol). *)
(***************************************************************************)
EXTENDS Integers, Sequences

\* The elements of sequence s that are in S, in order.
Only(s, S) ==
    LET kept[k \in 0..Len(s)] ==
            IF k = 0 THEN << >>
            ELSE IF s[k] \in S THEN Append(kept[k-1], s[k]) ELSE kept[k-1]
    IN  kept[Len(s)]
===========================================================================
