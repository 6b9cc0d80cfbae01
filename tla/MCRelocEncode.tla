--------------------------- MODULE MCRelocEncode ---------------------------
(***************************************************************************)
(* Words of 2^24 values; addresses on both sides of every boundary of a    *)
(* field: 2^11, 2^12, 2^14, 2^15, 2^16, 2^17, 2^21, 2^22 and the wrap.     *)
(***************************************************************************)
EXTENDS RelocEncode

MCWord == 16777216
Boundary == {0, 2048, 4096, 16384, 32768, 65536, 131072, 2097152, 4194304, 8388608}
Around == {x + e : x \in Boundary, e \in {-4, -1, 0, 4, 6}}
MCAddress == {(x + MCWord) % MCWord : x \in Around} \cup {(MCWord - x) % MCWord : x \in Around}
MCCodeAddress == {0, 4, 4092, 65536, 8388608, MCWord - 8}
===========================================================================
