--------------------------- MODULE ObjectFormat ---------------------------
(***************************************************************************)
(* The object file format of binutils/include/a.out.h that the assembler   *)
(* writes and the linker reads.  Bytes are abstracted: an object file is   *)
(* the size of its three sections, the symbols it exports and imports and  *)
(* its relocation records.                                                 *)
(***************************************************************************)
EXTENDS Integers

CONSTANT Name           \* symbol names

Segment == {"ABS", "CODE", "DATA", "BSS"}

\* Segments that have bytes of their own in a file, and can hold a fixup.
Stored == {"CODE", "DATA"}

(***************************************************************************)
(* Relocation methods.  R15, J20 and JALR12 are the branch methods: their  *)
(* displacement is computed inside the code segment.  RH20 and the two     *)
(* low-part methods build a PC-relative address from a pair of             *)
(* instructions; the low part belongs to the instruction after the one the *)
(* displacement counts from.                                               *)
(***************************************************************************)
Branch  == {"R15", "J20", "JALR12"}
PcRel   == {"RL12", "RH20", "RS12"}
Method  == {"W32"} \cup Branch \cup PcRel
SecondOfPair == {"RL12", "RS12", "JALR12"}

\* A reference is relative to a segment or to a symbol (the MSB of "base").
SegBase(s) == [kind |-> "segment", segment |-> s]
SymBase(n) == [kind |-> "symbol", symbol |-> n]
Base == {SegBase(s) : s \in Segment} \cup {SymBase(n) : n \in Name}

RelocRecord ==
    [segment : Stored, offset : Nat, method : Method, value : Int, base : Base]

\* The place a symbol record of an exported symbol gives it.
Place == [segment : Segment, value : Nat]

(***************************************************************************)
(* magic is FALSE for a file that does not start with EXEC_MAGIC.          *)
(***************************************************************************)
IsObjectFile(f) ==
    /\ f.magic \in BOOLEAN
    /\ f.size \in [Segment -> Nat]
    /\ f.size["ABS"] = 0
    /\ f.undefs \subseteq Name
    /\ DOMAIN f.defs \subseteq Name \ f.undefs
    /\ \A n \in DOMAIN f.defs : f.defs[n] \in Place
    /\ f.relocs \subseteq RelocRecord
    /\ \A r \in f.relocs :
          r.base.kind = "symbol" => r.base.symbol \in DOMAIN f.defs \cup f.undefs
===========================================================================
