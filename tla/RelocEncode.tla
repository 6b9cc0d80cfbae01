---------------------------- MODULE RelocEncode ----------------------------
(***************************************************************************)
(* How an address gets into instruction fields and out again: the pseudo   *)
(* instructions of binutils/as/as.c emit one or two instructions with      *)
(* empty fields, fixupRef of binutils/ld/ld.c (or formatLI of as.c) fills  *)
(* them, and the processor recombines them.                                *)
(*                                                                         *)
(* Words have Word values, 2^32 on the machine.  Word is a parameter so    *)
(* that small words can be model-checked and all of them proved about; it  *)
(* is a multiple of 2^22, the reach of the longest field.                  *)
(***************************************************************************)
EXTENDS Integers

CONSTANTS Word,         \* number of values of a machine word
          CodeAddress,  \* addresses of instructions
          Address       \* addresses referred to, and constants loaded by li

W32 == 0 .. Word - 1

\* What the theorems of RelocEncodeProofs assume of the constants.
EncodeAssumption ==
    /\ Word \in Nat /\ Word >= 8388608 /\ Word % 4194304 = 0
    /\ \A a \in CodeAddress : a \in W32 /\ a % 4 = 0
    /\ \A a \in Address : a \in W32

Kind == {"la", "load", "store", "call", "branch", "jump", "li"}
Branching == {"call", "branch", "jump"}

VARIABLES kind,         \* the source instruction
          place,        \* address of its first machine instruction
          target,       \* the address (for li: the value) it names
          step,         \* "assembled", "patched", "first", "done" or "error"
          hi, lo,       \* the immediate fields of the pair
          reg           \* the value computed

vars == <<kind, place, target, step, hi, lo, reg>>

\* Wrap-around of a sum or difference of two words.
Wrap(x) == IF x < 0 THEN x + Word ELSE IF x >= Word THEN x - Word ELSE x

\* The signed reading of a field of n values, and of a word.
SignExtend(x, n) == IF x >= n \div 2 THEN x - n ELSE x
Signed(x) == SignExtend(x, Word)

\* insrange(15, v)
FitsIn15(v) == v >= -16384 /\ v <= 16383

\* Distance from the (first) instruction to the target: FixupValue in Linker.
Displacement == Wrap(target - place)

\* METHOD_RH20, and the lui of formatLI.
High20(v) == v \div 4096

\* METHOD_RL12, METHOD_JALR12 (in words), METHOD_RS12, METHOD_R15, METHOD_J20
RL12(v)   == v % 4096
JALR12(v) == (v % 4096) \div 4
RS12(v)   == v % 32768
R15(v)    == (v % 131072) \div 4
J20(v)    == (v % 4194304) \div 4

Init ==
    /\ kind \in Kind /\ place \in CodeAddress /\ target \in Address
    /\ step = "assembled"
    /\ hi = 0 /\ lo = 0 /\ reg = 0

\* fixupRef refuses to patch a branch whose distance is not whole words.
Misaligned ==
    /\ step = "assembled" /\ kind \in Branching /\ Displacement % 4 # 0
    /\ step' = "error"
    /\ UNCHANGED <<kind, place, target, hi, lo, reg>>

\* The fields fixupRef fills in for the relocation records of the instruction.
FixupHi == IF kind \in {"branch", "jump"} THEN 0 ELSE High20(Displacement)
FixupLo == CASE kind \in {"la", "load"} -> RL12(Displacement)
             [] kind = "store"  -> RS12(Displacement)
             [] kind = "call"   -> JALR12(Displacement)
             [] kind = "branch" -> R15(Displacement)
             [] kind = "jump"   -> J20(Displacement)

FixupRef ==
    /\ step = "assembled" /\ kind # "li"
    /\ kind \in Branching => Displacement % 4 = 0
    /\ hi' = FixupHi /\ lo' = FixupLo
    /\ step' = "patched"
    /\ UNCHANGED <<kind, place, target, reg>>

\* formatLI: one addi, or lui and addi.
LiHi == IF FitsIn15(Signed(target)) THEN 0 ELSE High20(target)
LiLo == IF FitsIn15(Signed(target)) THEN target % 32768 ELSE target % 4096

FormatLI ==
    /\ step = "assembled" /\ kind = "li"
    /\ hi' = LiHi /\ lo' = LiLo
    /\ step' = "patched"
    /\ UNCHANGED <<kind, place, target, reg>>

(***************************************************************************)
(* The processor, as the assembler uses it: auipc adds its field, shifted  *)
(* by 12, to the address of the instruction, lui adds it to nothing; the   *)
(* second instruction adds a signed 15-bit field, in words for jalr.       *)
(***************************************************************************)
FirstValue == CASE kind = "li" -> hi * 4096
                [] kind \in {"branch", "jump"} -> place
                [] OTHER -> Wrap(place + hi * 4096)
Immediate == CASE kind = "jump" -> 4 * SignExtend(lo, 1048576)
               [] kind \in {"branch", "call"} -> 4 * SignExtend(lo, 32768)
               [] OTHER -> SignExtend(lo, 32768)

First ==
    /\ step = "patched"
    /\ reg' = FirstValue
    /\ step' = "first"
    /\ UNCHANGED <<kind, place, target, hi, lo>>

Second ==
    /\ step = "first"
    /\ reg' = Wrap(reg + Immediate)
    /\ step' = "done"
    /\ UNCHANGED <<kind, place, target, hi, lo>>

Ended == step \in {"done", "error"} /\ UNCHANGED vars

Next == Misaligned \/ FixupRef \/ FormatLI \/ First \/ Second \/ Ended

Spec == Init /\ [][Next]_vars

---------------------------------------------------------------------------
\* The fields fit their instructions, the rest are words (ExecHeader's types).
TypeOK ==
    /\ kind \in Kind /\ place \in CodeAddress /\ target \in Address
    /\ step \in {"assembled", "patched", "first", "done", "error"}
    /\ hi \in Nat /\ hi * 4096 < Word
    /\ lo \in Nat /\ lo < (IF kind = "jump" THEN 1048576 ELSE 32768)
    /\ reg \in W32

(***************************************************************************)
(* What the fields of an instruction can reach: a branch and a jump have   *)
(* one signed field, which ld cuts without a test; the others have a pair  *)
(* of fields that hold a whole word between them, METHOD_RH20 the upper 20 *)
(* bits of the displacement and METHOD_RL12, METHOD_RS12 or METHOD_JALR12  *)
(* the lower 12.                                                           *)
(***************************************************************************)
Reachable ==
    LET d == Signed(Displacement) IN
    CASE kind = "branch" -> -65536 <= d /\ d < 65536
      [] kind = "jump"   -> -2097152 <= d /\ d < 2097152
      [] OTHER -> TRUE

(***************************************************************************)
(* fixupRef and formatLI against the processor: the value recombined is    *)
(* the address or constant named in the source exactly when the fields can *)
(* reach it, at every distance, forwards, backwards and across the wrap of *)
(* the address space.  The stores of ld.c:599 break this.                  *)
(***************************************************************************)
ExactWithinReach == step = "done" => (reg = target <=> Reachable)
===========================================================================
