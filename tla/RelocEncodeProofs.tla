------------------------- MODULE RelocEncodeProofs -------------------------
(***************************************************************************)
(* Which instructions reach their target, for every word size and every    *)
(* pair of addresses: all but the stores whose two fields overlap, and of  *)
(* those none.                                                             *)
(***************************************************************************)
EXTENDS RelocEncode, TLAPS

(***************************************************************************)
(* A store whose displacement has one of the bits 12 to 14 set: METHOD_RS12 *)
(* puts them, masked with 0x7FFF, into the lower field although            *)
(* METHOD_RH20 has put them into the upper one.                            *)
(***************************************************************************)
HalvesOverlap == kind = "store" /\ Displacement % 32768 >= 4096

(***************************************************************************)
(* TypeOK says nothing about which fields stand in the instruction; the    *)
(* inductive invariant remembers where hi, lo and reg come from.           *)
(***************************************************************************)
Fields ==
    IF kind = "li" THEN hi = LiHi /\ lo = LiLo
    ELSE /\ hi = FixupHi /\ lo = FixupLo
         /\ kind \in Branching => Displacement % 4 = 0

Encoded ==
    /\ TypeOK
    /\ step \in {"patched", "first", "done"} => Fields
    /\ step = "first" => reg = FirstValue
    /\ step = "done" => reg = Wrap(FirstValue + Immediate)

\* The difference of two words, wrapped, is a word.
LEMMA DisplacementIsWord ==
    ASSUME EncodeAssumption, TypeOK PROVE Displacement \in W32
BY SMT DEF EncodeAssumption, TypeOK, Displacement, Wrap, W32

\* A word of Word values has a high part of fewer than Word/4096.
LEMMA HighPart ==
    ASSUME EncodeAssumption, NEW v \in W32
    PROVE  /\ High20(v) \in Nat /\ v % 4096 \in 0..4095
           /\ v = (High20(v) * 4096) + (v % 4096)
           /\ High20(v) * 4096 < Word
BY SMT DEF EncodeAssumption, High20, W32

\* Every field computed fits the bits it is put into.
LEMMA FieldsFit ==
    ASSUME EncodeAssumption, TypeOK
    PROVE  /\ kind # "li" => /\ FixupHi \in Nat /\ FixupHi * 4096 < Word
                             /\ FixupLo \in Nat /\ FixupLo < (IF kind = "jump" THEN 1048576 ELSE 32768)
           /\ kind = "li" => /\ LiHi \in Nat /\ LiHi * 4096 < Word
                             /\ LiLo \in Nat /\ LiLo < 32768
<1>1. Displacement \in W32 /\ Displacement \in Int
  BY SMT, DisplacementIsWord DEF EncodeAssumption, W32
<1>2. target \in W32 /\ target \in Int
  BY SMT DEF EncodeAssumption, TypeOK, W32
<1>3. 0 \in Nat /\ 0 * 4096 < Word
  BY SMT DEF EncodeAssumption
<1>4. ASSUME kind # "li" PROVE FixupHi \in Nat /\ FixupHi * 4096 < Word
  BY SMT, <1>1, <1>3, HighPart DEF FixupHi
<1>5. ASSUME kind # "li"
      PROVE FixupLo \in Nat /\ FixupLo < (IF kind = "jump" THEN 1048576 ELSE 32768)
  <2>1. CASE kind \in {"la", "load"}
    BY SMT, <1>1, <2>1 DEF FixupLo, RL12
  <2>2. CASE kind = "store"
    BY SMT, <1>1, <2>2 DEF FixupLo, RS12
  <2>3. CASE kind = "call"
    BY SMT, <1>1, <2>3 DEF FixupLo, JALR12
  <2>4. CASE kind = "branch"
    BY SMT, <1>1, <2>4 DEF FixupLo, R15
  <2>5. CASE kind = "jump"
    BY SMT, <1>1, <2>5 DEF FixupLo, J20
  <2> QED BY SMT, <1>5, <2>1, <2>2, <2>3, <2>4, <2>5 DEF TypeOK, Kind
<1>6. LiHi \in Nat /\ LiHi * 4096 < Word
  BY SMT, <1>2, <1>3, HighPart DEF LiHi
<1>7. LiLo \in Nat /\ LiLo < 32768
  BY SMT, <1>2 DEF LiLo
<1> QED BY SMT, <1>4, <1>5, <1>6, <1>7

\* The numbers the two instructions compute are words again.
LEMMA ValuesAreWords ==
    ASSUME EncodeAssumption, TypeOK
    PROVE  FirstValue \in W32 /\ Wrap(FirstValue + Immediate) \in W32
<1>1. place \in W32 /\ Word \in Nat /\ hi * 4096 \in Nat
  BY SMT DEF EncodeAssumption, TypeOK
<1>2. FirstValue \in W32
  <2>1. CASE kind = "li"
    BY SMT, <1>1, <2>1 DEF FirstValue, W32, TypeOK
  <2>2. CASE kind \in {"branch", "jump"}
    BY SMT, <1>1, <2>2 DEF FirstValue
  <2>3. CASE kind \notin {"li", "branch", "jump"}
    BY SMT, <1>1, <2>3 DEF FirstValue, W32, TypeOK, Wrap
  <2> QED BY SMT, <2>1, <2>2, <2>3
<1>3. Immediate \in Int /\ -Word < Immediate /\ Immediate < Word
  BY SMT DEF EncodeAssumption, Immediate, SignExtend, TypeOK
<1>4. Wrap(FirstValue + Immediate) \in W32
  BY SMT, <1>1, <1>2, <1>3 DEF Wrap, W32
<1> QED BY SMT, <1>2, <1>4

LEMMA InitEncoded ==
    ASSUME EncodeAssumption PROVE Init => Encoded
BY SMT DEF EncodeAssumption, Init, Encoded, TypeOK, W32

\* The derived values depend only on the instruction and its fields.
LEMMA DerivedUnchanged ==
    ASSUME UNCHANGED <<kind, place, target>>
    PROVE  /\ FixupHi' = FixupHi /\ FixupLo' = FixupLo
           /\ LiHi' = LiHi /\ LiLo' = LiLo /\ Displacement' = Displacement
           /\ UNCHANGED <<hi, lo>> => /\ FirstValue' = FirstValue
                                      /\ Immediate' = Immediate
                                      /\ Fields' = Fields
<1>1. Displacement' = Displacement
  BY SMT DEF Displacement, Wrap
<1>2. FixupHi' = FixupHi
  BY SMT, <1>1 DEF FixupHi, High20
<1>3. FixupLo' = FixupLo
  BY SMT, <1>1 DEF FixupLo, RL12, RS12, JALR12, R15, J20
<1>4. LiHi' = LiHi /\ LiLo' = LiLo
  BY SMT DEF LiHi, LiLo, FitsIn15, Signed, SignExtend, High20
<1>5. ASSUME UNCHANGED <<hi, lo>> PROVE FirstValue' = FirstValue
  BY SMT, <1>5 DEF FirstValue, Wrap
<1>6. ASSUME UNCHANGED <<hi, lo>> PROVE Immediate' = Immediate
  BY SMT, <1>6 DEF Immediate, SignExtend
<1>7. ASSUME UNCHANGED <<hi, lo>> PROVE Fields' = Fields
  BY SMT, <1>1, <1>2, <1>3, <1>4, <1>7 DEF Fields
<1> QED BY SMT, <1>1, <1>2, <1>3, <1>4, <1>5, <1>6, <1>7

\* Encoded is inductive.
LEMMA NextEncoded ==
    ASSUME EncodeAssumption PROVE Encoded /\ [Next]_vars => Encoded'
<1> SUFFICES ASSUME Encoded, [Next]_vars PROVE Encoded'
  OBVIOUS
<1>1. CASE Misaligned
  BY SMT, <1>1 DEF Encoded, TypeOK, Misaligned
<1>2. CASE FixupRef
  <2>1. TypeOK'
    BY SMT, <1>2, FieldsFit DEF Encoded, TypeOK, FixupRef
  <2>2. Fields'
    BY SMT, <1>2, DerivedUnchanged DEF FixupRef, Fields
  <2> QED BY SMT, <1>2, <2>1, <2>2 DEF Encoded, FixupRef
<1>3. CASE FormatLI
  <2>1. TypeOK'
    BY SMT, <1>3, FieldsFit DEF Encoded, TypeOK, FormatLI
  <2>2. Fields'
    BY SMT, <1>3, DerivedUnchanged DEF FormatLI, Fields
  <2> QED BY SMT, <1>3, <2>1, <2>2 DEF Encoded, FormatLI
<1>4. CASE First
  <2>1. TypeOK'
    BY SMT, <1>4, ValuesAreWords DEF Encoded, TypeOK, First
  <2>2. Fields' /\ FirstValue' = FirstValue
    BY SMT, <1>4, DerivedUnchanged DEF Encoded, First
  <2> QED BY SMT, <1>4, <2>1, <2>2 DEF Encoded, First
<1>5. CASE Second
  <2>1. TypeOK'
    BY SMT, <1>5, ValuesAreWords DEF Encoded, TypeOK, Second
  <2>2. Fields' /\ FirstValue' = FirstValue /\ Immediate' = Immediate
    BY SMT, <1>5, DerivedUnchanged DEF Encoded, Second
  <2> QED BY SMT, <1>5, <2>1, <2>2 DEF Encoded, Second
<1>6. CASE UNCHANGED vars
  BY SMT, <1>6, DerivedUnchanged DEF vars, Encoded, TypeOK
<1> QED BY SMT, <1>1, <1>2, <1>3, <1>4, <1>5, <1>6 DEF Next, Ended

\* Type correctness: the fields always fit, and every value is a word.
THEOREM EncodeTypeCorrect ==
    ASSUME EncodeAssumption PROVE Spec => []TypeOK
<1>1. Encoded => TypeOK
  BY SMT DEF Encoded
<1> QED BY <1>1, InitEncoded, NextEncoded, PTL DEF Spec

(***************************************************************************)
(* The arithmetic behind each kind of instruction, on plain numbers: p is  *)
(* the place, d the displacement.  Two words are equal when they wrap to   *)
(* the same word.                                                          *)
(***************************************************************************)
LEMMA PairReaches ==
    ASSUME EncodeAssumption, NEW p \in W32, NEW d \in W32
    PROVE  Wrap(Wrap(p + (d \div 4096) * 4096) + (d % 4096)) = Wrap(p + d)
<1>1. d = (d \div 4096) * 4096 + (d % 4096) /\ d % 4096 >= 0 /\ d \div 4096 >= 0
  BY SMT DEF EncodeAssumption, W32
<1>2. (d \div 4096) \in Int /\ (d % 4096) \in Int /\ p \in Int /\ d \in Int
  BY SMT DEF EncodeAssumption, W32
<1> QED BY SMT, <1>1, <1>2 DEF EncodeAssumption, Wrap, W32

LEMMA StorePairReaches ==
    ASSUME EncodeAssumption, NEW p \in W32, NEW d \in W32
    PROVE  Wrap(Wrap(p + (d \div 4096) * 4096) + SignExtend(d % 32768, 32768))
             = Wrap(p + d) <=> d % 32768 < 4096
<1> DEFINE m == d % 4096
           b == (d % 32768) \div 4096
           x == SignExtend(d % 32768, 32768)
<1>1. /\ d % 32768 = b * 4096 + m
      /\ b \in Int /\ 0 <= b /\ b < 8 /\ m \in Int /\ 0 <= m /\ m < 4096
  <2>1. d \in Nat
    BY SMT DEF EncodeAssumption, W32
  <2>2. d = (d \div 32768) * 32768 + (d % 32768)
    BY SMT, <2>1
  <2> QED BY SMT, <2>1, <2>2
<1> HIDE DEF m, b
<1>2. x = IF b >= 4 THEN b * 4096 + m - 32768 ELSE b * 4096 + m
  BY SMT, <1>1 DEF SignExtend
<1>3. /\ x \in Int /\ -16384 <= x /\ x < 16384
      /\ x = m <=> b = 0
      /\ d % 32768 < 4096 <=> b = 0
  BY SMT, <1>1, <1>2
<1> HIDE DEF x
<1>4. ASSUME NEW a \in W32
      PROVE  Wrap(a + x) = Wrap(a + m) <=> x = m
  BY SMT, <1>1, <1>3 DEF EncodeAssumption, Wrap, W32
<1>5. Wrap(p + (d \div 4096) * 4096) \in W32
  BY SMT DEF EncodeAssumption, Wrap, W32
<1>6. Wrap(Wrap(p + (d \div 4096) * 4096) + m) = Wrap(p + d)
  BY SMT, PairReaches DEF m
<1> QED BY SMT, <1>3, <1>4, <1>5, <1>6 DEF x

LEMMA BranchReaches ==
    ASSUME EncodeAssumption, NEW p \in W32, NEW d \in W32, d % 4 = 0
    PROVE  Wrap(p + 4 * SignExtend((d % 131072) \div 4, 32768)) = Wrap(p + d)
             <=> (-65536 <= Signed(d) /\ Signed(d) < 65536)
<1>1. PICK k \in Nat : d = k * 131072 + (d % 131072)
  BY SMT DEF EncodeAssumption, W32
<1> DEFINE w == Word \div 131072
<1>2. w \in Nat /\ Word = w * 131072 /\ w >= 64 /\ w % 2 = 0
  BY SMT DEF EncodeAssumption
<1> HIDE DEF w
<1>3. /\ 4 * SignExtend((d % 131072) \div 4, 32768) = SignExtend(d % 131072, 131072)
      /\ (d % 131072) \in Int /\ 0 <= d % 131072 /\ d % 131072 < 131072
  BY SMT DEF EncodeAssumption, SignExtend, W32
<1>4. k < w
  BY SMT, <1>1, <1>2, <1>3 DEF W32
<1>5. Word \div 2 = (w \div 2) * 131072
  BY SMT, <1>2
<1> QED BY SMT, <1>1, <1>2, <1>3, <1>4, <1>5 DEF SignExtend, Signed, Wrap, W32

LEMMA JumpReaches ==
    ASSUME EncodeAssumption, NEW p \in W32, NEW d \in W32, d % 4 = 0
    PROVE  Wrap(p + 4 * SignExtend((d % 4194304) \div 4, 1048576)) = Wrap(p + d)
             <=> (-2097152 <= Signed(d) /\ Signed(d) < 2097152)
<1>1. PICK k \in Nat : d = k * 4194304 + (d % 4194304)
  BY SMT DEF EncodeAssumption, W32
<1> DEFINE w == Word \div 4194304
<1>2. w \in Nat /\ Word = w * 4194304 /\ w >= 2
  BY SMT DEF EncodeAssumption
<1> HIDE DEF w
<1>3. /\ 4 * SignExtend((d % 4194304) \div 4, 1048576) = SignExtend(d % 4194304, 4194304)
      /\ (d % 4194304) \in Int /\ 0 <= d % 4194304 /\ d % 4194304 < 4194304
  BY SMT DEF EncodeAssumption, SignExtend, W32
<1>4. k < w
  BY SMT, <1>1, <1>2, <1>3 DEF W32
<1>5. Word \div 2 = w * 2097152
  BY SMT, <1>2
<1> QED BY SMT, <1>1, <1>2, <1>3, <1>4, <1>5 DEF SignExtend, Signed, Wrap, W32

LEMMA LiReaches ==
    ASSUME EncodeAssumption, NEW t \in W32
    PROVE  /\ FitsIn15(Signed(t)) => Wrap(SignExtend(t % 32768, 32768)) = t
           /\ Wrap((t \div 4096) * 4096 + SignExtend(t % 4096, 32768)) = t
<1> DEFINE w == Word \div 32768
<1>1. w \in Nat /\ Word = w * 32768 /\ w >= 256
  BY SMT DEF EncodeAssumption
<1> HIDE DEF w
<1>2. PICK k \in Nat : t = k * 32768 + (t % 32768)
  BY SMT DEF EncodeAssumption, W32
<1>3. FitsIn15(Signed(t)) => Wrap(SignExtend(t % 32768, 32768)) = t
  BY SMT, <1>1, <1>2 DEF FitsIn15, SignExtend, Signed, Wrap, W32
<1>4. Wrap((t \div 4096) * 4096 + SignExtend(t % 4096, 32768)) = t
  BY SMT, <1>1 DEF EncodeAssumption, SignExtend, Wrap, W32
<1> QED BY <1>3, <1>4

\* The displacement leads from the place to the target, round the wrap if need be.
LEMMA DisplacementLeads ==
    ASSUME EncodeAssumption, TypeOK PROVE Wrap(place + Displacement) = target
BY SMT DEF EncodeAssumption, TypeOK, Displacement, Wrap, W32

(***************************************************************************)
(* The instructions one kind at a time: a pair built by RH20 and RL12 or   *)
(* JALR12, and li, always reach their target; a store unless its halves    *)
(* overlap; a branch and a jump when their displacement is within reach.   *)
(***************************************************************************)
LEMMA EncodedIsExact ==
    ASSUME EncodeAssumption, Encoded, step = "done"
    PROVE  IF HalvesOverlap THEN reg # target ELSE reg = target <=> Reachable
<1> DEFINE d == Displacement
<1>1. /\ TypeOK /\ Fields /\ reg = Wrap(FirstValue + Immediate)
      /\ kind \in Kind
  BY SMT DEF Encoded, TypeOK
<1>2. d \in W32 /\ place \in W32 /\ target \in W32 /\ Wrap(place + d) = target
  BY SMT, <1>1, DisplacementIsWord, DisplacementLeads DEF EncodeAssumption, TypeOK
<1>2a. d \in Nat
  BY SMT, <1>2 DEF EncodeAssumption, W32
<1>3. CASE kind \in {"la", "load"}
  <2>1. FirstValue = Wrap(place + (d \div 4096) * 4096)
    BY SMT, <1>1, <1>3 DEF FirstValue, Fields, FixupHi, High20
  <2>2. lo = d % 4096
    BY SMT, <1>1, <1>3 DEF Fields, FixupLo, RL12
  <2>3. Immediate = d % 4096
    BY SMT, <1>2a, <1>3, <2>2 DEF Immediate, SignExtend
  <2>4. reg = target
    BY SMT, <1>1, <1>2, <2>1, <2>3, PairReaches
  <2>5. Reachable /\ ~HalvesOverlap
    BY SMT, <1>3 DEF Reachable, HalvesOverlap
  <2> QED BY SMT, <2>4, <2>5
<1>4. CASE kind = "call"
  <2>1. FirstValue = Wrap(place + (d \div 4096) * 4096)
    BY SMT, <1>1, <1>4 DEF FirstValue, Fields, FixupHi, High20
  <2>2. lo = (d % 4096) \div 4 /\ d % 4 = 0
    BY SMT, <1>1, <1>4 DEF Fields, FixupLo, JALR12, Branching
  <2>3. Immediate = d % 4096
    BY SMT, <1>2a, <1>4, <2>2 DEF Immediate, SignExtend
  <2>4. reg = target
    BY SMT, <1>1, <1>2, <2>1, <2>3, PairReaches
  <2>5. Reachable /\ ~HalvesOverlap
    BY SMT, <1>4 DEF Reachable, HalvesOverlap
  <2> QED BY SMT, <2>4, <2>5
<1>5. CASE kind = "store"
  <2>1. FirstValue = Wrap(place + (d \div 4096) * 4096)
    BY SMT, <1>1, <1>5 DEF FirstValue, Fields, FixupHi, High20
  <2>2. Immediate = SignExtend(d % 32768, 32768)
    BY SMT, <1>1, <1>5 DEF Fields, FixupLo, RS12, Immediate
  <2>3. reg = target <=> d % 32768 < 4096
    BY SMT, <1>1, <1>2, <2>1, <2>2, StorePairReaches
  <2>4. HalvesOverlap <=> ~(d % 32768 < 4096)
    BY SMT, <1>2, <1>5 DEF EncodeAssumption, HalvesOverlap, W32
  <2>5. Reachable
    BY SMT, <1>5 DEF Reachable
  <2> QED BY SMT, <2>3, <2>4, <2>5
<1>6. CASE kind = "branch"
  <2>1. FirstValue = place
    BY SMT, <1>6 DEF FirstValue
  <2>2. Immediate = 4 * SignExtend((d % 131072) \div 4, 32768) /\ d % 4 = 0
    BY SMT, <1>1, <1>6 DEF Fields, FixupLo, R15, Branching, Immediate
  <2>3. reg = target <=> (-65536 <= Signed(d) /\ Signed(d) < 65536)
    BY SMT, <1>1, <1>2, <2>1, <2>2, BranchReaches
  <2> QED BY SMT, <1>6, <2>3 DEF Reachable, HalvesOverlap
<1>7. CASE kind = "jump"
  <2>1. FirstValue = place
    BY SMT, <1>7 DEF FirstValue
  <2>2. Immediate = 4 * SignExtend((d % 4194304) \div 4, 1048576) /\ d % 4 = 0
    BY SMT, <1>1, <1>7 DEF Fields, FixupLo, J20, Branching, Immediate
  <2>3. reg = target <=> (-2097152 <= Signed(d) /\ Signed(d) < 2097152)
    BY SMT, <1>1, <1>2, <2>1, <2>2, JumpReaches
  <2> QED BY SMT, <1>7, <2>3 DEF Reachable, HalvesOverlap
<1>8. CASE kind = "li"
  <2>1. hi = LiHi /\ lo = LiLo /\ FirstValue = hi * 4096
        /\ Immediate = SignExtend(lo, 32768)
    BY SMT, <1>1, <1>8 DEF Fields, FirstValue, Immediate
  <2>2. reg = target
    <3>1. CASE FitsIn15(Signed(target))
      <4>1. FirstValue = 0 /\ Immediate = SignExtend(target % 32768, 32768)
        BY SMT, <2>1, <3>1 DEF LiHi, LiLo
      <4>2. Immediate \in Int
        BY SMT, <1>2, <4>1 DEF EncodeAssumption, SignExtend, W32
      <4> QED BY SMT, <1>1, <1>2, <3>1, <4>1, <4>2, LiReaches
    <3>2. CASE ~FitsIn15(Signed(target))
      <4>1. FirstValue = (target \div 4096) * 4096
            /\ Immediate = SignExtend(target % 4096, 32768)
        BY SMT, <2>1, <3>2 DEF LiHi, LiLo, High20
      <4> QED BY SMT, <1>1, <1>2, <4>1, LiReaches
    <3> QED BY SMT, <3>1, <3>2
  <2>3. Reachable /\ ~HalvesOverlap
    BY SMT, <1>8 DEF Reachable, HalvesOverlap
  <2> QED BY SMT, <2>2, <2>3
<1> QED BY SMT, <1>1, <1>3, <1>4, <1>5, <1>6, <1>7, <1>8 DEF Kind

(***************************************************************************)
(* fixupRef, formatLI: every instruction but a store whose halves overlap  *)
(* computes the address named exactly when its fields can reach it, for    *)
(* every word size, place and target.                                      *)
(***************************************************************************)
THEOREM EncodingExact ==
    ASSUME EncodeAssumption PROVE Spec => [](~HalvesOverlap => ExactWithinReach)
<1>1. Encoded => (~HalvesOverlap => ExactWithinReach)
  BY EncodedIsExact, Zenon DEF ExactWithinReach
<1> QED BY <1>1, InitEncoded, NextEncoded, PTL DEF Spec

(***************************************************************************)
(* METHOD_RS12: a store whose halves overlap never writes where it should, *)
(* wherever it stands and whatever the word size.                          *)
(***************************************************************************)
THEOREM OverlappingStoresMiss ==
    ASSUME EncodeAssumption PROVE Spec => [](step = "done" /\ HalvesOverlap => reg # target)
<1>1. Encoded => (step = "done" /\ HalvesOverlap => reg # target)
  BY EncodedIsExact, Zenon
<1> QED BY <1>1, InitEncoded, NextEncoded, PTL DEF Spec
===========================================================================
