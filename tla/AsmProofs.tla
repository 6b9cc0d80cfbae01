----------------------------- MODULE AsmProofs -----------------------------
(***************************************************************************)
(* Theorems about the symbols and fixups of the assembler for every set of *)
(* names, number of source files and text: no reference is lost or         *)
(* doubled, and the object file means what the text says.                  *)
(***************************************************************************)
EXTENDS AsmSymbols, Recursion

---------------------------------------------------------------------------
(* Types *)

LocalSymbol == Symbol({"unknown", "defined", "globref"})
GlobalSymbol == Symbol({"unknown", "defined"})
Use == [file : 1 .. Files, name : Name, fixup : Fixup]
TextLabel == [file : 1 .. Files, name : Name, segment : Emitting, value : Nat]

TypeOK ==
    /\ pc \in {"text", "write", "done", "error"}
    /\ file \in 1 .. Files
    /\ currSeg \in Emitting
    /\ segPtr \in [Segment -> Nat] /\ segPtr["ABS"] = 0
    /\ localTable \in [Name -> LocalSymbol]
    /\ globalTable \in [Name -> GlobalSymbol]
    /\ used \subseteq Use
    /\ labels \subseteq TextLabel
    /\ declared \subseteq (1 .. Files) \X Name

LEMMA SegmentsEmit ==
    Emitting \subseteq Segment /\ "ABS" \in Segment \ Emitting
BY DEF Emitting, Segment

\* What deref finds is a symbol, and not a reference to a global one.
LEMMA DerefType ==
    ASSUME TypeOK, NEW n \in Name
    PROVE  /\ Deref(n) \in LocalSymbol
           /\ IsGlobRef(n) => Deref(n) = globalTable[n] /\ Deref(n) \in GlobalSymbol
           /\ ~IsGlobRef(n) => Deref(n) = localTable[n] /\ Deref(n).status # "globref"
<1>1. localTable[n] \in LocalSymbol /\ globalTable[n] \in GlobalSymbol
  BY DEF TypeOK
<1>2. GlobalSymbol \subseteq LocalSymbol
  BY DEF GlobalSymbol, LocalSymbol, Symbol
<1> QED
  BY <1>1, <1>2 DEF Deref, IsGlobRef

\* s is stored where deref found the symbol of n; the others stay.
LEMMA StoreEffect ==
    ASSUME TypeOK, NEW n \in Name, NEW s, s \in GlobalSymbol, Store(n, s)
    PROVE  /\ localTable' \in [Name -> LocalSymbol] /\ globalTable' \in [Name -> GlobalSymbol]
           /\ IsGlobRef(n) => /\ localTable' = localTable /\ globalTable'[n] = s
                              /\ \A m \in Name : m # n => globalTable'[m] = globalTable[m]
           /\ ~IsGlobRef(n) => /\ globalTable' = globalTable /\ localTable'[n] = s
                               /\ \A m \in Name : m # n => localTable'[m] = localTable[m]
<1>1. s \in LocalSymbol
  BY DEF GlobalSymbol, LocalSymbol, Symbol
<1>2. CASE IsGlobRef(n)
  <2>1. globalTable' = [globalTable EXCEPT ![n] = s] /\ localTable' = localTable
    BY <1>2 DEF Store
  <2> QED
    BY <1>2, <2>1 DEF TypeOK
<1>3. CASE ~IsGlobRef(n)
  <2>1. localTable' = [localTable EXCEPT ![n] = s] /\ globalTable' = globalTable
    BY <1>3 DEF Store
  <2> QED
    BY <1>1, <1>3, <2>1 DEF TypeOK
<1> QED
  BY <1>2, <1>3

SameButFixups(s, t) == s.status = t.status /\ s.segment = t.segment /\ s.value = t.value
SameFixups(m) ==
    localTable'[m].fixups = localTable[m].fixups /\ globalTable'[m].fixups = globalTable[m].fixups

\* asmModule: a label gives the symbol that n stands for the place it is at.
LEMMA LabelEffect ==
    ASSUME TypeOK, NEW n \in Name, Label(n), Deref(n).status = "unknown"
    PROVE  /\ localTable' \in [Name -> LocalSymbol] /\ globalTable' \in [Name -> GlobalSymbol]
           /\ \A m \in Name : SameFixups(m)
           /\ IsGlobRef(n) =>
                 /\ localTable' = localTable /\ globalTable'[n].status = "defined"
                 /\ globalTable'[n].segment = currSeg /\ globalTable'[n].value = segPtr[currSeg]
                 /\ \A m \in Name : m # n => globalTable'[m] = globalTable[m]
           /\ ~IsGlobRef(n) =>
                 /\ globalTable' = globalTable /\ localTable'[n].status = "defined"
                 /\ localTable'[n].segment = currSeg /\ localTable'[n].value = segPtr[currSeg]
                 /\ \A m \in Name : m # n => localTable'[m] = localTable[m]
<1> DEFINE s == [Deref(n) EXCEPT !.status = "defined", !.segment = currSeg,
                                 !.value = segPtr[currSeg]]
<1>1. Store(n, s)
  BY DEF Label
<1>2. /\ s \in GlobalSymbol /\ s.status = "defined" /\ s.segment = currSeg
      /\ s.value = segPtr[currSeg] /\ s.fixups = Deref(n).fixups
  <2>1. Deref(n) \in LocalSymbol
    BY DerefType
  <2>2. currSeg \in Segment /\ segPtr[currSeg] \in Nat
    BY SegmentsEmit DEF TypeOK
  <2> QED
    BY <2>1, <2>2 DEF LocalSymbol, GlobalSymbol, Symbol
<1> HIDE DEF s
<1>3. /\ localTable' \in [Name -> LocalSymbol] /\ globalTable' \in [Name -> GlobalSymbol]
      /\ IsGlobRef(n) => /\ localTable' = localTable /\ globalTable'[n] = s
                         /\ \A m \in Name : m # n => globalTable'[m] = globalTable[m]
      /\ ~IsGlobRef(n) => /\ globalTable' = globalTable /\ localTable'[n] = s
                          /\ \A m \in Name : m # n => localTable'[m] = localTable[m]
  BY <1>1, <1>2, StoreEffect
<1>4. \A m \in Name : SameFixups(m)
  BY <1>2, <1>3 DEF SameFixups, Deref
<1> QED
  BY <1>2, <1>3, <1>4

\* addFixup: a reference adds a fixup to the symbol that n stands for.
LEMMA ReferenceEffect ==
    ASSUME TypeOK, NEW n \in Name, NEW method \in Methods, NEW v \in Addend,
           Reference(n, method, v), NEW f,
           f = [segment |-> currSeg, offset |-> segPtr[currSeg], method |-> method, value |-> v]
    PROVE  /\ f \in Fixup
           /\ localTable' \in [Name -> LocalSymbol] /\ globalTable' \in [Name -> GlobalSymbol]
           /\ \A m \in Name : /\ SameButFixups(localTable'[m], localTable[m])
                              /\ SameButFixups(globalTable'[m], globalTable[m])
           /\ \A m \in Name : m # n => SameFixups(m)
           /\ IsGlobRef(n) => /\ localTable'[n].fixups = localTable[n].fixups
                              /\ globalTable'[n].fixups = globalTable[n].fixups \cup {f}
           /\ ~IsGlobRef(n) => /\ localTable'[n].fixups = localTable[n].fixups \cup {f}
                               /\ globalTable'[n].fixups = globalTable[n].fixups
<1>1. f \in Fixup
  <2>1. currSeg \in Emitting /\ segPtr[currSeg] \in Nat /\ v \in Int
    BY SegmentsEmit, AsmAssumption DEF TypeOK
  <2> QED
    BY <2>1 DEF Fixup
<1> DEFINE s == [Deref(n) EXCEPT !.fixups = @ \cup {f}]
<1>2. Store(n, s)
  BY DEF Reference
<1>3. /\ s \in GlobalSymbol
      /\ SameButFixups(s, Deref(n)) /\ s.fixups = Deref(n).fixups \cup {f}
  <2>1. Deref(n) \in LocalSymbol /\ Deref(n).status # "globref"
    BY DerefType DEF GlobalSymbol, Symbol
  <2> QED
    BY <1>1, <2>1 DEF LocalSymbol, GlobalSymbol, Symbol, SameButFixups
<1> HIDE DEF s
<1>4. /\ localTable' \in [Name -> LocalSymbol] /\ globalTable' \in [Name -> GlobalSymbol]
      /\ IsGlobRef(n) => /\ localTable' = localTable /\ globalTable'[n] = s
                         /\ \A m \in Name : m # n => globalTable'[m] = globalTable[m]
      /\ ~IsGlobRef(n) => /\ globalTable' = globalTable /\ localTable'[n] = s
                          /\ \A m \in Name : m # n => localTable'[m] = localTable[m]
  BY <1>2, <1>3, StoreEffect
<1> QED
  BY <1>1, <1>3, <1>4 DEF SameButFixups, SameFixups, Deref

\* dotExport, dotImport: the fixups of n go from its local to its global symbol.
LEMMA MakeGlobalEffect ==
    ASSUME TypeOK, NEW n \in Name, NEW g \in GlobalSymbol, MakeGlobal(n, g)
    PROVE  /\ localTable' \in [Name -> LocalSymbol] /\ globalTable' \in [Name -> GlobalSymbol]
           /\ localTable'[n].status = "globref" /\ localTable'[n].fixups = {}
           /\ SameButFixups(globalTable'[n], g)
           /\ globalTable'[n].fixups = g.fixups \cup localTable[n].fixups
           /\ \A m \in Name : m # n =>
                 localTable'[m] = localTable[m] /\ globalTable'[m] = globalTable[m]
           /\ declared' = declared \cup {<<file, n>>}
<1> DEFINE s == [localTable[n] EXCEPT !.status = "globref", !.fixups = {}]
           t == [g EXCEPT !.fixups = @ \cup localTable[n].fixups]
<1>1. localTable[n] \in LocalSymbol /\ g \in GlobalSymbol
  BY DEF TypeOK
<1>2. s \in LocalSymbol /\ s.status = "globref" /\ s.fixups = {}
  BY <1>1 DEF LocalSymbol, Symbol
<1>3. /\ t \in GlobalSymbol /\ SameButFixups(t, g)
      /\ t.fixups = g.fixups \cup localTable[n].fixups
  BY <1>1 DEF LocalSymbol, GlobalSymbol, Symbol, SameButFixups
<1>4. globalTable' = [globalTable EXCEPT ![n] = t]
  BY DEF MakeGlobal
<1>5. localTable' = [localTable EXCEPT ![n] = s]
  <2>1. localTable' = [localTable EXCEPT ![n].status = "globref", ![n].fixups = {}]
    BY DEF MakeGlobal
  <2> QED
    BY <2>1 DEF TypeOK, LocalSymbol, Symbol
<1>6. declared' = declared \cup {<<file, n>>}
  BY DEF MakeGlobal
<1> HIDE DEF s, t
<1> QED
  BY <1>2, <1>3, <1>4, <1>5, <1>6 DEF TypeOK

\* .globl, when it is accepted.
LEMMA ExportEffect ==
    ASSUME TypeOK, NEW n \in Name, Export(n),
           globalTable[n].status = "unknown", ~IsGlobRef(n)
    PROVE  \E g \in GlobalSymbol :
              /\ MakeGlobal(n, g) /\ SameButFixups(g, localTable[n])
              /\ g.fixups = globalTable[n].fixups
              /\ UNCHANGED <<pc, file, currSeg, segPtr, fixupList, object, used, labels>>
<1> DEFINE g == [globalTable[n] EXCEPT !.status  = localTable[n].status,
                                       !.segment = localTable[n].segment,
                                       !.value   = localTable[n].value]
<1>1. MakeGlobal(n, g) /\ UNCHANGED <<pc, file, currSeg, segPtr, fixupList, object, used, labels>>
  BY DEF Export
<1>2. localTable[n] \in LocalSymbol /\ globalTable[n] \in GlobalSymbol
      /\ localTable[n].status # "globref"
  BY DEF TypeOK, IsGlobRef
<1>3. g \in GlobalSymbol /\ SameButFixups(g, localTable[n]) /\ g.fixups = globalTable[n].fixups
  BY <1>2 DEF LocalSymbol, GlobalSymbol, Symbol, SameButFixups
<1> QED
  BY <1>1, <1>3

\* .import, when it is accepted.
LEMMA ImportEffect ==
    ASSUME TypeOK, NEW n \in Name, Import(n), localTable[n].status = "unknown"
    PROVE  /\ globalTable[n] \in GlobalSymbol /\ MakeGlobal(n, globalTable[n])
           /\ UNCHANGED <<pc, file, currSeg, segPtr, fixupList, object, used, labels>>
BY DEF Import, TypeOK

\* dotSet: only the segment and value of a global symbol that is not defined change.
LEMMA SetEffect ==
    ASSUME TypeOK, NEW n \in Name, NEW m \in Name, Set(n, m)
    PROVE  /\ localTable' = localTable /\ globalTable' \in [Name -> GlobalSymbol]
           /\ \A k \in Name : /\ globalTable'[k].fixups = globalTable[k].fixups
                              /\ globalTable'[k].status = globalTable[k].status
                              /\ globalTable[k].status = "defined" => globalTable'[k] = globalTable[k]
           /\ pc' \in {pc, "error"}
           /\ UNCHANGED <<file, currSeg, segPtr, fixupList, object, used, labels, declared>>
<1>1. CASE globalTable[n].status = "defined" \/ globalTable[m].status # "defined"
  BY <1>1 DEF Set, Error, history, TypeOK
<1>2. CASE ~(globalTable[n].status = "defined" \/ globalTable[m].status # "defined")
  <2> DEFINE s == [globalTable[n] EXCEPT !.segment = globalTable[m].segment,
                                         !.value = globalTable[m].value]
  <2>1. globalTable[n] \in GlobalSymbol /\ globalTable[m] \in GlobalSymbol
    BY DEF TypeOK
  <2>2. s \in GlobalSymbol /\ s.status = globalTable[n].status /\ s.fixups = globalTable[n].fixups
    BY <2>1 DEF GlobalSymbol, Symbol
  <2>3. globalTable' = [globalTable EXCEPT ![n] = s]
    <3>1. globalTable' = [globalTable EXCEPT ![n].segment = globalTable[m].segment,
                                             ![n].value = globalTable[m].value]
      BY <1>2 DEF Set
    <3> QED
      BY <3>1, <2>1 DEF TypeOK, GlobalSymbol, Symbol
  <2> HIDE DEF s
  <2>4. localTable' = localTable /\ pc' = pc
        /\ UNCHANGED <<file, currSeg, segPtr, fixupList, object, used, labels, declared>>
    BY <1>2 DEF Set, history
  <2> QED
    BY <1>2, <2>2, <2>3, <2>4 DEF TypeOK
<1> QED
  BY <1>1, <1>2

\* linkLocals: what becomes of the tables at the end of a file.
LEMMA EndOfFileEffect ==
    ASSUME TypeOK, EndOfFile, ~LocalFixupsOnGlobal
    PROVE  /\ pc = "text"
           /\ localTable' = [n \in Name |-> Unknown] /\ localTable' \in [Name -> LocalSymbol]
           /\ globalTable' \in [Name -> GlobalSymbol]
           /\ \A n \in Name :
                 /\ SameButFixups(globalTable'[n], globalTable[n])
                 /\ localTable[n].status = "unknown" =>
                       globalTable'[n].fixups = globalTable[n].fixups \cup localTable[n].fixups
                 /\ localTable[n].status # "unknown" =>
                       globalTable'[n].fixups = globalTable[n].fixups
                 /\ localTable[n].status = "globref" => localTable[n].fixups = {}
           /\ fixupList' = fixupList \cup UNION {LinkedLocal(n) : n \in Name}
           /\ currSeg' = "CODE"
           /\ \/ file < Files /\ file' = file + 1 /\ pc' = "text"
              \/ file = Files /\ file' = file /\ pc' = "write"
           /\ UNCHANGED <<object, used, labels, declared>>
<1>1. /\ pc = "text"
      /\ localTable' = [n \in Name |-> Unknown]
      /\ globalTable' = [n \in Name |-> LinkedGlobal(n)]
      /\ fixupList' = fixupList \cup UNION {LinkedLocal(n) : n \in Name}
      /\ currSeg' = "CODE"
      /\ IF file < Files THEN file' = file + 1 /\ UNCHANGED pc ELSE pc' = "write" /\ UNCHANGED file
      /\ UNCHANGED <<object, used, labels, declared>>
  BY DEF EndOfFile, history
<1>2. Unknown \in LocalSymbol
  BY DEF Unknown, LocalSymbol, Symbol, Segment
<1>3. ASSUME NEW n \in Name
      PROVE  /\ LinkedGlobal(n) \in GlobalSymbol
             /\ SameButFixups(LinkedGlobal(n), globalTable[n])
             /\ localTable[n].status = "unknown" =>
                   LinkedGlobal(n).fixups = globalTable[n].fixups \cup localTable[n].fixups
             /\ localTable[n].status # "unknown" => LinkedGlobal(n).fixups = globalTable[n].fixups
  <2>1. localTable[n] \in LocalSymbol /\ globalTable[n] \in GlobalSymbol
    BY DEF TypeOK
  <2>2. CASE localTable[n].status = "unknown"
    <3> DEFINE s == [globalTable[n] EXCEPT !.fixups = @ \cup localTable[n].fixups]
    <3>1. LinkedGlobal(n) = s
      BY <2>2 DEF LinkedGlobal
    <3>2. s \in GlobalSymbol /\ SameButFixups(s, globalTable[n])
          /\ s.fixups = globalTable[n].fixups \cup localTable[n].fixups
      BY <2>1 DEF LocalSymbol, GlobalSymbol, Symbol, SameButFixups
    <3> QED
      BY <2>2, <3>1, <3>2
  <2>3. CASE localTable[n].status # "unknown"
    BY <2>1, <2>3 DEF LinkedGlobal, SameButFixups
  <2> QED
    BY <2>2, <2>3
<1>4. \A n \in Name : localTable[n].status = "globref" => localTable[n].fixups = {}
  BY DEF LocalFixupsOnGlobal, IsGlobRef
<1>5. file \in 1 .. Files /\ Files \in Nat
  BY AsmAssumption DEF TypeOK
<1>6. \A n \in Name : globalTable'[n] = LinkedGlobal(n)
  BY <1>1
<1>7. localTable' \in [Name -> LocalSymbol] /\ globalTable' \in [Name -> GlobalSymbol]
  BY <1>1, <1>2, <1>3
<1>8. \/ file < Files /\ file' = file + 1 /\ pc' = "text"
      \/ file = Files /\ file' = file /\ pc' = "write"
  BY <1>1, <1>5
<1> QED
  BY <1>1, <1>3, <1>4, <1>6, <1>7, <1>8

\* roundupSegments: up to the next multiple of 4.
LEMMA RoundedUp ==
    ASSUME NEW a \in Nat
    PROVE  Rounded(a) \in Nat /\ a <= Rounded(a) /\ Rounded(a) % 4 = 0
BY DEF Rounded

\* What the actions do to the section counters.
LEMMA SegPtrStep ==
    ASSUME TypeOK, [Next]_vars
    PROVE  /\ segPtr' \in [Segment -> Nat] /\ segPtr'["ABS"] = 0
           /\ \A s \in Segment : segPtr[s] <= segPtr'[s]
<1>0. /\ segPtr \in [Segment -> Nat] /\ segPtr["ABS"] = 0
      /\ currSeg \in Segment /\ currSeg # "ABS" /\ "ABS" \in Segment
  BY SegmentsEmit DEF TypeOK, Emitting
<1>1. ASSUME NEW k \in Nat, segPtr' = [segPtr EXCEPT ![currSeg] = @ + k]
      PROVE  /\ segPtr' \in [Segment -> Nat] /\ segPtr'["ABS"] = 0
             /\ \A s \in Segment : segPtr[s] <= segPtr'[s]
  BY <1>0, <1>1
<1>2. CASE UNCHANGED segPtr
  BY <1>0, <1>2
<1>3. ASSUME NEW n \in Name, NEW method \in Methods, NEW v \in Addend, Reference(n, method, v)
      PROVE  segPtr' = [segPtr EXCEPT ![currSeg] = @ + 4]
  BY <1>3 DEF Reference
<1>4. ASSUME NEW k \in Padding, Space(k)
      PROVE  k \in Nat /\ segPtr' = [segPtr EXCEPT ![currSeg] = @ + k]
  BY <1>4, AsmAssumption DEF Space
<1>5. CASE EndOfFile
  <2>1. segPtr' = [s \in Segment |-> Rounded(segPtr[s])]
    BY <1>5 DEF EndOfFile
  <2>2. Rounded(0) = 0
    BY DEF Rounded
  <2> QED
    BY <1>0, <2>1, <2>2, RoundedUp
<1>6. ASSUME NEW s \in Emitting, SetSegment(s) PROVE UNCHANGED segPtr
  BY <1>6 DEF SetSegment
<1>7. ASSUME NEW n \in Name, Label(n) \/ Export(n) \/ Import(n) PROVE UNCHANGED segPtr
  BY <1>7 DEF Label, Export, Import
<1>8. ASSUME NEW n \in Name, NEW m \in Name, Set(n, m) PROVE UNCHANGED segPtr
  BY <1>8 DEF Set
<1>9. CASE WriteObject \/ Terminating \/ UNCHANGED vars
  BY <1>2, <1>9 DEF WriteObject, Terminating, vars
<1> QED
  BY <1>1, <1>2, <1>3, <1>4, <1>5, <1>6, <1>7, <1>8, <1>9 DEF Next

LEMMA TypeStep == TypeOK /\ [Next]_vars => TypeOK'
<1> SUFFICES ASSUME TypeOK, [Next]_vars PROVE TypeOK'
  OBVIOUS
<1>0. segPtr' \in [Segment -> Nat] /\ segPtr'["ABS"] = 0
  BY SegPtrStep
<1>1. ASSUME NEW s \in Emitting, SetSegment(s) PROVE TypeOK'
  BY <1>0, <1>1 DEF TypeOK, SetSegment, tables, history
<1>2. ASSUME NEW n \in Name, Label(n) PROVE TypeOK'
  <2>1. CASE Deref(n).status # "unknown"
    BY <1>0, <1>2, <2>1 DEF TypeOK, Label, Error, tables, history
  <2>2. CASE Deref(n).status = "unknown"
    <3>1. localTable' \in [Name -> LocalSymbol] /\ globalTable' \in [Name -> GlobalSymbol]
      BY <1>2, <2>2, LabelEffect
    <3>2. /\ labels' = labels \cup {[file |-> file, name |-> n, segment |-> currSeg,
                                     value |-> segPtr[currSeg]]}
          /\ UNCHANGED <<pc, file, currSeg, used, declared>>
      BY <1>2, <2>2 DEF Label
    <3>3. labels' \subseteq TextLabel
      BY <3>2, SegmentsEmit DEF TypeOK, TextLabel
    <3> QED
      BY <1>0, <3>1, <3>2, <3>3 DEF TypeOK
  <2> QED
    BY <2>1, <2>2
<1>3. ASSUME NEW n \in Name, NEW method \in Methods, NEW v \in Addend, Reference(n, method, v)
      PROVE  TypeOK'
  <2> DEFINE f == [segment |-> currSeg, offset |-> segPtr[currSeg], method |-> method, value |-> v]
  <2>1. /\ f \in Fixup
        /\ localTable' \in [Name -> LocalSymbol] /\ globalTable' \in [Name -> GlobalSymbol]
    BY <1>3, ReferenceEffect
  <2>2. /\ used' = used \cup {[file |-> file, name |-> n, fixup |-> f]}
        /\ UNCHANGED <<pc, file, currSeg, labels, declared>>
    BY <1>3 DEF Reference
  <2> HIDE DEF f
  <2>3. used' \subseteq Use
    BY <2>1, <2>2 DEF TypeOK, Use
  <2> QED
    BY <1>0, <2>1, <2>2, <2>3 DEF TypeOK
<1>4. ASSUME NEW n \in Name, Export(n) PROVE TypeOK'
  <2>1. CASE globalTable[n].status # "unknown" \/ IsGlobRef(n)
    BY <1>0, <1>4, <2>1 DEF TypeOK, Export, Error, tables
  <2>2. CASE ~(globalTable[n].status # "unknown" \/ IsGlobRef(n))
    <3>1. PICK g \in GlobalSymbol :
             /\ MakeGlobal(n, g)
             /\ UNCHANGED <<pc, file, currSeg, segPtr, fixupList, object, used, labels>>
      BY <1>4, <2>2, ExportEffect
    <3>2. /\ localTable' \in [Name -> LocalSymbol] /\ globalTable' \in [Name -> GlobalSymbol]
          /\ declared' = declared \cup {<<file, n>>}
      BY <3>1, MakeGlobalEffect
    <3> QED
      BY <1>0, <3>1, <3>2 DEF TypeOK
  <2> QED
    BY <2>1, <2>2
<1>5. ASSUME NEW n \in Name, Import(n) PROVE TypeOK'
  <2>1. CASE localTable[n].status # "unknown"
    BY <1>0, <1>5, <2>1 DEF TypeOK, Import, Error, tables
  <2>2. CASE localTable[n].status = "unknown"
    <3>1. /\ globalTable[n] \in GlobalSymbol /\ MakeGlobal(n, globalTable[n])
          /\ UNCHANGED <<pc, file, currSeg, segPtr, fixupList, object, used, labels>>
      BY <1>5, <2>2, ImportEffect
    <3>2. /\ localTable' \in [Name -> LocalSymbol] /\ globalTable' \in [Name -> GlobalSymbol]
          /\ declared' = declared \cup {<<file, n>>}
      BY <3>1, MakeGlobalEffect
    <3> QED
      BY <1>0, <3>1, <3>2 DEF TypeOK
  <2> QED
    BY <2>1, <2>2
<1>6. ASSUME NEW n \in Name, NEW m \in Name, Set(n, m) PROVE TypeOK'
  BY <1>0, <1>6, SetEffect DEF TypeOK
<1>7. ASSUME NEW k \in Padding, Space(k) PROVE TypeOK'
  BY <1>0, <1>7 DEF TypeOK, Space, tables, history
<1>8. CASE EndOfFile
  <2>1. CASE LocalFixupsOnGlobal
    BY <1>0, <1>8, <2>1 DEF TypeOK, EndOfFile, Error, tables, history
  <2>2. CASE ~LocalFixupsOnGlobal
    <3>1. file \in 1 .. Files /\ Files \in Nat
      BY AsmAssumption DEF TypeOK
    <3>2. /\ localTable' \in [Name -> LocalSymbol] /\ globalTable' \in [Name -> GlobalSymbol]
          /\ currSeg' = "CODE"
          /\ \/ file < Files /\ file' = file + 1 /\ pc' = "text"
             \/ file = Files /\ file' = file /\ pc' = "write"
          /\ UNCHANGED <<object, used, labels, declared>>
      BY <1>8, <2>2, EndOfFileEffect
    <3>3. file' \in 1 .. Files /\ pc' \in {"text", "write", "done", "error"} /\ currSeg' \in Emitting
      BY <3>1, <3>2 DEF Emitting
    <3> QED
      BY <1>0, <3>2, <3>3 DEF TypeOK
  <2> QED
    BY <2>1, <2>2
<1>9. CASE WriteObject
  <2>1. /\ pc' \in {"done", "error"}
        /\ globalTable' = [n \in Name |-> [globalTable[n] EXCEPT !.fixups = {}]]
        /\ UNCHANGED <<file, currSeg, segPtr, localTable, used, labels, declared>>
    BY <1>9 DEF WriteObject, Error, history
  <2>2. ASSUME NEW n \in Name PROVE [globalTable[n] EXCEPT !.fixups = {}] \in GlobalSymbol
    BY DEF TypeOK, GlobalSymbol, Symbol
  <2> QED
    BY <1>0, <2>1, <2>2 DEF TypeOK
<1>10. CASE Terminating \/ UNCHANGED vars
  BY <1>10 DEF TypeOK, Terminating, vars, tables, history
<1> QED
  BY <1>1, <1>2, <1>3, <1>4, <1>5, <1>6, <1>7, <1>8, <1>9, <1>10 DEF Next

\* The type invariant holds in every state.
LEMMA AsmTypeCorrect == Spec => []TypeOK
<1>1. Init => TypeOK
  <2> SUFFICES ASSUME Init PROVE TypeOK
    OBVIOUS
  <2>1. Unknown \in LocalSymbol /\ Unknown \in GlobalSymbol
    BY DEF Unknown, LocalSymbol, GlobalSymbol, Symbol, Segment
  <2>2. 1 \in 1 .. Files
    BY AsmAssumption
  <2> QED
    BY <2>1, <2>2 DEF Init, TypeOK, Emitting, Segment
<1> QED
  BY <1>1, TypeStep, PTL DEF Spec

---------------------------------------------------------------------------
(* No reference is lost or doubled *)

AtPlace(x, f) == x.segment = f.segment /\ x.offset = f.offset

\* Each use has bytes of its own, behind those of the uses before it.
PlacesApart ==
    /\ \A u \in used : u.fixup.offset + 4 <= segPtr[u.fixup.segment]
    /\ \A u, v \in used : AtPlace(u.fixup, v.fixup) => u = v

\* Whatever a table or the fixup list holds is a use in the text.
HeldAreUses ==
    /\ \A n \in Name : \A f \in localTable[n].fixups :
          [file |-> file, name |-> n, fixup |-> f] \in used
    /\ \A n \in Name : \A f \in globalTable[n].fixups :
          \E u \in used : u.name = n /\ u.fixup = f
    /\ \A r \in fixupList : \E u \in used : AtPlace(r, u.fixup)

InLocal(u) == u.file = file /\ u.fixup \in localTable[u.name].fixups
InGlobal(u) == u.fixup \in globalTable[u.name].fixups
InList(u) == \E r \in fixupList : AtPlace(r, u.fixup)

\* And each use is held, in one of the three, once.
HeldInOnePlace ==
    /\ \A u \in used : InLocal(u) \/ InGlobal(u) \/ InList(u)
    /\ \A u \in used : ~(InLocal(u) /\ InGlobal(u))
    /\ \A u \in used : ~(InLocal(u) /\ InList(u)) /\ ~(InGlobal(u) /\ InList(u))
    /\ \A q, r \in fixupList : AtPlace(q, r) => q = r

Held == PlacesApart /\ HeldAreUses /\ HeldInOnePlace

\* A use that is held by a symbol is held by the symbol of its own name.
LEMMA HeldByItsName ==
    ASSUME Held, NEW n \in Name, NEW u \in used
    PROVE  /\ u.fixup \in localTable[n].fixups => n = u.name /\ InLocal(u)
           /\ u.fixup \in globalTable[n].fixups => n = u.name /\ InGlobal(u)
<1>1. \A v \in used : v.fixup = u.fixup => v = u
  BY DEF Held, PlacesApart, AtPlace
<1>2. u.fixup \in localTable[n].fixups => n = u.name /\ InLocal(u)
  <2> SUFFICES ASSUME u.fixup \in localTable[n].fixups PROVE n = u.name /\ InLocal(u)
    OBVIOUS
  <2> DEFINE v == [file |-> file, name |-> n, fixup |-> u.fixup]
  <2>1. v \in used
    BY DEF Held, HeldAreUses
  <2>2. v = u
    BY <1>1, <2>1
  <2> QED
    BY <2>2 DEF InLocal
<1>3. u.fixup \in globalTable[n].fixups => n = u.name /\ InGlobal(u)
  BY <1>1 DEF Held, HeldAreUses, InGlobal
<1> QED
  BY <1>2, <1>3

\* Whatever leaves uses, fixups and list alone keeps them held.
LEMMA HeldKept ==
    ASSUME TypeOK, Held, [Next]_vars,
           used' = used, file' = file, fixupList' = fixupList, \A m \in Name : SameFixups(m)
    PROVE  Held'
<1>1. \A s \in Segment : segPtr[s] <= segPtr'[s] /\ segPtr[s] \in Nat /\ segPtr'[s] \in Nat
  BY SegPtrStep DEF TypeOK
<1>2. \A u \in used : u.name \in Name /\ u.fixup.segment \in Segment /\ u.fixup.offset \in Nat
  BY SegmentsEmit DEF TypeOK, Use, Fixup
<1>3. PlacesApart'
  BY <1>1, <1>2 DEF Held, PlacesApart
<1>4. HeldAreUses'
  BY DEF Held, HeldAreUses, SameFixups
<1>5. HeldInOnePlace'
  BY <1>2 DEF Held, HeldInOnePlace, InLocal, InGlobal, InList, SameFixups
<1> QED
  BY <1>3, <1>4, <1>5 DEF Held

\* parsePrimaryExpression and addFixup hold one use more.
LEMMA HeldReference ==
    ASSUME TypeOK, Held, [Next]_vars,
           NEW n \in Name, NEW method \in Methods, NEW v \in Addend, Reference(n, method, v)
    PROVE  Held'
<1>a. PICK f : f = [segment |-> currSeg, offset |-> segPtr[currSeg],
                    method |-> method, value |-> v]
  OBVIOUS
<1>b. PICK w : w = [file |-> file, name |-> n, fixup |-> f]
  OBVIOUS
<1>1. /\ f \in Fixup
      /\ \A m \in Name : m # n => SameFixups(m)
      /\ IsGlobRef(n) => /\ localTable'[n].fixups = localTable[n].fixups
                         /\ globalTable'[n].fixups = globalTable[n].fixups \cup {f}
      /\ ~IsGlobRef(n) => /\ localTable'[n].fixups = localTable[n].fixups \cup {f}
                          /\ globalTable'[n].fixups = globalTable[n].fixups
  BY <1>a, ReferenceEffect
<1>2. /\ used' = used \cup {w} /\ file' = file /\ fixupList' = fixupList
      /\ segPtr' = [segPtr EXCEPT ![currSeg] = @ + 4]
  BY <1>a, <1>b DEF Reference
<1>3. f.segment = currSeg /\ f.offset = segPtr[currSeg] /\ currSeg \in Segment
      /\ segPtr[currSeg] \in Nat /\ segPtr'[currSeg] = segPtr[currSeg] + 4
  BY <1>a, <1>2, SegmentsEmit DEF TypeOK
<1>4. w.file = file /\ w.name = n /\ w.fixup = f
  BY <1>b
<1>5. \A u \in used : u.name \in Name /\ u.fixup.segment \in Segment /\ u.fixup.offset \in Nat
  BY SegmentsEmit DEF TypeOK, Use, Fixup
<1>6. \A s \in Segment : segPtr[s] <= segPtr'[s] /\ segPtr[s] \in Nat /\ segPtr'[s] \in Nat
  BY SegPtrStep DEF TypeOK
<1>7. ASSUME NEW u \in used PROVE ~AtPlace(u.fixup, f) /\ ~AtPlace(f, u.fixup)
  <2>1. u.fixup.offset + 4 <= segPtr[u.fixup.segment]
    BY DEF Held, PlacesApart
  <2> QED
    BY <1>3, <1>5, <2>1 DEF AtPlace
<1>8. PlacesApart'
  <2>1. ASSUME NEW u \in used' PROVE u.fixup.offset + 4 <= segPtr'[u.fixup.segment]
    <3>1. CASE u \in used
      <4>1. u.fixup.offset + 4 <= segPtr[u.fixup.segment]
        BY <3>1 DEF Held, PlacesApart
      <4> QED
        BY <1>5, <1>6, <3>1, <4>1
    <3>2. CASE u = w
      BY <1>3, <1>4, <3>2
    <3> QED
      BY <1>2, <3>1, <3>2
  <2>2. \A u, x \in used' : AtPlace(u.fixup, x.fixup) => u = x
    BY <1>2, <1>4, <1>7 DEF Held, PlacesApart
  <2> QED
    BY <2>1, <2>2 DEF PlacesApart
<1>9. /\ \A m \in Name : f \notin localTable[m].fixups /\ f \notin globalTable[m].fixups
      /\ \A r \in fixupList : ~AtPlace(r, f)
  <2>1. ASSUME NEW m \in Name PROVE f \notin localTable[m].fixups
    <3> SUFFICES ASSUME f \in localTable[m].fixups PROVE FALSE
      OBVIOUS
    <3> DEFINE u == [file |-> file, name |-> m, fixup |-> f]
    <3>1. u \in used /\ u.fixup = f
      BY DEF Held, HeldAreUses
    <3> HIDE DEF u
    <3> QED
      BY <1>7, <3>1 DEF AtPlace
  <2>2. ASSUME NEW m \in Name PROVE f \notin globalTable[m].fixups
    BY <1>7 DEF Held, HeldAreUses, AtPlace
  <2>3. ASSUME NEW r \in fixupList PROVE ~AtPlace(r, f)
    BY <1>7 DEF Held, HeldAreUses, AtPlace
  <2> QED
    BY <2>1, <2>2, <2>3
<1>10. HeldAreUses'
  <2>1. ASSUME NEW m \in Name, NEW g \in localTable'[m].fixups
        PROVE  [file |-> file, name |-> m, fixup |-> g] \in used'
    <3>1. CASE g \in localTable[m].fixups
      <4>1. [file |-> file, name |-> m, fixup |-> g] \in used
        BY <3>1 DEF Held, HeldAreUses
      <4> QED
        BY <1>2, <4>1
    <3>2. CASE g \notin localTable[m].fixups
      <4>1. m = n /\ g = f
        BY <1>1, <2>1, <3>2 DEF SameFixups
      <4> QED
        BY <1>b, <1>2, <4>1
    <3> QED
      BY <3>1, <3>2
  <2>2. ASSUME NEW m \in Name, NEW g \in globalTable'[m].fixups
        PROVE  \E u \in used' : u.name = m /\ u.fixup = g
    <3>1. CASE g \in globalTable[m].fixups
      BY <1>2, <3>1 DEF Held, HeldAreUses
    <3>2. CASE g \notin globalTable[m].fixups
      <4>1. m = n /\ g = f
        BY <1>1, <2>2, <3>2 DEF SameFixups
      <4> QED
        BY <1>2, <1>4, <4>1
    <3> QED
      BY <3>1, <3>2
  <2>3. \A r \in fixupList' : \E u \in used' : AtPlace(r, u.fixup)
    BY <1>2 DEF Held, HeldAreUses
  <2> QED
    BY <1>2, <2>1, <2>2, <2>3 DEF HeldAreUses
<1>11. ASSUME NEW u \in used PROVE (InLocal(u)' <=> InLocal(u)) /\ (InGlobal(u)' <=> InGlobal(u))
  <2>1. u.fixup # f /\ u.name \in Name
    BY <1>5, <1>7 DEF AtPlace
  <2> QED
    BY <1>1, <1>2, <2>1 DEF InLocal, InGlobal, SameFixups
<1>12. HeldInOnePlace'
  <2>1. \A u \in used' : InList(u)' <=> InList(u)
    BY <1>2 DEF InList
  <2>2. ~InList(w)
    BY <1>4, <1>9 DEF InList
  <2>3. (InLocal(w)' <=> ~IsGlobRef(n)) /\ (InGlobal(w)' <=> IsGlobRef(n))
    BY <1>1, <1>2, <1>4, <1>9 DEF InLocal, InGlobal
  <2>4. ASSUME NEW u \in used'
        PROVE  /\ InLocal(u)' \/ InGlobal(u)' \/ InList(u)'
               /\ ~(InLocal(u)' /\ InGlobal(u)')
               /\ ~(InLocal(u)' /\ InList(u)') /\ ~(InGlobal(u)' /\ InList(u)')
    <3>1. CASE u \in used
      BY <1>11, <2>1, <3>1 DEF Held, HeldInOnePlace
    <3>2. CASE u = w
      BY <2>1, <2>2, <2>3, <3>2
    <3> QED
      BY <1>2, <3>1, <3>2
  <2>5. \A q, r \in fixupList' : AtPlace(q, r) => q = r
    BY <1>2 DEF Held, HeldInOnePlace
  <2> QED
    BY <2>4, <2>5 DEF HeldInOnePlace
<1> QED
  BY <1>8, <1>10, <1>12 DEF Held

\* dotExport and dotImport move the uses of n from its local to its global symbol.
LEMMA HeldMakeGlobal ==
    ASSUME TypeOK, Held, [Next]_vars,
           NEW n \in Name, NEW g \in GlobalSymbol, MakeGlobal(n, g), g.fixups = globalTable[n].fixups,
           used' = used, file' = file, fixupList' = fixupList
    PROVE  Held'
<1>1. /\ localTable'[n].fixups = {}
      /\ globalTable'[n].fixups = globalTable[n].fixups \cup localTable[n].fixups
      /\ \A m \in Name : m # n =>
            localTable'[m] = localTable[m] /\ globalTable'[m] = globalTable[m]
  BY MakeGlobalEffect
<1>2. \A u \in used : u.name \in Name /\ u.fixup.segment \in Segment /\ u.fixup.offset \in Nat
  BY SegmentsEmit DEF TypeOK, Use, Fixup
<1>3. \A s \in Segment : segPtr[s] <= segPtr'[s] /\ segPtr[s] \in Nat /\ segPtr'[s] \in Nat
  BY SegPtrStep DEF TypeOK
<1>4. PlacesApart'
  BY <1>2, <1>3 DEF Held, PlacesApart
<1>5. ASSUME NEW m \in Name, NEW f \in globalTable'[m].fixups
      PROVE  \E u \in used : u.name = m /\ u.fixup = f
  <2>1. CASE f \in globalTable[m].fixups
    BY <2>1 DEF Held, HeldAreUses
  <2>2. CASE f \notin globalTable[m].fixups
    <3>1. m = n /\ f \in localTable[n].fixups
      BY <1>1, <1>5, <2>2
    <3>2. [file |-> file, name |-> n, fixup |-> f] \in used
      BY <3>1 DEF Held, HeldAreUses
    <3> QED
      BY <3>1, <3>2
  <2> QED
    BY <2>1, <2>2
<1>6. ASSUME NEW m \in Name, NEW f \in localTable'[m].fixups
      PROVE  [file |-> file, name |-> m, fixup |-> f] \in used
  <2>1. m # n /\ f \in localTable[m].fixups
    BY <1>1, <1>6
  <2> QED
    BY <2>1 DEF Held, HeldAreUses
<1>7. HeldAreUses'
  BY <1>5, <1>6 DEF Held, HeldAreUses
<1>8. ASSUME NEW u \in used
      PROVE  /\ InLocal(u)' <=> InLocal(u) /\ u.name # n
             /\ InGlobal(u)' <=> InGlobal(u) \/ (InLocal(u) /\ u.name = n)
             /\ InList(u)' <=> InList(u)
  <2>1. u.fixup \in localTable[n].fixups => n = u.name /\ InLocal(u)
    BY HeldByItsName
  <2>2. u.name \in Name
    BY <1>2
  <2> QED
    BY <1>1, <2>1, <2>2 DEF InLocal, InGlobal, InList
<1>9. HeldInOnePlace'
  BY <1>8 DEF Held, HeldInOnePlace
<1> QED
  BY <1>4, <1>7, <1>9 DEF Held

\* Records of uses that were not in the list go to the list.
LEMMA HeldListed ==
    ASSUME Held, NEW R, used' = used, fixupList' = fixupList \cup R,
           \A r \in R : \E u \in used : AtPlace(r, u.fixup) /\ ~InList(u),
           \A q, r \in R : AtPlace(q, r) => q = r
    PROVE  /\ \A r \in fixupList' : \E u \in used' : AtPlace(r, u.fixup)
           /\ \A q, r \in fixupList' : AtPlace(q, r) => q = r
           /\ \A u \in used : InList(u)' <=> InList(u) \/ \E r \in R : AtPlace(r, u.fixup)
<1>1. \A r \in fixupList' : \E u \in used' : AtPlace(r, u.fixup)
  BY DEF Held, HeldAreUses
<1>2. ASSUME NEW q \in fixupList, NEW r \in R PROVE ~AtPlace(q, r) /\ ~AtPlace(r, q)
  <2>1. PICK u \in used : AtPlace(r, u.fixup) /\ ~InList(u)
    OBVIOUS
  <2> QED
    BY <2>1 DEF InList, AtPlace
<1>3. \A q, r \in fixupList' : AtPlace(q, r) => q = r
  BY <1>2 DEF Held, HeldInOnePlace
<1>4. \A u \in used : InList(u)' <=> InList(u) \/ \E r \in R : AtPlace(r, u.fixup)
  BY DEF InList
<1> QED
  BY <1>1, <1>3, <1>4

\* The records that linkSymbol makes are of the uses of symbols defined in the file.
LEMMA LinkedLocalRecords ==
    ASSUME TypeOK, Held, NEW r \in UNION {LinkedLocal(n) : n \in Name}
    PROVE  \E u \in used :
              /\ InLocal(u) /\ localTable[u.name].status = "defined" /\ AtPlace(r, u.fixup)
              /\ r = Relocation(u.fixup, SegBase(localTable[u.name].segment),
                                u.fixup.value + localTable[u.name].value)
<1>1. PICK n \in Name : r \in LinkedLocal(n)
  OBVIOUS
<1>2. localTable[n].status = "defined"
  BY <1>1 DEF LinkedLocal
<1>3. PICK f \in localTable[n].fixups :
         r = Relocation(f, SegBase(localTable[n].segment), f.value + localTable[n].value)
  BY <1>1, <1>2 DEF LinkedLocal
<1>4. PICK u : u = [file |-> file, name |-> n, fixup |-> f]
  OBVIOUS
<1>5. u \in used /\ u.name = n /\ u.fixup = f /\ u.file = file
  BY <1>3, <1>4 DEF Held, HeldAreUses
<1>6. AtPlace(r, f)
  BY <1>3 DEF Relocation, AtPlace
<1> QED
  BY <1>2, <1>3, <1>5, <1>6 DEF InLocal

\* linkLocals moves each use of a local symbol to the list or to a global symbol.
LEMMA HeldEndOfFile ==
    ASSUME TypeOK, Held, [Next]_vars, EndOfFile, ~LocalFixupsOnGlobal
    PROVE  Held'
<1> DEFINE R == UNION {LinkedLocal(n) : n \in Name}
<1>1. /\ \A n \in Name : localTable'[n].fixups = {}
      /\ \A n \in Name :
            /\ localTable[n].status = "unknown" =>
                  globalTable'[n].fixups = globalTable[n].fixups \cup localTable[n].fixups
            /\ localTable[n].status # "unknown" =>
                  globalTable'[n].fixups = globalTable[n].fixups
            /\ localTable[n].status = "globref" => localTable[n].fixups = {}
      /\ fixupList' = fixupList \cup R
      /\ used' = used
  BY EndOfFileEffect DEF Unknown
<1>2. \A u \in used : u.name \in Name /\ u.fixup.segment \in Segment /\ u.fixup.offset \in Nat
  BY SegmentsEmit DEF TypeOK, Use, Fixup
<1>3. \A s \in Segment : segPtr[s] <= segPtr'[s] /\ segPtr[s] \in Nat /\ segPtr'[s] \in Nat
  BY SegPtrStep DEF TypeOK
<1>4. PlacesApart'
  BY <1>1, <1>2, <1>3 DEF Held, PlacesApart
<1>5. \A r \in R : \E u \in used :
         /\ InLocal(u) /\ localTable[u.name].status = "defined" /\ AtPlace(r, u.fixup)
         /\ r = Relocation(u.fixup, SegBase(localTable[u.name].segment),
                           u.fixup.value + localTable[u.name].value)
  BY LinkedLocalRecords
<1>6. ASSUME NEW u \in used, InLocal(u), localTable[u.name].status = "defined"
      PROVE  \E r \in R : AtPlace(r, u.fixup)
  <2> DEFINE r == Relocation(u.fixup, SegBase(localTable[u.name].segment),
                             u.fixup.value + localTable[u.name].value)
  <2>1. u.name \in Name
    BY <1>2
  <2>2. r \in LinkedLocal(u.name)
    BY <1>6 DEF LinkedLocal, InLocal
  <2>3. AtPlace(r, u.fixup)
    BY DEF Relocation, AtPlace
  <2> QED
    BY <2>1, <2>2, <2>3
<1> HIDE DEF R
<1>7. \A u, v \in used : AtPlace(u.fixup, v.fixup) => u = v
  BY DEF Held, PlacesApart
<1>8. ASSUME NEW u \in used, NEW r \in R, AtPlace(r, u.fixup)
      PROVE  InLocal(u) /\ localTable[u.name].status = "defined"
  <2>1. PICK v \in used :
           InLocal(v) /\ localTable[v.name].status = "defined" /\ AtPlace(r, v.fixup)
    BY <1>5
  <2>2. u = v
    BY <1>7, <1>8, <2>1 DEF AtPlace
  <2> QED
    BY <2>1, <2>2
<1>9. \A r \in R : \E u \in used : AtPlace(r, u.fixup) /\ ~InList(u)
  BY <1>5 DEF Held, HeldInOnePlace
<1>10. ASSUME NEW q \in R, NEW r \in R, AtPlace(q, r) PROVE q = r
  <2>1. PICK u \in used :
           /\ AtPlace(q, u.fixup)
           /\ q = Relocation(u.fixup, SegBase(localTable[u.name].segment),
                             u.fixup.value + localTable[u.name].value)
    BY <1>5
  <2>2. PICK v \in used :
           /\ AtPlace(r, v.fixup)
           /\ r = Relocation(v.fixup, SegBase(localTable[v.name].segment),
                             v.fixup.value + localTable[v.name].value)
    BY <1>5
  <2>3. u = v
    BY <1>7, <1>10, <2>1, <2>2 DEF AtPlace
  <2> QED
    BY <2>1, <2>2, <2>3
<1>11. /\ \A r \in fixupList' : \E u \in used' : AtPlace(r, u.fixup)
       /\ \A q, r \in fixupList' : AtPlace(q, r) => q = r
       /\ \A u \in used : InList(u)' <=> InList(u) \/ \E r \in R : AtPlace(r, u.fixup)
  BY <1>1, <1>9, <1>10, HeldListed
<1>12. ASSUME NEW n \in Name, NEW f \in globalTable'[n].fixups
       PROVE  \E u \in used : u.name = n /\ u.fixup = f
  <2>1. CASE f \in globalTable[n].fixups
    BY <2>1 DEF Held, HeldAreUses
  <2>2. CASE f \notin globalTable[n].fixups
    <3>1. f \in localTable[n].fixups
      BY <1>1, <1>12, <2>2
    <3>2. [file |-> file, name |-> n, fixup |-> f] \in used
      BY <3>1 DEF Held, HeldAreUses
    <3> QED
      BY <3>2
  <2> QED
    BY <2>1, <2>2
<1>13. HeldAreUses'
  BY <1>1, <1>11, <1>12 DEF HeldAreUses
<1>14. ASSUME NEW u \in used
       PROVE  /\ ~InLocal(u)'
              /\ InGlobal(u)' <=> InGlobal(u) \/ (InLocal(u) /\ localTable[u.name].status = "unknown")
              /\ InList(u)' <=> InList(u) \/ (InLocal(u) /\ localTable[u.name].status = "defined")
              /\ InLocal(u) => localTable[u.name].status \in {"unknown", "defined"}
  <2>1. u.name \in Name
    BY <1>2
  <2>2. u.fixup \in localTable[u.name].fixups => InLocal(u)
    BY <2>1, HeldByItsName
  <2>3. localTable[u.name].status \in {"unknown", "defined", "globref"}
    BY <2>1 DEF TypeOK, LocalSymbol, Symbol
  <2>4. InList(u)' <=> InList(u) \/ (InLocal(u) /\ localTable[u.name].status = "defined")
    BY <1>6, <1>8, <1>11
  <2>5. ~InLocal(u)'
    BY <1>1, <2>1 DEF InLocal
  <2>6. InGlobal(u)' <=> InGlobal(u) \/ (InLocal(u) /\ localTable[u.name].status = "unknown")
    BY <1>1, <2>1, <2>2, <2>3 DEF InLocal, InGlobal
  <2>7. InLocal(u) => localTable[u.name].status \in {"unknown", "defined"}
    BY <1>1, <2>1, <2>3 DEF InLocal
  <2> QED
    BY <2>4, <2>5, <2>6, <2>7
<1>15. HeldInOnePlace'
  <2>1. ASSUME NEW u \in used
        PROVE  /\ InLocal(u)' \/ InGlobal(u)' \/ InList(u)'
               /\ ~(InLocal(u)' /\ InGlobal(u)')
               /\ ~(InLocal(u)' /\ InList(u)') /\ ~(InGlobal(u)' /\ InList(u)')
    BY <1>14 DEF Held, HeldInOnePlace
  <2> QED
    BY <1>1, <1>11, <2>1 DEF HeldInOnePlace
<1> QED
  BY <1>4, <1>13, <1>15 DEF Held

\* The records that transferFixupsForSymbol makes are of the uses of global symbols.
LEMMA TransferredRecords ==
    ASSUME Held, NEW r \in Transferred
    PROVE  \E u \in used :
              /\ u.name \in Name /\ InGlobal(u) /\ AtPlace(r, u.fixup)
              /\ r = Relocation(u.fixup, [kind |-> "index", index |-> SymbolNumber(u.name)],
                                u.fixup.value)
<1>0. PICK n \in Name :
         \E f \in globalTable[n].fixups :
            r = Relocation(f, [kind |-> "index", index |-> SymbolNumber(n)], f.value)
  BY DEF Transferred
<1>1. PICK f \in globalTable[n].fixups :
         r = Relocation(f, [kind |-> "index", index |-> SymbolNumber(n)], f.value)
  BY <1>0
<1>2. PICK u \in used : u.name = n /\ u.fixup = f
  BY DEF Held, HeldAreUses
<1>3. AtPlace(r, f)
  BY <1>1 DEF Relocation, AtPlace
<1> QED
  BY <1>1, <1>2, <1>3 DEF InGlobal

\* And there is one of each.
LEMMA TransferredHas ==
    ASSUME NEW u, u.name \in Name, InGlobal(u)
    PROVE  Relocation(u.fixup, [kind |-> "index", index |-> SymbolNumber(u.name)], u.fixup.value)
              \in Transferred
BY DEF Transferred, InGlobal

\* transferFixups moves each use of a global symbol to the list.
LEMMA HeldWriteObject ==
    ASSUME TypeOK, Held, [Next]_vars, WriteObject
    PROVE  Held'
<1>1. /\ localTable' = localTable /\ file' = file /\ used' = used /\ segPtr' = segPtr
      /\ globalTable' = [n \in Name |-> [globalTable[n] EXCEPT !.fixups = {}]]
      /\ fixupList' = fixupList \cup Transferred
  BY DEF WriteObject, history
<1>2. \A u \in used : u.name \in Name
  BY DEF TypeOK, Use
<1>3. \A n \in Name : globalTable'[n].fixups = {}
  BY <1>1 DEF TypeOK, GlobalSymbol, Symbol
<1>4. PlacesApart'
  BY <1>1 DEF Held, PlacesApart
<1>5. \A u, v \in used : AtPlace(u.fixup, v.fixup) => u = v
  BY DEF Held, PlacesApart
<1>6. \A r \in Transferred : \E u \in used : AtPlace(r, u.fixup) /\ ~InList(u)
  BY TransferredRecords DEF Held, HeldInOnePlace
<1>7. ASSUME NEW q \in Transferred, NEW r \in Transferred, AtPlace(q, r) PROVE q = r
  <2>1. PICK u \in used :
           /\ AtPlace(q, u.fixup)
           /\ q = Relocation(u.fixup, [kind |-> "index", index |-> SymbolNumber(u.name)],
                             u.fixup.value)
    BY TransferredRecords
  <2>2. PICK v \in used :
           /\ AtPlace(r, v.fixup)
           /\ r = Relocation(v.fixup, [kind |-> "index", index |-> SymbolNumber(v.name)],
                             v.fixup.value)
    BY TransferredRecords
  <2>3. u = v
    BY <1>5, <1>7, <2>1, <2>2 DEF AtPlace
  <2> QED
    BY <2>1, <2>2, <2>3
<1>8. /\ \A r \in fixupList' : \E u \in used' : AtPlace(r, u.fixup)
      /\ \A q, r \in fixupList' : AtPlace(q, r) => q = r
      /\ \A u \in used : InList(u)' <=> InList(u) \/ \E r \in Transferred : AtPlace(r, u.fixup)
  BY <1>1, <1>6, <1>7, HeldListed
<1>9. HeldAreUses'
  BY <1>1, <1>3, <1>8 DEF Held, HeldAreUses
<1>10. ASSUME NEW u \in used
       PROVE  ~InGlobal(u)' /\ (InLocal(u)' <=> InLocal(u)) /\ (InList(u)' <=> InList(u) \/ InGlobal(u))
  <2>1. ~InGlobal(u)' /\ (InLocal(u)' <=> InLocal(u))
    BY <1>1, <1>2, <1>3 DEF InGlobal, InLocal
  <2>2. ASSUME InGlobal(u) PROVE \E r \in Transferred : AtPlace(r, u.fixup)
    <3>1. Relocation(u.fixup, [kind |-> "index", index |-> SymbolNumber(u.name)], u.fixup.value)
             \in Transferred
      BY <1>2, <2>2, TransferredHas
    <3> QED
      BY <3>1 DEF Relocation, AtPlace
  <2>3. ASSUME NEW r \in Transferred, AtPlace(r, u.fixup) PROVE InGlobal(u)
    <3>1. PICK v \in used : InGlobal(v) /\ AtPlace(r, v.fixup)
      BY TransferredRecords
    <3>2. u = v
      BY <1>5, <2>3, <3>1 DEF AtPlace
    <3> QED
      BY <3>1, <3>2
  <2> QED
    BY <1>8, <2>1, <2>2, <2>3
<1>11. HeldInOnePlace'
  BY <1>1, <1>8, <1>10 DEF Held, HeldInOnePlace
<1> QED
  BY <1>4, <1>9, <1>11 DEF Held

LEMMA HeldStep == TypeOK /\ Held /\ [Next]_vars => Held'
<1> SUFFICES ASSUME TypeOK, Held, [Next]_vars PROVE Held'
  OBVIOUS
<1>1. ASSUME UNCHANGED <<file, localTable, globalTable, fixupList, used>> PROVE Held'
  BY <1>1, HeldKept DEF SameFixups
<1>2. ASSUME NEW s \in Emitting, SetSegment(s) PROVE Held'
  BY <1>1, <1>2 DEF SetSegment, tables, history
<1>3. ASSUME NEW n \in Name, Label(n) PROVE Held'
  <2>1. CASE Deref(n).status # "unknown"
    BY <1>1, <1>3, <2>1 DEF Label, tables, history
  <2>2. CASE Deref(n).status = "unknown"
    <3>1. \A m \in Name : SameFixups(m)
      BY <1>3, <2>2, LabelEffect
    <3>2. used' = used /\ file' = file /\ fixupList' = fixupList
      BY <1>3, <2>2 DEF Label
    <3> QED
      BY <3>1, <3>2, HeldKept
  <2> QED
    BY <2>1, <2>2
<1>4. ASSUME NEW n \in Name, NEW method \in Methods, NEW v \in Addend, Reference(n, method, v)
      PROVE  Held'
  BY <1>4, HeldReference
<1>5. ASSUME NEW n \in Name, Export(n) PROVE Held'
  <2>1. CASE globalTable[n].status # "unknown" \/ IsGlobRef(n)
    BY <1>1, <1>5, <2>1 DEF Export, tables
  <2>2. CASE ~(globalTable[n].status # "unknown" \/ IsGlobRef(n))
    BY <1>5, <2>2, ExportEffect, HeldMakeGlobal
  <2> QED
    BY <2>1, <2>2
<1>6. ASSUME NEW n \in Name, Import(n) PROVE Held'
  <2>1. CASE localTable[n].status # "unknown"
    BY <1>1, <1>6, <2>1 DEF Import, tables
  <2>2. CASE localTable[n].status = "unknown"
    BY <1>6, <2>2, ImportEffect, HeldMakeGlobal
  <2> QED
    BY <2>1, <2>2
<1>7. ASSUME NEW n \in Name, NEW m \in Name, Set(n, m) PROVE Held'
  BY <1>7, SetEffect, HeldKept DEF SameFixups
<1>8. ASSUME NEW k \in Padding, Space(k) PROVE Held'
  BY <1>1, <1>8 DEF Space, tables, history
<1>9. CASE EndOfFile
  <2>1. CASE LocalFixupsOnGlobal
    BY <1>1, <1>9, <2>1 DEF EndOfFile, tables, history
  <2> QED
    BY <1>9, <2>1, HeldEndOfFile
<1>10. CASE WriteObject
  BY <1>10, HeldWriteObject
<1>11. CASE Terminating \/ UNCHANGED vars
  BY <1>1, <1>11 DEF Terminating, vars, tables, history
<1> QED
  BY <1>2, <1>3, <1>4, <1>5, <1>6, <1>7, <1>8, <1>9, <1>10, <1>11 DEF Next

LEMMA HeldInvariant == Spec => [](TypeOK /\ Held)
<1>1. Init => Held
  BY DEF Init, Held, PlacesApart, HeldAreUses, HeldInOnePlace, Unknown
<1> QED
  BY <1>1, HeldStep, AsmTypeCorrect, PTL DEF Spec

(***************************************************************************)
(* addFixup, dotExport, dotImport, linkLocals, transferFixups (as.c): for  *)
(* every text over any number of files, each reference is held once.       *)
(***************************************************************************)
THEOREM ReferencesHeldOnce == Spec => []UsesHeldOnce
<1>1. TypeOK /\ Held => UsesHeldOnce
  <2> SUFFICES ASSUME TypeOK, Held, NEW u \in used
               PROVE  Cardinality({n \in Name : u.fixup \in localTable[n].fixups})
                      + Cardinality({n \in Name : u.fixup \in globalTable[n].fixups})
                      + Cardinality({r \in fixupList : r.segment = u.fixup.segment
                                                       /\ r.offset = u.fixup.offset}) = 1
    BY DEF UsesHeldOnce
  <2> DEFINE L == {n \in Name : u.fixup \in localTable[n].fixups}
             G == {n \in Name : u.fixup \in globalTable[n].fixups}
             R == {r \in fixupList : r.segment = u.fixup.segment /\ r.offset = u.fixup.offset}
  <2>1. u.name \in Name
    BY DEF TypeOK, Use
  <2>2. L = IF InLocal(u) THEN {u.name} ELSE {}
    BY <2>1, HeldByItsName DEF InLocal
  <2>3. G = IF InGlobal(u) THEN {u.name} ELSE {}
    BY <2>1, HeldByItsName DEF InGlobal
  <2>4. (InList(u) => \E r \in fixupList : R = {r}) /\ (~InList(u) => R = {})
    <3>1. ASSUME NEW r \in fixupList, AtPlace(r, u.fixup) PROVE R = {r}
      BY <3>1 DEF Held, HeldInOnePlace, AtPlace
    <3> QED
      BY <3>1 DEF InList, AtPlace
  <2>5. /\ InLocal(u) \/ InGlobal(u) \/ InList(u)
        /\ ~(InLocal(u) /\ InGlobal(u))
        /\ ~(InLocal(u) /\ InList(u)) /\ ~(InGlobal(u) /\ InList(u))
    BY DEF Held, HeldInOnePlace
  <2> HIDE DEF L, G, R
  <2>6. Cardinality({}) = 0 /\ \A x : Cardinality({x}) = 1
    BY FS_EmptySet, FS_Singleton
  <2>7. Cardinality(L) + Cardinality(G) + Cardinality(R) = 1
    <3>1. CASE InLocal(u)
      <4>1. Cardinality(L) = 1 /\ Cardinality(G) = 0 /\ Cardinality(R) = 0
        BY <2>2, <2>3, <2>4, <2>5, <2>6, <3>1
      <4> QED
        BY <4>1
    <3>2. CASE InGlobal(u)
      <4>1. Cardinality(L) = 0 /\ Cardinality(G) = 1 /\ Cardinality(R) = 0
        BY <2>2, <2>3, <2>4, <2>5, <2>6, <3>2
      <4> QED
        BY <4>1
    <3>3. CASE InList(u)
      <4>1. Cardinality(L) = 0 /\ Cardinality(G) = 0 /\ Cardinality(R) = 1
        BY <2>2, <2>3, <2>4, <2>5, <2>6, <3>3
      <4> QED
        BY <4>1
    <3> QED
      BY <2>5, <3>1, <3>2, <3>3
  <2> QED
    BY <2>7 DEF L, G, R
<1> QED
  BY <1>1, HeldInvariant, PTL

---------------------------------------------------------------------------
(* What the tables say is what the text says *)

Labelled(k, n) == \E l \in labels : l.file = k /\ l.name = n

\* File k has been read to its end.
Closed(k) == k < file \/ pc # "text"

\* The text so far is of the files up to this one.
ThisFile ==
    /\ \A l \in labels : l.file <= file
    /\ \A u \in used : u.file <= file
    /\ \A d \in declared : d[1] <= file
    /\ IsFiniteSet(used)

\* The local table is about the labels and declarations of this file.
LocalsSaid ==
    /\ pc = "text" => \A n \in Name :
          /\ localTable[n].status = "globref" <=> <<file, n>> \in declared
          /\ localTable[n].status = "defined" <=> Labelled(file, n) /\ <<file, n>> \notin declared
          /\ localTable[n].status = "defined" =>
                \A l \in labels : l.file = file /\ l.name = n =>
                    l.segment = localTable[n].segment /\ l.value = localTable[n].value
    /\ pc \in {"write", "done"} => \A n \in Name : localTable[n] = Unknown

\* The global table defines the names that one file labels and declares.
GlobalsSaid ==
    \A n \in Name :
        /\ globalTable[n].status = "defined" <=> DefinedGlobally(n) # {}
        /\ \A l \in DefinedGlobally(n) :
              l.segment = globalTable[n].segment /\ l.value = globalTable[n].value

\* r is what linkSymbol makes of the use u.
IsRecordOf(r, u) ==
    \E l \in labels : /\ l.file = u.file /\ l.name = u.name
                      /\ r = Relocation(u.fixup, SegBase(l.segment), u.fixup.value + l.value)

\* A global symbol holds the uses that mean it, the list those of local labels.
UsesMean ==
    pc \in {"text", "write"} => \A u \in used :
        /\ InGlobal(u) => \/ <<u.file, u.name>> \in declared
                          \/ Closed(u.file) /\ ~Labelled(u.file, u.name)
        /\ \A r \in fixupList : AtPlace(r, u.fixup) =>
              Closed(u.file) /\ <<u.file, u.name>> \notin declared /\ IsRecordOf(r, u)

Aligned == pc \in {"write", "done"} => \A s \in Segment : segPtr[s] % 4 = 0

Said == ThisFile /\ LocalsSaid /\ GlobalsSaid /\ UsesMean /\ Aligned

\* Statements come only in the text, and leave main there or with an error.
LEMMA StatementPc ==
    ASSUME [Next]_vars
    PROVE  \/ pc = "text" /\ pc' \in {"text", "error"} /\ file' = file
           \/ EndOfFile \/ WriteObject \/ UNCHANGED vars
<1>1. ASSUME NEW s \in Emitting, SetSegment(s)
      PROVE  pc = "text" /\ pc' \in {"text", "error"} /\ file' = file
  BY <1>1 DEF SetSegment, Statement
<1>2. ASSUME NEW n \in Name, Label(n) \/ Export(n) \/ Import(n)
      PROVE  pc = "text" /\ pc' \in {"text", "error"} /\ file' = file
  BY <1>2 DEF Label, Export, Import, Statement, Error
<1>3. ASSUME NEW n \in Name, NEW method \in Methods, NEW v \in Addend, Reference(n, method, v)
      PROVE  pc = "text" /\ pc' \in {"text", "error"} /\ file' = file
  BY <1>3 DEF Reference, Statement
<1>4. ASSUME NEW n \in Name, NEW m \in Name, Set(n, m)
      PROVE  pc = "text" /\ pc' \in {"text", "error"} /\ file' = file
  BY <1>4 DEF Set, Statement, Error
<1>5. ASSUME NEW k \in Padding, Space(k)
      PROVE  pc = "text" /\ pc' \in {"text", "error"} /\ file' = file
  BY <1>5 DEF Space, Statement
<1> QED
  BY <1>1, <1>2, <1>3, <1>4, <1>5 DEF Next, Terminating

LEMMA AlignedStep == TypeOK /\ Aligned /\ [Next]_vars => Aligned'
<1> SUFFICES ASSUME TypeOK, Aligned, [Next]_vars PROVE Aligned'
  OBVIOUS
<1>1. CASE EndOfFile
  <2>1. segPtr' = [s \in Segment |-> Rounded(segPtr[s])] /\ segPtr \in [Segment -> Nat]
    BY <1>1 DEF EndOfFile, TypeOK
  <2> QED
    BY <2>1, RoundedUp DEF Aligned
<1>2. CASE WriteObject
  BY <1>2 DEF Aligned, WriteObject
<1>3. CASE UNCHANGED vars
  BY <1>3 DEF Aligned, vars
<1> QED
  BY <1>1, <1>2, <1>3, StatementPc DEF Aligned

\* What an action may do to the history.
LEMMA HistoryStep ==
    ASSUME TypeOK, [Next]_vars
    PROVE  /\ \A l \in labels' : l \in labels \/ l.file = file
           /\ \A u \in used' : u \in used \/ u.file = file
           /\ \A d \in declared' : d \in declared \/ d[1] = file
           /\ file \in Nat /\ file' \in Nat /\ file <= file'
           /\ labels \subseteq labels' /\ used \subseteq used' /\ declared \subseteq declared'
           /\ \E w : used' \subseteq used \cup {w}
<1>0. file \in Nat /\ file' \in Nat
  BY TypeStep DEF TypeOK
<1>1. CASE UNCHANGED <<file, labels, used, declared>>
  BY <1>0, <1>1
<1>2. ASSUME NEW s \in Emitting, SetSegment(s) PROVE UNCHANGED <<file, labels, used, declared>>
  BY <1>2 DEF SetSegment, history
<1>3. ASSUME NEW n \in Name, Label(n)
      PROVE  \/ UNCHANGED <<file, labels, used, declared>>
             \/ /\ labels' = labels \cup {[file |-> file, name |-> n, segment |-> currSeg,
                                           value |-> segPtr[currSeg]]}
                /\ UNCHANGED <<file, used, declared>>
  BY <1>3 DEF Label, history
<1>4. ASSUME NEW n \in Name, NEW method \in Methods, NEW v \in Addend, Reference(n, method, v)
      PROVE  \E w : used' = used \cup {w} /\ w.file = file /\ UNCHANGED <<file, labels, declared>>
  <2> DEFINE w == [file |-> file, name |-> n,
                   fixup |-> [segment |-> currSeg, offset |-> segPtr[currSeg], method |-> method,
                              value |-> v]]
  <2>1. used' = used \cup {w} /\ w.file = file /\ UNCHANGED <<file, labels, declared>>
    BY <1>4 DEF Reference
  <2> QED
    BY <2>1
<1>5. ASSUME NEW n \in Name, Export(n) \/ Import(n)
      PROVE  (declared' = declared \/ declared' = declared \cup {<<file, n>>})
             /\ UNCHANGED <<file, labels, used>>
  BY <1>5 DEF Export, Import, MakeGlobal
<1>6. ASSUME NEW n \in Name, NEW m \in Name, Set(n, m)
      PROVE  UNCHANGED <<file, labels, used, declared>>
  BY <1>6 DEF Set, history
<1>7. ASSUME NEW k \in Padding, Space(k) PROVE UNCHANGED <<file, labels, used, declared>>
  BY <1>7 DEF Space, history
<1>8. CASE EndOfFile
  BY <1>0, <1>8 DEF EndOfFile, history
<1>9. CASE WriteObject \/ Terminating \/ UNCHANGED vars
  BY <1>1, <1>9 DEF WriteObject, Terminating, vars, history
<1>10. ASSUME NEW n \in Name, Label(n) \/ Export(n) \/ Import(n)
       PROVE  /\ \A l \in labels' : l \in labels \/ l.file = file
              /\ \A u \in used' : u \in used \/ u.file = file
              /\ \A d \in declared' : d \in declared \/ d[1] = file
              /\ file <= file'
              /\ labels \subseteq labels' /\ used \subseteq used' /\ declared \subseteq declared'
              /\ \E w : used' \subseteq used \cup {w}
  BY <1>0, <1>3, <1>5, <1>10
<1>11. ASSUME NEW n \in Name, NEW method \in Methods, NEW v \in Addend, Reference(n, method, v)
       PROVE  /\ \A l \in labels' : l \in labels \/ l.file = file
              /\ \A u \in used' : u \in used \/ u.file = file
              /\ \A d \in declared' : d \in declared \/ d[1] = file
              /\ file <= file'
              /\ labels \subseteq labels' /\ used \subseteq used' /\ declared \subseteq declared'
              /\ \E w : used' \subseteq used \cup {w}
  BY <1>0, <1>4, <1>11
<1> QED
  BY <1>0, <1>1, <1>2, <1>6, <1>7, <1>8, <1>9, <1>10, <1>11 DEF Next

LEMMA ThisFileStep == TypeOK /\ ThisFile /\ [Next]_vars => ThisFile'
<1> SUFFICES ASSUME TypeOK, ThisFile, [Next]_vars PROVE ThisFile'
  OBVIOUS
<1>1. /\ \A l \in labels' : l \in labels \/ l.file = file
      /\ \A u \in used' : u \in used \/ u.file = file
      /\ \A d \in declared' : d \in declared \/ d[1] = file
      /\ file \in Nat /\ file' \in Nat /\ file <= file'
  BY HistoryStep
<1>2. /\ \A l \in labels : l.file \in Nat
      /\ \A u \in used : u.file \in Nat
      /\ \A d \in declared : d[1] \in Nat
  BY DEF TypeOK, TextLabel, Use
<1>3. IsFiniteSet(used')
  <2>1. PICK w : used' \subseteq used \cup {w}
    BY HistoryStep
  <2>2. IsFiniteSet(used \cup {w})
    BY FS_AddElement DEF ThisFile
  <2> QED
    BY <2>1, <2>2, FS_Subset
<1>4. \A l \in labels' : l.file <= file'
  BY <1>1, <1>2 DEF ThisFile
<1>5. \A u \in used' : u.file <= file'
  BY <1>1, <1>2 DEF ThisFile
<1>6. \A d \in declared' : d[1] <= file'
  BY <1>1, <1>2 DEF ThisFile
<1> QED
  BY <1>3, <1>4, <1>5, <1>6 DEF ThisFile

\* Whatever leaves the statuses, places, labels and declarations alone.
LEMMA TablesSaidKept ==
    ASSUME LocalsSaid, GlobalsSaid,
           pc' \in {pc, "error"} \/ (pc = "write" /\ pc' \in {"done", "error"}),
           UNCHANGED <<file, labels, declared>>,
           \A n \in Name : /\ SameButFixups(localTable'[n], localTable[n])
                           /\ SameButFixups(globalTable'[n], globalTable[n]),
           pc = "text" \/ localTable' = localTable
    PROVE  LocalsSaid' /\ GlobalsSaid'
<1>1. GlobalsSaid'
  BY DEF GlobalsSaid, DefinedGlobally, SameButFixups
<1>2. LocalsSaid'
  <2>1. ASSUME pc' = "text", NEW n \in Name
        PROVE  /\ localTable'[n].status = "globref" <=> <<file', n>> \in declared'
               /\ localTable'[n].status = "defined" <=>
                     Labelled(file, n)' /\ <<file', n>> \notin declared'
               /\ localTable'[n].status = "defined" =>
                     \A l \in labels' : l.file = file' /\ l.name = n =>
                         l.segment = localTable'[n].segment /\ l.value = localTable'[n].value
    <3>1. pc = "text"
      BY <2>1
    <3> QED
      BY <2>1, <3>1 DEF LocalsSaid, SameButFixups, Labelled
  <2>2. ASSUME pc' \in {"write", "done"} PROVE \A n \in Name : localTable'[n] = Unknown
    BY <2>2 DEF LocalsSaid
  <2> QED
    BY <2>1, <2>2 DEF LocalsSaid
<1> QED
  BY <1>1, <1>2

\* asmModule: a label of the text defines the local or the global symbol.
LEMMA TablesSaidLabel ==
    ASSUME TypeOK, LocalsSaid, GlobalsSaid, NEW n \in Name, Label(n), Deref(n).status = "unknown"
    PROVE  LocalsSaid' /\ GlobalsSaid'
<1>1. PICK l : l = [file |-> file, name |-> n, segment |-> currSeg, value |-> segPtr[currSeg]]
  OBVIOUS
<1>2. /\ l.file = file /\ l.name = n /\ l.segment = currSeg /\ l.value = segPtr[currSeg]
      /\ labels' = labels \cup {l} /\ pc = "text"
      /\ UNCHANGED <<pc, file, declared>>
  BY <1>1 DEF Label, Statement
<1>3. /\ IsGlobRef(n) =>
            /\ localTable' = localTable /\ globalTable'[n].status = "defined"
            /\ globalTable'[n].segment = currSeg /\ globalTable'[n].value = segPtr[currSeg]
            /\ \A m \in Name : m # n => globalTable'[m] = globalTable[m]
      /\ ~IsGlobRef(n) =>
            /\ globalTable' = globalTable /\ localTable'[n].status = "defined"
            /\ localTable'[n].segment = currSeg /\ localTable'[n].value = segPtr[currSeg]
            /\ \A m \in Name : m # n => localTable'[m] = localTable[m]
  BY LabelEffect
<1>4. \A m \in Name :
         /\ localTable[m].status = "globref" <=> <<file, m>> \in declared
         /\ localTable[m].status = "defined" <=> Labelled(file, m) /\ <<file, m>> \notin declared
         /\ localTable[m].status = "defined" =>
               \A k \in labels : k.file = file /\ k.name = m =>
                   k.segment = localTable[m].segment /\ k.value = localTable[m].value
  BY <1>2 DEF LocalsSaid
<1>5. \A m \in Name : m # n => (Labelled(file, m)' <=> Labelled(file, m))
  BY <1>2 DEF Labelled
<1>6. Labelled(file, n)'
  BY <1>2 DEF Labelled
<1>7. CASE IsGlobRef(n)
  <2>1. <<file, n>> \in declared /\ localTable[n].status = "globref"
    BY <1>4, <1>7 DEF IsGlobRef
  <2>2. globalTable[n].status = "unknown"
    BY <1>7 DEF Deref
  <2>3. DefinedGlobally(n) = {}
    BY <2>2 DEF GlobalsSaid
  <2>4. DefinedGlobally(n)' = {l}
    BY <1>2, <2>1, <2>3 DEF DefinedGlobally
  <2>5. \A m \in Name : m # n => DefinedGlobally(m)' = DefinedGlobally(m)
    BY <1>2 DEF DefinedGlobally
  <2>6. GlobalsSaid'
    BY <1>2, <1>3, <1>7, <2>4, <2>5 DEF GlobalsSaid
  <2>7. LocalsSaid'
    BY <1>2, <1>3, <1>4, <1>5, <1>7, <2>1 DEF LocalsSaid
  <2> QED
    BY <2>6, <2>7
<1>8. CASE ~IsGlobRef(n)
  <2>1. localTable[n].status = "unknown"
    BY <1>8 DEF Deref
  <2>2. ~Labelled(file, n) /\ <<file, n>> \notin declared
    BY <1>4, <2>1
  <2>3. \A m \in Name : DefinedGlobally(m)' = DefinedGlobally(m)
    BY <1>2, <2>2 DEF DefinedGlobally
  <2>4. GlobalsSaid'
    BY <1>3, <1>8, <2>3 DEF GlobalsSaid
  <2>5. ASSUME NEW m \in Name
        PROVE  /\ localTable'[m].status = "globref" <=> <<file', m>> \in declared'
               /\ localTable'[m].status = "defined" <=>
                     Labelled(file, m)' /\ <<file', m>> \notin declared'
               /\ localTable'[m].status = "defined" =>
                     \A k \in labels' : k.file = file' /\ k.name = m =>
                         k.segment = localTable'[m].segment /\ k.value = localTable'[m].value
    <3>1. CASE m = n
      <4>1. \A k \in labels' : k.file = file' /\ k.name = n => k = l
        BY <1>2, <2>2 DEF Labelled
      <4> QED
        BY <1>2, <1>3, <1>6, <1>8, <2>2, <3>1, <4>1
    <3>2. CASE m # n
      BY <1>2, <1>3, <1>4, <1>5, <1>8, <3>2
    <3> QED
      BY <3>1, <3>2
  <2>6. LocalsSaid'
    <3>1. pc' = "text"
      BY <1>2
    <3> QED
      BY <2>5, <3>1 DEF LocalsSaid, Labelled
  <2> QED
    BY <2>4, <2>6
<1> QED
  BY <1>7, <1>8

\* dotExport, dotImport: n is declared, and global from now on.
LEMMA TablesSaidDeclare ==
    ASSUME TypeOK, LocalsSaid, GlobalsSaid, pc = "text",
           NEW n \in Name, NEW g \in GlobalSymbol, MakeGlobal(n, g),
           UNCHANGED <<pc, file, labels>>,
           \/ SameButFixups(g, localTable[n]) /\ globalTable[n].status = "unknown"
           \/ g = globalTable[n] /\ localTable[n].status = "unknown"
    PROVE  LocalsSaid' /\ GlobalsSaid'
<1>1. /\ localTable'[n].status = "globref" /\ localTable'[n].fixups = {}
      /\ SameButFixups(globalTable'[n], g)
      /\ \A m \in Name : m # n =>
            localTable'[m] = localTable[m] /\ globalTable'[m] = globalTable[m]
      /\ declared' = declared \cup {<<file, n>>}
  BY MakeGlobalEffect
<1>2. \A m \in Name :
         /\ localTable[m].status = "globref" <=> <<file, m>> \in declared
         /\ localTable[m].status = "defined" <=> Labelled(file, m) /\ <<file, m>> \notin declared
         /\ localTable[m].status = "defined" =>
               \A k \in labels : k.file = file /\ k.name = m =>
                   k.segment = localTable[m].segment /\ k.value = localTable[m].value
  BY DEF LocalsSaid
<1>3. \A m \in Name : Labelled(file, m)' <=> Labelled(file, m)
  BY DEF Labelled
<1>4. LocalsSaid'
  <2>1. ASSUME NEW m \in Name
        PROVE  /\ localTable'[m].status = "globref" <=> <<file', m>> \in declared'
               /\ localTable'[m].status = "defined" <=>
                     Labelled(file, m)' /\ <<file', m>> \notin declared'
               /\ localTable'[m].status = "defined" =>
                     \A k \in labels' : k.file = file' /\ k.name = m =>
                         k.segment = localTable'[m].segment /\ k.value = localTable'[m].value
    <3>1. CASE m = n
      BY <1>1, <3>1
    <3>2. CASE m # n
      <4>1. <<file, m>> \in declared' <=> <<file, m>> \in declared
        BY <1>1, <3>2
      <4> QED
        BY <1>1, <1>2, <1>3, <3>2, <4>1
    <3> QED
      BY <3>1, <3>2
  <2> QED
    BY <2>1 DEF LocalsSaid, Labelled
<1>5. \A m \in Name : m # n => DefinedGlobally(m)' = DefinedGlobally(m)
  BY <1>1 DEF DefinedGlobally
<1>6. DefinedGlobally(n)' = DefinedGlobally(n) \cup {l \in labels : l.file = file /\ l.name = n}
  BY <1>1 DEF DefinedGlobally
<1>7. /\ globalTable'[n].status = "defined" <=> DefinedGlobally(n)' # {}
      /\ \A l \in DefinedGlobally(n)' :
            l.segment = globalTable'[n].segment /\ l.value = globalTable'[n].value
  <2>1. CASE SameButFixups(g, localTable[n]) /\ globalTable[n].status = "unknown"
    <3>1. DefinedGlobally(n) = {}
      BY <2>1 DEF GlobalsSaid
    <3>2. localTable[n].status \notin {"globref"}
      <4>1. g.status # "globref"
        BY DEF GlobalSymbol, Symbol
      <4> QED
        BY <2>1, <4>1 DEF SameButFixups
    <3>3. localTable[n].status = "defined" <=> Labelled(file, n)
      BY <1>2, <3>2
    <3>4. DefinedGlobally(n)' # {} <=> Labelled(file, n)
      BY <1>6, <3>1 DEF Labelled
    <3>5. globalTable'[n].status = localTable[n].status
          /\ globalTable'[n].segment = localTable[n].segment
          /\ globalTable'[n].value = localTable[n].value
      BY <1>1, <2>1 DEF SameButFixups
    <3>6. ASSUME NEW l \in DefinedGlobally(n)'
          PROVE  l.segment = globalTable'[n].segment /\ l.value = globalTable'[n].value
      <4>1. l \in labels /\ l.file = file /\ l.name = n
        BY <1>6, <3>1, <3>6
      <4>2. localTable[n].status = "defined"
        BY <3>3, <4>1 DEF Labelled
      <4> QED
        BY <1>2, <3>5, <4>1, <4>2
    <3> QED
      BY <3>3, <3>4, <3>5, <3>6
  <2>2. CASE g = globalTable[n] /\ localTable[n].status = "unknown"
    <3>1. ~Labelled(file, n)
      BY <1>2, <2>2
    <3>2. DefinedGlobally(n)' = DefinedGlobally(n)
      BY <1>6, <3>1 DEF Labelled
    <3> QED
      BY <1>1, <2>2, <3>2 DEF GlobalsSaid, SameButFixups
  <2> QED
    BY <2>1, <2>2
<1>8. GlobalsSaid'
  BY <1>1, <1>5, <1>7 DEF GlobalsSaid
<1> QED
  BY <1>4, <1>8

\* dotSet does not touch a symbol that a label defines.
LEMMA TablesSaidSet ==
    ASSUME TypeOK, LocalsSaid, GlobalsSaid, NEW n \in Name, NEW m \in Name, Set(n, m)
    PROVE  LocalsSaid' /\ GlobalsSaid'
<1>1. /\ localTable' = localTable
      /\ \A k \in Name : /\ globalTable'[k].status = globalTable[k].status
                         /\ globalTable[k].status = "defined" => globalTable'[k] = globalTable[k]
      /\ pc' \in {pc, "error"}
      /\ UNCHANGED <<file, labels, declared>>
  BY SetEffect
<1>2. \A k \in Name : DefinedGlobally(k)' = DefinedGlobally(k)
  BY <1>1 DEF DefinedGlobally
<1>3. GlobalsSaid'
  BY <1>1, <1>2 DEF GlobalsSaid
<1>4. LocalsSaid'
  BY <1>1 DEF LocalsSaid, Labelled
<1> QED
  BY <1>3, <1>4

\* linkLocals empties the local table for a file of which nothing is said yet.
LEMMA TablesSaidEndOfFile ==
    ASSUME TypeOK, ThisFile, GlobalsSaid, EndOfFile, ~LocalFixupsOnGlobal
    PROVE  LocalsSaid' /\ GlobalsSaid'
<1>1. /\ localTable' = [n \in Name |-> Unknown]
      /\ \A n \in Name : SameButFixups(globalTable'[n], globalTable[n])
      /\ \/ file < Files /\ file' = file + 1 /\ pc' = "text"
         \/ file = Files /\ file' = file /\ pc' = "write"
      /\ UNCHANGED <<labels, declared>>
  BY EndOfFileEffect
<1>2. GlobalsSaid'
  BY <1>1 DEF GlobalsSaid, DefinedGlobally, SameButFixups
<1>3. file \in Nat /\ \A l \in labels : l.file \in Nat
  BY DEF TypeOK, TextLabel
<1>4. LocalsSaid'
  <2>1. CASE pc' = "write"
    BY <1>1, <2>1 DEF LocalsSaid
  <2>2. CASE file' = file + 1 /\ pc' = "text"
    <3>1. ASSUME NEW n \in Name PROVE ~Labelled(file, n)' /\ <<file', n>> \notin declared'
      <4>1. ~Labelled(file, n)'
        BY <1>1, <1>3, <2>2 DEF Labelled, ThisFile
      <4>2. <<file', n>> \notin declared
        <5>1. <<file', n>>[1] = file' /\ ~(file' <= file)
          BY <1>3, <2>2
        <5> QED
          BY <5>1 DEF ThisFile
      <4> QED
        BY <1>1, <4>1, <4>2
    <3>2. \A n \in Name : localTable'[n].status = "unknown"
      BY <1>1 DEF Unknown
    <3> QED
      BY <2>2, <3>1, <3>2 DEF LocalsSaid
  <2> QED
    BY <1>1, <2>1, <2>2
<1> QED
  BY <1>2, <1>4

LEMMA TablesSaidStep ==
    TypeOK /\ ThisFile /\ LocalsSaid /\ GlobalsSaid /\ [Next]_vars => LocalsSaid' /\ GlobalsSaid'
<1> SUFFICES ASSUME TypeOK, ThisFile, LocalsSaid, GlobalsSaid, [Next]_vars
             PROVE  LocalsSaid' /\ GlobalsSaid'
  OBVIOUS
<1>1. ASSUME UNCHANGED <<file, localTable, globalTable, labels, declared>>, pc' \in {pc, "error"}
      PROVE  LocalsSaid' /\ GlobalsSaid'
  BY <1>1, TablesSaidKept DEF SameButFixups
<1>2. ASSUME NEW s \in Emitting, SetSegment(s) PROVE LocalsSaid' /\ GlobalsSaid'
  BY <1>1, <1>2 DEF SetSegment, tables, history
<1>3. ASSUME NEW n \in Name, Label(n) PROVE LocalsSaid' /\ GlobalsSaid'
  <2>1. CASE Deref(n).status # "unknown"
    BY <1>1, <1>3, <2>1 DEF Label, Error, tables, history
  <2> QED
    BY <1>3, <2>1, TablesSaidLabel
<1>4. ASSUME NEW n \in Name, NEW method \in Methods, NEW v \in Addend, Reference(n, method, v)
      PROVE  LocalsSaid' /\ GlobalsSaid'
  <2>1. \A m \in Name : /\ SameButFixups(localTable'[m], localTable[m])
                        /\ SameButFixups(globalTable'[m], globalTable[m])
    BY <1>4, ReferenceEffect
  <2>2. pc' = pc /\ pc = "text" /\ UNCHANGED <<file, labels, declared>>
    BY <1>4 DEF Reference, Statement
  <2> QED
    BY <2>1, <2>2, TablesSaidKept
<1>5. ASSUME NEW n \in Name, Export(n) PROVE LocalsSaid' /\ GlobalsSaid'
  <2>1. CASE globalTable[n].status # "unknown" \/ IsGlobRef(n)
    BY <1>1, <1>5, <2>1 DEF Export, Error, tables
  <2>2. CASE ~(globalTable[n].status # "unknown" \/ IsGlobRef(n))
    <3>1. PICK g \in GlobalSymbol :
             /\ MakeGlobal(n, g) /\ SameButFixups(g, localTable[n])
             /\ UNCHANGED <<pc, file, currSeg, segPtr, fixupList, object, used, labels>>
      BY <1>5, <2>2, ExportEffect
    <3>2. pc = "text"
      BY <1>5 DEF Export, Statement
    <3> QED
      BY <2>2, <3>1, <3>2, TablesSaidDeclare
  <2> QED
    BY <2>1, <2>2
<1>6. ASSUME NEW n \in Name, Import(n) PROVE LocalsSaid' /\ GlobalsSaid'
  <2>1. CASE localTable[n].status # "unknown"
    BY <1>1, <1>6, <2>1 DEF Import, Error, tables
  <2>2. CASE localTable[n].status = "unknown"
    <3>1. /\ globalTable[n] \in GlobalSymbol /\ MakeGlobal(n, globalTable[n])
          /\ UNCHANGED <<pc, file, currSeg, segPtr, fixupList, object, used, labels>>
      BY <1>6, <2>2, ImportEffect
    <3>2. pc = "text"
      BY <1>6 DEF Import, Statement
    <3> QED
      BY <2>2, <3>1, <3>2, TablesSaidDeclare
  <2> QED
    BY <2>1, <2>2
<1>7. ASSUME NEW n \in Name, NEW m \in Name, Set(n, m) PROVE LocalsSaid' /\ GlobalsSaid'
  BY <1>7, TablesSaidSet
<1>8. ASSUME NEW k \in Padding, Space(k) PROVE LocalsSaid' /\ GlobalsSaid'
  BY <1>1, <1>8 DEF Space, tables, history
<1>9. CASE EndOfFile
  <2>1. CASE LocalFixupsOnGlobal
    BY <1>1, <1>9, <2>1 DEF EndOfFile, Error, tables, history
  <2> QED
    BY <1>9, <2>1, TablesSaidEndOfFile
<1>10. CASE WriteObject
  <2>1. /\ globalTable' = [n \in Name |-> [globalTable[n] EXCEPT !.fixups = {}]]
        /\ pc = "write" /\ pc' \in {"done", "error"}
        /\ UNCHANGED <<file, localTable, labels, declared>>
    BY <1>10 DEF WriteObject, Error, history
  <2>2. ASSUME NEW n \in Name PROVE SameButFixups(globalTable'[n], globalTable[n])
    BY <2>1 DEF TypeOK, GlobalSymbol, Symbol, SameButFixups
  <2> QED
    BY <2>1, <2>2, TablesSaidKept DEF SameButFixups
<1>11. CASE Terminating \/ UNCHANGED vars
  BY <1>1, <1>11 DEF Terminating, vars, tables, history
<1> QED
  BY <1>2, <1>3, <1>4, <1>5, <1>6, <1>7, <1>8, <1>9, <1>10, <1>11 DEF Next

---------------------------------------------------------------------------
(* Where the uses go *)

\* For a use whose place is left alone, only more is said about other files.
LEMMA UsesMeanKept ==
    ASSUME TypeOK, ThisFile, [Next]_vars, pc = "text", pc' \in {"text", "error"},
           NEW u \in used, file' = file, fixupList' = fixupList,
           /\ InGlobal(u) => \/ <<u.file, u.name>> \in declared
                             \/ Closed(u.file) /\ ~Labelled(u.file, u.name)
           /\ \A r \in fixupList : AtPlace(r, u.fixup) =>
                 Closed(u.file) /\ <<u.file, u.name>> \notin declared /\ IsRecordOf(r, u),
           declared \subseteq declared', labels \subseteq labels',
           InGlobal(u)' => InGlobal(u) \/ <<u.file, u.name>> \in declared'
    PROVE  /\ InGlobal(u)' => \/ <<u.file, u.name>> \in declared'
                              \/ Closed(u.file)' /\ ~Labelled(u.file, u.name)'
           /\ \A r \in fixupList' : AtPlace(r, u.fixup) =>
                 Closed(u.file)' /\ <<u.file, u.name>> \notin declared' /\ IsRecordOf(r, u)'
<1>1. /\ \A l \in labels' : l \in labels \/ l.file = file
      /\ \A d \in declared' : d \in declared \/ d[1] = file
  BY HistoryStep
<1>2. u.file \in Nat /\ file \in Nat
  BY DEF TypeOK, Use
<1>3. Closed(u.file) => u.file # file /\ Closed(u.file)'
  BY <1>2 DEF Closed
<1>4. u.file # file /\ ~Labelled(u.file, u.name) => ~Labelled(u.file, u.name)'
  BY <1>1 DEF Labelled
<1>5. u.file # file => (<<u.file, u.name>> \in declared' => <<u.file, u.name>> \in declared)
  BY <1>1
<1>6. \A r : IsRecordOf(r, u) => IsRecordOf(r, u)'
  BY DEF IsRecordOf
<1>7. ASSUME NEW r \in fixupList', AtPlace(r, u.fixup)
      PROVE  Closed(u.file)' /\ <<u.file, u.name>> \notin declared' /\ IsRecordOf(r, u)'
  BY <1>3, <1>5, <1>6, <1>7
<1>8. ASSUME InGlobal(u)'
      PROVE  \/ <<u.file, u.name>> \in declared'
             \/ Closed(u.file)' /\ ~Labelled(u.file, u.name)'
  BY <1>3, <1>4, <1>8
<1> QED
  BY <1>7, <1>8

\* linkLocals: what is unknown at the end of a file means the global symbol.
LEMMA UsesMeanEndOfFile ==
    ASSUME TypeOK, Held, ThisFile, LocalsSaid, UsesMean, EndOfFile, ~LocalFixupsOnGlobal
    PROVE  UsesMean'
<1>1. /\ \A n \in Name :
            /\ localTable[n].status = "unknown" =>
                  globalTable'[n].fixups = globalTable[n].fixups \cup localTable[n].fixups
            /\ localTable[n].status # "unknown" =>
                  globalTable'[n].fixups = globalTable[n].fixups
      /\ fixupList' = fixupList \cup UNION {LinkedLocal(n) : n \in Name}
      /\ UNCHANGED <<used, labels, declared>> /\ pc = "text"
      /\ \/ file < Files /\ file' = file + 1 /\ pc' = "text"
         \/ file = Files /\ file' = file /\ pc' = "write"
  BY EndOfFileEffect
<1>2. \A n \in Name :
         /\ localTable[n].status = "globref" <=> <<file, n>> \in declared
         /\ localTable[n].status = "defined" <=> Labelled(file, n) /\ <<file, n>> \notin declared
         /\ localTable[n].status = "defined" =>
               \A k \in labels : k.file = file /\ k.name = n =>
                   k.segment = localTable[n].segment /\ k.value = localTable[n].value
  BY <1>1 DEF LocalsSaid
<1>3. file \in Nat /\ \A u \in used : u.name \in Name /\ u.file \in Nat /\ u.file <= file
  BY DEF TypeOK, ThisFile, Use
<1>4. ASSUME NEW u \in used PROVE Closed(u.file)'
  BY <1>1, <1>3 DEF Closed
<1>5. ASSUME NEW u \in used
      PROVE  (Labelled(u.file, u.name)' <=> Labelled(u.file, u.name))
             /\ \A r : IsRecordOf(r, u) => IsRecordOf(r, u)'
  BY <1>1 DEF Labelled, IsRecordOf
<1>6. ASSUME NEW u \in used, InGlobal(u)'
      PROVE  <<u.file, u.name>> \in declared \/ ~Labelled(u.file, u.name)
  <2>1. CASE InGlobal(u)
    BY <1>1, <2>1 DEF UsesMean
  <2>2. CASE ~InGlobal(u)
    <3>1. localTable[u.name].status = "unknown" /\ u.fixup \in localTable[u.name].fixups
      BY <1>1, <1>3, <1>6, <2>2 DEF InGlobal
    <3>2. u.file = file
      BY <1>3, <3>1, HeldByItsName DEF InLocal
    <3> QED
      BY <1>2, <1>3, <3>1, <3>2
  <2> QED
    BY <2>1, <2>2
<1>7. ASSUME NEW u \in used, NEW r \in fixupList', AtPlace(r, u.fixup)
      PROVE  <<u.file, u.name>> \notin declared /\ IsRecordOf(r, u)
  <2>1. CASE r \in fixupList
    BY <1>1, <1>7, <2>1 DEF UsesMean
  <2>2. CASE r \notin fixupList
    <3>1. PICK v \in used :
             /\ InLocal(v) /\ localTable[v.name].status = "defined" /\ AtPlace(r, v.fixup)
             /\ r = Relocation(v.fixup, SegBase(localTable[v.name].segment),
                               v.fixup.value + localTable[v.name].value)
      BY <1>1, <2>2, LinkedLocalRecords
    <3>2. v = u
      BY <1>7, <3>1 DEF AtPlace, Held, PlacesApart
    <3>3. u.file = file /\ u.name \in Name /\ localTable[u.name].status = "defined"
      BY <1>3, <3>1, <3>2 DEF InLocal
    <3>4. <<u.file, u.name>> \notin declared /\ Labelled(u.file, u.name)
      BY <1>2, <3>3
    <3>5. PICK l \in labels : l.file = u.file /\ l.name = u.name
      BY <3>4 DEF Labelled
    <3>6. l.segment = localTable[u.name].segment /\ l.value = localTable[u.name].value
      BY <1>2, <3>3, <3>5
    <3>7. r = Relocation(u.fixup, SegBase(l.segment), u.fixup.value + l.value)
      BY <3>1, <3>2, <3>6
    <3> QED
      BY <3>4, <3>5, <3>7 DEF IsRecordOf
  <2> QED
    BY <2>1, <2>2
<1>8. ASSUME NEW u \in used
      PROVE  /\ InGlobal(u)' => \/ <<u.file, u.name>> \in declared'
                                \/ Closed(u.file)' /\ ~Labelled(u.file, u.name)'
             /\ \A r \in fixupList' : AtPlace(r, u.fixup) =>
                   Closed(u.file)' /\ <<u.file, u.name>> \notin declared' /\ IsRecordOf(r, u)'
  <2>1. declared' = declared
    BY <1>1
  <2> QED
    BY <1>4, <1>5, <1>6, <1>7, <2>1
<1> QED
  BY <1>1, <1>8 DEF UsesMean

LEMMA UsesMeanStep ==
    TypeOK /\ Held /\ ThisFile /\ LocalsSaid /\ UsesMean /\ [Next]_vars => UsesMean'
<1> SUFFICES ASSUME TypeOK, Held, ThisFile, LocalsSaid, UsesMean, [Next]_vars,
                    pc' \in {"text", "write"}
             PROVE  UsesMean'
  BY DEF UsesMean
<1>1. CASE UNCHANGED vars
  <2>1. UNCHANGED <<pc, file, globalTable, fixupList, used, labels, declared>>
    BY <1>1 DEF vars, tables, history
  <2>2. \A u :
           /\ InGlobal(u)' <=> InGlobal(u)
           /\ Labelled(u.file, u.name)' <=> Labelled(u.file, u.name)
           /\ Closed(u.file)' <=> Closed(u.file)
    BY <2>1 DEF InGlobal, Labelled, Closed
  <2>3. \A u, r : IsRecordOf(r, u) => IsRecordOf(r, u)'
    BY <2>1 DEF IsRecordOf
  <2> QED
    BY <2>1, <2>2, <2>3 DEF UsesMean
<1>2. CASE WriteObject
  BY <1>2 DEF WriteObject, Error
<1>3. CASE EndOfFile
  <2>1. ~LocalFixupsOnGlobal
    BY <1>3 DEF EndOfFile, Error
  <2> QED
    BY <1>3, <2>1, UsesMeanEndOfFile
<1>4. CASE pc = "text" /\ pc' \in {"text", "error"} /\ file' = file /\ ~EndOfFile /\ ~WriteObject
           /\ ~UNCHANGED vars
  <2>0. /\ pc = "text" /\ pc' = "text" /\ file' = file
        /\ declared \subseteq declared' /\ labels \subseteq labels' /\ used \subseteq used'
    BY <1>4, HistoryStep
  <2>1. ASSUME NEW u \in used, fixupList' = fixupList,
               InGlobal(u)' => InGlobal(u) \/ <<u.file, u.name>> \in declared'
        PROVE  /\ InGlobal(u)' => \/ <<u.file, u.name>> \in declared'
                                  \/ Closed(u.file)' /\ ~Labelled(u.file, u.name)'
               /\ \A r \in fixupList' : AtPlace(r, u.fixup) =>
                     Closed(u.file)' /\ <<u.file, u.name>> \notin declared' /\ IsRecordOf(r, u)'
    <3>1. /\ InGlobal(u) => \/ <<u.file, u.name>> \in declared
                            \/ Closed(u.file) /\ ~Labelled(u.file, u.name)
          /\ \A r \in fixupList : AtPlace(r, u.fixup) =>
                Closed(u.file) /\ <<u.file, u.name>> \notin declared /\ IsRecordOf(r, u)
      BY <2>0 DEF UsesMean
    <3> QED
      BY <2>0, <2>1, <3>1, UsesMeanKept
  <2>2. ASSUME used' = used, fixupList' = fixupList,
               \A u \in used : InGlobal(u)' => InGlobal(u) \/ <<u.file, u.name>> \in declared'
        PROVE  UsesMean'
    <3>1. ASSUME NEW u \in used'
          PROVE  /\ InGlobal(u)' => \/ <<u.file, u.name>> \in declared'
                                    \/ Closed(u.file)' /\ ~Labelled(u.file, u.name)'
                 /\ \A r \in fixupList' : AtPlace(r, u.fixup) =>
                       Closed(u.file)' /\ <<u.file, u.name>> \notin declared' /\ IsRecordOf(r, u)'
      BY <2>1, <2>2
    <3> QED
      BY <3>1 DEF UsesMean
  <2>3. \A u \in used : u.name \in Name
    BY DEF TypeOK, Use
  <2>4. ASSUME UNCHANGED <<used, fixupList, globalTable>> PROVE UsesMean'
    BY <2>2, <2>4 DEF InGlobal
  <2>5. ASSUME NEW s \in Emitting, SetSegment(s) PROVE UsesMean'
    BY <2>4, <2>5 DEF SetSegment, tables, history
  <2>6. ASSUME NEW n \in Name, Label(n) PROVE UsesMean'
    <3>1. Deref(n).status = "unknown"
      BY <2>0, <2>6 DEF Label, Error
    <3>2. \A m \in Name : SameFixups(m)
      BY <2>6, <3>1, LabelEffect
    <3>3. UNCHANGED <<used, fixupList>>
      BY <2>6, <3>1 DEF Label
    <3> QED
      BY <2>2, <2>3, <3>2, <3>3 DEF InGlobal, SameFixups
  <2>7. ASSUME NEW n \in Name, NEW g \in GlobalSymbol, MakeGlobal(n, g),
               g.fixups = globalTable[n].fixups, UNCHANGED <<used, fixupList>>
        PROVE  UsesMean'
    <3>1. /\ globalTable'[n].fixups = globalTable[n].fixups \cup localTable[n].fixups
          /\ \A m \in Name : m # n => globalTable'[m] = globalTable[m]
          /\ declared' = declared \cup {<<file, n>>}
      BY <2>7, MakeGlobalEffect
    <3>2. ASSUME NEW u \in used, InGlobal(u)'
          PROVE  InGlobal(u) \/ <<u.file, u.name>> \in declared'
      <4>1. CASE u.fixup \in localTable[n].fixups
        <5>1. u.name = n /\ u.file = file
          BY <4>1, HeldByItsName DEF InLocal
        <5> QED
          BY <3>1, <5>1
      <4>2. CASE u.fixup \notin localTable[n].fixups
        BY <2>3, <3>1, <3>2, <4>2 DEF InGlobal
      <4> QED
        BY <4>1, <4>2
    <3> QED
      BY <2>2, <2>7, <3>2
  <2>8. ASSUME NEW n \in Name, Export(n) PROVE UsesMean'
    <3>1. ~(globalTable[n].status # "unknown" \/ IsGlobRef(n))
      BY <2>0, <2>8 DEF Export, Error
    <3> QED
      BY <2>7, <2>8, <3>1, ExportEffect
  <2>9. ASSUME NEW n \in Name, Import(n) PROVE UsesMean'
    <3>1. localTable[n].status = "unknown"
      BY <2>0, <2>9 DEF Import, Error
    <3> QED
      BY <2>7, <2>9, <3>1, ImportEffect
  <2>10. ASSUME NEW n \in Name, NEW method \in Methods, NEW v \in Addend, Reference(n, method, v)
         PROVE  UsesMean'
    <3>1. PICK f : f = [segment |-> currSeg, offset |-> segPtr[currSeg],
                        method |-> method, value |-> v]
      OBVIOUS
    <3>2. PICK w : w = [file |-> file, name |-> n, fixup |-> f]
      OBVIOUS
    <3>3. w.file = file /\ w.name = n /\ w.fixup = f
      BY <3>2
    <3>4. used' = used \cup {w} /\ fixupList' = fixupList
      BY <2>10, <3>1, <3>2 DEF Reference
    <3>5. /\ \A m \in Name : m # n => SameFixups(m)
          /\ IsGlobRef(n) => globalTable'[n].fixups = globalTable[n].fixups \cup {f}
          /\ ~IsGlobRef(n) => globalTable'[n].fixups = globalTable[n].fixups
      BY <2>10, <3>1, ReferenceEffect
    <3>6. ASSUME NEW u \in used PROVE ~AtPlace(u.fixup, f)
      <4>1. u.fixup.offset + 4 <= segPtr[u.fixup.segment]
        BY DEF Held, PlacesApart
      <4>2. f.segment = currSeg /\ f.offset = segPtr[currSeg] /\ segPtr[currSeg] \in Nat
        BY <3>1, SegmentsEmit DEF TypeOK
      <4> QED
        BY <4>1, <4>2 DEF AtPlace
    <3>7. ASSUME NEW u \in used PROVE InGlobal(u)' => InGlobal(u)
      <4>1. u.fixup # f
        BY <3>6 DEF AtPlace
      <4> QED
        BY <2>3, <3>5, <4>1 DEF InGlobal, SameFixups
    <3>8. ASSUME NEW r \in fixupList PROVE ~AtPlace(r, w.fixup)
      <4>1. PICK u \in used : AtPlace(r, u.fixup)
        BY DEF Held, HeldAreUses
      <4> QED
        BY <3>3, <3>6, <4>1 DEF AtPlace
    <3>9. InGlobal(w)' => <<w.file, w.name>> \in declared'
      <4>1. CASE IsGlobRef(n)
        <5>1. <<file, n>> \in declared
          BY <2>0, <4>1 DEF LocalsSaid, IsGlobRef
        <5> QED
          BY <2>0, <3>3, <5>1
      <4>2. CASE ~IsGlobRef(n)
        <5>1. f \notin globalTable[n].fixups
          BY <3>6 DEF Held, HeldAreUses, AtPlace
        <5> QED
          BY <3>3, <3>5, <4>2, <5>1 DEF InGlobal
      <4> QED
        BY <4>1, <4>2
    <3>10. ASSUME NEW u \in used'
           PROVE  /\ InGlobal(u)' => \/ <<u.file, u.name>> \in declared'
                                     \/ Closed(u.file)' /\ ~Labelled(u.file, u.name)'
                  /\ \A r \in fixupList' : AtPlace(r, u.fixup) =>
                        Closed(u.file)' /\ <<u.file, u.name>> \notin declared' /\ IsRecordOf(r, u)'
      <4>1. CASE u \in used
        BY <2>1, <3>4, <3>7, <4>1
      <4>2. CASE u = w
        BY <3>4, <3>8, <3>9, <4>2
      <4> QED
        BY <3>4, <4>1, <4>2
    <3> QED
      BY <3>10 DEF UsesMean
  <2>11. ASSUME NEW n \in Name, NEW m \in Name, Set(n, m) PROVE UsesMean'
    <3>1. UNCHANGED <<used, fixupList>> /\ \A k \in Name : globalTable'[k].fixups = globalTable[k].fixups
      BY <2>11, SetEffect
    <3> QED
      BY <2>2, <2>3, <3>1 DEF InGlobal
  <2>12. ASSUME NEW k \in Padding, Space(k) PROVE UsesMean'
    BY <2>4, <2>12 DEF Space, tables, history
  <2> QED
    BY <1>4, <2>5, <2>6, <2>8, <2>9, <2>10, <2>11, <2>12 DEF Next, Terminating
<1> QED
  BY <1>1, <1>2, <1>3, <1>4, StatementPc

\* The inductive invariant: what the text says, and where its references are.
Inv == TypeOK /\ Held /\ Said

LEMMA InvStep == Inv /\ [Next]_vars => Inv'
<1> SUFFICES ASSUME Inv, [Next]_vars PROVE Inv'
  OBVIOUS
<1>1. TypeOK' /\ Held' /\ ThisFile' /\ Aligned'
  BY TypeStep, HeldStep, ThisFileStep, AlignedStep DEF Inv, Said
<1>2. LocalsSaid' /\ GlobalsSaid'
  BY TablesSaidStep DEF Inv, Said
<1>3. UsesMean'
  BY UsesMeanStep DEF Inv, Said
<1> QED
  BY <1>1, <1>2, <1>3 DEF Inv, Said

(***************************************************************************)
(* The tables and the fixup list hold at every moment what the text so far *)
(* says: the invariant on which the meaning of the object file rests.      *)
(***************************************************************************)
THEOREM AsmInvariant == Spec => []Inv
<1>1. Init => Said
  <2> SUFFICES ASSUME Init PROVE Said
    OBVIOUS
  <2>1. ThisFile
    BY FS_EmptySet DEF Init, ThisFile
  <2>2. LocalsSaid /\ GlobalsSaid /\ UsesMean /\ Aligned
    BY DEF Init, LocalsSaid, GlobalsSaid, UsesMean, Aligned, Labelled, DefinedGlobally, Unknown
  <2> QED
    BY <2>1, <2>2 DEF Said
<1>2. Spec => TypeOK /\ Held
  BY HeldInvariant, PTL
<1>3. Init /\ TypeOK /\ Held => Inv
  BY <1>1 DEF Inv
<1> QED
  BY <1>2, <1>3, InvStep, PTL DEF Spec

---------------------------------------------------------------------------
(* The object file *)

\* writeSymbol writes just the names that are not skipped.
LEMMA SymbolsWritten ==
    ASSUME NEW n \in Name
    PROVE  /\ (\E i \in DOMAIN SymbolTable : SymbolTable[i] = n) <=> ~Skip(n)
           /\ ~Skip(n) => /\ SymbolNumber(n) \in Nat
                          /\ SymbolNumber(n) + 1 \in DOMAIN SymbolTable
                          /\ SymbolTable[SymbolNumber(n) + 1] = n
<1> DEFINE S == {x \in Name : ~Skip(x)}
           at == CHOOSE i \in DOMAIN NameOrder : NameOrder[i] = n
<1>1. NameOrder \in Seq(Name) /\ DOMAIN NameOrder = 1 .. Len(NameOrder)
  BY AsmAssumption, LenProperties
<1>2. at \in DOMAIN NameOrder /\ NameOrder[at] = n
  BY AsmAssumption
<1>3. SymbolTable = Only(NameOrder, S)
  BY DEF SymbolTable
<1>4. SymbolNumber(n) = Cardinality({j \in 1 .. (at - 1) : NameOrder[j] \in S})
  <2>1. \A j \in 1 .. (at - 1) : NameOrder[j] \in Name
    BY <1>1, <1>2, ElementOfSeq, LenProperties
  <2>2. {j \in 1 .. (at - 1) : ~Skip(NameOrder[j])} = {j \in 1 .. (at - 1) : NameOrder[j] \in S}
    BY <2>1
  <2> QED
    BY <2>2 DEF SymbolNumber
<1> HIDE DEF at
<1>5. ASSUME ~Skip(n)
      PROVE  /\ SymbolNumber(n) \in Nat
             /\ SymbolNumber(n) + 1 \in DOMAIN SymbolTable
             /\ SymbolTable[SymbolNumber(n) + 1] = n
  <2>1. NameOrder[at] \in S
    BY <1>2, <1>5
  <2> HIDE DEF S
  <2>2. /\ SymbolNumber(n) \in Nat
        /\ SymbolNumber(n) + 1 \in DOMAIN Only(NameOrder, S)
        /\ Only(NameOrder, S)[SymbolNumber(n) + 1] = NameOrder[at]
    BY <1>1, <1>2, <1>4, <2>1, OnlyAt
  <2> QED
    BY <1>2, <1>3, <2>2
<1>6. ASSUME NEW i \in DOMAIN SymbolTable, SymbolTable[i] = n PROVE ~Skip(n)
  <2>1. SymbolTable[i] \in S
    <3> HIDE DEF S
    <3> QED
      BY <1>1, <1>3, <1>6, OnlyElements
  <2> QED
    BY <1>6, <2>1
<1> QED
  BY <1>5, <1>6

\* What main has when it has written the object file.
LEMMA WriteEffect ==
    ASSUME Inv, [Next]_vars, pc' = "done", ~UNCHANGED vars
    PROVE  /\ pc = "write" /\ UNCHANGED <<file, segPtr, used, labels, declared>>
           /\ object'.relocs = fixupList \cup Transferred
           /\ fixupList' = fixupList \cup Transferred
           /\ object'.symbols = SymbolTable
           /\ object'.size = segPtr
           /\ \A r \in fixupList \cup Transferred : r.segment \in Stored
           /\ \A n \in Name :
                 /\ object'.status[n] = globalTable[n].status
                 /\ object'.place[n] = [segment |-> globalTable[n].segment,
                                        value |-> globalTable[n].value]
           /\ \A u \in used : InGlobal(u) \/ InList(u)
           /\ \A u \in used : Closed(u.file)
<1>1. WriteObject
  <2>1. ~EndOfFile
    BY DEF EndOfFile, Error
  <2> QED
    BY <2>1, StatementPc
<1>2. /\ pc = "write"
      /\ fixupList' = fixupList \cup Transferred
      /\ UNCHANGED <<file, segPtr, used, labels, declared>>
      /\ \A r \in fixupList \cup Transferred : r.segment \in Stored
      /\ object' = [size |-> segPtr, symbols |-> SymbolTable,
                    status |-> [n \in Name |-> globalTable[n].status],
                    place |-> [n \in Name |-> [segment |-> globalTable[n].segment,
                                               value |-> globalTable[n].value]],
                    relocs |-> fixupList \cup Transferred]
  BY <1>1 DEF WriteObject, Error, history
<1>3. \A n \in Name : localTable[n].fixups = {}
  BY <1>2 DEF Inv, Said, LocalsSaid, Unknown
<1>4. \A u \in used : InGlobal(u) \/ InList(u)
  <2>1. \A u \in used : u.name \in Name
    BY DEF Inv, TypeOK, Use
  <2> QED
    BY <1>3, <2>1 DEF Inv, Held, HeldInOnePlace, InLocal
<1>5. \A u \in used : Closed(u.file)
  BY <1>2 DEF Closed
<1> QED
  BY <1>2, <1>4, <1>5

\* A global symbol of the text means the global table entry, a list record a label.
LEMMA MeaningAtEnd ==
    ASSUME Inv, pc = "write", NEW u \in used
    PROVE  /\ u.name \in Name
           /\ InGlobal(u) => MeansGlobal(u.file, u.name) /\ ~Skip(u.name)
           /\ \A r \in fixupList : AtPlace(r, u.fixup) =>
                 ~MeansGlobal(u.file, u.name) /\ IsRecordOf(r, u)
<1>1. u.name \in Name
  BY DEF Inv, TypeOK, Use
<1>2. InGlobal(u) => MeansGlobal(u.file, u.name) /\ ~Skip(u.name)
  BY DEF Inv, Said, UsesMean, MeansGlobal, Labelled, Skip, InGlobal
<1>3. \A r \in fixupList : AtPlace(r, u.fixup) =>
         ~MeansGlobal(u.file, u.name) /\ IsRecordOf(r, u)
  BY DEF Inv, Said, UsesMean, MeansGlobal, IsRecordOf
<1> QED
  BY <1>1, <1>2, <1>3

\* As many records as references.
LEMMA RecordsCounted ==
    ASSUME Inv, [Next]_vars, pc' = "done", ~UNCHANGED vars
    PROVE  Cardinality(object'.relocs) = Cardinality(used')
<1> DEFINE R == fixupList \cup Transferred
           f == [u \in used |-> CHOOSE r \in R : AtPlace(r, u.fixup)]
<1>1. object'.relocs = R /\ used' = used /\ fixupList' = R
  BY WriteEffect
<1>2. Held' /\ \A u \in used : InGlobal(u) \/ InList(u)
  BY WriteEffect, InvStep DEF Inv
<1>3. ASSUME NEW u \in used PROVE \E r \in R : AtPlace(r, u.fixup)
  <2>1. CASE InList(u)
    BY <2>1 DEF InList
  <2>2. CASE InGlobal(u)
    <3>1. Relocation(u.fixup, [kind |-> "index", index |-> SymbolNumber(u.name)], u.fixup.value)
             \in Transferred
      <4>1. u.name \in Name
        BY DEF Inv, TypeOK, Use
      <4> QED
        BY <2>2, <4>1, TransferredHas
    <3> QED
      BY <3>1 DEF Relocation, AtPlace
  <2> QED
    BY <1>2, <2>1, <2>2
<1>4. /\ \A r \in R : \E u \in used : AtPlace(r, u.fixup)
      /\ \A q, r \in R : AtPlace(q, r) => q = r
      /\ \A u, v \in used : AtPlace(u.fixup, v.fixup) => u = v
  BY <1>1, <1>2 DEF Held, HeldAreUses, HeldInOnePlace, PlacesApart
<1> HIDE DEF R
<1>5. \A u \in used : f[u] \in R /\ AtPlace(f[u], u.fixup)
  BY <1>3
<1>6. f \in [used -> R]
  BY <1>5
<1> HIDE DEF f
<1>7. \A u, v \in used : f[u] = f[v] => u = v
  BY <1>4, <1>5 DEF AtPlace
<1>8. \A r \in R : \E u \in used : f[u] = r
  BY <1>4, <1>5 DEF AtPlace
<1>9. ExistsBijection(used, R)
  BY <1>6, <1>7, <1>8 DEF ExistsBijection, Bijection, Injection, Surjection, IsInjective
<1>10. IsFiniteSet(used)
  BY DEF Inv, Said, ThisFile
<1> QED
  BY <1>1, <1>9, <1>10, FS_Bijection

\* The one record of a reference, when the object file has been written.
LEMMA RecordAtEnd ==
    ASSUME Inv, [Next]_vars, pc' = "done", ~UNCHANGED vars, NEW u \in used
    PROVE  \/ /\ InGlobal(u) /\ MeansGlobal(u.file, u.name) /\ ~Skip(u.name)
              /\ Relocation(u.fixup, [kind |-> "index", index |-> SymbolNumber(u.name)],
                            u.fixup.value) \in object'.relocs
           \/ /\ InList(u) /\ ~MeansGlobal(u.file, u.name)
              /\ \E r \in object'.relocs : IsRecordOf(r, u)
<1>1. pc = "write" /\ object'.relocs = fixupList \cup Transferred /\ (InGlobal(u) \/ InList(u))
  BY WriteEffect
<1>2. u.name \in Name
  BY <1>1, MeaningAtEnd
<1>3. CASE InGlobal(u)
  <2>1. MeansGlobal(u.file, u.name) /\ ~Skip(u.name)
    BY <1>1, <1>3, MeaningAtEnd
  <2>2. Relocation(u.fixup, [kind |-> "index", index |-> SymbolNumber(u.name)],
                   u.fixup.value) \in Transferred
    BY <1>2, <1>3, TransferredHas
  <2> QED
    BY <1>1, <1>3, <2>1, <2>2
<1>4. CASE InList(u)
  <2>1. PICK r \in fixupList : AtPlace(r, u.fixup)
    BY <1>4 DEF InList
  <2>2. ~MeansGlobal(u.file, u.name) /\ IsRecordOf(r, u)
    BY <1>1, <2>1, MeaningAtEnd
  <2> QED
    BY <1>1, <1>4, <2>2
<1> QED
  BY <1>1, <1>3, <1>4

(***************************************************************************)
(* linkSymbol and transferFixupsForSymbol (as.c): for every text, each     *)
(* reference is one relocation record, relative to its file's own label or *)
(* to the entry of its name in the symbol table as written.                *)
(***************************************************************************)
THEOREM RecordsMeanText == Spec => []ReferencesMean
<1>1. ASSUME Inv, [Next]_vars, pc' = "done", ~UNCHANGED vars PROVE ReferencesMean'
  <2>1. /\ used' = used /\ labels' = labels /\ declared' = declared
        /\ object'.symbols = SymbolTable
    BY <1>1, WriteEffect
  <2>2. \A k, n : MeansGlobal(k, n)' <=> MeansGlobal(k, n)
    BY <2>1 DEF MeansGlobal
  <2>3. Cardinality(object'.relocs) = Cardinality(used')
    BY <1>1, RecordsCounted
  <2>4. ASSUME NEW u \in used
        PROVE  \E r \in object'.relocs :
                  /\ r.segment = u.fixup.segment /\ r.offset = u.fixup.offset
                  /\ r.method = u.fixup.method
                  /\ IF MeansGlobal(u.file, u.name)
                     THEN /\ r.base.kind = "index"
                          /\ SymbolTable[r.base.index + 1] = u.name
                          /\ r.value = u.fixup.value
                     ELSE \E l \in labels :
                            /\ l.file = u.file /\ l.name = u.name
                            /\ r.base = SegBase(l.segment)
                            /\ r.value = u.fixup.value + l.value
    <3>1. u.name \in Name
      BY <1>1 DEF Inv, TypeOK, Use
    <3>2. CASE MeansGlobal(u.file, u.name)
      <4>1. PICK r \in object'.relocs :
               r = Relocation(u.fixup, [kind |-> "index", index |-> SymbolNumber(u.name)],
                              u.fixup.value)
        BY <1>1, <3>2, RecordAtEnd
      <4>2. ~Skip(u.name)
        BY <1>1, <3>2, RecordAtEnd
      <4>3. SymbolTable[SymbolNumber(u.name) + 1] = u.name
        BY <3>1, <4>2, SymbolsWritten
      <4>4. /\ r.segment = u.fixup.segment /\ r.offset = u.fixup.offset
            /\ r.method = u.fixup.method /\ r.value = u.fixup.value
            /\ r.base.kind = "index" /\ r.base.index = SymbolNumber(u.name)
        BY <4>1 DEF Relocation
      <4> QED
        BY <3>2, <4>3, <4>4
    <3>3. CASE ~MeansGlobal(u.file, u.name)
      <4>1. PICK r \in object'.relocs : IsRecordOf(r, u)
        BY <1>1, <3>3, RecordAtEnd
      <4> QED
        BY <3>3, <4>1 DEF IsRecordOf, Relocation
    <3> QED
      BY <3>2, <3>3
  <2> QED
    BY <2>1, <2>2, <2>3, <2>4 DEF ReferencesMean
<1>2. Inv /\ ReferencesMean /\ [Next]_vars => ReferencesMean'
  <2>1. ASSUME ReferencesMean, UNCHANGED vars PROVE ReferencesMean'
    BY <2>1 DEF vars, history, ReferencesMean, MeansGlobal
  <2>2. pc' # "done" => ReferencesMean'
    BY DEF ReferencesMean
  <2> QED
    BY <1>1, <2>1, <2>2
<1>3. Init => ReferencesMean
  BY DEF Init, ReferencesMean
<1> QED
  BY <1>2, <1>3, AsmInvariant, PTL DEF Spec

(***************************************************************************)
(* writeSymbol (as.c): for every text, the symbol table exports just the   *)
(* names one file labels and declares, where it labels them, and imports   *)
(* just those that are only used.                                          *)
(***************************************************************************)
THEOREM SymbolsMeanText == Spec => []DefinitionsMean
<1>1. ASSUME Inv, [Next]_vars, pc' = "done", ~UNCHANGED vars PROVE DefinitionsMean'
  <2>1. /\ pc = "write" /\ used' = used /\ labels' = labels /\ declared' = declared
        /\ object'.symbols = SymbolTable
        /\ \A n \in Name : /\ object'.status[n] = globalTable[n].status
                           /\ object'.place[n] = [segment |-> globalTable[n].segment,
                                                  value |-> globalTable[n].value]
    BY <1>1, WriteEffect
  <2>2. \A k, n : MeansGlobal(k, n)' <=> MeansGlobal(k, n)
    BY <2>1 DEF MeansGlobal
  <2>3. \A n : DefinedGlobally(n)' = DefinedGlobally(n)
    BY <2>1 DEF DefinedGlobally
  <2>4. \A n \in Name : Written(n)' <=> ~Skip(n)
    BY <2>1, SymbolsWritten DEF Written
  <2>5. ASSUME NEW n \in Name
        PROVE  /\ ~Skip(n) /\ globalTable[n].status = "defined" <=> DefinedGlobally(n) # {}
               /\ \A l \in DefinedGlobally(n) :
                     [segment |-> globalTable[n].segment, value |-> globalTable[n].value]
                        = [segment |-> l.segment, value |-> l.value]
               /\ ~Skip(n) /\ globalTable[n].status = "unknown" <=>
                     /\ DefinedGlobally(n) = {}
                     /\ \E u \in used : u.name = n /\ MeansGlobal(u.file, n)
    <3>1. /\ globalTable[n].status = "defined" <=> DefinedGlobally(n) # {}
          /\ \A l \in DefinedGlobally(n) :
                l.segment = globalTable[n].segment /\ l.value = globalTable[n].value
      BY <1>1 DEF Inv, Said, GlobalsSaid
    <3>2. globalTable[n].status \in {"unknown", "defined"}
      BY <1>1 DEF Inv, TypeOK, GlobalSymbol, Symbol
    <3>3. ASSUME globalTable[n].fixups # {}
          PROVE  \E u \in used : u.name = n /\ MeansGlobal(u.file, n)
      <4>1. PICK f : f \in globalTable[n].fixups
        BY <3>3
      <4>2. PICK u \in used : u.name = n /\ u.fixup = f
        BY <1>1, <4>1 DEF Inv, Held, HeldAreUses
      <4>3. InGlobal(u)
        BY <4>1, <4>2 DEF InGlobal
      <4> QED
        BY <1>1, <2>1, <4>2, <4>3, MeaningAtEnd
    <3>4. ASSUME NEW u \in used, u.name = n, MeansGlobal(u.file, n)
          PROVE  globalTable[n].fixups # {}
      BY <1>1, <3>4, RecordAtEnd DEF InGlobal
    <3> QED
      BY <3>1, <3>2, <3>3, <3>4 DEF Skip
  <2>6. ASSUME NEW n \in Name
        PROVE  /\ Written(n)' /\ object'.status[n] = "defined" <=> DefinedGlobally(n)' # {}
               /\ \A l \in DefinedGlobally(n)' :
                     object'.place[n] = [segment |-> l.segment, value |-> l.value]
               /\ Written(n)' /\ object'.status[n] = "unknown" <=>
                     /\ DefinedGlobally(n)' = {}
                     /\ \E u \in used' : u.name = n /\ MeansGlobal(u.file, n)'
    <3>1. Written(n)' /\ object'.status[n] = "defined" <=> DefinedGlobally(n)' # {}
      BY <2>1, <2>3, <2>4, <2>5
    <3>2. \A l \in DefinedGlobally(n)' :
             object'.place[n] = [segment |-> l.segment, value |-> l.value]
      BY <2>1, <2>3, <2>5
    <3>3. Written(n)' /\ object'.status[n] = "unknown" <=>
             /\ DefinedGlobally(n)' = {}
             /\ \E u \in used' : u.name = n /\ MeansGlobal(u.file, n)'
      BY <2>1, <2>2, <2>3, <2>4, <2>5
    <3> QED
      BY <3>1, <3>2, <3>3
  <2> QED
    BY <2>6 DEF DefinitionsMean
<1>2. Inv /\ DefinitionsMean /\ [Next]_vars => DefinitionsMean'
  <2>1. ASSUME DefinitionsMean, UNCHANGED vars PROVE DefinitionsMean'
    <3>1. /\ pc' = pc /\ object' = object
          /\ used' = used /\ labels' = labels /\ declared' = declared
      BY <2>1 DEF vars, history
    <3>2. \A k, n : MeansGlobal(k, n)' <=> MeansGlobal(k, n)
      BY <3>1 DEF MeansGlobal
    <3>3. \A n : DefinedGlobally(n)' = DefinedGlobally(n) /\ (Written(n)' <=> Written(n))
      BY <3>1 DEF DefinedGlobally, Written
    <3> QED
      BY <2>1, <3>1, <3>2, <3>3 DEF DefinitionsMean
  <2>2. pc' # "done" => DefinitionsMean'
    BY DEF DefinitionsMean
  <2> QED
    BY <1>1, <2>1, <2>2
<1>3. Init => DefinitionsMean
  BY DEF Init, DefinitionsMean
<1> QED
  BY <1>2, <1>3, AsmInvariant, PTL DEF Spec

\* What the linker requires of a record, and where the record's bytes are.
LEMMA RecordLinkable ==
    ASSUME Inv, [Next]_vars, pc' = "done", ~UNCHANGED vars, NEW r \in object'.relocs
    PROVE  \E b \in Base :
              /\ b.kind = "symbol" => b.symbol \in Name /\ ~Skip(b.symbol)
              /\ b = IF r.base.kind = "index" THEN SymBase(SymbolTable[r.base.index + 1])
                                              ELSE r.base
              /\ [r EXCEPT !.base = b] \in RelocRecord
              /\ [r EXCEPT !.base = b].base = b
              /\ r.segment \in Stored /\ r.offset + 4 <= segPtr[r.segment]
<1>1. /\ pc = "write" /\ r \in fixupList \cup Transferred
      /\ r.segment \in Stored
  BY WriteEffect
<1>2. Methods \subseteq Method
  BY DEF Methods, Method, Branch
<1>3. ASSUME NEW u \in used, AtPlace(r, u.fixup),
             NEW c, NEW v \in Int, r = Relocation(u.fixup, c, v),
             NEW b \in Base
      PROVE  /\ [r EXCEPT !.base = b] \in RelocRecord
             /\ [r EXCEPT !.base = b].base = b
             /\ r.offset + 4 <= segPtr[r.segment]
  <2>1. u.fixup \in Fixup
    BY DEF Inv, TypeOK, Use
  <2>2. r.offset + 4 <= segPtr[r.segment]
    BY <1>3 DEF Inv, Held, PlacesApart, AtPlace
  <2>3. [r EXCEPT !.base = b] = [segment |-> u.fixup.segment, offset |-> u.fixup.offset,
                                 method |-> u.fixup.method, value |-> v, base |-> b]
    BY <1>3 DEF Relocation
  <2>4. u.fixup.segment \in Stored /\ u.fixup.offset \in Nat /\ u.fixup.method \in Method
    BY <1>1, <1>2, <1>3, <2>1 DEF Fixup, AtPlace
  <2> QED
    BY <2>2, <2>3, <2>4 DEF RelocRecord
<1>4. CASE r \in fixupList
  <2>1. PICK u \in used : AtPlace(r, u.fixup)
    BY <1>4 DEF Inv, Held, HeldAreUses
  <2>2. IsRecordOf(r, u)
    BY <1>1, <1>4, <2>1, MeaningAtEnd
  <2>3. PICK l \in labels :
           r = Relocation(u.fixup, SegBase(l.segment), u.fixup.value + l.value)
    BY <2>2 DEF IsRecordOf
  <2>4. u.fixup.value + l.value \in Int /\ l.segment \in Segment
    BY SegmentsEmit DEF Inv, TypeOK, Use, Fixup, TextLabel
  <2>5. SegBase(l.segment) \in Base /\ SegBase(l.segment).kind = "segment"
    BY <2>4 DEF Base, SegBase
  <2>6. r.base = SegBase(l.segment)
    BY <2>3 DEF Relocation
  <2>7. /\ [r EXCEPT !.base = SegBase(l.segment)] \in RelocRecord
        /\ [r EXCEPT !.base = SegBase(l.segment)].base = SegBase(l.segment)
        /\ r.offset + 4 <= segPtr[r.segment]
    BY <1>3, <2>1, <2>3, <2>4, <2>5
  <2> QED
    BY <1>1, <2>5, <2>6, <2>7
<1>5. CASE r \in Transferred
  <2>1. PICK u \in used :
           /\ u.name \in Name /\ InGlobal(u) /\ AtPlace(r, u.fixup)
           /\ r = Relocation(u.fixup, [kind |-> "index", index |-> SymbolNumber(u.name)],
                             u.fixup.value)
    BY <1>5, TransferredRecords DEF Inv
  <2>2. ~Skip(u.name)
    BY <1>1, <2>1, MeaningAtEnd
  <2>3. SymbolTable[SymbolNumber(u.name) + 1] = u.name
    BY <2>1, <2>2, SymbolsWritten
  <2>4. r.base.kind = "index" /\ r.base.index = SymbolNumber(u.name)
    BY <2>1 DEF Relocation
  <2>5. /\ SymBase(u.name) \in Base /\ SymBase(u.name).kind = "symbol"
        /\ SymBase(u.name).symbol = u.name
    BY <2>1 DEF Base, SymBase
  <2>6. u.fixup.value \in Int
    BY DEF Inv, TypeOK, Use, Fixup
  <2>7. /\ [r EXCEPT !.base = SymBase(u.name)] \in RelocRecord
        /\ [r EXCEPT !.base = SymBase(u.name)].base = SymBase(u.name)
        /\ r.offset + 4 <= segPtr[r.segment]
    BY <1>3, <2>1, <2>5, <2>6
  <2> QED
    BY <1>1, <2>1, <2>2, <2>3, <2>4, <2>5, <2>7
<1> QED
  BY <1>1, <1>4, <1>5

(***************************************************************************)
(* What as writes, ld can read: for every text, the object file is one the *)
(* linker's model assumes, its sections are multiples of 4 and each place  *)
(* to be patched is inside its section.                                    *)
(***************************************************************************)
THEOREM OutputLinkable == Spec => []LinkableOutput
<1>1. ASSUME Inv, [Next]_vars, pc' = "done", ~UNCHANGED vars PROVE LinkableOutput'
  <2>1. /\ pc = "write" /\ object'.symbols = SymbolTable /\ object'.size = segPtr
        /\ \A n \in Name : /\ object'.status[n] = globalTable[n].status
                           /\ object'.place[n] = [segment |-> globalTable[n].segment,
                                                  value |-> globalTable[n].value]
    BY <1>1, WriteEffect
  <2>2. \A n \in Name : Written(n)' <=> ~Skip(n)
    BY <2>1, SymbolsWritten DEF Written
  <2>3. PICK o : o = AsObjectFile'
    OBVIOUS
  <2>4. /\ o.magic = TRUE /\ o.size = segPtr
        /\ o.undefs = {n \in Name : ~Skip(n) /\ globalTable[n].status = "unknown"}
        /\ o.relocs = {[r EXCEPT !.base = IF r.base.kind = "index"
                                          THEN SymBase(SymbolTable[r.base.index + 1])
                                          ELSE r.base] : r \in object'.relocs}
    BY <2>1, <2>2, <2>3 DEF AsObjectFile
  <2>5. o.defs = [n \in {x \in Name : ~Skip(x) /\ globalTable[x].status = "defined"} |->
                     [segment |-> globalTable[n].segment, value |-> globalTable[n].value]]
    BY <2>1, <2>2, <2>3 DEF AsObjectFile
  <2>6. \A n \in Name : globalTable[n] \in GlobalSymbol
    BY <1>1 DEF Inv, TypeOK
  <2>7. o.undefs \subseteq Name /\ DOMAIN o.defs \subseteq Name \ o.undefs
    BY <2>4, <2>5
  <2>8. \A n \in DOMAIN o.defs : o.defs[n] \in Place
    <3>1. \A n \in Name : globalTable[n].segment \in Segment /\ globalTable[n].value \in Nat
      BY <2>6 DEF GlobalSymbol, Symbol
    <3>2. \A n \in DOMAIN o.defs :
             n \in Name /\ o.defs[n] = [segment |-> globalTable[n].segment,
                                       value |-> globalTable[n].value]
      BY <2>5
    <3>3. \A s \in Segment, v \in Nat : [segment |-> s, value |-> v] \in Place
      BY DEF Place
    <3> QED
      BY <3>1, <3>2, <3>3
  <2>9. \A n \in Name : ~Skip(n) => n \in DOMAIN o.defs \cup o.undefs
    BY <2>4, <2>5, <2>6 DEF GlobalSymbol, Symbol
  <2>10. ASSUME NEW q \in o.relocs
         PROVE  /\ q \in RelocRecord
                /\ q.base.kind = "symbol" => q.base.symbol \in DOMAIN o.defs \cup o.undefs
    <3>1. PICK r \in object'.relocs :
             q = [r EXCEPT !.base = IF r.base.kind = "index"
                                    THEN SymBase(SymbolTable[r.base.index + 1])
                                    ELSE r.base]
      BY <2>4
    <3>2. PICK b \in Base :
             /\ b.kind = "symbol" => b.symbol \in Name /\ ~Skip(b.symbol)
             /\ b = IF r.base.kind = "index" THEN SymBase(SymbolTable[r.base.index + 1])
                                             ELSE r.base
             /\ [r EXCEPT !.base = b] \in RelocRecord
             /\ [r EXCEPT !.base = b].base = b
      BY <1>1, RecordLinkable
    <3>3. q = [r EXCEPT !.base = b]
      BY <3>1, <3>2
    <3>4. q \in RelocRecord /\ q.base = b
      BY <3>2, <3>3
    <3> QED
      BY <2>9, <3>2, <3>4
  <2>11. segPtr \in [Segment -> Nat] /\ segPtr["ABS"] = 0
    BY <1>1 DEF Inv, TypeOK
  <2>12. IsObjectFile(o)
    BY <2>4, <2>7, <2>8, <2>10, <2>11 DEF IsObjectFile
  <2>13. \A s \in Segment : object'.size[s] % 4 = 0
    BY <1>1, <2>1 DEF Inv, Said, Aligned
  <2>14. \A r \in object'.relocs : r.offset + 4 <= object'.size[r.segment]
    BY <1>1, <2>1, RecordLinkable
  <2> QED
    BY <2>3, <2>12, <2>13, <2>14 DEF LinkableOutput
<1>2. Inv /\ LinkableOutput /\ [Next]_vars => LinkableOutput'
  <2>1. ASSUME LinkableOutput, UNCHANGED vars PROVE LinkableOutput'
    <3>1. pc' = pc /\ object' = object
      BY <2>1 DEF vars
    <3>2. \A n : Written(n)' <=> Written(n)
      BY <3>1 DEF Written
    <3>3. AsObjectFile' = AsObjectFile
      BY <3>1, <3>2 DEF AsObjectFile
    <3> QED
      BY <2>1, <3>1, <3>3 DEF LinkableOutput
  <2>2. pc' # "done" => LinkableOutput'
    BY DEF LinkableOutput
  <2> QED
    BY <1>1, <2>1, <2>2
<1>3. Init => LinkableOutput
  BY DEF Init, LinkableOutput
<1> QED
  BY <1>2, <1>3, AsmInvariant, PTL DEF Spec
============================================================================
