--------------------------- MODULE LinkerProofs ---------------------------
(***************************************************************************)
(* Theorems about the linker for every set of object modules, libraries    *)
(* and command lines: the types of ld's variables, the layout of sections  *)
(* and the binding of names; then what the linker promises as a whole: it  *)
(* implements the abstract link of module StaticLink, loads each member    *)
(* once and gives up only on symbols nobody exports.                       *)
(***************************************************************************)
EXTENDS Linker, Recursion, TLAPS, SequenceTheorems, FiniteSetTheorems

---------------------------------------------------------------------------
(* Types *)

\* The object files and command lines are what the assumption says.
LEMMA ContentsType ==
    ASSUME NEW o \in Object
    PROVE  /\ Contents[o].size \in [Segment -> Nat]
           /\ Contents[o].undefs \subseteq Name
           /\ DOMAIN Contents[o].defs \subseteq Name \ Contents[o].undefs
           /\ \A n \in DOMAIN Contents[o].defs :
                 /\ Contents[o].defs[n].segment \in Segment
                 /\ Contents[o].defs[n].value \in Nat
           /\ Contents[o].relocs \subseteq RelocRecord
  BY LinkerAssumption DEF LinkerAssumption, IsObjectFile, Place

LEMMA InvocationType ==
    ASSUME NEW v \in Invocation
    PROVE  /\ v.files \in Seq(File)
           /\ v.libs \in Seq(Library)
           /\ v.start \in [Segment -> Nat \cup {Unset}]
           /\ v.header \in {"none", "aout", "elf"}
  BY LinkerAssumption DEF LinkerAssumption, IsInvocation

\* addReloc makes a record of a record.
LEMMA AddRelocType ==
    ASSUME segPtr \in [Segment -> Nat], NEW r \in RelocRecord
    PROVE  AddReloc(r) \in RelocRecord
<1>1. r.segment \in Segment /\ r.offset \in Nat /\ r.value \in Int /\ r.base \in Base
  BY DEF RelocRecord, Segment, Stored
<1>2. r.offset + segPtr[r.segment] \in Nat
  BY <1>1
<1>3. r.base.kind = "segment" => r.base.segment \in Segment
  BY <1>1 DEF Base, SegBase, SymBase
<1>4. r.value + (IF r.base.kind = "segment" THEN segPtr[r.base.segment] ELSE 0) \in Int
  BY <1>1, <1>3
<1> QED
  BY <1>2, <1>4 DEF AddReloc, RelocRecord

\* readSymbols makes a symbol table entry.
LEMMA ReadSymbolType ==
    ASSUME segPtr \in [Segment -> Nat], symbolTable \in [Name -> SymbolEntry],
           NEW o \in Object, NEW n \in Name
    PROVE  ReadSymbol(Contents[o], n) \in SymbolEntry
<1> DEFINE d == Contents[o].defs[n]
<1>1. CASE n \in DOMAIN Contents[o].defs /\ ~IsDefined(n)
  <2>1. d.segment \in Segment /\ d.value \in Nat
    BY <1>1, ContentsType
  <2>2. d.value + segPtr[d.segment] \in Nat
    BY <2>1
  <2>3. ReadSymbol(Contents[o], n) = Defined(d.segment, d.value + segPtr[d.segment])
    BY <1>1 DEF ReadSymbol
  <2> QED
    BY <2>1, <2>2, <2>3 DEF Defined, SymbolEntry
<1>2. CASE ~(n \in DOMAIN Contents[o].defs /\ ~IsDefined(n))
  <2>1. ReadSymbol(Contents[o], n) \in {Undefined, symbolTable[n]}
    BY <1>2 DEF ReadSymbol
  <2>2. Undefined \in SymbolEntry
    BY DEF Undefined, SymbolEntry, Segment
  <2> QED
    BY <2>1, <2>2
<1> QED
  BY <1>1, <1>2

Loaded == [object : Object, base : [Segment -> Nat]]

\* readModule keeps the types of what it changes.
LEMMA ReadModuleType ==
    ASSUME TypeOK, NEW o \in Object, ReadModule(o)
    PROVE  /\ loaded' \in Seq(Loaded)
           /\ symbolTable' \in [Name -> SymbolEntry]
           /\ defset' \subseteq Name
           /\ relocs' \subseteq RelocRecord
           /\ segPtr' \in [Segment -> Nat]
<1>1. loaded \in Seq(Loaded) /\ segPtr \in [Segment -> Nat]
      /\ symbolTable \in [Name -> SymbolEntry]
      /\ relocs \subseteq RelocRecord /\ defset \subseteq Name
  BY DEF TypeOK, Loaded
<1>2. loaded' \in Seq(Loaded)
  <2>1. [object |-> o, base |-> segPtr] \in Loaded
    BY <1>1 DEF Loaded
  <2>2. loaded' = Append(loaded, [object |-> o, base |-> segPtr])
    BY DEF ReadModule
  <2> QED
    BY <1>1, <2>1, <2>2, AppendProperties
<1>3. symbolTable' \in [Name -> SymbolEntry]
  <2>1. symbolTable' = [n \in Name |-> ReadSymbol(Contents[o], n)]
    BY DEF ReadModule
  <2> QED
    BY <1>1, <2>1, ReadSymbolType
<1>4. defset' \subseteq Name
  BY <1>1, ContentsType DEF ReadModule
<1>5. relocs' \subseteq RelocRecord
  <2>1. \A r \in Contents[o].relocs : AddReloc(r) \in RelocRecord
    BY <1>1, ContentsType, AddRelocType
  <2>2. relocs' = relocs \cup {AddReloc(r) : r \in Contents[o].relocs}
    BY DEF ReadModule
  <2> QED
    BY <1>1, <2>1, <2>2
<1>6. segPtr' \in [Segment -> Nat]
  <2>1. segPtr' = [s \in Segment |-> segPtr[s] + Contents[o].size[s]]
    BY DEF ReadModule, NextSegPtr
  <2>2. \A s \in Segment : segPtr[s] + Contents[o].size[s] \in Nat
    BY <1>1, ContentsType
  <2> QED
    BY <2>1, <2>2
<1> QED
  BY <1>2, <1>3, <1>4, <1>5, <1>6

\* PAGE_ROUND yields an address.
LEMMA PageRoundType ==
    ASSUME NEW a \in Nat
    PROVE  PageRound(a) \in Nat /\ PageRound(a) >= a
  BY SMT DEF PageRound, PAGE_SIZE

\* relocateSegments yields start addresses.
LEMMA StartType ==
    ASSUME opt \in Invocation, segPtr \in [Segment -> Nat]
    PROVE  Start \in [Segment -> Nat]
<1> DEFINE at(s, default) == IF opt.start[s] = Unset THEN default ELSE opt.start[s]
           code == at("CODE", 0)
           data == at("DATA", PageRound(code + segPtr["CODE"]))
           bss  == at("BSS", PageRound(data + segPtr["DATA"]))
<1>1. \A s \in Segment, k \in Nat : at(s, k) \in Nat
  BY InvocationType
<1>2. \A s \in Segment : segPtr[s] \in Nat
  OBVIOUS
<1>3. code \in Nat
  BY <1>1 DEF Segment
<1>4. data \in Nat
  <2>1. code + segPtr["CODE"] \in Nat
    BY <1>2, <1>3 DEF Segment
  <2> QED
    BY <2>1, <1>1, PageRoundType DEF Segment
<1>5. bss \in Nat
  <2>1. data + segPtr["DATA"] \in Nat
    BY <1>2, <1>4 DEF Segment
  <2> QED
    BY <2>1, <1>1, PageRoundType DEF Segment
<1>6. Start = [ABS |-> 0, CODE |-> code, DATA |-> data, BSS |-> bss]
  BY DEF Start
<1> QED
  BY <1>3, <1>4, <1>5, <1>6 DEF Segment

\* linkSymbol makes a record of a record, relative to a segment.
LEMMA LinkSymbolType ==
    ASSUME symbolTable \in [Name -> SymbolEntry], NEW r \in RelocRecord
    PROVE  /\ LinkSymbol(r) \in RelocRecord
           /\ \E s \in Segment : LinkSymbol(r).base = SegBase(s)
<1>1. CASE r.base.kind = "segment"
  BY <1>1 DEF LinkSymbol, RelocRecord, Base, SegBase, SymBase
<1>2. CASE r.base.kind # "segment"
  <2>1. r.base.symbol \in Name
    BY <1>2 DEF RelocRecord, Base, SegBase, SymBase
  <2>2. symbolTable[r.base.symbol].value \in Nat
        /\ symbolTable[r.base.symbol].segment \in Segment
    BY <2>1 DEF SymbolEntry
  <2>3. r.value + symbolTable[r.base.symbol].value \in Int
    BY <2>2 DEF RelocRecord
  <2>4. SegBase(symbolTable[r.base.symbol].segment) \in Base
    BY <2>2 DEF Base
  <2>5. LinkSymbol(r) = [r EXCEPT !.value = r.value + symbolTable[r.base.symbol].value,
                                  !.base = SegBase(symbolTable[r.base.symbol].segment)]
    BY <1>2 DEF LinkSymbol
  <2> QED
    BY <2>2, <2>3, <2>4, <2>5 DEF RelocRecord
<1> QED
  BY <1>1, <1>2

\* fixupRef computes a number for every record that is relative to a segment.
LEMMA FixupType ==
    ASSUME NEW r \in RelocRecord, NEW s \in Segment, r.base = SegBase(s),
           NEW st \in [Segment -> Nat]
    PROVE  Fixup(r, st) \in
              [segment : Stored, offset : Nat, method : Method, field : Int]
<1>1. r.offset \in Nat /\ r.value \in Int /\ r.method \in Method /\ r.segment \in Stored
  BY DEF RelocRecord
<1>2. st[r.base.segment] \in Nat /\ st[r.segment] \in Nat
  BY <1>1 DEF SegBase, Stored, Segment
<1>3. FixupValue(r, st) \in Int
  <2>1. CASE r.method = "W32"
    BY <2>1, <1>1, <1>2 DEF FixupValue
  <2>2. CASE r.method \in Branch
    <3>1. r.method # "W32"
      BY <2>2 DEF Branch
    <3>2. FixupValue(r, st) =
            r.value - r.offset + (IF r.method \in SecondOfPair THEN 4 ELSE 0)
      BY <2>2, <3>1, Zenon DEF FixupValue, Branch, PcRel
    <3> QED
      BY <3>2, <1>1
  <2>3. CASE r.method \in PcRel
    BY <2>3, <1>1, <1>2 DEF FixupValue, Branch, PcRel
  <2> QED
    BY <1>1, <2>1, <2>2, <2>3 DEF Method
<1> QED
  BY <1>1, <1>3 DEF Fixup

(***************************************************************************)
(* TypeOK alone is not inductive: fixupRef reads the segment of a record,  *)
(* and a record relative to a symbol has none.  linkSymbols leaves no such *)
(* record to relocateSegments.                                             *)
(***************************************************************************)
BasesBound == pc = "relocate" => \A r \in relocs : \E s \in Segment : r.base = SegBase(s)

\* Init of the linker has the right types.
LEMMA InitType == Init => TypeOK
<1> SUFFICES ASSUME Init PROVE TypeOK
  OBVIOUS
<1>1. opt.files \in Seq(File) /\ opt.libs \in Seq(Library)
  BY InvocationType DEF Init
<1>2. argi \in 0..Len(opt.files)
  BY <1>1 DEF Init
<1>3. symbolTable \in [Name -> SymbolEntry]
  BY DEF Init, NoSymbol, SymbolEntry, Segment
<1>4. dir \in [File -> Object \cup {Missing}]
  BY LinkerAssumption DEF Init, LinkerAssumption
<1>5. loaded \in Seq(Loaded)
  BY DEF Init
<1> QED
  BY <1>1, <1>2, <1>3, <1>4, <1>5 DEF Init, TypeOK, Loaded

(***************************************************************************)
(* Every step keeps the types.                                             *)
(***************************************************************************)
LEMMA NextType == TypeOK /\ BasesBound /\ [Next]_vars => TypeOK'
<1> SUFFICES ASSUME TypeOK, BasesBound, [Next]_vars PROVE TypeOK'
  OBVIOUS
<1> USE DEF TypeOK
<1> DEFINE Layouts == [segment : Stored, offset : Nat, method : Method, field : Int]
<1>1. CASE ReadFile
  <2> DEFINE o == dir[opt.files[argi + 1]]
  <2>1. argi \in Nat /\ opt.files \in Seq(File) /\ argi + 1 \in 1..Len(opt.files)
    BY <1>1, InvocationType DEF ReadFile
  <2>2. o \in Object \cup {Missing}
    BY <2>1
  <2>3. CASE o = Missing \/ ~Contents[o].magic
    BY <1>1, <2>3 DEF ReadFile, Error, symvars
  <2>4. CASE ~(o = Missing \/ ~Contents[o].magic)
    <3>1. ReadModule(o) /\ undefset' = undefset \cup Contents[o].undefs /\ argi' = argi + 1
          /\ UNCHANGED <<pc, temps>>
      BY <1>1, <2>4 DEF ReadFile
    <3>2. undefset' \subseteq Name
      BY <2>2, <2>4, <3>1, ContentsType
    <3>3. opt' = opt /\ argi' \in 0..Len(opt'.files)
      BY <1>1, <2>1, <3>1 DEF ReadFile
    <3> QED
      BY <1>1, <2>2, <2>4, <3>1, <3>2, <3>3, ReadModuleType DEF ReadFile, Loaded
  <2> QED
    BY <2>3, <2>4
<1>2. CASE FilesRead
  BY <1>2 DEF FilesRead, symvars, libvars
<1>3. CASE OpenLibrary
  <2> DEFINE l == Head(liblist)
  <2>1. l \in Library /\ liblist' \in Seq(Library)
    BY <1>3, HeadTailProperties DEF OpenLibrary, OtherLibraries
  <2>2. \A n \in Name : LibEntryOf(l, n) \in LibEntry \cup {Missing}
    <3> SUFFICES ASSUME NEW n \in Name PROVE LibEntryOf(l, n) \in LibEntry \cup {Missing}
      OBVIOUS
    <3> DEFINE d == Archive[l].symdef
               I == {i \in DOMAIN d : d[i].name = n}
               first == CHOOSE i \in I : \A j \in I : i <= j
    <3>1. CASE I = {} \/ Archive[l].kind # "archive"
      BY <3>1 DEF LibEntryOf
    <3>2. CASE ~(I = {} \/ Archive[l].kind # "archive")
      <4>1. d \in Seq([name : Name, file : File])
        BY <2>1, LinkerAssumption DEF LinkerAssumption, IsArchive
      <4>2. DOMAIN d = 1..Len(d)
        BY <4>1
      <4>3. I # {} /\ I \subseteq Nat
        BY <3>2, <4>2
      <4>4. \E i \in I : \A j \in I : i <= j
        BY <4>3, LeastNumber
      <4>5. first \in I
        BY <4>4
      <4>6. d[first].file \in File
        <5>1. first \in 1..Len(d)
          BY <4>2, <4>5
        <5> HIDE DEF first, d
        <5>2. d[first] \in [name : Name, file : File]
          BY <4>1, <5>1, ElementOfSeq
        <5> QED
          BY <5>2
      <4>7. LibEntryOf(l, n) = [library |-> l, file |-> d[first].file]
        BY <3>2 DEF LibEntryOf
      <4> HIDE DEF first, d, l
      <4> QED
        BY <2>1, <4>6, <4>7 DEF LibEntry
    <3> QED
      BY <3>1, <3>2
  <2>3. undefset' \subseteq Name
    BY <1>3 DEF OpenLibrary, StillUndefined
  <2>4. libsymbolTable' \in [Name -> LibEntry \cup {Missing}]
    BY <1>3, <2>2 DEF OpenLibrary
  <2>5. pc' \in {"exit", "resolve"}
    BY <1>3 DEF OpenLibrary
  <2> QED
    BY <1>3, <2>1, <2>3, <2>4, <2>5 DEF OpenLibrary, symvars
<1>4. CASE NoMoreLibraries
  BY <1>4 DEF NoMoreLibraries, symvars, libvars
<1>5. ASSUME NEW n \in Name, ExtractMember(n) PROVE TypeOK'
  <2> DEFINE e == libsymbolTable[n]
             m == Archive[e.library].member[e.file]
             o == IF m = Missing THEN dir[e.file] ELSE m
  <2>1. e \in LibEntry /\ e.library \in Library /\ e.file \in File
    BY <1>5 DEF ExtractMember, LibEntry
  <2>2. m \in Object \cup {Missing}
    BY <2>1, LinkerAssumption DEF LinkerAssumption, IsArchive
  <2>3. o \in Object \cup {Missing}
    BY <2>1, <2>2
  <2>4. loaded_members' \subseteq File
    BY <1>5, <2>1 DEF ExtractMember
  <2>5. CASE o = Missing \/ ~Contents[o].magic
    <3>1. dir' \in [File -> Object \cup {Missing}]
      BY <1>5, <2>1, <2>3, <2>5 DEF ExtractMember
    <3>2. undefset' \subseteq Name
      BY <1>5, <2>5 DEF ExtractMember
    <3> QED
      BY <1>5, <2>4, <2>5, <3>1, <3>2 DEF ExtractMember, Error, symvars
  <2>6. CASE ~(o = Missing \/ ~Contents[o].magic)
    <3>1. /\ ReadModule(o)
          /\ undefset' = StillUndefined((undefset \ {n}) \cup Contents[o].undefs, defset')
          /\ dir' = Unlinked(e.file, o)
          /\ UNCHANGED <<pc, temps>>
      BY <1>5, <2>6 DEF ExtractMember
    <3>2. undefset' \subseteq Name
      BY <2>3, <2>6, <3>1, ContentsType DEF StillUndefined
    <3>3. dir' \in [File -> Object \cup {Missing}]
      BY <3>1 DEF Unlinked
    <3>4. UNCHANGED <<opt, argi, liblist, libsymbolTable, segStart, patched, out>>
      BY <1>5 DEF ExtractMember
    <3> QED
      BY <2>3, <2>4, <2>6, <3>1, <3>2, <3>3, <3>4, ReadModuleType DEF Loaded
  <2> QED
    BY <2>5, <2>6
<1>6. ASSUME NEW n \in Name, NotInLibraries(n) PROVE TypeOK'
  BY <1>6 DEF NotInLibraries, Error, symvars, libvars
<1>7. CASE LookupInEmptyTable
  BY <1>7 DEF LookupInEmptyTable, symvars, libvars
<1>8. CASE LibraryExhausted
  BY <1>8 DEF LibraryExhausted, symvars, libvars
<1>9. CASE LinkSymbols
  <2>1. relocs' \subseteq RelocRecord
    BY <1>9, LinkSymbolType DEF LinkSymbols
  <2> QED
    BY <1>9, <2>1 DEF LinkSymbols, Error, libvars
<1>10. CASE RelocateSegments
  <2>1. segStart' \in [Segment -> Nat]
    BY <1>10, StartType DEF RelocateSegments
  <2>2. patched' \subseteq Layouts
    <3>1. Start \in [Segment -> Nat]
      BY StartType
    <3>2. \A r \in relocs : Fixup(r, Start) \in Layouts
      BY <1>10, <3>1, FixupType DEF RelocateSegments, BasesBound
    <3>3. patched' \in {patched, {Fixup(r, Start) : r \in relocs}}
      BY <1>10 DEF RelocateSegments
    <3> QED
      BY <3>2, <3>3
  <2> QED
    BY <1>10, <2>1, <2>2 DEF RelocateSegments, Error, libvars
<1>11. CASE Write
  <2>1. HeaderLength \in Nat
    BY InvocationType DEF HeaderLength, EXEC_HEADER, ELF_HEADER
  <2>2. \A s \in Segment : segPtr[s] \in Nat /\ segStart[s] \in Nat
    OBVIOUS
  <2>3. DataPosition \in Nat
    BY <2>1, <2>2, SMT DEF DataPosition, Segment
  <2>4. out' \in Layout
    BY <1>11, <2>1, <2>2, <2>3, InvocationType DEF Write, Layout, Segment
  <2> QED
    BY <1>11, <2>4 DEF Write, symvars, libvars
<1>12. CASE UNCHANGED vars
  BY <1>12 DEF vars, symvars, libvars
<1> QED
  BY <1>1, <1>2, <1>3, <1>4, <1>5, <1>6, <1>7, <1>8, <1>9, <1>10, <1>11, <1>12
     DEF Next, Terminating

\* No other step leads to "relocate", or adds a record there.
LEMMA NextBound == TypeOK /\ BasesBound /\ [Next]_vars => BasesBound'
<1> SUFFICES ASSUME TypeOK, BasesBound, [Next]_vars, pc' = "relocate"
             PROVE  \A r \in relocs' : \E s \in Segment : r.base = SegBase(s)
  BY DEF BasesBound
<1>1. CASE LinkSymbols
  <2>1. symbolTable \in [Name -> SymbolEntry] /\ relocs \subseteq RelocRecord
    BY DEF TypeOK
  <2>2. relocs' = {LinkSymbol(r) : r \in relocs}
    BY <1>1 DEF LinkSymbols, Error
  <2>3. \A r \in relocs : \E s \in Segment : LinkSymbol(r).base = SegBase(s)
    BY <2>1, LinkSymbolType
  <2> QED
    BY <2>2, <2>3
<1>2. CASE UNCHANGED vars
  BY <1>2 DEF BasesBound, vars, symvars
<1>3. CASE ~LinkSymbols /\ ~UNCHANGED vars
  <2>1. pc' # "relocate"
    BY <1>3 DEF Next, ReadFile, FilesRead, OpenLibrary, NoMoreLibraries, ExtractMember,
      NotInLibraries, LookupInEmptyTable, LibraryExhausted, RelocateSegments, Write,
      Terminating, Error
  <2> QED
    BY <2>1
<1> QED
  BY <1>1, <1>2, <1>3

LEMMA Inductive == Spec => [](TypeOK /\ BasesBound)
<1>1. Init => TypeOK /\ BasesBound
  BY InitType DEF Init, BasesBound
<1>2. TypeOK /\ BasesBound /\ [Next]_vars => (TypeOK /\ BasesBound)'
  BY NextType, NextBound
<1> QED
  BY <1>1, <1>2, PTL DEF Spec

(***************************************************************************)
(* The linker's variables keep their types for every input.                *)
(***************************************************************************)
THEOREM LinkerTypeCorrect == Spec => []TypeOK
  BY Inductive, PTL

---------------------------------------------------------------------------
(* Layout of the sections and binding of names *)

(***************************************************************************)
(* Only readModule touches the module list, the sizes and the symbols.     *)
(***************************************************************************)
LEMMA ReadsOrKeeps ==
    ASSUME TypeOK, [Next]_vars
    PROVE  \/ \E o \in Object : ReadModule(o)
           \/ UNCHANGED <<loaded, segPtr, symbolTable, defset>>
<1>1. CASE ReadFile
  <2> DEFINE o == dir[opt.files[argi + 1]]
  <2>1. opt.files[argi + 1] \in File
    BY <1>1, InvocationType DEF ReadFile, TypeOK
  <2>2. o \in Object \cup {Missing}
    BY <2>1 DEF TypeOK
  <2>3. CASE o = Missing \/ ~Contents[o].magic
    BY <1>1, <2>3 DEF ReadFile, symvars
  <2>4. CASE ~(o = Missing \/ ~Contents[o].magic)
    BY <1>1, <2>2, <2>4 DEF ReadFile
  <2> QED
    BY <2>3, <2>4
<1>2. ASSUME NEW n \in Name, ExtractMember(n)
      PROVE  \/ \E o \in Object : ReadModule(o)
             \/ UNCHANGED <<loaded, segPtr, symbolTable, defset>>
  <2> DEFINE e == libsymbolTable[n]
             m == Archive[e.library].member[e.file]
             o == IF m = Missing THEN dir[e.file] ELSE m
  <2>1. e.library \in Library /\ e.file \in File
    BY <1>2 DEF ExtractMember, TypeOK, LibEntry
  <2>2. o \in Object \cup {Missing}
    BY <2>1, LinkerAssumption DEF LinkerAssumption, IsArchive, TypeOK
  <2>3. CASE o = Missing \/ ~Contents[o].magic
    BY <1>2, <2>3 DEF ExtractMember, symvars
  <2>4. CASE ~(o = Missing \/ ~Contents[o].magic)
    BY <1>2, <2>2, <2>4 DEF ExtractMember
  <2> QED
    BY <2>3, <2>4
<1> QED
  BY <1>1, <1>2 DEF Next, FilesRead, OpenLibrary, NoMoreLibraries, NotInLibraries,
    LookupInEmptyTable, LibraryExhausted, LinkSymbols, RelocateSegments, Write,
    Terminating, Error, vars, symvars

\* The new module is the last of the list, the others stay.
LEMMA ReadModuleAppends ==
    ASSUME TypeOK, NEW o \in Object, ReadModule(o)
    PROVE  /\ Len(loaded) \in Nat
           /\ Len(loaded') = Len(loaded) + 1
           /\ loaded'[Len(loaded) + 1] = [object |-> o, base |-> segPtr]
           /\ \A i \in 1..Len(loaded) : loaded'[i] = loaded[i]
           /\ DOMAIN loaded = 1..Len(loaded)
           /\ DOMAIN loaded' = 1..(Len(loaded) + 1)
<1>1. loaded \in Seq(Loaded) /\ loaded' \in Seq(Loaded)
  BY ReadModuleType DEF TypeOK, Loaded
<1>2. loaded' = Append(loaded, [object |-> o, base |-> segPtr])
  BY DEF ReadModule
<1>3. [object |-> o, base |-> segPtr] \in Loaded
  BY DEF TypeOK, Loaded
<1> QED
  BY <1>1, <1>2, <1>3, AppendProperties

(***************************************************************************)
(* Whatever modules are read, from files or from libraries, their sections *)
(* lie end to end: readModule's running sizes leave no gap and no overlap. *)
(***************************************************************************)
LEMMA EndToEndStep ==
    TypeOK /\ SectionsEndToEnd /\ [Next]_vars => SectionsEndToEnd'
<1> SUFFICES ASSUME TypeOK, SectionsEndToEnd, [Next]_vars PROVE SectionsEndToEnd'
  OBVIOUS
<1>1. ASSUME NEW o \in Object, ReadModule(o) PROVE SectionsEndToEnd'
  <2> SUFFICES ASSUME NEW i \in DOMAIN loaded', NEW s \in Segment
               PROVE  loaded'[i].base[s] + Contents[loaded'[i].object].size[s] =
                        IF i = Len(loaded') THEN segPtr'[s] ELSE loaded'[i+1].base[s]
    BY DEF SectionsEndToEnd
  <2> DEFINE n == Len(loaded)
  <2>1. /\ n \in Nat
        /\ Len(loaded') = n + 1
        /\ loaded'[n + 1] = [object |-> o, base |-> segPtr]
        /\ \A j \in 1..n : loaded'[j] = loaded[j]
        /\ DOMAIN loaded = 1..n
        /\ DOMAIN loaded' = 1..(n + 1)
    BY <1>1, ReadModuleAppends
  <2>2. segPtr'[s] = segPtr[s] + Contents[o].size[s]
    BY <1>1 DEF ReadModule, NextSegPtr
  <2>3. \A j \in 1..n : loaded[j].base[s] + Contents[loaded[j].object].size[s] =
                          IF j = n THEN segPtr[s] ELSE loaded[j+1].base[s]
    BY <2>1 DEF SectionsEndToEnd
  <2> HIDE DEF n
  <2>4. CASE i = n + 1
    <3>1. loaded'[i].object = o /\ loaded'[i].base = segPtr /\ i = Len(loaded')
      BY <2>1, <2>4
    <3> QED
      BY <2>2, <3>1
  <2>5. CASE i \in 1..n
    <3>1. loaded'[i] = loaded[i] /\ i # Len(loaded')
      BY <2>1, <2>5
    <3>2. loaded'[i+1].base[s] = IF i = n THEN segPtr[s] ELSE loaded[i+1].base[s]
      <4>1. CASE i = n
        <5>1. loaded'[i+1].base = segPtr
          BY <2>1, <4>1
        <5> QED
          BY <4>1, <5>1
      <4>2. CASE i # n
        <5>1. i + 1 \in 1..n
          BY <2>1, <2>5, <4>2
        <5>2. loaded'[i+1] = loaded[i+1]
          BY <2>1, <5>1
        <5> QED
          BY <4>2, <5>2
      <4> QED
        BY <4>1, <4>2
    <3> QED
      BY <2>3, <2>5, <3>1, <3>2
  <2> QED
    BY <2>1, <2>4, <2>5
<1>2. CASE UNCHANGED <<loaded, segPtr, symbolTable, defset>>
  BY <1>2 DEF SectionsEndToEnd
<1> QED
  BY <1>1, <1>2, ReadsOrKeeps

(***************************************************************************)
(* The sections of the modules never overlap, whatever is linked.          *)
(***************************************************************************)
THEOREM SectionsLaidEndToEnd == Spec => []SectionsEndToEnd
<1>1. Init => SectionsEndToEnd
  BY DEF Init, SectionsEndToEnd
<1>2. TypeOK /\ SectionsEndToEnd /\ [Next]_vars => SectionsEndToEnd'
  BY EndToEndStep
<1> QED
  BY <1>1, <1>2, LinkerTypeCorrect, PTL DEF Spec

(***************************************************************************)
(* A step of readSymbols: the earliest module that exports a name binds    *)
(* it.  If the name was bound before, the earliest exporter is an old      *)
(* module; if not, it is the new one.                                      *)
(***************************************************************************)
LEMMA FirstDefinitionStep ==
    TypeOK /\ FirstDefinitionWins /\ [Next]_vars => FirstDefinitionWins'
<1> SUFFICES ASSUME TypeOK, FirstDefinitionWins, [Next]_vars PROVE FirstDefinitionWins'
  OBVIOUS
<1>1. ASSUME NEW o \in Object, ReadModule(o) PROVE FirstDefinitionWins'
  <2> SUFFICES ASSUME NEW n \in Name
               PROVE  /\ IsDefined(n)' <=> Definers(n)' # {}
                      /\ \A i \in Definers(n)' :
                            (\A j \in Definers(n)' : i <= j) =>
                              symbolTable'[n] = PlaceIn(i, n)'
    BY DEF FirstDefinitionWins
  <2>0. PICK k \in Nat : k = Len(loaded) + 1
    BY <1>1, ReadModuleAppends
  <2>1. /\ k \in Nat /\ Len(loaded) \in Nat /\ k = Len(loaded) + 1
        /\ DOMAIN loaded = 1..Len(loaded) /\ DOMAIN loaded' = 1..k
        /\ loaded'[k] = [object |-> o, base |-> segPtr]
        /\ \A i \in 1..Len(loaded) : loaded'[i] = loaded[i]
    BY <1>1, <2>0, ReadModuleAppends
  <2>2. \A i \in 1..Len(loaded) : Defs(i)' = Defs(i) /\ PlaceIn(i, n)' = PlaceIn(i, n)
    BY <2>1 DEF Defs, PlaceIn
  <2>3. loaded'[k].object = o /\ loaded'[k].base = segPtr
    BY <2>1
  <2>3a. Contents[loaded'[k].object].defs = Contents[o].defs
    BY <2>3
  <2>4. Definers(n)' = Definers(n) \cup (IF n \in DOMAIN Contents[o].defs THEN {k} ELSE {})
    <3>1. DOMAIN loaded' = DOMAIN loaded \cup {k}
      BY <2>1
    <3>2. Definers(n)' = {i \in DOMAIN loaded' : n \in DOMAIN Contents[loaded'[i].object].defs}
      BY DEF Definers, Defs
    <3>3. \A i \in DOMAIN loaded : loaded'[i] = loaded[i]
      BY <2>1
    <3>4. Definers(n) = {i \in DOMAIN loaded : n \in DOMAIN Contents[loaded[i].object].defs}
      BY DEF Definers, Defs
    <3>5. Definers(n) = {i \in DOMAIN loaded : n \in DOMAIN Contents[loaded'[i].object].defs}
      BY <3>3, <3>4
    <3> QED
      BY <2>3a, <3>1, <3>2, <3>5, Zenon
  <2>5. Definers(n) \subseteq 1..Len(loaded)
    BY <2>1 DEF Definers
  <2>6. symbolTable'[n] = ReadSymbol(Contents[o], n)
    BY <1>1 DEF ReadModule
  <2>7. CASE IsDefined(n)
    <3>1. Definers(n) # {}
      BY <2>7 DEF FirstDefinitionWins
    <3>2. symbolTable'[n] = symbolTable[n]
      BY <2>6, <2>7 DEF ReadSymbol, IsDefined
    <3>3. IsDefined(n)'
      BY <2>7, <3>2 DEF IsDefined
    <3>4. ASSUME NEW i \in Definers(n)', \A j \in Definers(n)' : i <= j
          PROVE  symbolTable'[n] = PlaceIn(i, n)'
      <4>1. i \in Definers(n)
        <5>1. PICK j \in Definers(n) : TRUE
          BY <3>1
        <5>2. i <= j /\ j < k
          BY <2>1, <2>4, <2>5, <3>4
        <5> QED
          BY <2>1, <2>4, <2>5, <3>4, <5>2
      <4>2. symbolTable[n] = PlaceIn(i, n)
        BY <2>4, <3>4, <4>1 DEF FirstDefinitionWins
      <4> QED
        BY <2>2, <2>5, <3>2, <4>1, <4>2
    <3> QED
      BY <2>4, <3>1, <3>3, <3>4
  <2>8. CASE ~IsDefined(n)
    <3>1. Definers(n) = {}
      BY <2>8 DEF FirstDefinitionWins
    <3>2. CASE n \in DOMAIN Contents[o].defs
      <4>1. Definers(n)' = {k}
        BY <2>4, <3>1, <3>2
      <4>2. symbolTable'[n] = Defined(Contents[o].defs[n].segment,
              Contents[o].defs[n].value + segPtr[Contents[o].defs[n].segment])
        BY <2>6, <2>8, <3>2 DEF ReadSymbol
      <4>3. PlaceIn(k, n)' = Defined(Contents[o].defs[n].segment,
              segPtr[Contents[o].defs[n].segment] + Contents[o].defs[n].value)
        <5>1. PlaceIn(k, n)' = Defined(Contents[loaded'[k].object].defs[n].segment,
                loaded'[k].base[Contents[loaded'[k].object].defs[n].segment]
                  + Contents[loaded'[k].object].defs[n].value)
          BY Zenon DEF PlaceIn, Defs
        <5> QED
          BY <2>3, <5>1, Zenon
      <4>4. Contents[o].defs[n].value \in Nat /\ segPtr[Contents[o].defs[n].segment] \in Nat
        BY <3>2, ContentsType DEF TypeOK
      <4>5. Contents[o].defs[n].value + segPtr[Contents[o].defs[n].segment]
              = segPtr[Contents[o].defs[n].segment] + Contents[o].defs[n].value
        BY <4>4
      <4>6. symbolTable'[n] = PlaceIn(k, n)'
        BY <4>2, <4>3, <4>5
      <4>7. IsDefined(n)'
        BY <4>2 DEF IsDefined, Defined
      <4> QED
        BY <4>1, <4>6, <4>7
    <3>3. CASE n \notin DOMAIN Contents[o].defs
      <4>1. Definers(n)' = {}
        BY <2>4, <3>1, <3>3
      <4>2. symbolTable'[n] \in {Undefined, symbolTable[n]}
        BY <2>6, <3>3 DEF ReadSymbol
      <4>3. ~IsDefined(n)'
        BY <2>8, <4>2 DEF IsDefined, Undefined
      <4> QED
        BY <4>1, <4>3
    <3> QED
      BY <3>2, <3>3
  <2> QED
    BY <2>7, <2>8
<1>2. CASE UNCHANGED <<loaded, segPtr, symbolTable, defset>>
  BY <1>2 DEF FirstDefinitionWins, IsDefined, Definers, Defs, PlaceIn
<1> QED
  BY <1>1, <1>2, ReadsOrKeeps

(***************************************************************************)
(* A name is bound exactly when a module read so far exports it, and then  *)
(* to the place the first of them gave it.                                 *)
(***************************************************************************)
THEOREM FirstDefinitionBinds == Spec => []FirstDefinitionWins
<1>1. Init => FirstDefinitionWins
  <2> SUFFICES ASSUME Init, NEW n \in Name PROVE ~IsDefined(n) /\ Definers(n) = {}
    BY DEF FirstDefinitionWins
  <2>1. loaded = << >> /\ symbolTable[n] = NoSymbol
    BY DEF Init
  <2> QED
    BY <2>1 DEF IsDefined, Definers, NoSymbol
<1>2. TypeOK /\ FirstDefinitionWins /\ [Next]_vars => FirstDefinitionWins'
  BY FirstDefinitionStep
<1> QED
  BY <1>1, <1>2, LinkerTypeCorrect, PTL DEF Spec

---------------------------------------------------------------------------
(* Start addresses *)

\* PAGE_ROUND rounds up, so each default start lies behind what precedes it.
LEMMA StartDisjoint ==
    ASSUME opt \in Invocation, segPtr \in [Segment -> Nat]
    PROVE  /\ opt.start["DATA"] = Unset => Start["CODE"] + segPtr["CODE"] <= Start["DATA"]
           /\ opt.start["BSS"] = Unset => Start["DATA"] + segPtr["DATA"] <= Start["BSS"]
<1>1. Start \in [Segment -> Nat]
  BY StartType
<1>2. /\ Start["CODE"] \in Nat /\ Start["DATA"] \in Nat
      /\ segPtr["CODE"] \in Nat /\ segPtr["DATA"] \in Nat
  BY <1>1 DEF Segment
<1>3. opt.start["DATA"] = Unset => Start["DATA"] = PageRound(Start["CODE"] + segPtr["CODE"])
  BY DEF Start
<1>4. opt.start["BSS"] = Unset => Start["BSS"] = PageRound(Start["DATA"] + segPtr["DATA"])
  BY DEF Start
<1>5. \A a \in Nat : PageRound(a) >= a /\ PageRound(a) \in Nat
  BY PageRoundType
<1> QED
  BY <1>2, <1>3, <1>4, <1>5

(***************************************************************************)
(* Unless -rd or -rb places them, the segments of every executable are     *)
(* apart in memory: relocateSegments sets them up and nothing after it     *)
(* moves them.                                                             *)
(***************************************************************************)
THEOREM SegmentsApart == Spec => []SegmentsDisjoint
<1>1. Init => SegmentsDisjoint
  BY DEF Init, SegmentsDisjoint
<1>2. TypeOK /\ SegmentsDisjoint /\ [Next]_vars => SegmentsDisjoint'
  <2> SUFFICES ASSUME TypeOK, SegmentsDisjoint, [Next]_vars PROVE SegmentsDisjoint'
    OBVIOUS
  <2>1. CASE RelocateSegments
    <3>1. segStart' = Start /\ opt' = opt /\ segPtr' = segPtr
      BY <2>1 DEF RelocateSegments
    <3> QED
      BY <3>1, StartDisjoint DEF SegmentsDisjoint, TypeOK
  <2>2. CASE Write
    BY <2>2 DEF Write, SegmentsDisjoint, symvars
  <2>3. CASE UNCHANGED vars
    BY <2>3 DEF SegmentsDisjoint, vars, symvars
  <2>4. CASE ~RelocateSegments /\ ~Write /\ ~UNCHANGED vars
    <3>1. pc' \notin {"write", "done"}
      BY <2>4 DEF Next, ReadFile, FilesRead, OpenLibrary, NoMoreLibraries, ExtractMember,
        NotInLibraries, LookupInEmptyTable, LibraryExhausted, LinkSymbols, Terminating, Error
    <3> QED
      BY <3>1 DEF SegmentsDisjoint
  <2> QED
    BY <2>1, <2>2, <2>3, <2>4
<1> QED
  BY <1>1, <1>2, LinkerTypeCorrect, PTL DEF Spec

---------------------------------------------------------------------------
(* The library loop *)

(***************************************************************************)
(* Why UnresolvedNotForgotten holds: defset is the set of bound names, and *)
(* from the first file on a name the table calls undefined is kept in      *)
(* undefset until a member loaded for it makes the loop skip it.           *)
(***************************************************************************)
Kept(n) == n \in undefset \/ Skipped(n)
NothingForgotten ==
    /\ defset = {n \in Name : IsDefined(n)}
    /\ pc \in {"read", "lib", "resolve"} =>
          \A n \in Name : symbolTable[n].status = "undefined" => Kept(n)
    /\ pc = "resolve" => undefset \cap defset = {}

\* readModule enters in defset the names it binds, and those only.
LEMMA ReadModuleBinds ==
    ASSUME TypeOK, defset = {n \in Name : IsDefined(n)}, NEW o \in Object, ReadModule(o)
    PROVE  /\ defset' = {n \in Name : IsDefined(n)'}
           /\ \A n \in Name : symbolTable'[n].status = "undefined" =>
                 \/ n \in Contents[o].undefs
                 \/ symbolTable[n].status = "undefined"
           /\ \A n \in defset' : symbolTable'[n].status # "undefined"
<1>1. symbolTable' = [n \in Name |-> ReadSymbol(Contents[o], n)]
  BY DEF ReadModule
<1>2. \A n \in Name : IsDefined(n)' <=> IsDefined(n) \/ n \in DOMAIN Contents[o].defs
  <2> SUFFICES ASSUME NEW n \in Name
               PROVE  IsDefined(n)' <=> IsDefined(n) \/ n \in DOMAIN Contents[o].defs
    OBVIOUS
  <2>1. symbolTable'[n] = ReadSymbol(Contents[o], n)
    BY <1>1
  <2> QED
    BY <2>1 DEF IsDefined, ReadSymbol, Defined, Undefined
<1>3. DOMAIN Contents[o].defs \subseteq Name
  BY ContentsType
<1>4. defset' = defset \cup {n \in DOMAIN Contents[o].defs : ~IsDefined(n)}
  BY DEF ReadModule
<1>5. defset' = {n \in Name : IsDefined(n)'}
  BY <1>2, <1>3, <1>4, Zenon
<1>6. \A n \in Name : symbolTable'[n].status = "undefined" =>
        n \in Contents[o].undefs \/ symbolTable[n].status = "undefined"
  <2> SUFFICES ASSUME NEW n \in Name, symbolTable'[n].status = "undefined"
               PROVE  n \in Contents[o].undefs \/ symbolTable[n].status = "undefined"
    OBVIOUS
  <2>1. symbolTable'[n] = ReadSymbol(Contents[o], n)
    BY <1>1
  <2> QED
    BY <2>1 DEF ReadSymbol, Defined, Undefined
<1>7. \A n \in Name : IsDefined(n)' => symbolTable'[n].status # "undefined"
  BY DEF IsDefined
<1> QED
  BY <1>5, <1>6, <1>7

LEMMA NothingForgottenStep ==
    TypeOK /\ NothingForgotten /\ [Next]_vars => NothingForgotten'
<1> SUFFICES ASSUME TypeOK, NothingForgotten, [Next]_vars PROVE NothingForgotten'
  OBVIOUS
<1>a. defset = {n \in Name : IsDefined(n)}
  BY DEF NothingForgotten
<1>1. CASE ReadFile
  <2> DEFINE o == dir[opt.files[argi + 1]]
  <2>1. opt.files[argi + 1] \in File
    BY <1>1, InvocationType DEF ReadFile, TypeOK
  <2>2. o \in Object \cup {Missing}
    BY <2>1 DEF TypeOK
  <2>3. CASE o = Missing \/ ~Contents[o].magic
    <3>1. pc' = "error" /\ UNCHANGED symvars
      BY <1>1, <2>3 DEF ReadFile, Error
    <3> QED
      BY <1>a, <3>1 DEF NothingForgotten, symvars, IsDefined
  <2>4. CASE ~(o = Missing \/ ~Contents[o].magic)
    <3>1. o \in Object /\ ReadModule(o) /\ undefset' = undefset \cup Contents[o].undefs
          /\ UNCHANGED <<pc, libsymbolTable, loaded_members>> /\ pc = "read"
      BY <1>1, <2>2, <2>4 DEF ReadFile
    <3> HIDE DEF o
    <3>2. \A n \in Name : Kept(n) \/ n \in Contents[o].undefs => Kept(n)'
      BY <3>1 DEF Kept, Skipped
    <3>3. \A n \in Name : symbolTable[n].status = "undefined" => Kept(n)
      BY <3>1 DEF NothingForgotten
    <3>4. \A n \in Name : symbolTable'[n].status = "undefined" => Kept(n)'
      BY <1>a, <3>1, <3>2, <3>3, ReadModuleBinds
    <3>5. defset' = {n \in Name : IsDefined(n)'}
      BY <1>a, <3>1, ReadModuleBinds
    <3> QED
      BY <3>1, <3>4, <3>5 DEF NothingForgotten
  <2> QED
    BY <2>3, <2>4
<1>2. CASE OpenLibrary
  <2>1. /\ UNCHANGED symvars /\ loaded_members' = loaded_members
        /\ undefset' = undefset \ defset
        /\ pc = "lib"
    BY <1>2 DEF OpenLibrary, StillUndefined
  <2>2. \A n \in Name : libsymbolTable[n] # Missing => libsymbolTable'[n] = libsymbolTable[n]
    BY <1>2 DEF OpenLibrary
  <2>3. \A n \in Name : symbolTable[n].status = "undefined" => Kept(n) /\ n \notin defset
    BY <1>a, <2>1 DEF NothingForgotten, IsDefined
  <2>4. \A n \in Name : Kept(n) /\ n \notin defset => Kept(n)'
    BY <2>1, <2>2 DEF Kept, Skipped
  <2> QED
    BY <1>a, <2>1, <2>3, <2>4 DEF NothingForgotten, symvars, IsDefined
<1>3. ASSUME NEW n \in Name, ExtractMember(n) PROVE NothingForgotten'
  <2> DEFINE e == libsymbolTable[n]
             m == Archive[e.library].member[e.file]
             o == IF m = Missing THEN dir[e.file] ELSE m
  <2>1. e.library \in Library /\ e.file \in File
    BY <1>3 DEF ExtractMember, TypeOK, LibEntry
  <2>2. o \in Object \cup {Missing}
    BY <2>1, LinkerAssumption DEF LinkerAssumption, IsArchive, TypeOK
  <2>3. CASE o = Missing \/ ~Contents[o].magic
    <3>1. pc' = "error" /\ UNCHANGED symvars
      BY <1>3, <2>3 DEF ExtractMember, Error
    <3> QED
      BY <1>a, <3>1 DEF NothingForgotten, symvars, IsDefined
  <2>4. CASE ~(o = Missing \/ ~Contents[o].magic)
    <3>1. /\ o \in Object /\ ReadModule(o)
          /\ undefset' = ((undefset \ {n}) \cup Contents[o].undefs) \ defset'
          /\ loaded_members' = loaded_members \cup {e.file}
          /\ UNCHANGED <<pc, libsymbolTable>> /\ pc = "resolve" /\ e # Missing
      BY <1>3, <2>2, <2>4 DEF ExtractMember, StillUndefined
    <3> HIDE DEF o
    <3>2. \A k \in Name : Skipped(k) => Skipped(k)'
      BY <3>1 DEF Skipped
    <3>3. Skipped(n)'
      BY <3>1 DEF Skipped
    <3>4. \A k \in Name : (Kept(k) \/ k \in Contents[o].undefs) /\ k \notin defset' => Kept(k)'
      BY <3>1, <3>2, <3>3 DEF Kept
    <3>5. \A k \in Name : symbolTable[k].status = "undefined" => Kept(k)
      BY <3>1 DEF NothingForgotten
    <3>6. \A k \in Name : symbolTable'[k].status = "undefined" => Kept(k)'
      BY <1>a, <3>1, <3>4, <3>5, ReadModuleBinds
    <3>7. defset' = {k \in Name : IsDefined(k)'}
      BY <1>a, <3>1, ReadModuleBinds
    <3>8. undefset' \cap defset' = {}
      BY <3>1
    <3> QED
      BY <3>6, <3>7, <3>8 DEF NothingForgotten
  <2> QED
    BY <2>3, <2>4
<1>4. CASE UNCHANGED <<symvars, libvars>> /\ (pc' = pc \/ pc' # "resolve")
             /\ (pc' \in {"read", "lib", "resolve"} => pc \in {"read", "lib", "resolve"})
  BY <1>4 DEF NothingForgotten, symvars, libvars, IsDefined, Kept, Skipped
<1>5. CASE UNCHANGED <<symbolTable, defset>> /\ pc' \notin {"read", "lib", "resolve"}
  BY <1>5 DEF NothingForgotten, IsDefined
<1>6. CASE FilesRead \/ NoMoreLibraries \/ LookupInEmptyTable \/ LibraryExhausted
             \/ Write \/ UNCHANGED vars \/ (\E n \in Name : NotInLibraries(n))
  BY <1>4, <1>5, <1>6 DEF FilesRead, NoMoreLibraries, LookupInEmptyTable, LibraryExhausted,
     Write, NotInLibraries, Error, vars, symvars, libvars
<1>7. CASE LinkSymbols \/ RelocateSegments
  BY <1>5, <1>7 DEF LinkSymbols, RelocateSegments, Error
<1> QED
  BY <1>1, <1>2, <1>3, <1>6, <1>7 DEF Next, Terminating

(***************************************************************************)
(* The library loop never loses a missing symbol, whatever the libraries   *)
(* and the order in which the hash set gives the names.                    *)
(***************************************************************************)
THEOREM UnresolvedKept == Spec => []UnresolvedNotForgotten
<1>1. Init => NothingForgotten
  BY DEF Init, NothingForgotten, IsDefined, NoSymbol
<1>2. TypeOK /\ NothingForgotten /\ [Next]_vars => NothingForgotten'
  BY NothingForgottenStep
<1>3. NothingForgotten => UnresolvedNotForgotten
  BY DEF NothingForgotten, UnresolvedNotForgotten, Kept
<1> QED
  BY <1>1, <1>2, <1>3, LinkerTypeCorrect, PTL DEF Spec

---------------------------------------------------------------------------
(* The refinement mapping *)

Mods == [i \in DOMAIN loaded |-> loaded[i].object]

\* The sections of the modules start at 0 in every segment.
SectionsFromZero ==
    \A s \in Segment : (IF loaded = << >> THEN segPtr[s] ELSE loaded[1].base[s]) = 0

(***************************************************************************)
(* The running sizes are the sums of the abstract link.                    *)
(***************************************************************************)
LEMMA OffsetIsBase ==
    ASSUME TypeOK, SectionsEndToEnd, SectionsFromZero,
           NEW i \in DOMAIN loaded, NEW s \in Segment
    PROVE  Abstract!Offset(i, s) = loaded[i].base[s]
<1> DEFINE n == Len(loaded)
           at == [k \in 0 .. n |-> IF k = n THEN segPtr[s] ELSE loaded[k + 1].base[s]]
           Sums(f) == f = [k \in 0 .. Len(Mods) |->
                              IF k = 0 THEN 0 ELSE f[k - 1] + Contents[Mods[k]].size[s]]
<1>1. n \in Nat /\ DOMAIN loaded = 1 .. n /\ Len(Mods) = n
  <2>1. loaded \in Seq(Loaded)
    BY DEF TypeOK, Loaded
  <2>2. n \in Nat /\ DOMAIN loaded = 1 .. n
    BY <2>1, LenProperties
  <2>2a. \A k \in 1 .. n : loaded[k] \in Loaded
    BY <2>1, ElementOfSeq
  <2> HIDE DEF n
  <2>3. \A k \in 1 .. n : loaded[k].object \in Object
    BY <2>2a DEF Loaded
  <2>4. Mods \in [1 .. n -> Object]
    BY <2>2, <2>3 DEF Mods
  <2>5. Mods \in Seq(Object)
    BY <2>2, <2>4, SeqDef
  <2>6. DOMAIN Mods = 1 .. n
    BY <2>4
  <2> QED
    BY <2>2, <2>5, <2>6, LenProperties
<1>1a. \A k \in 1 .. n : /\ Mods[k] = loaded[k].object
                         /\ loaded[k].base \in [Segment -> Nat] /\ loaded[k].object \in Object
  <2>1. loaded \in Seq(Loaded)
    BY DEF TypeOK, Loaded
  <2>2. \A k \in 1 .. n : loaded[k] \in Loaded
    BY <2>1, ElementOfSeq
  <2> HIDE DEF n
  <2> QED
    BY <1>1, <2>2 DEF Mods, Loaded
<1>1b. segPtr \in [Segment -> Nat]
  BY DEF TypeOK
<1>2. Abstract!Offset(i, s) = (CHOOSE f : Sums(f))[i - 1]
  BY DEF Abstract!Offset, Mods
<1>3. /\ at \in [0 .. n -> Nat] /\ at[0] = 0
      /\ \A k \in 1 .. n : at[k] = at[k - 1] + Contents[Mods[k]].size[s]
  <2>1. at \in [0 .. n -> Nat]
    BY <1>1, <1>1a, <1>1b
  <2>2. at[0] = 0
    <3>1. n = 0 <=> loaded = << >>
      BY <1>1, EmptySeq DEF TypeOK
    <3> QED
      BY <1>1, <3>1 DEF SectionsFromZero
  <2>3. ASSUME NEW k \in 1 .. n PROVE at[k] = at[k - 1] + Contents[Mods[k]].size[s]
    <3> HIDE DEF n
    <3>1. loaded[k].base[s] + Contents[loaded[k].object].size[s] =
            IF k = n THEN segPtr[s] ELSE loaded[k + 1].base[s]
      BY <1>1 DEF SectionsEndToEnd
    <3>2. at[k - 1] = loaded[k].base[s]
      <4>1. k - 1 \in 0 .. n /\ k - 1 # n /\ k - 1 + 1 = k
        BY <1>1
      <4> QED
        BY <4>1
    <3>3. at[k] = IF k = n THEN segPtr[s] ELSE loaded[k + 1].base[s]
      BY <1>1
    <3> HIDE DEF at
    <3> QED
      BY <1>1a, <3>1, <3>2, <3>3
  <2> QED
    BY <2>1, <2>2, <2>3
<1>4. Sums(at)
  <2> HIDE DEF n
  <2>1. \A k \in 0 .. n :
          at[k] = IF k = 0 THEN 0 ELSE at[k - 1] + Contents[Mods[k]].size[s]
    <3> HIDE DEF at
    <3>1. at[0] = 0 /\ \A k \in 1 .. n : at[k] = at[k - 1] + Contents[Mods[k]].size[s]
      BY <1>3
    <3>2. \A k \in 0 .. n : k # 0 => k \in 1 .. n
      BY <1>1
    <3> QED
      BY <3>1, <3>2
  <2>2. at = [k \in 0 .. n |-> at[k]]
    BY <1>3
  <2> HIDE DEF at
  <2> QED
    BY <1>1, <2>1, <2>2
<1>5. ASSUME NEW f, Sums(f) PROVE \A k \in 0 .. n : f[k] = at[k]
  <2> DEFINE Wrong == {k \in 0 .. n : f[k] # at[k]}
  <2> HIDE DEF n, at
  <2> SUFFICES ASSUME Wrong # {} PROVE FALSE
    OBVIOUS
  <2>0. Wrong \subseteq Nat
    BY <1>1
  <2>1. PICK k \in Wrong : \A j \in Wrong : k <= j
    <3> HIDE DEF Wrong
    <3> QED
      BY <2>0, LeastNumber
  <2>2. f[k] = IF k = 0 THEN 0 ELSE f[k - 1] + Contents[Mods[k]].size[s]
    BY <1>1, <1>5, <2>1
  <2>3. k # 0
    BY <1>3, <2>1, <2>2
  <2>4. k \in 1 .. n /\ k - 1 \in 0 .. n /\ k - 1 < k
    BY <1>1, <2>1, <2>3
  <2>5. f[k - 1] = at[k - 1]
    BY <1>1, <2>1, <2>4
  <2> QED
    BY <1>3, <2>1, <2>2, <2>3, <2>4, <2>5
<1>6. Sums(CHOOSE f : Sums(f))
  BY <1>4
<1>7. i - 1 \in 0 .. n /\ at[i - 1] = loaded[i].base[s]
  <2> HIDE DEF n
  <2>1. i - 1 \in 0 .. n /\ i - 1 # n /\ i - 1 + 1 = i
    BY <1>1
  <2> QED
    BY <2>1
<1> QED
  BY <1>2, <1>5, <1>6, <1>7

---------------------------------------------------------------------------
(* The two steps that read a module *)

\* ReadFile gives up or reads the file's object.
LEMMA ReadFileReads ==
    ASSUME TypeOK, ReadFile
    PROVE  /\ pc = "read" /\ argi \in Nat /\ argi < Len(opt.files)
           /\ UNCHANGED <<opt, liblist, libsymbolTable, loaded_members, dir, segStart,
                          patched, out>>
           /\ \/ pc' = "error" /\ UNCHANGED <<argi, symvars, undefset>>
              \/ \E o \in Object :
                    /\ ReadModule(o)
                    /\ undefset' = undefset \cup Contents[o].undefs
                    /\ argi' = argi + 1
                    /\ UNCHANGED <<pc, temps>>
<1> DEFINE o == dir[opt.files[argi + 1]]
<1>1. argi \in Nat /\ opt.files \in Seq(File) /\ argi + 1 \in 1 .. Len(opt.files)
  BY InvocationType DEF ReadFile, TypeOK
<1>2. o \in Object \cup {Missing}
  BY <1>1 DEF TypeOK
<1>3. CASE o = Missing \/ ~Contents[o].magic
  BY <1>1, <1>3 DEF ReadFile, Error
<1>4. CASE ~(o = Missing \/ ~Contents[o].magic)
  BY <1>1, <1>2, <1>4 DEF ReadFile
<1> QED
  BY <1>3, <1>4

\* The object ExtractMember finds for an entry of the library symbol table.
Extracted(e) ==
    IF Archive[e.library].member[e.file] = Missing
    THEN dir[e.file] ELSE Archive[e.library].member[e.file]

\* ExtractMember gives up or reads the member.
LEMMA ExtractReads ==
    ASSUME TypeOK, NEW n \in Name, ExtractMember(n)
    PROVE  LET e == libsymbolTable[n]
               o == Extracted(e)
           IN  /\ pc = "resolve" /\ n \in undefset /\ e \in LibEntry
               /\ e.library \in Library /\ e.file \in File /\ e.file \notin loaded_members
               /\ UNCHANGED <<opt, argi, liblist, libsymbolTable, segStart, patched, out>>
               /\ loaded_members' = loaded_members \cup {e.file}
               /\ \/ /\ o = Missing \/ ~Contents[o].magic
                     /\ pc' = "error" /\ UNCHANGED symvars
                  \/ /\ o \in Object /\ ReadModule(o)
                     /\ undefset' = ((undefset \ {n}) \cup Contents[o].undefs) \ defset'
                     /\ dir' = [dir EXCEPT ![e.file] = Missing]
                     /\ UNCHANGED <<pc, temps>>
<1> DEFINE e == libsymbolTable[n]
           m == Archive[e.library].member[e.file]
           o == IF m = Missing THEN dir[e.file] ELSE m
<1>1. e \in LibEntry /\ e.library \in Library /\ e.file \in File /\ e.file \notin loaded_members
  BY DEF ExtractMember, TypeOK, LibEntry, Skipped
<1>2. o \in Object \cup {Missing}
  BY <1>1, LinkerAssumption DEF LinkerAssumption, IsArchive, TypeOK
<1>3. Extracted(e) = o
  BY DEF Extracted
<1>4. CASE o = Missing \/ ~Contents[o].magic
  <2>1. pc' = "error" /\ UNCHANGED symvars
    BY <1>4 DEF ExtractMember, Error
  <2> QED
    BY <1>1, <1>3, <1>4, <2>1 DEF ExtractMember
<1>5. CASE ~(o = Missing \/ ~Contents[o].magic)
  <2>1. /\ o \in Object /\ ReadModule(o)
        /\ undefset' = ((undefset \ {n}) \cup Contents[o].undefs) \ defset'
        /\ dir' = [dir EXCEPT ![e.file] = Missing]
        /\ UNCHANGED <<pc, temps>>
    BY <1>2, <1>5 DEF ExtractMember, StillUndefined, Unlinked
  <2> QED
    BY <1>1, <1>3, <2>1 DEF ExtractMember
<1> QED
  BY <1>4, <1>5

---------------------------------------------------------------------------
(* The relocation list *)

LEMMA FromZeroStep ==
    TypeOK /\ SectionsFromZero /\ [Next]_vars => SectionsFromZero'
<1> SUFFICES ASSUME TypeOK, SectionsFromZero, [Next]_vars PROVE SectionsFromZero'
  OBVIOUS
<1>1. ASSUME NEW o \in Object, ReadModule(o) PROVE SectionsFromZero'
  <2> DEFINE n == Len(loaded)
  <2>1. /\ n \in Nat
        /\ loaded'[n + 1] = [object |-> o, base |-> segPtr]
        /\ \A j \in 1 .. n : loaded'[j] = loaded[j]
        /\ DOMAIN loaded = 1 .. n
        /\ DOMAIN loaded' = 1 .. (n + 1)
    BY <1>1, ReadModuleAppends
  <2>2. loaded = << >> <=> n = 0
    BY EmptySeq DEF TypeOK
  <2> HIDE DEF n
  <2>3. loaded' # << >>
    BY <2>1
  <2>4. loaded'[1].base = IF loaded = << >> THEN segPtr ELSE loaded[1].base
    <3>1. CASE n = 0
      BY <2>1, <2>2, <3>1
    <3>2. CASE n # 0
      BY <2>1, <2>2, <3>2
    <3> QED
      BY <3>1, <3>2
  <2> QED
    BY <2>3, <2>4 DEF SectionsFromZero
<1>2. CASE UNCHANGED <<loaded, segPtr, symbolTable, defset>>
  BY <1>2 DEF SectionsFromZero
<1> QED
  BY <1>1, <1>2, ReadsOrKeeps

\* Module i's reference r as the linker keeps it.
Placed(i, r) ==
    [r EXCEPT !.offset = @ + loaded[i].base[r.segment],
              !.value  = @ + IF r.base.kind = "segment"
                             THEN loaded[i].base[r.base.segment] ELSE 0]

IsPlaced(p) ==
    \E i \in DOMAIN loaded : \E r \in Contents[loaded[i].object].relocs : p = Placed(i, r)

AllPlaced == {p \in RelocRecord : IsPlaced(p)}

(***************************************************************************)
(* Until linkSymbols the list has every reference of every module read,    *)
(* then the same references bound; nothing is patched before the end.      *)
(***************************************************************************)
RelocsComplete ==
    /\ pc \in {"read", "lib", "resolve", "link"} => relocs = AllPlaced
    /\ pc = "relocate" =>
          /\ relocs = {LinkSymbol(p) : p \in AllPlaced}
          /\ \A p \in AllPlaced : p.base.kind = "symbol" => IsDefined(p.base.symbol)
    /\ pc \notin {"write", "done"} => patched = {}

\* readModule adds the references of its module and moves no other.
LEMMA ReadModulePlaces ==
    ASSUME TypeOK, NEW o \in Object, ReadModule(o)
    PROVE  AllPlaced' = AllPlaced \cup {AddReloc(r) : r \in Contents[o].relocs}
<1>0. PICK k \in Nat : k = Len(loaded) + 1
  BY ReadModuleAppends
<1>1. /\ Len(loaded) \in Nat /\ k = Len(loaded) + 1
      /\ loaded'[k] = [object |-> o, base |-> segPtr]
      /\ \A j \in 1 .. Len(loaded) : loaded'[j] = loaded[j]
      /\ DOMAIN loaded = 1 .. Len(loaded)
      /\ DOMAIN loaded' = 1 .. k
  BY <1>0, ReadModuleAppends
<1>2. DOMAIN loaded' = DOMAIN loaded \cup {k} /\ k \notin DOMAIN loaded
  BY <1>1
<1>3. \A j \in DOMAIN loaded : loaded'[j] = loaded[j]
  BY <1>1
<1>4. loaded'[k].object = o /\ loaded'[k].base = segPtr
  BY <1>1
<1>5. \A j \in DOMAIN loaded : \A r : Placed(j, r)' = Placed(j, r)
  BY <1>3 DEF Placed
<1>6. \A r : Placed(k, r)' = AddReloc(r)
  BY <1>4, Zenon DEF Placed, AddReloc
<1>7. \A r \in Contents[o].relocs : AddReloc(r) \in RelocRecord
  BY ContentsType, AddRelocType DEF TypeOK
<1>8. \A p : IsPlaced(p)' <=> IsPlaced(p) \/ \E r \in Contents[o].relocs : p = AddReloc(r)
  <2> SUFFICES ASSUME NEW p
               PROVE  IsPlaced(p)' <=> IsPlaced(p) \/ \E r \in Contents[o].relocs : p = AddReloc(r)
    OBVIOUS
  <2>1. IsPlaced(p)' <=> \E j \in DOMAIN loaded' :
                            \E r \in Contents[loaded'[j].object].relocs : p = Placed(j, r)'
    BY DEF IsPlaced
  <2>2. (\E r \in Contents[loaded'[k].object].relocs : p = Placed(k, r)')
           <=> \E r \in Contents[o].relocs : p = AddReloc(r)
    BY <1>4, <1>6, Zenon
  <2>3. \A j \in DOMAIN loaded :
          (\E r \in Contents[loaded'[j].object].relocs : p = Placed(j, r)')
            <=> \E r \in Contents[loaded[j].object].relocs : p = Placed(j, r)
    BY <1>3, <1>5, Zenon
  <2> QED
    BY <1>2, <2>1, <2>2, <2>3, Zenon DEF IsPlaced
<1> QED
  BY <1>7, <1>8, Zenon DEF AllPlaced

LEMMA RelocsStep ==
    TypeOK /\ BasesBound /\ RelocsComplete /\ [Next]_vars => RelocsComplete'
<1> SUFFICES ASSUME TypeOK, BasesBound, RelocsComplete, [Next]_vars PROVE RelocsComplete'
  OBVIOUS
<1>1. ASSUME NEW o \in Object, ReadModule(o), UNCHANGED <<pc, patched>>,
             pc \in {"read", "resolve"}
      PROVE  RelocsComplete'
  <2>1. AllPlaced' = relocs'
    BY <1>1, ReadModulePlaces DEF RelocsComplete, ReadModule
  <2> QED
    BY <1>1, <2>1 DEF RelocsComplete
<1>2. ASSUME UNCHANGED <<symvars, patched>>, pc' # "relocate",
             pc' \in {"read", "lib", "resolve", "link"} =>
                pc \in {"read", "lib", "resolve", "link"},
             pc \notin {"write", "done"}
      PROVE  RelocsComplete'
  <2>1. AllPlaced' = AllPlaced
    BY <1>2 DEF AllPlaced, IsPlaced, Placed, symvars
  <2> QED
    BY <1>2, <2>1 DEF RelocsComplete, symvars
<1>3. CASE ReadFile
  BY <1>1, <1>2, <1>3, ReadFileReads
<1>4. ASSUME NEW n \in Name, ExtractMember(n) PROVE RelocsComplete'
  BY <1>1, <1>2, <1>4, ExtractReads
<1>5. CASE FilesRead \/ OpenLibrary \/ NoMoreLibraries \/ LookupInEmptyTable
             \/ LibraryExhausted \/ (\E n \in Name : NotInLibraries(n))
  BY <1>2, <1>5 DEF FilesRead, OpenLibrary, NoMoreLibraries, LookupInEmptyTable,
     LibraryExhausted, NotInLibraries, Error, symvars, libvars
<1>6. CASE LinkSymbols
  <2>1. pc = "link" /\ UNCHANGED <<loaded, symbolTable, patched>> /\ pc' \in {"error", "relocate"}
    BY <1>6 DEF LinkSymbols, Error
  <2>2. AllPlaced' = AllPlaced /\ relocs = AllPlaced
    <3>1. relocs = AllPlaced
      BY <2>1 DEF RelocsComplete
    <3>2. AllPlaced' = AllPlaced
      BY <2>1 DEF AllPlaced, IsPlaced, Placed
    <3> QED
      BY <3>1, <3>2
  <2>3. pc' = "relocate" => relocs' = {LinkSymbol(p) : p \in relocs}
          /\ \A p \in relocs : p.base.kind = "symbol" => IsDefined(p.base.symbol)
    BY <1>6 DEF LinkSymbols, Error
  <2>4. \A p : LinkSymbol(p)' = LinkSymbol(p)
    BY <2>1 DEF LinkSymbol
  <2>5. \A n : IsDefined(n)' = IsDefined(n)
    BY <2>1 DEF IsDefined
  <2> QED
    BY <2>1, <2>2, <2>3, <2>4, <2>5 DEF RelocsComplete
<1>7. CASE RelocateSegments
  BY <1>7 DEF RelocateSegments, RelocsComplete, Error
<1>8. CASE Write
  BY <1>8 DEF Write, RelocsComplete
<1>9. CASE UNCHANGED vars
  <2>1. UNCHANGED <<pc, loaded, symbolTable, relocs, patched>>
    BY <1>9 DEF vars, symvars
  <2>2. AllPlaced' = AllPlaced
    BY <2>1 DEF AllPlaced, IsPlaced, Placed
  <2>3. \A p : LinkSymbol(p)' = LinkSymbol(p)
    BY <2>1 DEF LinkSymbol
  <2>4. \A n : IsDefined(n)' = IsDefined(n)
    BY <2>1 DEF IsDefined
  <2> QED
    BY <2>1, <2>2, <2>3, <2>4 DEF RelocsComplete
<1> QED
  BY <1>3, <1>4, <1>5, <1>6, <1>7, <1>8, <1>9 DEF Next, Terminating

---------------------------------------------------------------------------
(* What fixupRef writes is what the abstract link asks for *)

\* Every module of the list has an object file and a place in each segment.
LEMMA LoadedType ==
    ASSUME TypeOK, NEW i \in DOMAIN loaded
    PROVE  /\ loaded[i].object \in Object
           /\ loaded[i].base \in [Segment -> Nat]
           /\ Mods[i] = loaded[i].object
<1>1. loaded \in Seq(Loaded)
  BY DEF TypeOK, Loaded
<1>2. i \in 1 .. Len(loaded)
  BY <1>1, LenProperties
<1>3. loaded[i] \in Loaded
  BY <1>1, <1>2, ElementOfSeq
<1> QED
  BY <1>3 DEF Loaded, Mods

\* The symbol table gives a bound name the address of its first definition.
LEMMA AddressBound ==
    ASSUME TypeOK, SectionsEndToEnd, SectionsFromZero, FirstDefinitionWins,
           NEW n \in Name, IsDefined(n)
    PROVE  /\ Abstract!Exported(n)
           /\ Abstract!AddressOf(n) =
                [segment |-> symbolTable[n].segment, offset |-> symbolTable[n].value]
<1> DEFINE First(j) == n \in Abstract!Exports(j)
                       /\ \A k \in DOMAIN Mods : n \in Abstract!Exports(k) => j <= k
           i == CHOOSE j \in DOMAIN Mods : First(j)
<1>1. DOMAIN Mods = DOMAIN loaded /\ DOMAIN loaded \subseteq Nat
  BY DEF Mods, TypeOK
<1>2. \A j \in DOMAIN loaded : n \in Abstract!Exports(j) <=> j \in Definers(n)
  <2> SUFFICES ASSUME NEW j \in DOMAIN loaded
               PROVE  n \in Abstract!Exports(j) <=> j \in Definers(n)
    OBVIOUS
  <2>1. Abstract!Exports(j) = DOMAIN Contents[Mods[j]].defs
    BY DEF Abstract!Exports, Mods
  <2>2. Mods[j] = loaded[j].object
    BY LoadedType
  <2> QED
    BY <2>1, <2>2, Zenon DEF Definers, Defs
<1>3. Definers(n) # {} /\ Definers(n) \subseteq DOMAIN loaded
  BY DEF FirstDefinitionWins, Definers
<1>4. PICK j \in Definers(n) : \A k \in Definers(n) : j <= k
  BY <1>1, <1>3, LeastNumber
<1>5. First(j) /\ j \in DOMAIN Mods
  BY <1>1, <1>2, <1>3, <1>4
<1>6. i \in DOMAIN loaded /\ First(i)
  BY <1>1, <1>5
<1>7. i \in Definers(n) /\ \A k \in Definers(n) : i <= k
  BY <1>1, <1>2, <1>3, <1>6
<1>8. Abstract!AddressOf(n) =
        [segment |-> Contents[Mods[i]].defs[n].segment,
         offset |-> Abstract!Offset(i, Contents[Mods[i]].defs[n].segment)
                      + Contents[Mods[i]].defs[n].value]
  BY DEF Abstract!AddressOf, Mods
<1>9. Abstract!Exported(n)
  BY <1>1, <1>6 DEF Abstract!Exported, Mods
<1> HIDE DEF i, First
<1>10. symbolTable[n] = PlaceIn(i, n)
  BY <1>7 DEF FirstDefinitionWins
<1>11. Mods[i] = loaded[i].object
  BY <1>6, LoadedType
<1>12. Contents[Mods[i]].defs[n].segment \in Segment
  BY <1>6, <1>7, <1>11, LoadedType, ContentsType DEF Definers, Defs
<1>13. Abstract!Offset(i, Contents[Mods[i]].defs[n].segment)
         = loaded[i].base[Contents[Mods[i]].defs[n].segment]
  BY <1>6, <1>12, OffsetIsBase
<1> QED
  BY <1>8, <1>9, <1>10, <1>11, <1>13 DEF PlaceIn, Defined, Defs

(***************************************************************************)
(* For every reference whose symbol is bound, fixupRef computes what the   *)
(* abstract link puts there, from the record addReloc and linkSymbol made. *)
(***************************************************************************)
LEMMA PatchIsFixup ==
    ASSUME TypeOK, SectionsEndToEnd, SectionsFromZero, FirstDefinitionWins,
           NEW i \in DOMAIN loaded, NEW r \in Contents[loaded[i].object].relocs,
           r.base.kind = "symbol" => IsDefined(r.base.symbol),
           NEW st \in [Segment -> Nat]
    PROVE  /\ Abstract!PlaceOf(Abstract!Patch(i, r, st))
                = Abstract!PlaceOf(Fixup(LinkSymbol(Placed(i, r)), st))
           /\ Abstract!Meaningful(i, r) =>
                Abstract!Patch(i, r, st) = Fixup(LinkSymbol(Placed(i, r)), st)
<1> DEFINE p == LinkSymbol(Placed(i, r))
           t == Abstract!TargetOf(i, r)
           base == loaded[i].base
<1>1. r \in RelocRecord
  BY LoadedType, ContentsType
<1>2. /\ r.segment \in Stored /\ r.segment \in Segment /\ r.offset \in Nat
      /\ r.method \in Method /\ r.value \in Int /\ r.base \in Base
  BY <1>1 DEF RelocRecord, Stored, Segment
<1>3. base \in [Segment -> Nat]
  BY LoadedType
<1>4. Abstract!Offset(i, r.segment) = base[r.segment] /\ base[r.segment] \in Nat
  BY <1>2, <1>3, OffsetIsBase
<1>5. /\ p.segment = r.segment /\ p.method = r.method
      /\ p.offset = r.offset + base[r.segment]
      /\ p.value = r.value + t.offset
      /\ p.base = SegBase(t.segment)
      /\ t.segment \in Segment /\ t.offset \in Nat
  <2>1. CASE r.base.kind = "segment"
    <3>1. r.base.segment \in Segment /\ r.base = SegBase(r.base.segment)
      BY <1>2, <2>1 DEF Base, SegBase, SymBase
    <3>2. p = [r EXCEPT !.offset = @ + base[r.segment], !.value = @ + base[r.base.segment]]
      BY <1>1, <2>1 DEF LinkSymbol, Placed, RelocRecord
    <3>3. t = [segment |-> r.base.segment, offset |-> Abstract!Offset(i, r.base.segment)]
      BY <2>1 DEF Abstract!TargetOf, Abstract!Offset
    <3>4. Abstract!Offset(i, r.base.segment) = base[r.base.segment]
      BY <3>1, OffsetIsBase
    <3>5. t.segment = r.base.segment /\ t.offset = base[r.base.segment]
      BY <3>3, <3>4
    <3> HIDE DEF t, p, base
    <3> QED
      BY <1>1, <1>3, <3>1, <3>2, <3>5 DEF RelocRecord
  <2>2. CASE r.base.kind # "segment"
    <3> DEFINE n == r.base.symbol
    <3>1. n \in Name /\ r.base.kind = "symbol"
      BY <1>2, <2>2 DEF Base, SegBase, SymBase
    <3>2. IsDefined(n)
      BY <3>1
    <3>3. symbolTable[n].segment \in Segment /\ symbolTable[n].value \in Nat
      BY <3>1 DEF TypeOK, SymbolEntry
    <3>4. t = Abstract!AddressOf(n)
      BY <3>1 DEF Abstract!TargetOf, Abstract!AddressOf
    <3>5. t = [segment |-> symbolTable[n].segment, offset |-> symbolTable[n].value]
      BY <3>1, <3>2, <3>4, AddressBound
    <3>6. Placed(i, r) = [r EXCEPT !.offset = @ + base[r.segment], !.value = @ + 0]
      BY <2>2 DEF Placed
    <3>7. Placed(i, r).base = r.base /\ Placed(i, r).value = r.value + 0
      BY <1>1, <3>6 DEF RelocRecord
    <3>8. p = [Placed(i, r) EXCEPT !.value = @ + symbolTable[n].value,
                                   !.base = SegBase(symbolTable[n].segment)]
      BY <2>2, <3>7 DEF LinkSymbol
    <3> HIDE DEF t, p, base, n
    <3> QED
      BY <1>1, <1>2, <1>3, <3>3, <3>5, <3>6, <3>7, <3>8 DEF RelocRecord
  <2> QED
    BY <2>1, <2>2
<1> HIDE DEF p, base
<1>6. Abstract!Patch(i, r, st) =
        LET address == st[t.segment] + t.offset + r.value
            offset == base[r.segment] + r.offset
            from == st[r.segment] + offset - (IF r.method \in SecondOfPair THEN 4 ELSE 0)
        IN  [segment |-> r.segment, offset |-> offset, method |-> r.method,
             field |-> IF r.method = "W32" THEN address ELSE address - from]
  BY <1>4 DEF Abstract!Patch, Abstract!SecondOfPair, SecondOfPair
<1>7. Abstract!Meaningful(i, r) <=>
        (r.method \in Branch => t.segment = "CODE" /\ r.segment = "CODE")
  BY DEF Abstract!Meaningful, Abstract!Branch, Branch
<1> HIDE DEF t
<1>8. st[t.segment] \in Nat /\ st[r.segment] \in Nat
  BY <1>2, <1>5
<1>9. p.offset = base[r.segment] + r.offset
  BY <1>2, <1>4, <1>5
<1>10. Abstract!PlaceOf(Abstract!Patch(i, r, st)) = Abstract!PlaceOf(Fixup(p, st))
  BY <1>5, <1>6, <1>9 DEF Abstract!PlaceOf, Fixup
<1>11. ASSUME r.method \in Branch => t.segment = "CODE" /\ r.segment = "CODE"
       PROVE  FixupValue(p, st) = Abstract!Patch(i, r, st).field
  <2>1. p.base.segment = t.segment
    BY <1>5 DEF SegBase
  <2>2. CASE r.method = "W32"
    <3>0. p.method = "W32" /\ p.method \notin Branch /\ p.method \notin PcRel
      BY <1>5, <2>2 DEF Branch, PcRel
    <3>1. FixupValue(p, st) = p.value + st[p.base.segment]
      BY <3>0, Zenon DEF FixupValue
    <3> QED
      BY <1>2, <1>5, <1>6, <1>8, <2>1, <2>2, <3>1
  <2>3. CASE r.method \in Branch
    <3>1. r.method # "W32"
      BY <2>3 DEF Branch
    <3>2. FixupValue(p, st) =
            p.value - p.offset + (IF p.method \in SecondOfPair THEN 4 ELSE 0)
      BY <1>5, <2>3, <3>1, Zenon DEF FixupValue, Branch, PcRel
    <3>3. st[t.segment] = st[r.segment]
      BY <1>11, <2>3
    <3> QED
      BY <1>2, <1>4, <1>5, <1>6, <1>8, <1>9, <3>1, <3>2, <3>3
  <2>4. CASE r.method \in PcRel
    <3>1. r.method # "W32" /\ r.method \notin Branch
      BY <2>4 DEF PcRel, Branch
    <3>2. FixupValue(p, st) =
            p.value - p.offset + (IF p.method \in SecondOfPair THEN 4 ELSE 0)
              + st[p.base.segment] - st[p.segment]
      BY <1>5, <2>4, <3>1 DEF FixupValue
    <3> QED
      BY <1>2, <1>4, <1>5, <1>6, <1>8, <1>9, <2>1, <3>1, <3>2
  <2> QED
    BY <1>2, <2>2, <2>3, <2>4 DEF Method
<1>12. ASSUME r.method \in Branch => t.segment = "CODE" /\ r.segment = "CODE"
       PROVE  Abstract!Patch(i, r, st) = Fixup(p, st)
  BY <1>5, <1>6, <1>9, <1>11, <1>12 DEF Fixup
<1> QED
  BY <1>7, <1>10, <1>12 DEF p

---------------------------------------------------------------------------
(* The refinement *)

Gathering == {"read", "lib", "resolve", "link", "relocate"}
GivenUp == {"error", "exit", "crash"}

AbsStatus ==
    CASE pc \in {"write", "done"} -> "linked"
      [] pc \in GivenUp -> "failed"
      [] OTHER -> "gathering"
AbsStart == IF pc \in {"write", "done"} THEN segStart ELSE [s \in Segment |-> 0]

\* Where main is tells how far the abstract link is.
LEMMA StatusOfPc ==
    /\ pc \in Gathering => AbsStatus = "gathering" /\ AbsStart = [s \in Segment |-> 0]
    /\ pc \in GivenUp => AbsStatus = "failed" /\ AbsStart = [s \in Segment |-> 0]
    /\ pc \in {"write", "done"} => AbsStatus = "linked" /\ AbsStart = segStart
<1>1. CASE pc \in Gathering
  <2>1. pc \notin {"write", "done"} /\ pc \notin GivenUp
    BY <1>1 DEF Gathering, GivenUp
  <2>2. AbsStatus = "gathering" /\ AbsStart = [s \in Segment |-> 0]
    BY <2>1 DEF AbsStatus, AbsStart
  <2> QED
    BY <2>1, <2>2
<1>2. CASE pc \in GivenUp
  <2>1. pc \notin {"write", "done"} /\ pc \notin Gathering
    BY <1>2 DEF Gathering, GivenUp
  <2>2. AbsStatus = "failed" /\ AbsStart = [s \in Segment |-> 0]
    BY <1>2, <2>1 DEF AbsStatus, AbsStart
  <2> QED
    BY <2>1, <2>2
<1>3. CASE pc \in {"write", "done"}
  <2>1. pc \notin GivenUp /\ pc \notin Gathering
    BY <1>3 DEF Gathering, GivenUp
  <2>2. AbsStatus = "linked" /\ AbsStart = segStart
    BY <1>3, <2>1 DEF AbsStatus, AbsStart
  <2> QED
    BY <2>1, <2>2
<1> QED
  BY <1>1, <1>2, <1>3

\* What relates the linker's tables to the gathered modules.
Tables ==
    /\ TypeOK /\ BasesBound
    /\ SectionsEndToEnd /\ SectionsFromZero
    /\ FirstDefinitionWins
    /\ RelocsComplete

LEMMA TablesInvariant == Spec => []Tables
<1>1. Init => SectionsFromZero /\ RelocsComplete
  <2> SUFFICES ASSUME Init PROVE SectionsFromZero /\ RelocsComplete
    OBVIOUS
  <2>1. SectionsFromZero
    BY DEF Init, SectionsFromZero
  <2>2. AllPlaced = {}
    BY DEF Init, AllPlaced, IsPlaced
  <2> QED
    BY <2>1, <2>2 DEF Init, RelocsComplete
<1>2. /\ TypeOK /\ BasesBound /\ SectionsFromZero /\ RelocsComplete /\ [Next]_vars
      => (SectionsFromZero /\ RelocsComplete)'
  BY FromZeroStep, RelocsStep
<1> QED
  BY <1>1, <1>2, Inductive, SectionsLaidEndToEnd, FirstDefinitionBinds, PTL DEF Spec, Tables

\* Reading a module is gathering it.
LEMMA ReadIsAdd ==
    ASSUME TypeOK, NEW o \in Object, ReadModule(o), pc \in {"read", "resolve"},
           UNCHANGED <<pc, patched>>
    PROVE  Abstract!Next
<1>1. AbsStatus = "gathering" /\ AbsStatus' = "gathering" /\ AbsStart' = AbsStart
  <2>1. pc \in Gathering
    BY DEF Gathering
  <2> QED
    BY <2>1, StatusOfPc DEF AbsStatus, AbsStart
<1>2. Mods' = Append(Mods, o)
  <2> DEFINE n == Len(loaded)
  <2>1. /\ n \in Nat
        /\ loaded'[n + 1] = [object |-> o, base |-> segPtr]
        /\ \A j \in 1 .. n : loaded'[j] = loaded[j]
        /\ DOMAIN loaded = 1 .. n
        /\ DOMAIN loaded' = 1 .. (n + 1)
    BY ReadModuleAppends
  <2> HIDE DEF n
  <2>2. \A j \in 1 .. n : loaded[j].object \in Object
    BY <2>1, LoadedType
  <2>3. Mods \in [1 .. n -> Object]
    BY <2>1, <2>2 DEF Mods
  <2>4. Mods \in Seq(Object) /\ Len(Mods) = n
    BY <2>1, <2>3, SeqDef, LenProperties
  <2>5. /\ Append(Mods, o) \in Seq(Object) /\ Len(Append(Mods, o)) = n + 1
        /\ \A j \in 1 .. n : Append(Mods, o)[j] = Mods[j]
        /\ Append(Mods, o)[n + 1] = o
    BY <2>4, AppendProperties
  <2>6. Mods' = [j \in 1 .. (n + 1) |-> loaded'[j].object]
    BY <2>1 DEF Mods
  <2>7. \A j \in 1 .. (n + 1) : loaded'[j].object = Append(Mods, o)[j]
    <3> SUFFICES ASSUME NEW j \in 1 .. (n + 1)
                 PROVE  loaded'[j].object = Append(Mods, o)[j]
      OBVIOUS
    <3>1. CASE j \in 1 .. n
      BY <2>1, <2>5, <3>1 DEF Mods
    <3>2. CASE j = n + 1
      BY <2>1, <2>5, <3>2
    <3>3. j \in 1 .. n \/ j = n + 1
      BY <2>1
    <3> QED
      BY <3>1, <3>2, <3>3
  <2>8. Append(Mods, o) = [j \in 1 .. (n + 1) |-> Append(Mods, o)[j]]
    BY <2>5, LenProperties
  <2> QED
    BY <2>6, <2>7, <2>8
<1>3. Abstract!Add(o)
  BY <1>1, <1>2 DEF Abstract!Add, Mods, AbsStatus, AbsStart, GivenUp
<1> QED
  BY <1>3 DEF Abstract!Next

\* relocateSegments is the abstract link.
LEMMA RelocateIsLink ==
    ASSUME Tables, RelocateSegments, pc' = "write"
    PROVE  Abstract!Next
<1> USE DEF Tables
<1>1. /\ pc = "relocate" /\ segStart' = Start /\ loaded' = loaded
      /\ patched' = {Fixup(p, Start) : p \in relocs}
  BY DEF RelocateSegments, Error
<1>2. /\ relocs = {LinkSymbol(p) : p \in AllPlaced}
      /\ \A p \in AllPlaced : p.base.kind = "symbol" => IsDefined(p.base.symbol)
  BY <1>1 DEF RelocsComplete
<1>3. Start \in [Segment -> Nat]
  BY StartType DEF TypeOK
<1>4. AbsStatus = "gathering" /\ AbsStatus' = "linked" /\ AbsStart' = Start
  <2>1. pc \in Gathering /\ pc' \in {"write", "done"}
    BY <1>1 DEF Gathering
  <2>2. AbsStatus' = "linked" /\ AbsStart' = segStart'
    BY SMT DEF AbsStatus, AbsStart, GivenUp
  <2> QED
    BY <1>1, <2>1, <2>2, StatusOfPc
<1>5. \A i \in DOMAIN loaded : \A r \in Contents[loaded[i].object].relocs :
        /\ Placed(i, r) \in AllPlaced /\ Placed(i, r).base = r.base
  <2> SUFFICES ASSUME NEW i \in DOMAIN loaded, NEW r \in Contents[loaded[i].object].relocs
               PROVE  Placed(i, r) \in AllPlaced /\ Placed(i, r).base = r.base
    OBVIOUS
  <2>1. r \in RelocRecord
    BY LoadedType, ContentsType
  <2>2. r.offset \in Nat /\ r.value \in Int /\ r.segment \in Segment /\ r.base \in Base
    BY <2>1 DEF RelocRecord, Stored, Segment
  <2>3. loaded[i].base \in [Segment -> Nat]
    BY LoadedType
  <2>4. r.base.kind = "segment" => r.base.segment \in Segment
    BY <2>2 DEF Base, SegBase, SymBase
  <2>5. r.offset + loaded[i].base[r.segment] \in Nat
    BY <2>2, <2>3
  <2>6. r.value + (IF r.base.kind = "segment" THEN loaded[i].base[r.base.segment] ELSE 0) \in Int
    BY <2>2, <2>3, <2>4
  <2>7. Placed(i, r) \in RelocRecord /\ Placed(i, r).base = r.base
    BY <2>1, <2>5, <2>6 DEF Placed, RelocRecord
  <2> QED
    BY <2>7 DEF AllPlaced, IsPlaced
<1>6. \A e \in Abstract!References :
        /\ e[1] \in DOMAIN loaded /\ e[2] \in Contents[loaded[e[1]].object].relocs
  <2>1. \A i \in DOMAIN loaded : Mods[i] = loaded[i].object
    BY LoadedType
  <2>2. Abstract!References = UNION {{i} \X Contents[Mods[i]].relocs : i \in DOMAIN Mods}
    BY DEF Abstract!References, Mods
  <2>3. DOMAIN Mods = DOMAIN loaded
    BY DEF Mods
  <2> QED
    BY <2>1, <2>2, <2>3
<1>7. \A i \in DOMAIN loaded : \A r \in Contents[loaded[i].object].relocs :
        <<i, r>> \in Abstract!References
  <2>1. \A i \in DOMAIN loaded : Mods[i] = loaded[i].object
    BY LoadedType
  <2>2. Abstract!References = UNION {{i} \X Contents[Mods[i]].relocs : i \in DOMAIN Mods}
    BY DEF Abstract!References, Mods
  <2>3. DOMAIN Mods = DOMAIN loaded
    BY DEF Mods
  <2> QED
    BY <2>1, <2>2, <2>3
<1> DEFINE q(i, r) == Fixup(LinkSymbol(Placed(i, r)), Start)
<1>8. \A i \in DOMAIN loaded : \A r \in Contents[loaded[i].object].relocs :
        /\ q(i, r) \in patched'
        /\ Abstract!PlaceOf(Abstract!Patch(i, r, Start)) = Abstract!PlaceOf(q(i, r))
        /\ Abstract!Meaningful(i, r) => Abstract!Patch(i, r, Start) = q(i, r)
        /\ r.base.kind = "symbol" => IsDefined(r.base.symbol) /\ r.base.symbol \in Name
  <2> SUFFICES ASSUME NEW i \in DOMAIN loaded, NEW r \in Contents[loaded[i].object].relocs
               PROVE  /\ q(i, r) \in patched'
                      /\ Abstract!PlaceOf(Abstract!Patch(i, r, Start)) = Abstract!PlaceOf(q(i, r))
                      /\ Abstract!Meaningful(i, r) => Abstract!Patch(i, r, Start) = q(i, r)
                      /\ r.base.kind = "symbol" =>
                            IsDefined(r.base.symbol) /\ r.base.symbol \in Name
    BY Zenon
  <2>1. q(i, r) \in patched'
    BY <1>1, <1>2, <1>5
  <2>2. r.base.kind = "symbol" => IsDefined(r.base.symbol)
    BY <1>2, <1>5
  <2>3. r.base.kind = "symbol" => r.base.symbol \in Name
    BY LoadedType, ContentsType DEF RelocRecord, Base, SegBase, SymBase
  <2> QED
    BY <1>3, <2>1, <2>2, <2>3, PatchIsFixup
<1>9. \A e \in Abstract!References :
        e[2].base.kind = "symbol" => Abstract!Exported(e[2].base.symbol)
  BY <1>6, <1>8, AddressBound
<1>10. \A p \in patched' : \E i \in DOMAIN loaded :
         \E r \in Contents[loaded[i].object].relocs : p = q(i, r)
  BY <1>1, <1>2 DEF AllPlaced, IsPlaced
<1> HIDE DEF q
<1>11. {Abstract!PlaceOf(p) : p \in patched'} =
         {Abstract!PlaceOf(Abstract!Patch(e[1], e[2], Start)) : e \in Abstract!References}
  <2>1. ASSUME NEW p \in patched'
        PROVE  \E e \in Abstract!References :
                  Abstract!PlaceOf(p) = Abstract!PlaceOf(Abstract!Patch(e[1], e[2], Start))
    <3>1. PICK i \in DOMAIN loaded : \E r \in Contents[loaded[i].object].relocs : p = q(i, r)
      BY <1>10
    <3>2. PICK r \in Contents[loaded[i].object].relocs : p = q(i, r)
      BY <3>1
    <3>3. <<i, r>> \in Abstract!References
      BY <1>7
    <3>4. Abstract!PlaceOf(p) = Abstract!PlaceOf(Abstract!Patch(i, r, Start))
      BY <1>8, <3>2
    <3> QED
      BY <3>3, <3>4
  <2>2. ASSUME NEW e \in Abstract!References
        PROVE  \E p \in patched' :
                  Abstract!PlaceOf(p) = Abstract!PlaceOf(Abstract!Patch(e[1], e[2], Start))
    BY <1>6, <1>8
  <2> QED
    BY <2>1, <2>2
<1>12. \A e \in Abstract!References :
         Abstract!Meaningful(e[1], e[2]) => Abstract!Patch(e[1], e[2], Start) \in patched'
  BY <1>6, <1>8
<1>13. Mods' = Mods
  BY <1>1 DEF Mods
<1>14. Abstract!Link
  BY <1>3, <1>4, <1>9, <1>11, <1>12, <1>13
     DEF Abstract!Link, Mods, AbsStatus, AbsStart, GivenUp, Abstract!Segment, Segment
<1> QED
  BY <1>14 DEF Abstract!Next

\* A step that leaves modules and places alone stutters, or is the failure.
LEMMA OtherIsStutterOrFail ==
    ASSUME TypeOK, UNCHANGED <<loaded, patched>>,
           \/ pc \in Gathering /\ pc' \in Gathering \cup GivenUp
           \/ pc \in {"write", "done"} /\ pc' \in {"write", "done"} /\ UNCHANGED segStart
           \/ UNCHANGED <<pc, segStart>>
    PROVE  Abstract!Next \/ UNCHANGED Abstract!absvars
<1>1. Mods' = Mods
  BY DEF Mods
<1>2. CASE pc \in Gathering /\ pc' \in GivenUp
  <2>1. AbsStatus = "gathering" /\ AbsStart = [s \in Segment |-> 0]
    BY <1>2, StatusOfPc
  <2>2. AbsStatus' = "failed" /\ AbsStart' = [s \in Segment |-> 0]
    BY <1>2, SMT DEF AbsStatus, AbsStart, GivenUp
  <2>3. Abstract!Fail
    BY <1>1, <2>1, <2>2
       DEF Abstract!Fail, Mods, AbsStatus, AbsStart, GivenUp
  <2> QED
    BY <2>3 DEF Abstract!Next
<1>3. CASE pc \in Gathering /\ pc' \in Gathering
  <2>1. AbsStatus = "gathering" /\ AbsStart = [s \in Segment |-> 0]
    BY <1>3, StatusOfPc
  <2>2. AbsStatus' = "gathering" /\ AbsStart' = [s \in Segment |-> 0]
    BY <1>3, SMT DEF AbsStatus, AbsStart, GivenUp, Gathering
  <2>3. UNCHANGED Abstract!absvars
    BY <1>1, <2>1, <2>2
       DEF Abstract!absvars, Mods, AbsStatus, AbsStart, GivenUp
  <2> QED
    BY <2>3
<1>4. CASE \/ pc \in {"write", "done"} /\ pc' \in {"write", "done"} /\ UNCHANGED segStart
           \/ UNCHANGED <<pc, segStart>>
  <2>1. AbsStatus' = AbsStatus /\ AbsStart' = AbsStart
    BY <1>4, SMT DEF AbsStatus, AbsStart, GivenUp
  <2>2. UNCHANGED Abstract!absvars
    BY <1>1, <2>1
       DEF Abstract!absvars, Mods, AbsStatus, AbsStart, GivenUp
  <2> QED
    BY <2>2
<1> QED
  BY <1>2, <1>3, <1>4

\* Every step of ld is a step of the abstract link or none.
LEMMA RefinementStep ==
    Tables /\ [Next]_vars => Abstract!Next \/ UNCHANGED Abstract!absvars
<1> SUFFICES ASSUME Tables, [Next]_vars
             PROVE  Abstract!Next \/ UNCHANGED Abstract!absvars
  OBVIOUS
<1>0. TypeOK
  BY DEF Tables
<1>1. CASE ReadFile
  <2>1. pc = "read" /\ UNCHANGED <<patched, segStart>>
    BY <1>0, <1>1, ReadFileReads
  <2>2. CASE pc' = "error" /\ UNCHANGED symvars
    BY <1>0, <2>1, <2>2, OtherIsStutterOrFail DEF Gathering, GivenUp, symvars
  <2>3. CASE \E o \in Object : ReadModule(o) /\ UNCHANGED pc
    BY <1>0, <2>1, <2>3, ReadIsAdd
  <2> QED
    BY <1>0, <1>1, <2>2, <2>3, ReadFileReads
<1>2. ASSUME NEW n \in Name, ExtractMember(n)
      PROVE  Abstract!Next \/ UNCHANGED Abstract!absvars
  <2>1. pc = "resolve" /\ UNCHANGED <<patched, segStart>>
    BY <1>0, <1>2, ExtractReads
  <2>2. CASE pc' = "error" /\ UNCHANGED symvars
    BY <1>0, <2>1, <2>2, OtherIsStutterOrFail DEF Gathering, GivenUp, symvars
  <2>3. CASE \E o \in Object : ReadModule(o) /\ UNCHANGED pc
    BY <1>0, <2>1, <2>3, ReadIsAdd
  <2> QED
    BY <1>0, <1>2, <2>2, <2>3, ExtractReads
<1>3. CASE FilesRead \/ OpenLibrary \/ NoMoreLibraries \/ LookupInEmptyTable
             \/ LibraryExhausted \/ LinkSymbols \/ (\E n \in Name : NotInLibraries(n))
  <2>1. UNCHANGED <<loaded, patched>> /\ pc \in Gathering /\ pc' \in Gathering \cup GivenUp
    BY <1>3 DEF FilesRead, OpenLibrary, NoMoreLibraries, LookupInEmptyTable,
       LibraryExhausted, LinkSymbols, NotInLibraries, Error, symvars, libvars,
       Gathering, GivenUp
  <2> QED
    BY <1>0, <2>1, OtherIsStutterOrFail
<1>4. CASE RelocateSegments
  <2>1. CASE pc' = "write"
    BY <1>4, <2>1, RelocateIsLink
  <2>2. CASE pc' # "write"
    <3>1. UNCHANGED <<loaded, patched>> /\ pc \in Gathering /\ pc' \in Gathering \cup GivenUp
      BY <1>4, <2>2 DEF RelocateSegments, Error, Gathering, GivenUp
    <3> QED
      BY <1>0, <3>1, OtherIsStutterOrFail
  <2> QED
    BY <2>1, <2>2
<1>5. CASE Write
  <2>1. UNCHANGED <<loaded, patched, segStart>> /\ pc = "write" /\ pc' = "done"
    BY <1>5 DEF Write, symvars
  <2> QED
    BY <1>0, <2>1, OtherIsStutterOrFail
<1>6. CASE UNCHANGED vars
  <2>1. UNCHANGED <<loaded, patched, pc, segStart>>
    BY <1>6 DEF vars, symvars
  <2> QED
    BY <1>0, <2>1, OtherIsStutterOrFail
<1> QED
  BY <1>1, <1>2, <1>3, <1>4, <1>5, <1>6 DEF Next, Terminating

(***************************************************************************)
(* ld is a static linker for every set of object modules, libraries and    *)
(* command lines: its symbol table, running sizes, relocation list and     *)
(* library loop implement the abstract link, in which each reference holds *)
(* the address of the first module that defines its target.                *)
(***************************************************************************)
THEOREM LinkerImplementsStaticLink == Spec => ImplementsStaticLink
<1>1. Init => Abstract!Init
  <2> SUFFICES ASSUME Init PROVE Abstract!Init
    OBVIOUS
  <2>1. pc \in Gathering /\ patched = {} /\ loaded = << >>
    BY DEF Init, Gathering
  <2>2. AbsStatus = "gathering" /\ AbsStart = [s \in Segment |-> 0]
    BY <2>1, StatusOfPc
  <2>3. Mods = << >>
    BY <2>1 DEF Mods
  <2> QED
    BY <2>1, <2>2, <2>3
       DEF Abstract!Init, Mods, AbsStatus, AbsStart, GivenUp, Abstract!Segment, Segment
<1>2. Tables /\ [Next]_vars => [Abstract!Next]_(Abstract!absvars)
  BY RefinementStep
<1> QED
  BY <1>1, <1>2, TablesInvariant, PTL DEF Spec, ImplementsStaticLink, Abstract!Spec

---------------------------------------------------------------------------
(* Members loaded once *)

(***************************************************************************)
(* Why MembersOnceAndCleanedUp holds: until something goes wrong, the      *)
(* modules are the files read and the members loaded, each counted once,   *)
(* and the directory lacks just the loaded members' files.                 *)
(***************************************************************************)
MembersCounted ==
    pc # "error" =>
        /\ IsFiniteSet(loaded_members)
        /\ Len(loaded) = argi + Cardinality(loaded_members)
        /\ dir = [f \in File |-> IF f \in loaded_members THEN Missing ELSE Directory[f]]
        /\ pc # "read" => argi = Len(opt.files)

LEMMA MembersStep ==
    TypeOK /\ MembersCounted /\ [Next]_vars => MembersCounted'
<1> SUFFICES ASSUME TypeOK, MembersCounted, [Next]_vars, pc' # "error"
             PROVE  MembersCounted'
  BY DEF MembersCounted
<1>0. argi \in Nat /\ Len(opt.files) \in Nat
  <2>1. opt.files \in Seq(File)
    BY InvocationType DEF TypeOK
  <2> QED
    BY <2>1 DEF TypeOK
<1>1. CASE ReadFile
  <2>1. PICK o \in Object : ReadModule(o) /\ argi' = argi + 1 /\ pc' = pc
    BY <1>1, ReadFileReads
  <2>2. pc = "read" /\ UNCHANGED <<opt, loaded_members, dir>>
    BY <1>1, ReadFileReads
  <2>3. Len(loaded') = Len(loaded) + 1
    BY <2>1, ReadModuleAppends
  <2>4. /\ IsFiniteSet(loaded_members)
        /\ Len(loaded) = argi + Cardinality(loaded_members)
        /\ dir = [f \in File |-> IF f \in loaded_members THEN Missing ELSE Directory[f]]
    BY <2>2 DEF MembersCounted
  <2>5. Cardinality(loaded_members) \in Nat
    BY <2>4, FS_CardinalityType
  <2>6. Len(loaded') = argi' + Cardinality(loaded_members')
    BY <1>0, <2>1, <2>2, <2>3, <2>4, <2>5
  <2> QED
    BY <2>1, <2>2, <2>4, <2>6 DEF MembersCounted
<1>2. ASSUME NEW n \in Name, ExtractMember(n) PROVE MembersCounted'
  <2> DEFINE e == libsymbolTable[n]
             o == Extracted(e)
  <2>1. /\ pc = "resolve" /\ e.file \in File /\ e.file \notin loaded_members
        /\ UNCHANGED <<opt, argi>>
        /\ loaded_members' = loaded_members \cup {e.file}
    BY <1>2, ExtractReads
  <2>2. /\ o \in Object /\ ReadModule(o) /\ pc' = pc
        /\ dir' = [dir EXCEPT ![e.file] = Missing]
    BY <1>2, ExtractReads
  <2>3. Len(loaded') = Len(loaded) + 1
    BY <2>2, ReadModuleAppends
  <2>4. /\ IsFiniteSet(loaded_members)
        /\ Len(loaded) = argi + Cardinality(loaded_members)
        /\ dir = [f \in File |-> IF f \in loaded_members THEN Missing ELSE Directory[f]]
        /\ argi = Len(opt.files)
    BY <2>1 DEF MembersCounted
  <2> HIDE DEF e, o
  <2>5. /\ IsFiniteSet(loaded_members') /\ Cardinality(loaded_members) \in Nat
        /\ Cardinality(loaded_members') = Cardinality(loaded_members) + 1
    BY <2>1, <2>4, FS_AddElement, FS_CardinalityType
  <2>6. Len(loaded') = argi' + Cardinality(loaded_members')
    BY <1>0, <2>1, <2>3, <2>4, <2>5, SMTT(40)
  <2>7. dir' = [f \in File |-> IF f \in loaded_members' THEN Missing ELSE Directory[f]]
    BY <2>1, <2>2, <2>4
  <2> QED
    BY <2>1, <2>4, <2>5, <2>6, <2>7 DEF MembersCounted
<1>3. CASE UNCHANGED <<opt, argi, loaded, loaded_members, dir>>
           /\ pc # "error" /\ (pc' # "read" => pc # "read" \/ argi = Len(opt.files))
  BY <1>3 DEF MembersCounted
<1>4. CASE FilesRead \/ OpenLibrary \/ NoMoreLibraries \/ LookupInEmptyTable
             \/ LibraryExhausted \/ (\E n \in Name : NotInLibraries(n))
  BY <1>3, <1>4 DEF FilesRead, OpenLibrary, NoMoreLibraries, LookupInEmptyTable,
     LibraryExhausted, NotInLibraries, Error, symvars, libvars
<1>5. CASE LinkSymbols \/ RelocateSegments \/ Write
  BY <1>3, <1>5 DEF LinkSymbols, RelocateSegments, Write, symvars, libvars
<1>6. CASE UNCHANGED vars
  BY <1>3, <1>6 DEF vars, symvars, libvars
<1> QED
  BY <1>1, <1>2, <1>4, <1>5, <1>6 DEF Next, Terminating

(***************************************************************************)
(* A finished link has loaded each library member at most once and left    *)
(* none of the extracted files, whatever the libraries.                    *)
(***************************************************************************)
THEOREM EachMemberOnce == Spec => []MembersOnceAndCleanedUp
<1>1. Init => MembersCounted
  <2> SUFFICES ASSUME Init PROVE MembersCounted
    OBVIOUS
  <2>1. loaded = << >> /\ loaded_members = {} /\ argi = 0 /\ dir = Directory /\ pc = "read"
    BY DEF Init
  <2>2. IsFiniteSet({}) /\ Cardinality({}) = 0
    BY FS_EmptySet
  <2>3. Directory = [f \in File |-> Directory[f]]
    BY LinkerAssumption DEF LinkerAssumption
  <2> QED
    BY <2>1, <2>2, <2>3 DEF MembersCounted
<1>2. TypeOK /\ MembersCounted /\ [Next]_vars => MembersCounted'
  BY MembersStep
<1>3. MembersCounted => MembersOnceAndCleanedUp
  BY DEF MembersCounted, MembersOnceAndCleanedUp
<1> QED
  BY <1>1, <1>2, <1>3, LinkerTypeCorrect, PTL DEF Spec

---------------------------------------------------------------------------
(* Only missing symbols fail *)

\* Each entry of the library symbol table is one of a library given.
EntriesTrue ==
    \A n \in Name : libsymbolTable[n] # Missing =>
        /\ libsymbolTable[n].library \in LibrariesGiven
        /\ \E i \in DOMAIN Archive[libsymbolTable[n].library].symdef :
              Archive[libsymbolTable[n].library].symdef[i] =
                 [name |-> n, file |-> libsymbolTable[n].file]

\* The names of a library that was opened are in the table.
OpenedEntered ==
    \A l \in LibrariesGiven :
        \/ \E i \in DOMAIN liblist : liblist[i] = l
        \/ \A i \in DOMAIN Archive[l].symdef :
              libsymbolTable[Archive[l].symdef[i].name] # Missing

\* What a loaded member exports is bound.
MembersBound ==
    \A f \in loaded_members : \E l \in LibrariesGiven :
        /\ Archive[l].member[f] # Missing
        /\ \A n \in DOMAIN Contents[Archive[l].member[f]].defs : IsDefined(n)

Known(n) == symbolTable[n].status # "absent"
NamesKnown ==
    /\ \A n \in undefset : Known(n)
    /\ \A r \in relocs : r.base.kind = "symbol" => Known(r.base.symbol)

(***************************************************************************)
(* The last turn of the library loop ends only when the members for all    *)
(* names still missing are loaded.                                         *)
(***************************************************************************)
SearchedToTheEnd ==
    pc \in {"lib", "link"} /\ liblist = << >> /\ opt.libs # << >> =>
        \A n \in undefset : Skipped(n)

Followed ==
    /\ \A i \in DOMAIN liblist : liblist[i] \in LibrariesGiven
    /\ pc = "read" => liblist = opt.libs
    /\ EntriesTrue
    /\ OpenedEntered
    /\ MembersBound
    /\ NamesKnown
    /\ SearchedToTheEnd
    /\ pc = "link" => /\ liblist = << >>
                      /\ \A n \in Name : symbolTable[n].status = "undefined" => Kept(n)

Searching == {"read", "lib", "resolve", "link"}
LibrariesFollowed == CleanLibraries /\ pc \in Searching => Followed

\* readModule binds what its module exports and knows what it imports.
LEMMA ReadModuleKnows ==
    ASSUME TypeOK, NEW o \in Object, ReadModule(o)
    PROVE  /\ \A n \in Name : IsDefined(n) => IsDefined(n)'
           /\ \A n \in Name : Known(n) => Known(n)'
           /\ \A n \in DOMAIN Contents[o].defs : IsDefined(n)' /\ Known(n)'
           /\ \A n \in Contents[o].undefs : Known(n)'
<1>1. \A n \in Name : symbolTable'[n] = ReadSymbol(Contents[o], n)
  BY DEF ReadModule
<1>2. \A n \in Name :
        /\ IsDefined(n) => IsDefined(n)'
        /\ Known(n) => Known(n)'
        /\ n \in DOMAIN Contents[o].defs => IsDefined(n)' /\ Known(n)'
        /\ n \in Contents[o].undefs => Known(n)'
  <2> SUFFICES ASSUME NEW n \in Name
               PROVE  /\ IsDefined(n) => IsDefined(n)'
                      /\ Known(n) => Known(n)'
                      /\ n \in DOMAIN Contents[o].defs => IsDefined(n)' /\ Known(n)'
                      /\ n \in Contents[o].undefs => Known(n)'
    OBVIOUS
  <2>1. symbolTable'[n] = ReadSymbol(Contents[o], n)
    BY <1>1
  <2> QED
    BY <2>1 DEF ReadSymbol, IsDefined, Known, Defined, Undefined
<1>3. DOMAIN Contents[o].defs \subseteq Name /\ Contents[o].undefs \subseteq Name
  BY ContentsType
<1> QED
  BY <1>2, <1>3

\* So the names of its references and of undefset stay known.
LEMMA ReadModuleNames ==
    ASSUME TypeOK, NamesKnown, NEW o \in Object, ReadModule(o),
           undefset' \subseteq undefset \cup Contents[o].undefs
    PROVE  NamesKnown'
<1>1. \A n \in undefset' : Known(n)'
  BY ReadModuleKnows DEF NamesKnown, TypeOK
<1>2. ASSUME NEW r \in relocs', r.base.kind = "symbol" PROVE Known(r.base.symbol)'
  <2>1. CASE r \in relocs
    <3>1. r.base.symbol \in Name
      BY <1>2, <2>1 DEF TypeOK, RelocRecord, Base, SegBase, SymBase
    <3> QED
      BY <1>2, <2>1, <3>1, ReadModuleKnows DEF NamesKnown
  <2>2. CASE r \notin relocs
    <3>1. PICK x \in Contents[o].relocs : r = AddReloc(x)
      BY <2>2 DEF ReadModule
    <3>2. x \in RelocRecord
      BY ContentsType
    <3>3. r.base = x.base
      BY <3>1, <3>2 DEF AddReloc, RelocRecord
    <3>4. x.base.symbol \in DOMAIN Contents[o].defs \cup Contents[o].undefs
      BY <1>2, <3>3, LinkerAssumption DEF LinkerAssumption, IsObjectFile
    <3> QED
      BY <3>3, <3>4, ReadModuleKnows
  <2> QED
    BY <2>1, <2>2
<1> QED
  BY <1>1, <1>2 DEF NamesKnown

LEMMA GivenType ==
    ASSUME TypeOK
    PROVE  LibrariesGiven \subseteq Library
<1>1. opt.libs \in Seq(Library)
  BY InvocationType DEF TypeOK
<1>2. \A i \in DOMAIN opt.libs : opt.libs[i] \in Library
  BY <1>1, ElementOfSeq, LenProperties
<1> QED
  BY <1>2 DEF LibrariesGiven

\* An entry of the table leads to a member that exports the name.
LEMMA EntryLeadsToMember ==
    ASSUME TypeOK, CleanLibraries, EntriesTrue, NEW n \in Name, libsymbolTable[n] # Missing
    PROVE  LET e == libsymbolTable[n]
               o == Archive[e.library].member[e.file]
           IN  /\ e.library \in LibrariesGiven /\ e.file \in File
               /\ o \in Object /\ o # Missing /\ Contents[o].magic
               /\ n \in DOMAIN Contents[o].defs
<1> DEFINE e == libsymbolTable[n]
           l == e.library
           o == Archive[l].member[e.file]
<1>1. l \in LibrariesGiven /\ \E i \in DOMAIN Archive[l].symdef :
         Archive[l].symdef[i] = [name |-> n, file |-> e.file]
  BY DEF EntriesTrue
<1>2. PICK i \in DOMAIN Archive[l].symdef :
         Archive[l].symdef[i] = [name |-> n, file |-> e.file]
  BY <1>1
<1>3. e.file \in File /\ l \in Library
  BY <1>1, GivenType DEF TypeOK, LibEntry
<1>4. Faithful(l)
  BY <1>1 DEF CleanLibraries
<1> HIDE DEF l
<1>5. o # Missing /\ n \in DOMAIN Contents[o].defs
  BY <1>2, <1>4 DEF Faithful
<1>6. Contents[o].magic
  BY <1>3, <1>4, <1>5 DEF Faithful
<1>7. o \in Object
  BY <1>3, <1>5, LinkerAssumption DEF LinkerAssumption, IsArchive
<1> QED
  BY <1>1, <1>3, <1>5, <1>6, <1>7 DEF l

\* A member loaded from libraries whose members' names differ binds its names.
LEMMA SkippedIsBound ==
    ASSUME TypeOK, CleanLibraries, EntriesTrue, MembersBound, NEW n \in Name, Skipped(n)
    PROVE  IsDefined(n)
<1> DEFINE e == libsymbolTable[n]
<1>1. e # Missing /\ e.file \in loaded_members
  BY DEF Skipped
<1>2. /\ e.library \in LibrariesGiven /\ e.file \in File
      /\ Archive[e.library].member[e.file] # Missing
      /\ n \in DOMAIN Contents[Archive[e.library].member[e.file]].defs
  BY <1>1, EntryLeadsToMember
<1> HIDE DEF e
<1>3. PICK l \in LibrariesGiven :
         /\ Archive[l].member[e.file] # Missing
         /\ \A k \in DOMAIN Contents[Archive[l].member[e.file]].defs : IsDefined(k)
  BY <1>1 DEF MembersBound
<1>4. e.file \in MembersOf(l) \cap MembersOf(e.library)
  BY <1>2, <1>3 DEF MembersOf
<1>5. l = e.library
  BY <1>2, <1>4 DEF CleanLibraries
<1> QED
  BY <1>2, <1>3, <1>5

\* A name no opened library enters is exported by no member.
LEMMA NobodyExports ==
    ASSUME TypeOK, CleanLibraries, OpenedEntered, liblist = << >>,
           NEW n \in Name, libsymbolTable[n] = Missing
    PROVE  \A l \in LibrariesGiven : \A f \in MembersOf(l) :
              n \notin DOMAIN Contents[Archive[l].member[f]].defs
<1> SUFFICES ASSUME NEW l \in LibrariesGiven, NEW f \in MembersOf(l),
                    n \in DOMAIN Contents[Archive[l].member[f]].defs
             PROVE  FALSE
  OBVIOUS
<1>1. \A i \in DOMAIN Archive[l].symdef : libsymbolTable[Archive[l].symdef[i].name] # Missing
  BY DEF OpenedEntered
<1>2. Faithful(l) /\ f \in File /\ Archive[l].member[f] # Missing
  BY DEF CleanLibraries, MembersOf
<1>3. PICK i \in DOMAIN Archive[l].symdef : Archive[l].symdef[i] = [name |-> n, file |-> f]
  BY <1>2 DEF Faithful
<1> QED
  BY <1>1, <1>3

LEMMA FollowedStep ==
    TypeOK /\ NothingForgotten /\ LibrariesFollowed /\ [Next]_vars => LibrariesFollowed'
<1> SUFFICES ASSUME TypeOK, NothingForgotten, LibrariesFollowed, [Next]_vars,
                    CleanLibraries', pc' \in Searching
             PROVE  Followed'
  BY DEF LibrariesFollowed
<1>1. opt' = opt
  BY DEF Next, ReadFile, FilesRead, OpenLibrary, NoMoreLibraries, ExtractMember,
     NotInLibraries, LookupInEmptyTable, LibraryExhausted, LinkSymbols, RelocateSegments,
     Write, Terminating, vars
<1>2. CleanLibraries /\ LibrariesGiven' = LibrariesGiven /\ LibrariesGiven \subseteq Library
  BY <1>1, GivenType DEF CleanLibraries, LibrariesGiven
<1>3. CASE ReadFile
  <2>1. PICK o \in Object : /\ ReadModule(o) /\ pc' = pc
                            /\ undefset' = undefset \cup Contents[o].undefs
    BY <1>3, ReadFileReads DEF Searching
  <2>2. pc = "read" /\ UNCHANGED <<liblist, libsymbolTable, loaded_members>>
    BY <1>3, ReadFileReads
  <2>3. Followed
    BY <1>2, <2>2 DEF LibrariesFollowed, Searching
  <2>4. NamesKnown'
    BY <2>1, <2>3, ReadModuleNames DEF Followed
  <2>5. MembersBound'
    <3> SUFFICES ASSUME NEW f \in loaded_members
                 PROVE  \E l \in LibrariesGiven :
                           /\ Archive[l].member[f] # Missing
                           /\ \A n \in DOMAIN Contents[Archive[l].member[f]].defs : IsDefined(n)'
      BY <1>2, <2>2 DEF MembersBound
    <3>1. PICK l \in LibrariesGiven :
             /\ Archive[l].member[f] # Missing
             /\ \A n \in DOMAIN Contents[Archive[l].member[f]].defs : IsDefined(n)
      BY <2>3 DEF Followed, MembersBound
    <3>2. Archive[l].member[f] \in Object
      BY <1>2, <3>1, LinkerAssumption DEF LinkerAssumption, IsArchive, TypeOK
    <3>3. DOMAIN Contents[Archive[l].member[f]].defs \subseteq Name
      BY <3>2, ContentsType
    <3> QED
      BY <2>1, <3>1, <3>3, ReadModuleKnows
  <2>6. EntriesTrue' /\ OpenedEntered'
    BY <1>2, <2>2, <2>3 DEF Followed, EntriesTrue, OpenedEntered
  <2> QED
    BY <1>1, <1>2, <2>1, <2>2, <2>3, <2>4, <2>5, <2>6 DEF Followed, SearchedToTheEnd
<1>4. ASSUME NEW n \in Name, ExtractMember(n) PROVE Followed'
  <2> DEFINE e == libsymbolTable[n]
             o == Archive[e.library].member[e.file]
  <2>1. /\ pc = "resolve" /\ e \in LibEntry
        /\ UNCHANGED <<liblist, libsymbolTable>>
        /\ loaded_members' = loaded_members \cup {e.file}
    BY <1>4, ExtractReads
  <2>2. Followed
    BY <1>2, <2>1 DEF LibrariesFollowed, Searching
  <2>3. e # Missing
    BY <1>4 DEF ExtractMember
  <2>4. /\ e.library \in LibrariesGiven
        /\ o \in Object /\ o # Missing
    BY <1>2, <2>2, <2>3, EntryLeadsToMember DEF Followed
  <2>5. Extracted(e) = o
    BY <2>4 DEF Extracted
  <2>6. /\ ReadModule(o) /\ pc' = pc
        /\ undefset' = ((undefset \ {n}) \cup Contents[o].undefs) \ defset'
    BY <1>4, <2>5, ExtractReads DEF Searching
  <2> HIDE DEF e, o
  <2>7. NamesKnown'
    BY <2>2, <2>4, <2>6, ReadModuleNames DEF Followed
  <2>8. MembersBound'
    <3> SUFFICES ASSUME NEW f \in loaded_members'
                 PROVE  \E l \in LibrariesGiven :
                           /\ Archive[l].member[f] # Missing
                           /\ \A k \in DOMAIN Contents[Archive[l].member[f]].defs : IsDefined(k)'
      BY <1>2 DEF MembersBound
    <3>1. CASE f \in loaded_members
      <4>1. PICK l \in LibrariesGiven :
               /\ Archive[l].member[f] # Missing
               /\ \A k \in DOMAIN Contents[Archive[l].member[f]].defs : IsDefined(k)
        BY <2>2, <3>1 DEF Followed, MembersBound
      <4>2. Archive[l].member[f] \in Object
        BY <1>2, <3>1, <4>1, LinkerAssumption DEF LinkerAssumption, IsArchive, TypeOK
      <4>3. DOMAIN Contents[Archive[l].member[f]].defs \subseteq Name
        BY <4>2, ContentsType
      <4> QED
        BY <2>4, <2>6, <4>1, <4>3, ReadModuleKnows
    <3>2. CASE f = e.file
      BY <2>4, <2>6, <3>2, ReadModuleKnows DEF o
    <3> QED
      BY <2>1, <3>1, <3>2
  <2>9. EntriesTrue' /\ OpenedEntered'
    BY <1>2, <2>1, <2>2 DEF Followed, EntriesTrue, OpenedEntered
  <2> QED
    BY <1>1, <1>2, <2>1, <2>2, <2>6, <2>7, <2>8, <2>9 DEF Followed, SearchedToTheEnd
<1>5. CASE OpenLibrary
  <2> DEFINE l == Head(liblist)
  <2>1. /\ pc = "lib" /\ liblist # << >> /\ liblist' = Tail(liblist)
        /\ undefset' \subseteq undefset
        /\ UNCHANGED <<symvars, loaded_members>>
    BY <1>5 DEF OpenLibrary, OtherLibraries, StillUndefined
  <2>2. Followed
    BY <1>2, <2>1 DEF LibrariesFollowed, Searching
  <2>3. /\ liblist \in Seq(Library) /\ l = liblist[1] /\ 1 \in DOMAIN liblist
        /\ \A i \in DOMAIN liblist : i = 1 \/ i - 1 \in DOMAIN liblist'
        /\ \A i \in DOMAIN liblist' : i + 1 \in DOMAIN liblist /\ liblist'[i] = liblist[i + 1]
    BY <2>1, HeadTailProperties, LenProperties, EmptySeq DEF TypeOK
  <2>4. l \in LibrariesGiven /\ Archive[l].kind = "archive"
    <3>1. l \in LibrariesGiven
      BY <2>2, <2>3 DEF Followed
    <3>2. \A k \in LibrariesGiven : Archive[k].kind = "archive"
      BY <1>2 DEF CleanLibraries, Faithful
    <3> QED
      BY <3>1, <3>2
  <2>5. /\ pc' = "resolve"
        /\ \A n \in Name : libsymbolTable'[n] = IF libsymbolTable[n] # Missing
                                                THEN libsymbolTable[n] ELSE LibEntryOf(l, n)
    BY <1>5, <2>4 DEF OpenLibrary
  <2> HIDE DEF l
  <2>6. Archive[l].symdef \in Seq([name : Name, file : File])
    BY <1>2, <2>4, LinkerAssumption DEF LinkerAssumption, IsArchive
  <2> DEFINE d == Archive[l].symdef
             I(n) == {i \in DOMAIN d : d[i].name = n}
             first(n) == CHOOSE i \in I(n) : \A j \in I(n) : i <= j
  <2>7. ASSUME NEW n \in Name
        PROVE  LibEntryOf(l, n) = IF I(n) = {} THEN Missing
                                  ELSE [library |-> l, file |-> d[first(n)].file]
    BY <2>4 DEF LibEntryOf
  <2>8. ASSUME NEW n \in Name, I(n) # {}
        PROVE  /\ first(n) \in DOMAIN d
               /\ d[first(n)] = [name |-> n, file |-> d[first(n)].file]
               /\ [library |-> l, file |-> d[first(n)].file] # Missing
    <3>1. I(n) \subseteq Nat /\ DOMAIN d = 1 .. Len(d)
      BY <2>6, LenProperties
    <3>2. \E i \in I(n) : \A j \in I(n) : i <= j
      <4> HIDE DEF I
      <4> QED
        BY <2>8, <3>1, LeastNumber
    <3>3. first(n) \in I(n)
      BY <3>2
    <3>4. d[first(n)] \in [name : Name, file : File]
      <4> HIDE DEF first
      <4>1. first(n) \in 1 .. Len(d)
        BY <3>1, <3>3
      <4> HIDE DEF d
      <4> QED
        BY <2>6, <4>1, ElementOfSeq DEF d
    <3> HIDE DEF first, d
    <3>5. d[first(n)].name = n
      BY <3>3
    <3>6. [library |-> l, file |-> d[first(n)].file] \in [library : Library, file : File]
      BY <1>2, <2>4, <3>4
    <3> QED
      BY <3>3, <3>4, <3>5, <3>6, LinkerAssumption DEF LinkerAssumption
  <2> HIDE DEF first
  <2>9. EntriesTrue'
    <3> SUFFICES ASSUME NEW n \in Name, libsymbolTable'[n] # Missing
                 PROVE  /\ libsymbolTable'[n].library \in LibrariesGiven
                        /\ \E i \in DOMAIN Archive[libsymbolTable'[n].library].symdef :
                              Archive[libsymbolTable'[n].library].symdef[i] =
                                 [name |-> n, file |-> libsymbolTable'[n].file]
      BY <1>2 DEF EntriesTrue
    <3>1. CASE libsymbolTable[n] # Missing
      <4>1. libsymbolTable'[n] = libsymbolTable[n]
        BY <2>5, <3>1
      <4> QED
        BY <2>2, <3>1, <4>1 DEF Followed, EntriesTrue
    <3>2. CASE libsymbolTable[n] = Missing
      <4> HIDE DEF I
      <4>1. libsymbolTable'[n] = LibEntryOf(l, n)
        BY <2>5, <3>2
      <4>2. I(n) # {} /\ libsymbolTable'[n] = [library |-> l, file |-> d[first(n)].file]
        BY <2>7, <4>1
      <4> QED
        BY <2>4, <2>8, <4>2
    <3> QED
      BY <3>1, <3>2
  <2>10. OpenedEntered'
    <3> SUFFICES ASSUME NEW k \in LibrariesGiven, ~ \E i \in DOMAIN liblist' : liblist'[i] = k,
                        NEW j \in DOMAIN Archive[k].symdef
                 PROVE  libsymbolTable'[Archive[k].symdef[j].name] # Missing
      BY <1>2 DEF OpenedEntered
    <3> DEFINE n == Archive[k].symdef[j].name
    <3>1. n \in Name
      <4>1. Archive[k].symdef \in Seq([name : Name, file : File])
        BY <1>2, LinkerAssumption DEF LinkerAssumption, IsArchive
      <4>2. Archive[k].symdef[j] \in [name : Name, file : File]
        BY <4>1, ElementOfSeq, LenProperties
      <4> QED
        BY <4>2
    <3>2. CASE libsymbolTable[n] # Missing
      BY <2>5, <3>1, <3>2
    <3>3. CASE libsymbolTable[n] = Missing
      <4>1. PICK i \in DOMAIN liblist : liblist[i] = k
        BY <2>2, <3>3 DEF Followed, OpenedEntered
      <4>2. i = 1
        <5> SUFFICES ASSUME i # 1 PROVE FALSE
          OBVIOUS
        <5>1. i \in Nat /\ i - 1 \in DOMAIN liblist'
          BY <2>3, <4>1, LenProperties
        <5>2. liblist'[i - 1] = liblist[i - 1 + 1] /\ i - 1 + 1 = i
          BY <2>3, <5>1
        <5> QED
          BY <4>1, <5>1, <5>2
      <4>3. k = l
        BY <2>3, <4>1, <4>2
      <4>4. I(n) # {}
        BY <4>3
      <4> HIDE DEF I
      <4>5. libsymbolTable'[n] = [library |-> l, file |-> d[first(n)].file]
        BY <2>5, <2>7, <3>1, <3>3, <4>4
      <4> QED
        BY <2>8, <3>1, <4>4, <4>5
    <3> QED
      BY <3>2, <3>3
  <2>11. MembersBound' /\ NamesKnown'
    BY <1>2, <2>1, <2>2 DEF Followed, MembersBound, NamesKnown, Known, IsDefined, symvars
  <2>12. \A i \in DOMAIN liblist' : liblist'[i] \in LibrariesGiven
    BY <2>2, <2>3 DEF Followed
  <2> QED
    BY <1>2, <2>5, <2>9, <2>10, <2>11, <2>12 DEF Followed, SearchedToTheEnd
<1>6. CASE FilesRead \/ NoMoreLibraries \/ LibraryExhausted
             \/ (\E n \in Name : NotInLibraries(n)) \/ UNCHANGED vars
  <2>1. UNCHANGED <<symvars, libvars>> /\ pc \in Searching
    BY <1>6 DEF FilesRead, NoMoreLibraries, LibraryExhausted, NotInLibraries, Error,
       vars, Searching
  <2>2. Followed
    BY <1>2, <2>1 DEF LibrariesFollowed
  <2>3. /\ (\A i \in DOMAIN liblist : liblist[i] \in LibrariesGiven)'
        /\ EntriesTrue' /\ OpenedEntered' /\ MembersBound' /\ NamesKnown'
    BY <1>2, <2>1, <2>2 DEF Followed, EntriesTrue, OpenedEntered, MembersBound, NamesKnown,
       Known, IsDefined, symvars, libvars
  <2>4. \A n : Skipped(n)' = Skipped(n) /\ Kept(n)' = Kept(n)
    BY <2>1 DEF Skipped, Kept, libvars
  <2>5. SearchedToTheEnd' /\ (pc' = "read" => liblist' = opt'.libs)
    <3>1. CASE FilesRead
      BY <1>1, <2>1, <2>2, <3>1 DEF FilesRead, Followed, SearchedToTheEnd, libvars
    <3>2. CASE NoMoreLibraries
      BY <1>1, <2>1, <2>2, <2>4, <3>2 DEF NoMoreLibraries, Followed, SearchedToTheEnd, libvars
    <3>3. CASE LibraryExhausted
      BY <1>1, <2>1, <2>4, <3>3 DEF LibraryExhausted, SearchedToTheEnd, libvars
    <3>4. ASSUME NEW n \in Name, NotInLibraries(n)
          PROVE  SearchedToTheEnd' /\ (pc' = "read" => liblist' = opt'.libs)
      BY <3>4 DEF NotInLibraries, Error, SearchedToTheEnd, Searching, libvars
    <3>5. CASE UNCHANGED vars
      BY <2>1, <2>2, <2>4, <3>5 DEF Followed, SearchedToTheEnd, libvars, vars
    <3> QED
      BY <1>6, <3>1, <3>2, <3>3, <3>4, <3>5
  <2>6. ASSUME pc' = "link"
        PROVE  /\ liblist' = << >>
               /\ \A n \in Name : symbolTable'[n].status = "undefined" => Kept(n)'
    <3>1. CASE NoMoreLibraries
      BY <2>1, <2>4, <3>1 DEF NoMoreLibraries, NothingForgotten, symvars, libvars
    <3>2. CASE UNCHANGED vars
      BY <2>1, <2>2, <2>4, <2>6, <3>2 DEF Followed, symvars, libvars, vars
    <3>3. CASE ~NoMoreLibraries /\ ~UNCHANGED vars
      BY <1>6, <2>6, <3>3 DEF FilesRead, LibraryExhausted, NotInLibraries, Error
    <3> QED
      BY <3>1, <3>2, <3>3
  <2> QED
    BY <2>3, <2>5, <2>6 DEF Followed
<1>7. CASE LookupInEmptyTable \/ LinkSymbols \/ RelocateSegments \/ Write
  BY <1>7 DEF LookupInEmptyTable, LinkSymbols, RelocateSegments, Write, Error, Searching
<1> QED
  BY <1>3, <1>4, <1>5, <1>6, <1>7 DEF Next, Terminating

\* When ld gives up, a name nobody exports, or a misaligned branch, is why.
LEMMA OnlyMissingStep ==
    TypeOK /\ BasesBound /\ NothingForgotten /\ LibrariesFollowed
      /\ OnlyMissingSymbolsFail /\ [Next]_vars => OnlyMissingSymbolsFail'
<1> SUFFICES ASSUME TypeOK, BasesBound, NothingForgotten, LibrariesFollowed,
                    OnlyMissingSymbolsFail, [Next]_vars,
                    pc' = "error", CleanLibraries', argi' = Len(opt'.files)
             PROVE  OnlyMissingSymbolsFail'
  BY DEF OnlyMissingSymbolsFail
<1> DEFINE NoMember(n) == \A l \in LibrariesGiven : \A f \in MembersOf(l) :
              n \notin DOMAIN Contents[Archive[l].member[f]].defs
<1>1. opt' = opt
  BY DEF Next, ReadFile, FilesRead, OpenLibrary, NoMoreLibraries, ExtractMember,
     NotInLibraries, LookupInEmptyTable, LibraryExhausted, LinkSymbols, RelocateSegments,
     Write, Terminating, vars
<1>2. CleanLibraries /\ LibrariesGiven' = LibrariesGiven
  BY <1>1 DEF CleanLibraries, LibrariesGiven
<1>3. ASSUME NEW n \in Name, symbolTable'[n].status = "undefined", NoMember(n)
      PROVE  OnlyMissingSymbolsFail'
  BY <1>2, <1>3 DEF OnlyMissingSymbolsFail
<1>4. CASE ReadFile
  <2>1. argi \in Nat /\ argi < Len(opt.files) /\ (argi' = argi \/ pc' = pc) /\ pc = "read"
    BY <1>4, ReadFileReads
  <2>2. opt.files \in Seq(File)
    BY InvocationType DEF TypeOK
  <2> QED
    BY <1>1, <2>1, <2>2
<1>5. ASSUME NEW n \in Name, ExtractMember(n) PROVE FALSE
  <2> DEFINE e == libsymbolTable[n]
             o == Archive[e.library].member[e.file]
  <2>1. pc = "resolve" /\ e # Missing
    BY <1>5 DEF ExtractMember
  <2>2. Followed
    BY <1>2, <2>1 DEF LibrariesFollowed, Searching
  <2>3. o \in Object /\ o # Missing /\ Contents[o].magic
    BY <1>2, <2>1, <2>2, EntryLeadsToMember DEF Followed
  <2>4. Extracted(e) = o
    BY <2>3 DEF Extracted
  <2> HIDE DEF o
  <2>5. o # Missing
    BY <2>3
  <2> QED
    BY <1>5, <2>1, <2>3, <2>4, ExtractReads
<1>6. ASSUME NEW n \in Name, NotInLibraries(n) PROVE OnlyMissingSymbolsFail'
  <2>1. /\ pc = "resolve" /\ liblist = << >> /\ n \in undefset /\ libsymbolTable[n] = Missing
        /\ symbolTable' = symbolTable
    BY <1>6 DEF NotInLibraries, Error, symvars
  <2>2. Followed
    BY <1>2, <2>1 DEF LibrariesFollowed, Searching
  <2>3. symbolTable[n].status = "undefined"
    <3>1. Known(n) /\ ~IsDefined(n)
      BY <2>1, <2>2 DEF Followed, NamesKnown, NothingForgotten
    <3> QED
      BY <3>1 DEF Known, IsDefined, TypeOK, SymbolEntry
  <2>4. NoMember(n)
    BY <1>2, <2>1, <2>2, NobodyExports DEF Followed
  <2> QED
    BY <1>3, <2>1, <2>3, <2>4
<1>7. CASE LinkSymbols
  <2>1. /\ pc = "link" /\ symbolTable' = symbolTable
        /\ \E r \in relocs : r.base.kind = "symbol" /\ ~IsDefined(r.base.symbol)
    BY <1>7 DEF LinkSymbols
  <2>2. Followed
    BY <1>2, <2>1 DEF LibrariesFollowed, Searching
  <2>3. PICK r \in relocs : r.base.kind = "symbol" /\ ~IsDefined(r.base.symbol)
    BY <2>1
  <2> DEFINE n == r.base.symbol
  <2>4. n \in Name
    BY <2>3 DEF TypeOK, RelocRecord, Base, SegBase, SymBase
  <2>5. symbolTable[n].status = "undefined"
    <3>1. Known(n)
      BY <2>2, <2>3 DEF Followed, NamesKnown
    <3> QED
      BY <2>3, <2>4, <3>1 DEF Known, IsDefined, TypeOK, SymbolEntry
  <2>6. liblist = << >> /\ Kept(n)
    BY <2>1, <2>2, <2>4, <2>5 DEF Followed
  <2>7. CASE opt.libs = << >>
    <3>1. LibrariesGiven = {}
      BY <2>7 DEF LibrariesGiven
    <3> QED
      BY <1>3, <2>1, <2>4, <2>5, <3>1
  <2>8. CASE opt.libs # << >>
    <3>1. Skipped(n)
      BY <2>1, <2>2, <2>6, <2>8 DEF Followed, SearchedToTheEnd, Kept
    <3>2. IsDefined(n)
      BY <1>2, <2>2, <2>4, <3>1, SkippedIsBound DEF Followed
    <3> QED
      BY <2>3, <3>2
  <2> QED
    BY <2>7, <2>8
<1>8. CASE RelocateSegments
  <2>1. pc = "relocate" /\ relocs' = relocs /\ \E r \in relocs : Misaligned(r)
    BY <1>8 DEF RelocateSegments
  <2>2. \A r \in relocs : r.base.kind = "segment"
    <3>1. \A s : SegBase(s).kind = "segment"
      BY DEF SegBase
    <3> QED
      BY <2>1, <3>1 DEF BasesBound
  <2> QED
    BY <2>1, <2>2 DEF OnlyMissingSymbolsFail, Misaligned
<1>9. CASE UNCHANGED vars
  BY <1>9 DEF OnlyMissingSymbolsFail, CleanLibraries, LibrariesGiven, vars, symvars
<1>10. CASE FilesRead \/ OpenLibrary \/ NoMoreLibraries \/ LookupInEmptyTable
              \/ LibraryExhausted \/ Write
  BY <1>10 DEF FilesRead, OpenLibrary, NoMoreLibraries, LookupInEmptyTable,
     LibraryExhausted, Write
<1> QED
  BY <1>4, <1>5, <1>6, <1>7, <1>8, <1>9, <1>10 DEF Next, Terminating

(***************************************************************************)
(* With up-to-date libraries whose member names differ, whatever their     *)
(* order and that of the hash set, ld gives up only on a symbol nobody     *)
(* exports, or on a misaligned branch.                                     *)
(***************************************************************************)
THEOREM GivesUpOnlyOnMissing == Spec => []OnlyMissingSymbolsFail
<1>1. Init => NothingForgotten /\ LibrariesFollowed /\ OnlyMissingSymbolsFail
  <2> SUFFICES ASSUME Init
               PROVE  NothingForgotten /\ LibrariesFollowed /\ OnlyMissingSymbolsFail
    OBVIOUS
  <2>1. NothingForgotten
    BY DEF Init, NothingForgotten, IsDefined, NoSymbol
  <2>2. /\ pc = "read" /\ liblist = opt.libs /\ loaded_members = {} /\ undefset = {}
        /\ relocs = {} /\ \A n \in Name : libsymbolTable[n] = Missing
    BY DEF Init
  <2>3. Followed
    BY <2>2 DEF Followed, EntriesTrue, OpenedEntered, MembersBound, NamesKnown,
       SearchedToTheEnd, LibrariesGiven
  <2> QED
    BY <2>1, <2>2, <2>3 DEF LibrariesFollowed, OnlyMissingSymbolsFail
<1>2. TypeOK /\ NothingForgotten /\ [Next]_vars => NothingForgotten'
  BY NothingForgottenStep
<1>3. TypeOK /\ NothingForgotten /\ LibrariesFollowed /\ [Next]_vars => LibrariesFollowed'
  BY FollowedStep
<1>4. TypeOK /\ BasesBound /\ NothingForgotten /\ LibrariesFollowed
        /\ OnlyMissingSymbolsFail /\ [Next]_vars => OnlyMissingSymbolsFail'
  BY OnlyMissingStep
<1> QED
  BY <1>1, <1>2, <1>3, <1>4, Inductive, PTL DEF Spec
===========================================================================
