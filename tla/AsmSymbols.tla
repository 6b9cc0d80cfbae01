---------------------------- MODULE AsmSymbols ----------------------------
(***************************************************************************)
(* Symbols and fixups in the assembler binutils/as/as.c.  One object file  *)
(* is made of several source files; each has a table of local symbols that *)
(* linkLocals empties at its end, and all share the global table.  A       *)
(* reference hangs as a fixup on the symbol it names until linkLocals or   *)
(* transferFixups turns it into a relocation record.                       *)
(*                                                                         *)
(* A source file is whatever sequence of labels, references, directives    *)
(* and padding Next chooses.  used, labels and declared are history        *)
(* variables: they record the source text, and nothing reads them but the  *)
(* properties.                                                             *)
(***************************************************************************)
EXTENDS ObjectFormat, Sequences, FiniteSets, Filtered

CONSTANTS
    NameOrder,      \* the names in the order of strcmp, as walkTree visits them
    Files,          \* number of source files on the command line
    Addend,         \* constants added to a symbol in an expression
    Padding,        \* arguments of .space
    MaxStatements,  \* bound on the statements of all files together
    NoObject        \* nothing written yet

Emitting == {"CODE", "DATA", "BSS"}     \* what currSeg can be
Methods == {"W32", "J20"}               \* one data and one instruction method

ASSUME AsmAssumption ==
    /\ NameOrder \in Seq(Name)
    /\ \A n \in Name : \E i \in DOMAIN NameOrder : NameOrder[i] = n
    /\ \A i, j \in DOMAIN NameOrder : NameOrder[i] = NameOrder[j] => i = j
    /\ Files \in Nat \ {0}
    /\ Addend \subseteq Int /\ Padding \subseteq Nat /\ MaxStatements \in Nat

VARIABLES
    pc,             \* "text", "write", "done" or "error"
    file,           \* number of the source file being read
    statements,     \* statements read so far
    currSeg, segPtr,
    localTable, globalTable,
    fixupList,
    object,         \* what was written
    used, labels, declared

tables == <<localTable, globalTable, fixupList>>
history == <<used, labels, declared>>
vars == <<pc, file, statements, currSeg, segPtr, tables, object, history>>

\* Fixup: base is 0 until the record goes into the fixup list.
Fixup == [segment : Emitting, offset : Nat, method : Methods, value : Int]

\* A symbol that was never looked up is like one of STATUS_UNKNOWN without fixups.
Unknown == [status |-> "unknown", segment |-> "ABS", value |-> 0, fixups |-> {}]
Symbol(states) == [status : states, segment : Segment, value : Nat,
                   fixups : SUBSET Fixup]

Init ==
    /\ pc = "text" /\ file = 1 /\ statements = 0
    /\ currSeg = "CODE"
    /\ segPtr = [s \in Segment |-> 0]
    /\ localTable = [n \in Name |-> Unknown]
    /\ globalTable = [n \in Name |-> Unknown]
    /\ fixupList = {}
    /\ object = NoObject
    /\ used = {} /\ labels = {} /\ declared = {}

\* One more statement of the source text, within the bound.
Statement == pc = "text" /\ statements < MaxStatements /\ statements' = statements + 1

Error == pc' = "error"
IsGlobRef(n) == localTable[n].status = "globref"

\* deref: the global symbol a local one stands for, or the local one.
Deref(n) == IF IsGlobRef(n) THEN globalTable[n] ELSE localTable[n]

\* Mutant: the definition always goes to the local symbol.
StoreLocal(n, s) ==
    localTable' = [localTable EXCEPT ![n] = s] /\ UNCHANGED globalTable

\* Putting s where deref found it.
Store(n, s) ==
    IF IsGlobRef(n)
    THEN globalTable' = [globalTable EXCEPT ![n] = s] /\ UNCHANGED localTable
    ELSE localTable' = [localTable EXCEPT ![n] = s] /\ UNCHANGED globalTable

SetSegment(s) ==
    /\ Statement /\ s # currSeg
    /\ currSeg' = s
    /\ UNCHANGED <<pc, file, segPtr, tables, object, history>>

\* asmModule, "name:"
Label(n) ==
    /\ Statement
    /\ IF Deref(n).status # "unknown"
       THEN Error /\ UNCHANGED <<tables, history>>
       ELSE /\ Store(n, [Deref(n) EXCEPT !.status = "defined", !.segment = currSeg,
                                         !.value = segPtr[currSeg]])
            /\ labels' = labels \cup {[file |-> file, name |-> n, segment |-> currSeg,
                                       value |-> segPtr[currSeg]]}
            /\ UNCHANGED <<pc, fixupList, used, declared>>
    /\ UNCHANGED <<file, currSeg, segPtr, object>>

\* parsePrimaryExpression, addFixup and emitWord: a word that refers to n.
Reference(n, method, v) ==
    LET f == [segment |-> currSeg, offset |-> segPtr[currSeg], method |-> method,
              value |-> v]
    IN  /\ Statement
        /\ Store(n, [Deref(n) EXCEPT !.fixups = @ \cup {f}])
        /\ segPtr' = [segPtr EXCEPT ![currSeg] = @ + 4]
        /\ used' = used \cup {[file |-> file, name |-> n, fixup |-> f]}
        /\ UNCHANGED <<pc, file, currSeg, fixupList, object, labels, declared>>

\* dotSpace, and any other statement that only emits bytes.
Space(k) ==
    /\ Statement
    /\ segPtr' = [segPtr EXCEPT ![currSeg] = @ + k]
    /\ UNCHANGED <<pc, file, currSeg, tables, object, history>>

\* Mutant: the fixups of the local symbol are dropped.
MakeGlobalDropping(n, g) ==
    /\ globalTable' = [globalTable EXCEPT ![n] = g]
    /\ localTable' = [localTable EXCEPT ![n].status = "globref", ![n].fixups = {}]
    /\ declared' = declared \cup {<<file, n>>}

\* The fixups of n move from its local to its global symbol.
MakeGlobal(n, g) ==
    /\ globalTable' = [globalTable EXCEPT ![n] =
                          [g EXCEPT !.fixups = @ \cup localTable[n].fixups]]
    /\ localTable' = [localTable EXCEPT ![n].status = "globref", ![n].fixups = {}]
    /\ declared' = declared \cup {<<file, n>>}

\* dotExport (.globl)
Export(n) ==
    /\ Statement
    /\ IF globalTable[n].status # "unknown" \/ IsGlobRef(n)
       THEN Error /\ UNCHANGED <<tables, declared>>
       ELSE /\ MakeGlobal(n, [globalTable[n] EXCEPT
                                 !.status  = localTable[n].status,
                                 !.segment = localTable[n].segment,
                                 !.value   = localTable[n].value])
            /\ UNCHANGED <<pc, fixupList>>
    /\ UNCHANGED <<file, currSeg, segPtr, object, used, labels>>

\* dotImport (.import, .extern)
Import(n) ==
    /\ Statement
    /\ IF localTable[n].status # "unknown"
       THEN Error /\ UNCHANGED <<tables, declared>>
       ELSE MakeGlobal(n, globalTable[n]) /\ UNCHANGED <<pc, fixupList>>
    /\ UNCHANGED <<file, currSeg, segPtr, object, used, labels>>

\* dotSet (.set n, m): segment and value are copied, the status is not.
Set(n, m) ==
    /\ Statement
    /\ IF globalTable[n].status = "defined" \/ globalTable[m].status # "defined"
       THEN Error /\ UNCHANGED globalTable
       ELSE /\ globalTable' = [globalTable EXCEPT ![n].segment = globalTable[m].segment,
                                                  ![n].value = globalTable[m].value]
            /\ UNCHANGED pc
    /\ UNCHANGED <<file, currSeg, segPtr, localTable, fixupList, object, history>>

Relocation(f, base, v) ==
    [segment |-> f.segment, offset |-> f.offset, method |-> f.method,
     value |-> v, base |-> base]

\* Mutant: the segments are left unaligned.
RoundedNot(a) == a

\* roundupSegments
Rounded(a) == ((a + 3) \div 4) * 4

(***************************************************************************)
(* The end of a source file: roundupSegments, then linkLocals.  A local    *)
(* symbol that is still unknown becomes a reference to the global of its   *)
(* name; a defined one gives its fixups a segment and its value.           *)
(***************************************************************************)
LinkedGlobal(n) ==
    IF localTable[n].status = "unknown"
    THEN [globalTable[n] EXCEPT !.fixups = @ \cup localTable[n].fixups]
    ELSE globalTable[n]

\* Mutant: the value of the symbol is not added.
LinkedLocalNoValue(n) ==
    IF localTable[n].status # "defined" THEN {}
    ELSE {Relocation(f, SegBase(localTable[n].segment), f.value) :
            f \in localTable[n].fixups}

LinkedLocal(n) ==
    IF localTable[n].status # "defined" THEN {}
    ELSE {Relocation(f, SegBase(localTable[n].segment), f.value + localTable[n].value) :
            f \in localTable[n].fixups}

LocalFixupsOnGlobal == \E n \in Name : IsGlobRef(n) /\ localTable[n].fixups # {}

EndOfFile ==
    /\ pc = "text"
    /\ segPtr' = [s \in Segment |-> Rounded(segPtr[s])]
    /\ IF LocalFixupsOnGlobal
       THEN Error /\ UNCHANGED <<file, currSeg, tables>>
       ELSE /\ globalTable' = [n \in Name |-> LinkedGlobal(n)]
            /\ fixupList' = fixupList \cup UNION {LinkedLocal(n) : n \in Name}
            /\ localTable' = [n \in Name |-> Unknown]
            /\ currSeg' = "CODE"
            /\ IF file < Files THEN file' = file + 1 /\ UNCHANGED pc
                               ELSE pc' = "write" /\ UNCHANGED file
    /\ UNCHANGED <<statements, object, history>>

\* transferFixupsForSymbol: not defined here and not used here.
Skip(n) == globalTable[n].status = "unknown" /\ globalTable[n].fixups = {}

\* The number a symbol gets in transferFixups, counting from 0.
SymbolNumber(n) ==
    LET at == CHOOSE i \in DOMAIN NameOrder : NameOrder[i] = n
    IN  Cardinality({i \in 1 .. (at - 1) : ~Skip(NameOrder[i])})

\* writeSymbols: the names of the symbol table, in order.
SymbolTable == Only(NameOrder, {n \in Name : ~Skip(n)})

Transferred ==
    UNION {{Relocation(f, [kind |-> "index", index |-> SymbolNumber(n)], f.value) :
              f \in globalTable[n].fixups} : n \in Name}

\* transferFixups, writeCodeRelocs, writeDataRelocs, writeSymbols.
WriteObject ==
    /\ pc = "write"
    /\ LET relocs == fixupList \cup Transferred IN
       /\ fixupList' = relocs
       /\ globalTable' = [n \in Name |-> [globalTable[n] EXCEPT !.fixups = {}]]
       /\ IF \E r \in relocs : r.segment \notin Stored
          THEN Error /\ UNCHANGED object
          ELSE /\ pc' = "done"
               /\ object' = [size |-> segPtr, symbols |-> SymbolTable,
                             status |-> [n \in Name |-> globalTable[n].status],
                             place |-> [n \in Name |-> [segment |-> globalTable[n].segment,
                                                        value |-> globalTable[n].value]],
                             relocs |-> relocs]
    /\ UNCHANGED <<file, statements, currSeg, segPtr, localTable, history>>

Terminating == pc \in {"done", "error"} /\ UNCHANGED vars

Next ==
    \/ \E s \in Emitting : SetSegment(s)
    \/ \E n \in Name : Label(n) \/ Export(n) \/ Import(n)
    \/ \E n \in Name, method \in Methods, v \in Addend : Reference(n, method, v)
    \/ \E n, m \in Name : n # m /\ Set(n, m)
    \/ \E k \in Padding : Space(k)
    \/ EndOfFile \/ WriteObject
    \/ Terminating

Spec == Init /\ [][Next]_vars

---------------------------------------------------------------------------
(***************************************************************************)
(* addFixup, dotExport, dotImport, linkLocals, transferFixups: whatever    *)
(* the order of uses, labels, exports and imports, every reference in the  *)
(* text is held in exactly one place, by a local symbol, by a global       *)
(* symbol or by the fixup list; none is lost and none doubled.             *)
(***************************************************************************)
UsesHeldOnce ==
    \A u \in used :
        Cardinality({n \in Name : u.fixup \in localTable[n].fixups})
        + Cardinality({n \in Name : u.fixup \in globalTable[n].fixups})
        + Cardinality({r \in fixupList : r.segment = u.fixup.segment
                                         /\ r.offset = u.fixup.offset}) = 1

\* In file f the name n is exported, imported or not defined: it means the global.
MeansGlobal(f, n) ==
    <<f, n>> \in declared \/ ~\E l \in labels : l.file = f /\ l.name = n

(***************************************************************************)
(* linkSymbol and transferFixupsForSymbol: in the object file every        *)
(* reference is one relocation record at its place, relative to the        *)
(* segment of the label of its own file, if the name is local there, and   *)
(* otherwise to the entry of its own name in the symbol table as written.  *)
(***************************************************************************)
ReferencesMean ==
    pc = "done" =>
        /\ Cardinality(object.relocs) = Cardinality(used)
        /\ \A u \in used : \E r \in object.relocs :
              /\ r.segment = u.fixup.segment /\ r.offset = u.fixup.offset
              /\ r.method = u.fixup.method
              /\ IF MeansGlobal(u.file, u.name)
                 THEN /\ r.base.kind = "index"
                      /\ object.symbols[r.base.index + 1] = u.name
                      /\ r.value = u.fixup.value
                 ELSE \E l \in labels :
                        /\ l.file = u.file /\ l.name = u.name
                        /\ r.base = SegBase(l.segment)
                        /\ r.value = u.fixup.value + l.value

Written(n) == \E i \in DOMAIN object.symbols : object.symbols[i] = n
DefinedGlobally(n) == {l \in labels : l.name = n /\ <<l.file, n>> \in declared}

(***************************************************************************)
(* The symbol table written exports a name exactly when one file labels it *)
(* and exports or imports it, at the place of that label, and imports it   *)
(* exactly when it is only used; labels local to their file stay inside.   *)
(***************************************************************************)
DefinitionsMean ==
    pc = "done" => \A n \in Name :
        /\ Written(n) /\ object.status[n] = "defined" <=> DefinedGlobally(n) # {}
        /\ \A l \in DefinedGlobally(n) :
              object.place[n] = [segment |-> l.segment, value |-> l.value]
        /\ Written(n) /\ object.status[n] = "unknown" <=>
              /\ DefinedGlobally(n) = {}
              /\ \E u \in used : u.name = n /\ MeansGlobal(u.file, n)

\* The object file as the linker reads it.
AsObjectFile ==
    [magic |-> TRUE, size |-> object.size,
     undefs |-> {n \in Name : Written(n) /\ object.status[n] = "unknown"},
     defs |-> [n \in {x \in Name : Written(x) /\ object.status[x] = "defined"} |->
                  object.place[n]],
     relocs |-> {[r EXCEPT !.base = IF r.base.kind = "index"
                                    THEN SymBase(object.symbols[r.base.index + 1])
                                    ELSE r.base] : r \in object.relocs}]

(***************************************************************************)
(* What as writes is what ld expects (module Linker's assumption), with    *)
(* every place to be patched inside its section and section sizes that are *)
(* multiples of 4, as include/README section 1 says.                       *)
(***************************************************************************)
LinkableOutput ==
    pc = "done" =>
        /\ IsObjectFile(AsObjectFile)
        /\ \A s \in Segment : object.size[s] % 4 = 0
        /\ \A r \in object.relocs : r.offset + 4 <= object.size[r.segment]
===========================================================================
