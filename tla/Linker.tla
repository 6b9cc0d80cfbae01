------------------------------ MODULE Linker ------------------------------
(***************************************************************************)
(* The linking loader binutils/ld/ld.c: reading object modules, pulling    *)
(* members out of libraries until no symbol is missing, binding symbols,   *)
(* relocating and writing the executable.                                  *)
(*                                                                         *)
(* An object module is a member of Object; Contents gives what its file    *)
(* says (ObjectFormat).  The program is sequential; what is left open is   *)
(* the input and the iteration order of the hash set undefset.             *)
(***************************************************************************)
EXTENDS ObjectFormat, Sequences, FiniteSets

CONSTANTS
    Object,         \* object modules
    Contents,       \* Contents[o]: the object file of o
    File,           \* file names: command-line arguments and archive members
    Library,        \* names given with -l
    Archive,        \* Archive[l]: what the linker finds when it opens l
    Directory,      \* Directory[f]: the object in file f before the link
    Invocation,     \* the command lines considered
    Missing,        \* no file, or no entry in a table
    Unset           \* a segment start that -rc, -rd or -rb did not give

PAGE_SIZE == 4096
EXEC_HEADER == 32       \* sizeof(ExecHeader)
ELF_HEADER == 84        \* sizeof(EHdr) + sizeof(PHdr)

(***************************************************************************)
(* A library is missing, or a file that is not an archive, or an archive   *)
(* with a symbol directory (its entries in file order) and its members.    *)
(***************************************************************************)
IsArchive(a) ==
    /\ a.kind \in {"missing", "other", "archive"}
    /\ a.symdef \in Seq([name : Name, file : File])
    /\ a.member \in [File -> Object \cup {Missing}]

IsInvocation(v) ==
    /\ v.files \in Seq(File)
    /\ v.files # << >>
    /\ v.libs \in Seq(Library)
    /\ v.start \in [Segment -> Nat \cup {Unset}]
    /\ v.start["ABS"] = 0
    /\ v.pageAlign \in BOOLEAN
    /\ v.header \in {"none", "aout", "elf"}

ASSUME LinkerAssumption ==
    /\ Missing \notin Object
    /\ Missing \notin [library : Library, file : File]
    /\ Unset \notin Nat
    /\ \A o \in Object : IsObjectFile(Contents[o])
    /\ \A l \in Library : IsArchive(Archive[l])
    /\ Directory \in [File -> Object \cup {Missing}]
    /\ \A v \in Invocation : IsInvocation(v)

VARIABLES
    opt,            \* the command line
    pc,             \* where main is
    argi,           \* command-line files read so far
    liblist,        \* libraries not opened yet
    loaded,         \* the modules in codeFile/dataFile, in order, with the
                    \* segPtr each was read at
    segPtr,         \* accumulated segment sizes
    symbolTable,
    libsymbolTable, \* symbol -> library and member that defines it
    relocs,         \* the reloc list, as a set
    defset, undefset, loaded_members,
    dir,            \* the files in the output directory
    segStart,
    patched,        \* what fixupRef wrote, per location
    temps,          \* the temporary files exist
    out             \* the layout of the output file

symvars == <<loaded, segPtr, symbolTable, relocs, defset>>
libvars == <<liblist, libsymbolTable, undefset, loaded_members>>
vars == <<opt, pc, argi, symvars, libvars, dir, segStart, patched, temps, out>>

NoSymbol == [status |-> "absent", segment |-> "ABS", value |-> 0]
Undefined == [status |-> "undefined", segment |-> "ABS", value |-> 0]
Defined(s, v) == [status |-> "defined", segment |-> s, value |-> v]
SymbolEntry ==
    [status : {"absent", "undefined", "defined"}, segment : Segment, value : Nat]

LibEntry == [library : Library, file : File]
Layout == [header : {"none", "aout", "elf"}, csize : Nat, dsize : Nat,
           codeAt : Nat, dataAt : Nat]

Init ==
    /\ opt \in Invocation
    /\ pc = "read"
    /\ argi = 0
    /\ liblist = opt.libs
    /\ loaded = << >>
    /\ segPtr = [s \in Segment |-> 0]
    /\ symbolTable = [n \in Name |-> NoSymbol]
    /\ libsymbolTable = [n \in Name |-> Missing]
    /\ relocs = {}
    /\ defset = {} /\ undefset = {} /\ loaded_members = {}
    /\ dir = Directory
    /\ segStart = [s \in Segment |-> 0]
    /\ patched = {}
    /\ temps = TRUE
    /\ out = Missing

IsDefined(n) == symbolTable[n].status = "defined"

(***************************************************************************)
(* error(): close, remove the temporary files, exit.  main's own outName   *)
(* hides the global one, so the output file stays as it is.                *)
(***************************************************************************)
Error ==
    /\ pc' = "error"
    /\ temps' = FALSE

\* Mutant: a later definition replaces an earlier one.
ReadSymbolLastWins(m, n) ==
    IF n \in DOMAIN m.defs
    THEN Defined(m.defs[n].segment,
                 m.defs[n].value + segPtr[m.defs[n].segment])
    ELSE IF n \in m.undefs /\ symbolTable[n].status = "absent"
    THEN Undefined
    ELSE symbolTable[n]

(***************************************************************************)
(* readSymbols for one name: the first definition wins, a later one only   *)
(* prints a message; an import enters the symbol as undefined.             *)
(***************************************************************************)
ReadSymbol(m, n) ==
    IF n \in DOMAIN m.defs /\ ~IsDefined(n)
    THEN Defined(m.defs[n].segment,
                 m.defs[n].value + segPtr[m.defs[n].segment])
    ELSE IF n \in m.undefs /\ symbolTable[n].status = "absent"
    THEN Undefined
    ELSE symbolTable[n]

\* The record as the linker keeps it: offset and segment base made absolute.
AddReloc(r) ==
    [r EXCEPT !.offset = @ + segPtr[r.segment],
              !.value  = @ + IF r.base.kind = "segment"
                             THEN segPtr[r.base.segment] ELSE 0]

\* Mutant: the bss size is not accumulated.
NextSegPtrNoBss(m) ==
    [s \in Segment |-> IF s = "BSS" THEN segPtr[s] ELSE segPtr[s] + m.size[s]]

\* The accumulated sizes after module m.
NextSegPtr(m) == [s \in Segment |-> segPtr[s] + m.size[s]]

\* readModule, but for undefset, which its callers treat differently.
ReadModule(o) ==
    LET m == Contents[o] IN
    /\ loaded' = Append(loaded, [object |-> o, base |-> segPtr])
    /\ symbolTable' = [n \in Name |-> ReadSymbol(m, n)]
    /\ defset' = defset \cup {n \in DOMAIN m.defs : ~IsDefined(n)}
    /\ relocs' = relocs \cup {AddReloc(r) : r \in m.relocs}
    /\ segPtr' = NextSegPtr(m)

\* Opening and reading the next file named on the command line.
ReadFile ==
    /\ pc = "read" /\ argi < Len(opt.files)
    /\ LET o == dir[opt.files[argi + 1]] IN
       IF o = Missing \/ ~Contents[o].magic
       THEN /\ Error
            /\ UNCHANGED <<argi, symvars, undefset>>
       ELSE /\ ReadModule(o)
            /\ undefset' = undefset \cup Contents[o].undefs
            /\ argi' = argi + 1
            /\ UNCHANGED <<pc, temps>>
    /\ UNCHANGED <<opt, liblist, libsymbolTable, loaded_members, dir, segStart,
                   patched, out>>

FilesRead ==
    /\ pc = "read" /\ argi = Len(opt.files)
    /\ pc' = "lib"
    /\ UNCHANGED <<opt, argi, symvars, libvars, dir, segStart, patched, temps, out>>

\* readlibsymbols: lookupEnter keeps the first entry of a name.
LibEntryOf(l, n) ==
    LET d == Archive[l].symdef
        I == {i \in DOMAIN d : d[i].name = n}
    IN  IF I = {} \/ Archive[l].kind # "archive" THEN Missing
        ELSE [library |-> l,
              file |-> d[CHOOSE i \in I : \A j \in I : i <= j].file]

\* Mutant: names defined in the meantime stay in undefset.
StillUndefinedNoErase(u, d) == u

\* The loops that erase every name of defset d from undefset u.
StillUndefined(u, d) == u \ d

\* Mutant: the library stays in the list.
OtherLibrariesKeepFirst == liblist

\* The list after listcstr_pop_back.
OtherLibraries == Tail(liblist)

(***************************************************************************)
(* One turn of the library loop up to "Resolving": a library that cannot   *)
(* be opened ends the program by exit(1), which cleans nothing up; one     *)
(* that is not an archive adds no symbols.                                 *)
(***************************************************************************)
OpenLibrary ==
    /\ pc = "lib" /\ liblist # << >>
    /\ LET l == Head(liblist) IN
       /\ liblist' = OtherLibraries
       /\ undefset' = StillUndefined(undefset, defset)
       /\ IF Archive[l].kind = "missing"
          THEN pc' = "exit" /\ UNCHANGED libsymbolTable
          ELSE /\ pc' = "resolve"
               /\ libsymbolTable' =
                     [n \in Name |-> IF libsymbolTable[n] # Missing
                                     THEN libsymbolTable[n]
                                     ELSE LibEntryOf(l, n)]
    /\ UNCHANGED <<opt, argi, symvars, loaded_members, dir, segStart, patched,
                   temps, out>>

NoMoreLibraries ==
    /\ pc = "lib" /\ liblist = << >>
    /\ pc' = "link"
    /\ UNCHANGED <<opt, argi, symvars, libvars, dir, segStart, patched, temps, out>>

\* The member that would define n is already loaded: the loop goes on.
Skipped(n) ==
    /\ libsymbolTable[n] # Missing
    /\ libsymbolTable[n].file \in loaded_members

LibTableEmpty == \A n \in Name : libsymbolTable[n] = Missing

\* Mutant: the extracted file is left behind.
UnlinkedForgotten(x, o) == [dir EXCEPT ![x] = o]

\* The directory after object o was extracted to file x, read and removed.
Unlinked(x, o) == [dir EXCEPT ![x] = Missing]

(***************************************************************************)
(* extractfilefromlib, readModule, unlink and "goto restart" for the first *)
(* name of the hash set that is not skipped.  A member the archive no      *)
(* longer has leaves a file of that name in the output directory as it     *)
(* was, and that file is read.                                             *)
(***************************************************************************)
ExtractMember(n) ==
    /\ pc = "resolve"
    /\ n \in undefset /\ libsymbolTable[n] # Missing /\ ~Skipped(n)
    /\ LET e == libsymbolTable[n]
           m == Archive[e.library].member[e.file]
           o == IF m = Missing THEN dir[e.file] ELSE m
       IN  /\ loaded_members' = loaded_members \cup {e.file}
           /\ IF o = Missing \/ ~Contents[o].magic
              THEN /\ Error
                   /\ undefset' = undefset \ {n}
                   /\ dir' = [dir EXCEPT ![e.file] = o]
                   /\ UNCHANGED symvars
              ELSE /\ ReadModule(o)
                   /\ undefset' = StillUndefined((undefset \ {n}) \cup Contents[o].undefs,
                                              defset')
                   /\ dir' = Unlinked(e.file, o)
                   /\ UNCHANGED <<pc, temps>>
    /\ UNCHANGED <<opt, argi, liblist, libsymbolTable, segStart, patched, out>>

\* Mutant: the remaining libraries are not tried.
NotInLibrariesGiveUp(n) ==
    /\ pc = "resolve" /\ ~LibTableEmpty
    /\ n \in undefset /\ libsymbolTable[n] = Missing
    /\ Error
    /\ UNCHANGED <<opt, argi, symvars, libvars, dir, segStart, patched, out>>

\* A name no library read so far has: try the next library, or give up.
NotInLibraries(n) ==
    /\ pc = "resolve" /\ ~LibTableEmpty
    /\ n \in undefset /\ libsymbolTable[n] = Missing
    /\ IF liblist = << >> THEN Error
                          ELSE pc' = "lib" /\ UNCHANGED temps
    /\ UNCHANGED <<opt, argi, symvars, libvars, dir, segStart, patched, out>>

\* lookup() dereferences its table before it tests it.
LookupInEmptyTable ==
    /\ pc = "resolve" /\ LibTableEmpty /\ undefset # {}
    /\ pc' = "crash"
    /\ UNCHANGED <<opt, argi, symvars, libvars, dir, segStart, patched, temps, out>>

LibraryExhausted ==
    /\ pc = "resolve" /\ \A n \in undefset : Skipped(n)
    /\ pc' = "lib"
    /\ UNCHANGED <<opt, argi, symvars, libvars, dir, segStart, patched, temps, out>>

\* A reference to a symbol becomes a reference to the symbol's segment.
LinkSymbol(r) ==
    IF r.base.kind = "segment" THEN r
    ELSE [r EXCEPT !.value = @ + symbolTable[r.base.symbol].value,
                   !.base  = SegBase(symbolTable[r.base.symbol].segment)]

LinkSymbols ==
    /\ pc = "link"
    /\ IF \E r \in relocs : r.base.kind = "symbol" /\ ~IsDefined(r.base.symbol)
       THEN Error /\ UNCHANGED relocs
       ELSE /\ relocs' = {LinkSymbol(r) : r \in relocs}
            /\ pc' = "relocate"
            /\ UNCHANGED temps
    /\ UNCHANGED <<opt, argi, loaded, segPtr, symbolTable, defset, libvars, dir,
                   segStart, patched, out>>

\* Mutant: rounding down.
PageRoundDown(a) ==
    IF opt.pageAlign THEN (a \div PAGE_SIZE) * PAGE_SIZE ELSE a

PageRound(a) ==
    IF opt.pageAlign THEN ((a + PAGE_SIZE - 1) \div PAGE_SIZE) * PAGE_SIZE ELSE a

\* The start addresses relocateSegments settles on.
Start ==
    LET at(s, default) == IF opt.start[s] = Unset THEN default ELSE opt.start[s]
        code == at("CODE", 0)
        data == at("DATA", PageRound(code + segPtr["CODE"]))
        bss  == at("BSS", PageRound(data + segPtr["DATA"]))
    IN  [ABS |-> 0, CODE |-> code, DATA |-> data, BSS |-> bss]

\* Mutant: the low part is taken relative to its own instruction.
FixupValueOwnPlace(r, st) ==
    CASE r.method = "W32" -> r.value + st[r.base.segment]
      [] r.method \in Branch -> r.value - r.offset
      [] r.method \in PcRel ->
            r.value - r.offset + st[r.base.segment] - st[r.segment]

(***************************************************************************)
(* The number fixupRef computes for a reference at start addresses st,     *)
(* before it is cut to the bits of the instruction field (RelocEncode).    *)
(* rvcdelta is 0: nothing is ever put into rvctree.                        *)
(***************************************************************************)
FixupValue(r, st) ==
    CASE r.method = "W32" -> r.value + st[r.base.segment]
      [] r.method \in Branch ->
            r.value - r.offset + (IF r.method \in SecondOfPair THEN 4 ELSE 0)
      [] r.method \in PcRel ->
            r.value - r.offset + (IF r.method \in SecondOfPair THEN 4 ELSE 0)
              + st[r.base.segment] - st[r.segment]

Misaligned(r) == r.method \in Branch /\ (r.value - r.offset) % 4 # 0

Fixup(r, st) ==
    [segment |-> r.segment, offset |-> r.offset, method |-> r.method,
     field |-> FixupValue(r, st)]

RelocateSegments ==
    /\ pc = "relocate"
    /\ segStart' = Start
    /\ IF \E r \in relocs : Misaligned(r)
       THEN Error /\ UNCHANGED <<relocs, patched>>
       ELSE /\ patched' = {Fixup(r, Start) : r \in relocs}
            /\ relocs' = {}
            /\ pc' = "write"
            /\ UNCHANGED temps
    /\ UNCHANGED <<opt, argi, loaded, segPtr, symbolTable, defset, libvars, dir, out>>

HeaderLength ==
    CASE opt.header = "none" -> 0
      [] opt.header = "aout" -> EXEC_HEADER
      [] opt.header = "elf"  -> ELF_HEADER

\* writeData pads the file up to the distance of the segments in memory.
DataPosition ==
    LET pos == HeaderLength + segPtr["CODE"]
        target == segStart["DATA"] - segStart["CODE"]
    IN  IF (opt.start["DATA"] # Unset \/ opt.pageAlign) /\ target > pos
        THEN target ELSE pos

\* writeHeader, writeCode, writeData and the end of main.
Write ==
    /\ pc = "write"
    /\ out' = [header |-> opt.header,
               csize |-> segPtr["CODE"], dsize |-> segPtr["DATA"],
               codeAt |-> HeaderLength, dataAt |-> DataPosition]
    /\ temps' = FALSE
    /\ pc' = "done"
    /\ UNCHANGED <<opt, argi, symvars, libvars, dir, segStart, patched>>

Terminated == pc \in {"done", "error", "exit", "crash"}

\* The process has ended.
Terminating == Terminated /\ UNCHANGED vars

Next ==
    \/ ReadFile \/ FilesRead
    \/ OpenLibrary \/ NoMoreLibraries
    \/ \E n \in Name : ExtractMember(n) \/ NotInLibraries(n)
    \/ LookupInEmptyTable \/ LibraryExhausted
    \/ LinkSymbols \/ RelocateSegments \/ Write
    \/ Terminating

Spec == Init /\ [][Next]_vars

\* main runs by itself: whatever step it can take, it takes.
FairSpec == Spec /\ WF_vars(Next)

---------------------------------------------------------------------------
(***************************************************************************)
(* Properties                                                              *)
(***************************************************************************)

\* Every variable of the linker keeps its type (ld.c's declarations).
TypeOK ==
    /\ opt \in Invocation
    /\ pc \in {"read", "lib", "resolve", "link", "relocate", "write",
              "done", "error", "exit", "crash"}
    /\ argi \in 0..Len(opt.files)
    /\ liblist \in Seq(Library)
    /\ loaded \in Seq([object : Object, base : [Segment -> Nat]])
    /\ segPtr \in [Segment -> Nat]
    /\ symbolTable \in [Name -> SymbolEntry]
    /\ libsymbolTable \in [Name -> LibEntry \cup {Missing}]
    /\ relocs \subseteq RelocRecord
    /\ defset \subseteq Name /\ undefset \subseteq Name
    /\ loaded_members \subseteq File
    /\ dir \in [File -> Object \cup {Missing}]
    /\ segStart \in [Segment -> Nat]
    /\ patched \subseteq [segment : Stored, offset : Nat, method : Method, field : Int]
    /\ temps \in BOOLEAN
    /\ out \in Layout \cup {Missing}

Defs(i) == Contents[loaded[i].object].defs
Definers(n) == {i \in DOMAIN loaded : n \in DOMAIN Defs(i)}

\* Where module i puts its own definition of n: segment and offset in it.
PlaceIn(i, n) ==
    Defined(Defs(i)[n].segment, loaded[i].base[Defs(i)[n].segment] + Defs(i)[n].value)

(***************************************************************************)
(* readSymbols: at any moment the symbol table binds a name exactly when a *)
(* module read so far exports it, and then to the place the first such     *)
(* module gave it, whatever was read later.                                *)
(***************************************************************************)
FirstDefinitionWins ==
    \A n \in Name :
        /\ IsDefined(n) <=> Definers(n) # {}
        /\ \A i \in Definers(n) :
              (\A j \in Definers(n) : i <= j) => symbolTable[n] = PlaceIn(i, n)

(***************************************************************************)
(* readModule's bookkeeping of segPtr: the sections of the loaded modules  *)
(* lie end to end in each segment, so no two overlap.                      *)
(***************************************************************************)
SectionsEndToEnd ==
    \A i \in DOMAIN loaded : \A s \in Segment :
        loaded[i].base[s] + Contents[loaded[i].object].size[s] =
            IF i = Len(loaded) THEN segPtr[s] ELSE loaded[i+1].base[s]

(***************************************************************************)
(* main's undefset and defset: while libraries are searched no name that   *)
(* is still undefined in the symbol table has been forgotten; it is in     *)
(* undefset, or the member said to define it has been loaded.  And no name *)
(* already defined is searched for.                                        *)
(***************************************************************************)
UnresolvedNotForgotten ==
    pc = "resolve" =>
        /\ undefset \cap defset = {}
        /\ \A n \in Name :
              symbolTable[n].status = "undefined" => n \in undefset \/ Skipped(n)

(***************************************************************************)
(* relocateSegments' default layout: unless -rd or -rb says otherwise, the *)
(* three segments of the executable do not overlap in memory.              *)
(***************************************************************************)
SegmentsDisjoint ==
    pc \in {"write", "done"} =>
        /\ opt.start["DATA"] = Unset =>
              segStart["CODE"] + segPtr["CODE"] <= segStart["DATA"]
        /\ opt.start["BSS"] = Unset =>
              segStart["DATA"] + segPtr["DATA"] <= segStart["BSS"]

(***************************************************************************)
(* The library loop pulls in a member at most once, and a finished link    *)
(* leaves behind none of the files it extracted into the output directory; *)
(* it touches no other file.                                               *)
(***************************************************************************)
MembersOnceAndCleanedUp ==
    pc = "done" =>
        /\ Len(loaded) = Len(opt.files) + Cardinality(loaded_members)
        /\ \A f \in File :
              dir[f] = IF f \in loaded_members THEN Missing ELSE Directory[f]

\* The archives whose directory says what their members export, each name once.
Faithful(l) ==
    LET a == Archive[l] IN
    /\ a.kind = "archive"
    /\ \A f \in File : a.member[f] # Missing =>
          Contents[a.member[f]].magic /\
          \A n \in DOMAIN Contents[a.member[f]].defs :
             \E i \in DOMAIN a.symdef : a.symdef[i] = [name |-> n, file |-> f]
    /\ \A i \in DOMAIN a.symdef :
          /\ a.member[a.symdef[i].file] # Missing
          /\ a.symdef[i].name \in DOMAIN Contents[a.member[a.symdef[i].file]].defs

LibrariesGiven == {opt.libs[i] : i \in DOMAIN opt.libs}
MembersOf(l) == {f \in File : Archive[l].member[f] # Missing}
CleanLibraries ==
    /\ \A l \in LibrariesGiven : Faithful(l)
    /\ \A k, l \in LibrariesGiven : k # l => MembersOf(k) \cap MembersOf(l) = {}

(***************************************************************************)
(* The library loop's promise: with up-to-date libraries whose member      *)
(* names differ, the link gives up on a symbol only if neither the files   *)
(* nor any library given exports it (or a file is not an object, or a      *)
(* branch target is misaligned).  That holds whatever the order of the     *)
(* libraries and of the hash set.                                          *)
(***************************************************************************)
OnlyMissingSymbolsFail ==
    pc = "error" /\ CleanLibraries /\ argi = Len(opt.files) =>
        \/ \E r \in relocs : r.base.kind = "segment" /\ Misaligned(r)
        \/ \E n \in Name : symbolTable[n].status = "undefined" /\
              \A l \in LibrariesGiven : \A f \in MembersOf(l) :
                  n \notin DOMAIN Contents[Archive[l].member[f]].defs

(***************************************************************************)
(* ld implements the abstract link: the tables, the running sizes and the  *)
(* library loop together amount to gathering modules, then binding every   *)
(* reference to the first definition, or failing.                          *)
(***************************************************************************)
Abstract == INSTANCE StaticLink WITH
    mods   <- [i \in DOMAIN loaded |-> loaded[i].object],
    status <- CASE pc \in {"write", "done"} -> "linked"
                [] pc \in {"error", "exit", "crash"} -> "failed"
                [] OTHER -> "gathering",
    start  <- IF pc \in {"write", "done"} THEN segStart ELSE [s \in Segment |-> 0],
    image  <- patched

ImplementsStaticLink == Abstract!Spec

\* ld always comes to an end: the library loop cannot go round for ever.
Termination == <>Terminated
===========================================================================
