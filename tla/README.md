# lcc-sirius: a verification project

lcc-sirius is a C toolchain for the Sirius processor: the compiler `lcc`
(`src/lcc/src`) with its driver (`src/lcc/etc`), and the binary utilities
`as`, `ld`, `ar` and `dof` (`src/binutils`).  This directory holds TLA+ models
of its core, the TLC configurations that check them, and theorems about them
checked by TLAPS.  Paths below are relative to the repository (`src/...`).

    tlc -workers 2 -config MCLinker.cfg MCLinker     model-check a run
    tlapm LinkerProofs.tla                           check the proofs of a module

`PROJECT.json` lists the components, the runs, the mutants of each property, the
source lines of each definition, the findings, the hazards and the theorems.

## 1. The system

    C files --lcc (driver)--> ucpp --> rcc --> as --> .o --+--> ld --> executable
                                                           |     ^
                                                           ar ---+ libraries

The programs share no memory.  They meet in files: the driver names temporary
files and starts the tools, `as` writes object files in the format of
`include/a.out.h`, `ar` puts them in archives with a symbol directory
(`include/ar.h`), and `ld` reads both.  Each program is sequential.  Only the
driver has asynchrony: its child processes and signals.  `ar` and `ld` may be
killed between any two system calls, and what they left is the input of the
next command.

| component | state it keeps | operations | what is hard | what makes it correct |
|---|---|---|---|---|
| `ld` (ld.c) | segment sizes so far, symbol table, relocation list, library queue with `undefset`/`defset`/`loaded_members`, temporary files | read a module, open a library, extract a member, bind symbols, choose starts, patch, write | `goto`s between two loops while `undefset` grows and shrinks; stale symbol directories; name clashes of members; alignment options | every reference gets the first definition, nothing missing is forgotten, no member twice, it ends |
| relocated fields (as.c, ld.c) | the immediate fields of an instruction pair | assemble, patch, execute | field boundaries, sign, wrap | the processor recombines exactly the address, within reach |
| `as` symbols (as.c) | local and global table, fixup lists, section counters | label, reference, `.globl`, `.import`, `.set`, end of file, write | any order of use, label and declaration, over several files | no reference lost or doubled; the object file says what the text says |
| `ar`, `ranlib.c` | archive, two temporary files, names still to match, the table of 1000 entries | d, r, t, x, s with a, b, u | truncate and copy; kills and write errors; stale directory | the archive asked for; never lost by a kill; exact directory |
| `lcc` driver (lcc.c, akai.c) | file lists, static temporary names, error count, child | per-file pipeline, link, `interrupt` | shared temporary names, failing tools, signals | right results, honest status, nothing clobbered, no litter |
| switch (stmt.c) | sorted constants and labels, buckets, emitted search | `caselabel`, `swgen`, `swcode`, `emitcode` | signedness, merging, fall-through between code shapes | each value goes to its case |
| statements and code list (stmt.c, decl.c, dag.c) | doubly linked code list, listed nodes, reference counts and synonyms of labels | each statement, `definelab`, `branch`, `walk` | jumps dropped and labels equated on the fly | the flow of the program is kept |
| expression forest (dag.c, expr.c, tree.c) | hash table of nodes, `depth`, list of roots, temporaries | `node`, `listnodes`, `killnodes`, `reset`, `walk`, `undag`, `prune` | stale common subexpressions, values computed on one branch only | the forest does what the expressions mean |
| register allocation (gen.c, sirius.md) | masks of used and free registers, uses of each register, spill slots | `gen`, `ralloc`, `getreg`, `spill`, `requate`, `emit` | spilling inside a spill, copies renamed too far, clobbered registers | the instructions do what the trees mean |
| scopes (sym.c, decl.c) | tables of identifiers and externals made on demand, `level`, the token read ahead | `enterscope`, `install`, `lookup`, `relocate`, `exitscope`, each declaration, `finalize` | lookahead, tables that hang on each other, the arena that is emptied | a use means what C says, a name has one symbol |
| arenas (alloc.c) | block chains, free list | `allocate`, `deallocate` | reuse of blocks | no live object in a free block |
| input (input.c) | buffer with a margin, `cp`, `limit` | `nextline`, `fillbuf` | line across the end of the buffer | no character lost |

The parsers of C and of assembly, simplification of expressions, the printers of
debug information, `lburg` and the other targets are functions of their input
without interacting state.  `cpp`, `ucpp` and `mlib` are vendored.  They are
components of `PROJECT.json` with status `not_modelled` and a reason.

## 2. The modules

| module | what it is | extends |
|---|---|---|
| `ObjectFormat` | the object file of `include/a.out.h`; shared by `as` and `ld` | |
| `Linker` | `ld.c`, step by step | `ObjectFormat` |
| `StaticLink` | abstract: what a static link promises | `ObjectFormat` |
| `Filtered` | a walk through a list that keeps some of its elements, in `ar` and `as` | |
| `Recursion` | lemmas: recursive functions on the numbers, filtered and flattened sequences | `Filtered` |
| `LinkerProofs` | theorems about `Linker`, and that it implements `StaticLink` | `Linker`, `Recursion` |
| `RelocEncode`, `RelocEncodeProofs` | fields of relocated instructions, theorems | |
| `AsmSymbols`, `AsmProofs` | symbols and fixups of `as.c`, theorems | `ObjectFormat`, `Filtered`; `Recursion` |
| `Archiver`, `ArchiverProofs` | `ar.c` and `ranlib.c`, theorems | `Filtered`; `Recursion` |
| `Driver`, `DriverProofs` | `lcc.c` with the commands of `akai.c`, theorems | `Recursion` |
| `Switch`, `SwitchProofs` | one switch of `stmt.c`, theorems | `Recursion` |
| `CodeList` | code entries, labels, jumps: pure operators | |
| `Statements` | the statements of a function over a `CodeList` | `CodeList` |
| `ExprTrees` | the trees that the front end makes of expressions | |
| `Forest` | `dag.c`: from trees to lists of nodes with temporaries | `ExprTrees` |
| `RegAlloc` | `gen.c` and `sirius.md`: from instruction trees to printed instructions | |
| `BlockScopes` | abstract: what C says of declarations and uses | |
| `Scopes` | symbol tables and declarations of `sym.c` and `decl.c` | `BlockScopes` |
| `ScopesInvariants`, `ScopesProofs` | the inductive invariants of `Scopes`, the terms of the proofs; theorems | `Scopes`; `Recursion` |
| `MC*` | instances for TLC | the module they check |

### Linker and StaticLink

`pc` is where `main` is: `read` (`readFiles`), `open` and `resolve` (the library
loop with its labels `restart` and `another_lib`), `link` (`linkSymbols`),
`relocate`, `write`, and the ends `done`, `error` (`error()`), `exit` and
`crash`.  `loaded` is the contents of the temporary code and data files: the
modules with the `segPtr` they were read at.  `symbolTable`, `relocs`,
`undefset`, `defset`, `loaded_members` and `libsymbolTable` are the variables of
their names; `dir` is the directory `ld` extracts members into; `patched` is
what `fixupRef` wrote.  `ReadModule` is one call of `readModule` with its
`addReloc` and `readSymbol` calls, `OpenLibrary` and `ExtractMember` are the
rounds of the loops, `LookupInEmptyTable` is the `NULL` that a lookup in an
empty table returns, `LinkSymbols`, `RelocateSegments` and `Write` are the
phases behind them.  Nondeterminism is the input and the order in which the
hash set is iterated.

`StaticLink` knows no tables: modules are gathered, then the link fails, or picks
starts and patches every reference with the address (or distance) of the first
definition of its target.  `ImplementsStaticLink` is the refinement: `mods` is
`loaded`, `image` is `patched`.

### RelocEncode

One instruction from the assembler's pseudo instruction to the register: the
fields that `fixupRef` (or `formatLI`) fills in, and the processor's `auipc`,
`lui`, additions and sign extension, which are modelled from the way `as` uses
them.  A word has `Word` values; TLC uses 2^24, the theorems every multiple of
2^22 that is at least 2^23, so 2^32 as well.  `ExactWithinReach` says that an
instruction computes the address named just when its fields can reach it.  The
stores break it (run `reloc_encode`); the theorems say which stores, and that
nothing else does.

### AsmSymbols

The text is any sequence of statements (`Label`, `Use`, `.globl`, `.import`,
`.set`, `.space`, segment directives); `EndOfFile` is `linkLocals` with the
rounding of the sections, `WriteObject` the rest of `main`: `transferFixups`,
numbering and writing of symbols, relocations.  `used`, `labels` and `declared`
are history: the text itself.  Left out: expressions beyond symbol plus
constant, `-g`, the compressed mode `-c`, `.locate`, instruction encoding.

### Archiver

`RunCommand` is `main` up to the loop over members; `ReplaceMember`,
`DeleteMember`, `ReadMember` are one round of `rCmd`, `dCmd`, `tCmd`/`xCmd` with
`matchargs`, `baMatch` and the swap of temporary files in `getMember`;
`AppendArgs`, `Truncate`, `CopyTemps` are the rest of `rCmd` and the two halves
of `install`; `UpdateSymbols` is `updateSymbols`, after which the same loop puts
`__.SYMDEF` in front.  `WriteError` and `Kill` may come at every step,
`EditFile` between commands.  `ExtractionError` is a member that could not be
written while `x` extracts it, `DirectoryNotWritten` a `__.SYMDEF` that could not be
made or filled; a file that cannot be created is one `x` passes over
(`ReadMember`).

### Driver

`filename()` is `Preprocess`, `Compile`, `Assemble` and `KeepForLinker`; each
starts a child, and `ToolSucceeds`, `ToolFails` or `LinkerEnds` is its end.  A
file is its form and the sources it was made of, so that a link of the wrong
temporary file shows.  `Interrupt` is a signal at any moment; the tool it leaves
behind may still write (`OrphanEnds`).

### Switch

`CaseLabel` is `caselabel` with the insertion and the doubling of the arrays,
`Bucket` one round of `swgen`'s loop, `SwCode` one call of `swcode`, the jump
table included.  The properties execute the emitted code (`Arrives`) for every
value of the type.

### CodeList and Statements

`CodeList` holds the operations on the code list as operators on a record:
`DefineLab`, `Branch` (with `equatelab`), `Flush` (`walk`), `Reachable`,
`Equated`.  `raw` is a history of the same program without any optimisation.
`Statements` is the recursive descent of `statement()` as a stack of frames: an
action per statement that starts and per one that ends.  A node is an
expression with at most one jump.  `SameFlow` compares, node for node, what can
follow what in the list built and in `raw`.

### ExprTrees and Forest

`ExprTrees` has the operators that turn source expressions into trees (`value`,
`cond`, `condtree`, `root`, `hascall`), as `expr.c`, `enode.c` and `tree.c` do.
In `Forest` an action is a statement: an expression, a condition of `if` or of a
loop, `return`; it lists the tree with `listnodes`, an operator for each kind of
node, in a record `d` of nodes, hash table, forest, `depth` and labels, and `Walk`
is `walk` with `undag`, `visit` and `prune`, which gives `code` the forests with
their temporaries.  The property executes source and forest from every
initial store and compares what they write, read of volatile variables, call,
and where they go.

### RegAlloc

`g` is the state of gen.c: nodes with their kids and registers, `freemask`,
`usedmask`, the last use of each register, variables and spill slots.  The steps are those of
`function()`: `Variables_` (parameters and register variables), then for each
forest `Gen` (`rewrite`, `linearize`, `rtarget`) and a `Ralloc` per instruction
(with `getreg`, `spillee`, `spill` and its reloads, which are allocated in their
turn), then `Emit` (`requate`, `moveself`) for each list.  `Execute` runs the printed
instructions on registers and memory, `MeaningOf` the trees on names; both
treat operators as uninterpreted, so equal traces mean equal values for every
input.  Calls and helpers of 8-byte operations destroy the registers the
conventions of sirius.md let them.

### BlockScopes and Scopes

`BlockScopes` is C: nested scopes, the innermost declaration is meant, linkage is
inherited, an error is refused.  `Scopes` has the tables as the code keeps them:
`st` holds `level`, the chain of tables with their hash chains and the list
`all` threaded through `up`, the externals, and the symbols by address with their
arena.  Actions are the declarations (`GlobalDecl`, `Typedef`, `LocalDecl`,
`FunctionBegin`), the ends of scopes, uses, implicit declarations by a
call, and `finalize`.  `gettok` looks the next token up when it is read, so the
order of `exitscope` and `gettok` matters.  `deallocate` removes what was in FUNC.
The refinement maps the tables, level by level, to the nested scopes (`ScopesOf`,
kept in the variable `scopes`).

## 3. The runs

State counts are distinct states; times are for two workers.

| run | question | bounds | states |
|---|---|---|---|
| `linker` | does `ld` implement the abstract link, forget nothing, load nothing twice, end? | 7 objects, 4 names, 11 libraries (clashing member names, two stale directories, an empty, a missing, a non-archive), up to 3 `-l` in every order; every choice of starts and headers for two library lists | 202,000, 1 min |
| `reloc_encode` | are relocated addresses exact just where the fields reach? | 2^24 words, addresses around 2^11 ... 2^23 and the wrap | violated: stores |
| `asm_symbols` | is every reference kept once, does the object file mean the text? | 2 files, 2 names, 5 statements | 1,049,000, 30 s |
| `archiver` | is the archive the one asked for, recoverable and linkable? | 2 files, 2 contents, 3 commands with edits between, directory of 3 entries | 4,268,000, 2 min |
| `driver` | right results, honest status, nothing clobbered or left? | 3 arguments out of 9, every mode; 2 with `-o` | 387,000, 25 s |
| `switch` | does every value reach its case, through dense tables and few tests? | 4 bits, 11 constants, 7 cases, densities 0.5 and 1 | 241,000, 11 s |
| `statements` | do dropped jumps and equated labels keep the flow? | three families: 4 statements with jumps and a label; 3 with loops; 6 with switches and loops in braces | 473,000, 2 min |
| `forest` | does the forest compute what the expressions mean? | five families of up to three statements: shared values and effects, conditions, conditional values, calls; 24 initial stores | 16,000, 50 s |
| `regalloc` | do the instructions do what the trees mean, are saved registers saved? | 390 functions: up to 7 temporaries around something that needs or destroys registers, register variables and their copies, pairs, arguments | 26,000, 10 s |
| `scopes` | does each use mean what C says, has each name one symbol? | one name in every kind of declaration, one inner block; two names of functions; 3 symbols in memory at once | 370,000, 1 min |

Why these bounds are enough.  *linker*: with three libraries one can provide, need
and shadow; each pass through `restart` and `another_lib` happens, as does every
error exit.  *asm_symbols*: a name in each of its roles in both files takes four
statements, a fifth moves what follows; a second name makes symbol numbers differ from 0.  *archiver*: the
third command meets an archive that was created and then changed, with a
directory from before; the table overflows at two members of two symbols.
*driver*: the third source meets temporary files used twice.  *switch*: seven
cases make up to seven buckets, three levels of search, all four shapes of a
bucket (comparisons or table, at the edges or inside), and the extreme values
of the type.  *statements*: six statements nest a loop in a switch in a loop with
`break` in each; the constant and missing conditions of all loops are taken.

*forest*: each family has both orders of a value that is shared
and an effect that spoils it, within a statement and between statements, inside and outside of
conditions.  *regalloc*: seven temporaries are one more than there are registers,
so a spill, the reloads and a spill for a reload occur, in all orders of last
use; 12 variables are more than there are.  *scopes*: three symbols are a
parameter or local, an external and a global of one name; the level of an inner
block is the first that has an outer block.

Three runs show disagreements (`expect` is `violation`).  TLC stops at the first
program; with `-continue` it lists them all.

`reloc_encode`: `METHOD_RS12` keeps 15 bits of the distance (ld.c:599), not the low
12 of `a.out.h`:17, and `METHOD_RH20` has put bits 12 to 14 into the upper field
already.  The processor adds both, so a store to a symbol whose distance has one
of these bits set misses it.

`forest_faults`:
* AND and OR empty the table of nodes at depth 0 only: in
  `if (c && (x+1) + (a && (x+1) > 2) > 0)` the sum reads a register that was not
  set when `a` is 0 (dag.c:121).
* `f(a, b*c)` with long long `b` and `c`: the call of `__muli64` is listed between the
  arguments and destroys the register of the first (expr.c:488).

`regalloc_faults`, one program each in `MCRegAlloc`:
* `PairsAndOne`, `PairsAndFour`: comparing two long longs while one temporary is live
  makes the allocator spill one pair for the other for ever; while four are
  live, `assert(bestreg)` fails (gen.c:695).
* `Scratch`: 8-byte `==` and `!=` use x5, which may hold a temporary.
* `LoadOverAddress`: a long long is loaded over the register of its address.
* `HelperKeeps`: x29, x30 and x5 to x7 are live across the helpers of 8-byte operations.
* `PairParameter`: half of a long long parameter is copied to its register variable.
* `PairVariable`, `LeafWithFloats`: a register variable is asked to spill (gen.c:720,
  gen.c:698).
* `LeafComparesFloats`: a leaf function that compares floats calls a helper and does
  not save x1, because `mulops_calls` does not name comparisons (sirius.md:1411).

Also observed, without a run:
* with `-ra` or `-rd` the executable has padding between code and data that `csize`
  does not count, against include/README:41 (ld.c:1218); without `-ra`, `ld` starts the data segment right behind
  the code (ld.c:658) where include/README:153 has it at the next page boundary.
* `Entry.position` is the offset before the directory was put in front
  (ranlib.c:72); `ld` does not read it.
* `lcc -E` runs `ucpp` with `-o` and no name, so that it fails (akai.c:20); lcc.1 says that objects of a
  link of several files are left behind while the driver makes them temporary files (lcc.c:429).
* the search of a switch is moved in front of its body while nodes of the body are
  still listed: `switch (x) default: if (c) return; else i = 1;` assigns before it
  tests (stmt.c:354).  With `BracedBodies = FALSE`, `Statements` violates `SameFlow`
  at this function; the passing run has braces around the bodies.
* `static int f(int f) { ... }` behind a prototype and a call of it is rejected as an undefined static, and two
  definitions of `int f(int f)` are not diagnosed, because `dclglobal` and `funcdefn` look
  the name up while the parameters are in scope (decl.c:214, decl.c:746).
  `LinkedNames` excepts such names.
* a call of an undeclared function in a constant expression at file scope, as in
  `int x[sizeof(h(1))];`, leaves `h` with two symbols.

Deadlock is checked in every run; `Terminating` actions stand for the exit of
a program (and for the end of the bounded commands in `Archiver`).

**Fairness.** Only `linker` uses it: `Termination` under `WF_vars(Next)`.  `ld` is one
sequential program that waits for nothing but its files, so as long as it is not
killed it takes its next step.  The other runs check safety.

## 4. What the runs abstract

Named bounds and abstractions, per module:

* `Linker`: member names of 60 or more characters, the map file, `-g` output and
  code bytes are left out.  A module's file does not change during the link.
* `AsmSymbols`: see section 2; methods are `W32` and `J20`.
* `Archiver`: a command names a file once; a truncated archive is not the input
  of further commands; a second `mkstemp` that fails is left out, and so is an error
  of the `fclose` of `__.SYMDEF`, which `updateSymbols` does not look at; one `ar` at a time.
* `Driver`: options that only add words to a command, `LCCINPUTS` and `-v -v` are
  left out; appending to `rmlist` is one step with making the name.  `tempname` makes names in a directory
  `tmp` that are never in use (`TempStem` repeats none, and the arguments and the operand of
  `-o` are not there); what a file is, its suffix says; archives are not read.
* `Switch`: every case has a label of its own; `MaxErrors` errors per switch.
* `Statements`: at most `SmallBucket = 1` case is compared one by one instead of 3, so
  that tables occur; the cases of a switch are one bucket; `for` has both or
  neither of `e1` and `e3`; one user label; braced switch bodies (`BracedBodies`) in the run; erroneous programs end the run; expressions and conditions are single nodes.
* `Forest`: bit fields, structures, computed addresses, pointers to volatile, the events of the
  profiler, and constants that `simplify` moves are left out.  The families of
  the passing run have no AND, OR in an operand of an operand of AND, OR with a
  value shared across, and no 8-byte operation in an argument: these are in `forest_faults`.
* `RegAlloc`: labelling and the choice of instructions by cost, nodes that may be
  recalculated (`mayrecalc`, `reuse`), templates that begin with `?`, the pruning of
  temporaries used once, structures and `ASGNB`, the blocks that give registers back, and parameters beyond six
  words are left out; 8-byte operations with a helper are the values of
  temporaries.  `HelperPreserves` are the registers that the helpers are taken to leave alone in
  the passing run; with none, it fails (`HelperKeeps`).  `MaxNodes` is the memory.
* `Scopes`: tags, labels, enumeration constants, initializers, types beyond object, function and type name, and promotion
  to registers are left out; a parameter list has at most one name of `Name`; after
  an error nothing is followed.  `symbols` and `level` bound a source file, and the family with functions has no objects.
* `RelocEncode`: 2^24 words in TLC, all sizes in the proofs.  `EncodeAssumption` is what a machine word
  and an address are; the theorems have it as a hypothesis.

## 5. What is proved

Each theorem holds for every value of the constants that satisfies the module's
assumptions (what a well-formed object file or command line is, `Word` a
multiple of 2^22, constants of a switch integers, `2^Width` a positive number).

*Recursion.*  The prover cannot instantiate the library's induction theorems, whose parameters are
operators.  `LeastNumber` is proved without them (a set of numbers without a least one has no
member up to any bound), and from it that a function given by a first value and a step
exists (`RecursionExists`) and is the only one (`RecursionUnique`).  The lemmas about filtered
sequences use it: what `Only` keeps, that it keeps the order and doubles nothing, how long it is, and
where an element kept ends up (`OnlyAt`).

*LinkerProofs.*  `TypeOK` is not inductive alone: the fields `fixupRef` computes are
integers only because every record left is bound to a segment by then.
`BasesBound` says so, and `TypeOK /\ BasesBound` is inductive
(`LinkerTypeCorrect`).  On it rest
`SectionsLaidEndToEnd` (only `ReadModule` touches `loaded` and `segPtr`, and it
appends at the current sizes), `FirstDefinitionBinds` (reading a module binds
just the names it exports that were not bound; `LeastNumber` gives the first
definer), `SegmentsApart` (from the definition of the default starts and a lemma
about `PageRound`; starts never change after `RelocateSegments`), and
`UnresolvedKept` (names enter `undefset` when the module that needs them is read,
and leave it only when defined or when their member has been loaded, for every
order of iteration).

`LinkerImplementsStaticLink` is the refinement, step by step:
`ReadModule` is a step of gathering, `LinkSymbols` the choice of starts, `RelocateSegments`
the patches or a failure, everything else a stutter.  The work is in the patches:
the relocation list has a record for each reference of each module loaded, moved to where
its section was put, and the segment, start and value the symbol table gives its symbol are
those of the first definition.
`EachMemberOnce` rests on the files in `dir` being exactly those in
`loaded_members`.  `GivesUpOnlyOnMissing` follows the library loop: with `CleanLibraries` the
names wanted that a library opened can give are gone from `undefset` when the loop leaves it, and
those wanted at the end are exported by nothing that was given.

*AsmProofs.*  `AsmInvariant` has three parts.  `Held`: every reference has bytes of its own,
behind those before it, and is in one local symbol, one global symbol or one record of the
list; it alone gives `ReferencesHeldOnce`.  `Said`: the local table says what this file's labels and
declarations say, the global table what the files that declare a name say, and a reference
is on a global symbol only if it means one, in the list only with its own label's segment and value.  The
second half of that must exclude a declaration that comes later in the file, which is why
`Said` speaks of files already closed.
`RecordsMeanText` and `SymbolsMeanText` read the invariant at the
end of `WriteObject`; there `OnlyAt` shows that the numbers `transferFixups` counts are the places at
which `writeSymbols` writes.  `OutputLinkable` is the assumption `IsObjectFile` under which
the theorems about `Linker` hold: the two sets of theorems meet at the object file.

*ArchiverProofs.*  `Inv` says that what a job has consumed of its arguments is what it met
among the members read, and that the temporary files together hold exactly the part of the
result that these members make, in order (`ArchiverInvariant`).  `MakesWhatIsAskedFor` and
`KillLosesNothing` read it at the end and in the middle of `install`; the latter excepts a write error
within `install`, which the code does not survive.
`LeavesLinkable` needs in addition `DirectoryFirst`: the directory is the first member or
none, and no command moves it (`DirectoryStaysFirst`).  `CleansUp` shows that only a kill leaves
temporary files.

*DriverProofs.*  `NamesInvariant`: every name the driver writes is made of an argument, of
`-o`, or by `tempname`, and a name that `tempname` makes next has never been in use.  From it,
`LeavesNoTemps` (a temporary file on disk is in `rmlist`) and
`FailureLeavesExecutable`.  `Inputs` adds contents: the file `filename` works on holds what
was made of its source, although the next source reuses its name; so a tool fails only for a
reason of its own, and `StatusIsHonest`.  `LeavesResults` counts the results of the sources
dealt with.  `ProgramInOrder` relates the linker's list to the arguments,
by the facts about `FlattenSeq` of `Recursion`.  The assumptions are those of section 4.

*RelocEncodeProofs.*  The invariant `Encoded` ties the fields to the displacement
and the register to the fields at each step.  `EncodeTypeCorrect`: every field
fits.  `EncodingExact`: one lemma per kind of instruction (`PairReaches`,
`StorePairReaches`, `BranchReaches`, `JumpReaches`, `LiReaches`) solves the
equation of recombination, so that `ExactWithinReach` holds for every instruction but a
store whose halves overlap (`HalvesOverlap`: both fields have bits 12 to 14 of the distance, and
one of these is set).  `OverlappingStoresMiss` is about those: whatever the size of a word, none
of them computes its target, so the exception is not wider than it must be.

*SwitchProofs.*  `SwitchInv` says that the arrays are sorted, have the same length, and
that behind them stand exactly the constants read.  `Insertion` is the lemma
about the shifted arrays, `ExtendedSame` that two constants extend to one number
exactly when they are one value of the type, `DuplicateFound` that a value that
is in a sorted array is found at its place.  `DuplicatesReportedHolds` and
`CasesInOrderHolds` follow.  `SearchInv` is about the rest of the compilation: `Divides` says that
the buckets of `swgen` are runs of cases, each of one case or dense (`MergedDivides`), and
`Instructions` what `swcode` may write for them (`SearchInvariant`).  `TableFilled` says what
`emitcode` makes of a bucket (`TableOf`): the label of each case at the distance of its value, and
the default's everywhere else.  With `TableShare`, which counts them, `TablesDenseHolds` follows.

`SelectsCaseHolds` is about executing what was written.  That it can be executed is
`ExecutionExists`: `Arrives` is a recursive function on the places of the code, and at each of
them it only looks ahead (`OnlyAhead`).  The invariant `SearchLaid` says how the code is laid out:
each call of `swcode` that has written stands somewhere in it (`Layout`); behind its text comes
that of the call for the buckets below, or, when there are none, for those above; every other call
that it made is further on or still pending.  `LabelsOnce` adds that a search label is written once, by
the call that has it, so that a jump to it arrives there (`JumpArrives`).  Both are needed
together: without `LabelsOnce` a jump could find an earlier text, and without the order of the texts
the fall-through at the end of a list of comparisons could reach the wrong half.  `LayoutGrows` and
`LabelsOnceGrows` are the step of one call.  When all is written, `BlocksSelect` goes from
the last text to the first: a value whose case can only be in the buckets of a call (`Among`)
is sent by the shape of the middle one (`BucketSelects`, for the three ends of a list and for a
table) to its case or to a later call whose buckets it can only be in (`Narrowed`).
`SelectedCase` relates the array to the constants in the source.

*ScopesProofs.*  The invariants are in `ScopesInvariants`.  `TablesInvariant` says in what order the pointers of `sym.c` are.  The tables go
from the outermost level inwards; the list of a table (`Listed`) runs through its hash chain and goes on with
a symbol of a level further out, which is what stops `foreach`; no symbol is both a global and an external;
an alias is a symbol outside blocks, and those are permanent.  `TablesSound` alone is not
inductive: that `foreach` visits the right symbols now says nothing of where it stops once the
table behind has lost a symbol.  Each operation on the tables has its lemma (`Installed`,
`Relocated`, `ScopeLeft`, `Deallocated`), each declaration one made of those.  `Relocated` is the
hardest: the symbol taken out of the list of externals may be its head or behind another one,
and `WithoutIs` and `ListedWithout` follow the shifted chain.  `ChainOfTable` shows that the walk of
`foreach`, a recursive function, is the hash chain, and that it ends within memory.
`deallocate(FUNC)` is harmless because it runs at level `GLOBAL`, where `TablesInvariant` leaves
one table, and the token read ahead was looked up there.

`RefinesBlockScopes` is the refinement of `BlockScopes`.  A state of the tables is reduced to its
`View`: what the table of each level says of each name.  An operation puts one meaning into the view
(`Put`: `InstallShown`, `DclglobalShown`, `DcllocalShown`), erases a level (`ExitShown`), or
leaves it alone (`PrototypeShown`, `UsedShown`, `DeallocateShown`, `FinishedShown`), and with these
lemmas nobody looks at pointers again.  `Open` reads the open scopes off the view, although
a level has a table only when something is declared there and two levels make the outermost
scope of a function; `SeenIs` says that `lookup` finds the innermost meaning.  The inductive
invariant is `ScopesInvariant`: beside `TablesInvariant` it says that the token was
looked up in the tables as they are now (`TokenFound`, which `BlockEnd` would break if it read the
token before it leaves the scope), that the history variable `scopes` is the view, and that a
symbol marked defined is one the file defines (`MarksMeant`, without which a refused second definition
could be no error).  `DclglobalError` and `DcllocalError` show that what lcc refuses is an error.
There is one lemma per action (`GlobalDeclShown` to `FinalizeShown`), and `ScopesStep` joins them.

`LinkedNames` speaks of the end of the file; `LinkedInvariant` says how a file gets there.  It is
`ScopesInvariant` with two parts that hold while the file is open.
`LinkageKnown` (a meaning of level 0 in an open scope is a name with a linkage) is about the abstract
side only and is proved from the steps of `BlockScopes`.  `NameSound` relates one name to
its linkage: it has one symbol outside blocks, or a type and an external (`OneSymbol`); there is one
exactly when the name has a linkage; the storage class and the marks of the symbol follow from
linkage and definition (`Printed`), except that the function whose body is open is defined and
not yet printed.  A step is described by what it does to names:
it leaves one alone (`Undisturbed`, for all names `Quiet`: `install` in a block, `enterscope`,
`exitscope`, `deallocate`), it puts in a new symbol (`Entered`), or it writes one and moves it to the
globals (`Rewrites`, for `relocate` and `dclglobal`).  So each declaration is a chain of those, and
`NamesSpared` adds that the other names stay sound.  At the end `Finishes` says what `doextern`,
`doglobal` and `checkref` make of each symbol, and `NameFinished` derives `LinkedNames` from it for a sound
name.  Names a parameter has hidden from its own function (`ownNamed`, section 4) are excepted in
the invariant as they are in the property.  TLC checked the invariant on `MCScopes` before the proof.

Only model-checked: `Termination`, since liveness is out of
the prover's reach; the properties of `Statements`, which have no proofs yet; `SearchLogarithmic` of `Switch`, since the provers know
nothing of powers of two;
and the meaning of a forest and of instructions (`Forest`, `RegAlloc`, whose
operators are recursive and so out of reach in principle).

## 6. Plan

1. **More proofs.**  Lemmas about `DefineLab` and `Branch` of `CodeList`
   (reference counts, resolvability).
2. **More of the system.**  The refill of input.c and the free list of alloc.c; tags and
   types in `Scopes`; blocks and structures in `RegAlloc`; two drivers at once and their temporary
   names (lcc.c:811).

**Not modelled.**  The parser, types, initializers and simplification of `lcc`, the encoding of
instructions in `as`, `ucpp`, `cpp`, `mlib`, `lburg` and the other targets: functions
of their input with no state that others share; a model would repeat them case by case.
They are most of the lines of the repository.
