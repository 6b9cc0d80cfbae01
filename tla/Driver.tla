------------------------------ MODULE Driver ------------------------------
(***************************************************************************)
(* The compiler driver lcc/etc/lcc.c with the commands of etc/akai.c: it   *)
(* runs preprocessor, compiler and assembler on each file of its command   *)
(* line, then the linker, keeping intermediate results in temporary files. *)
(* A signal may stop it at any moment.                                     *)
(*                                                                         *)
(* A tool is one step of its child process.  What a file holds is abstract:*)
(* the form it is in and the input files it was made of.                   *)
(***************************************************************************)
EXTENDS Integers, Sequences, FiniteSets, SequencesExt

CONSTANTS
    Arg,            \* the names that command lines mention
    Invocation,     \* the command lines considered
    Disk,           \* Disk[f]: what input file f holds at first
    TempStem,       \* the names tempname generates, one after the other
    None

Suffix == {"c", "i", "s", "o", "out", "other", "lib"}

(***************************************************************************)
(* A name is a directory, a base and a suffix; "-lx" is the name of a      *)
(* library.                                                                *)
(***************************************************************************)
IsName(n) ==
    /\ n = [dir |-> n.dir, base |-> n.base, suffix |-> n.suffix]
    /\ n.suffix \in Suffix

Contents(form, of) == [form |-> form, of |-> of]

(***************************************************************************)
(* The directory "tmp" stands for the names tempname makes, which contain  *)
(* the number of the process: no command line and no other file has one.   *)
(***************************************************************************)
IsInvocation(v) ==
    /\ v.E \in BOOLEAN /\ v.S \in BOOLEAN /\ v.c \in BOOLEAN
    /\ v.o = None \/ (IsName(v.o) /\ v.o.dir # "tmp")
    /\ v.args \in Seq(Arg)

\* What a file that lcc is given holds: what its suffix says, and what goes
\* to the linker is objects.
FormOf(a) == IF a.suffix \in {"c", "i", "s"} THEN a.suffix ELSE "o"

Stems == {TempStem[k] : k \in DOMAIN TempStem}
Forms == {"c", "i", "s", "o", "exe", "partial"}
Made == [dir : {".", "tmp"}, base : Stems \cup {"a"} \cup {a.base : a \in Arg},
         suffix : {"i", "s", "o", "out"}]

ASSUME DriverAssumption ==
    /\ \A a \in Arg : IsName(a) /\ a # None /\ a.dir # "tmp"
    /\ \A v \in Invocation : IsInvocation(v) /\ Len(v.args) + 2 <= Len(TempStem)
    /\ \A f \in DOMAIN Disk : f \in Arg /\ f.suffix # "lib" /\ Disk[f] = Contents(FormOf(f), <<f>>)
    /\ TempStem \in Seq(Stems)
    /\ \A j, k \in DOMAIN TempStem : TempStem[j] = TempStem[k] => j = k
    /\ None \notin Nat /\ None \notin Made
    /\ None \notin [form : Forms, of : Seq(Arg)]

VARIABLES
    opt,            \* the command line
    pc,
    argi,           \* arguments dealt with
    outfile,        \* the operand of -o, unless it is ignored
    current,        \* filename()'s arguments name and base
    child,          \* the tool that runs, with its files
    itemp, stemp,   \* filename()'s static temporary names
    rmlist,         \* the names tempname has made
    llist,          \* llist[1]: the linker's files and libraries
    errcnt,
    status,         \* lcc's exit status
    disk,           \* the files that exist, and what they hold
    stdout,         \* what preprocessors wrote to the standard output
    faults          \* what has gone wrong outside lcc

temps == <<itemp, stemp, rmlist>>
vars == <<opt, pc, argi, outfile, current, child, temps, llist, errcnt, status,
          disk, stdout, faults>>

Init ==
    /\ opt \in Invocation
    /\ pc = "options"
    /\ argi = 0
    /\ outfile = None /\ current = None /\ child = None
    /\ itemp = None /\ stemp = None /\ rmlist = << >>
    /\ llist = << >>
    /\ errcnt = 0
    /\ status = None
    /\ disk = Disk
    /\ stdout = << >>
    /\ faults = {}

Object(base) == [dir |-> ".", base |-> base, suffix |-> "o"]
Assembly(base) == [dir |-> ".", base |-> base, suffix |-> "s"]
AOut == [dir |-> ".", base |-> "a", suffix |-> "out"]

\* suffix(argv[i], suffixes, 2): -o must not name a file of these kinds.
WouldOverwrite(n) == n.suffix \in {"c", "i"}

IsSource(a) == a.suffix \in {"c", "i", "s"}
NumberOfSources == Cardinality({k \in DOMAIN opt.args : IsSource(opt.args[k])})

\* The first loop of main.
ParseOptions ==
    /\ pc = "options"
    /\ IF opt.o # None /\ WouldOverwrite(opt.o)
       THEN pc' = "exit" /\ status' = 8 /\ UNCHANGED outfile
       ELSE /\ pc' = "args"
            /\ outfile' = IF (opt.c \/ opt.S) /\ NumberOfSources # 1 THEN None ELSE opt.o
            /\ UNCHANGED status
    /\ UNCHANGED <<opt, argi, current, child, temps, llist, errcnt, disk, stdout, faults>>

\* main's second loop: an option (-l, or one for the linker), or a file.
NextArgument ==
    /\ pc = "args" /\ argi < Len(opt.args)
    /\ argi' = argi + 1
    /\ LET a == opt.args[argi + 1] IN
       \/ /\ a.suffix = "lib"
          /\ llist' = IF opt.c \/ opt.S \/ opt.E THEN llist ELSE Append(llist, a)
          /\ UNCHANGED <<pc, current, errcnt, faults>>
       \/ /\ a.suffix # "lib" /\ a \notin DOMAIN disk
          /\ errcnt' = errcnt + 1
          /\ faults' = faults \cup {"missing"}
          /\ UNCHANGED <<pc, current, llist>>
       \/ /\ a.suffix # "lib" /\ a \in DOMAIN disk
          /\ pc' = "filename"
          /\ current' = [name |-> a, base |-> a.base]
          /\ UNCHANGED <<llist, errcnt, faults>>
    /\ UNCHANGED <<opt, outfile, child, temps, status, disk, stdout>>

Run(tool, in, outName) == child' = [tool |-> tool, in |-> in, out |-> outName]

\* tempname: the next name, entered in rmlist.
NewTemp(suffix) == [dir |-> "tmp", base |-> TempStem[Len(rmlist) + 1], suffix |-> suffix]
Enter(name) == rmlist' = Append(rmlist, name)

\* The end of filename() for this file.
BackToMain == pc' = "args" /\ current' = None

\* Case 0 of filename(): a C source.
Preprocess ==
    /\ pc = "filename" /\ current.name.suffix = "c"
    /\ pc' = "wait"
    /\ IF opt.E
       THEN Run("cpp", <<current.name>>, None) /\ UNCHANGED <<itemp, rmlist>>
       ELSE LET t == IF itemp = None THEN NewTemp("i") ELSE itemp IN
            /\ itemp' = t
            /\ IF itemp = None THEN Enter(t) ELSE UNCHANGED rmlist
            /\ Run("cpp", <<current.name>>, t)
    /\ UNCHANGED <<opt, argi, outfile, current, stemp, llist, errcnt, status, disk,
                   stdout, faults>>

\* Case 1: a preprocessed source.
Compile ==
    /\ pc = "filename" /\ current.name.suffix = "i"
    /\ \/ /\ opt.E
          /\ BackToMain /\ UNCHANGED <<child, stemp, rmlist>>
       \/ /\ ~opt.E /\ opt.S
          /\ Run("rcc", <<current.name>>,
                 IF outfile # None THEN outfile ELSE Assembly(current.base))
          /\ pc' = "wait" /\ UNCHANGED <<current, stemp, rmlist>>
       \/ /\ ~opt.E /\ ~opt.S
          /\ LET t == IF stemp = None THEN NewTemp("s") ELSE stemp IN
             /\ stemp' = t
             /\ IF stemp = None THEN Enter(t) ELSE UNCHANGED rmlist
             /\ Run("rcc", <<current.name>>, t)
          /\ pc' = "wait" /\ UNCHANGED current
    /\ UNCHANGED <<opt, argi, outfile, itemp, llist, errcnt, status, disk, stdout, faults>>

\* Mutant: one temporary object file for all sources.
ObjectFileShared ==
    IF opt.c THEN IF outfile # None THEN outfile ELSE Object(current.base)
    ELSE [dir |-> "tmp", base |-> TempStem[Len(TempStem)], suffix |-> "o"]

\* The object file of an assembly.
ObjectFile ==
    IF opt.c THEN IF outfile # None THEN outfile ELSE Object(current.base)
    ELSE NewTemp("o")

\* Case 2: an assembly source.
Assemble ==
    /\ pc = "filename" /\ current.name.suffix = "s"
    /\ IF opt.E \/ opt.S
       THEN BackToMain /\ UNCHANGED <<child, rmlist>>
       ELSE /\ Run("as", <<current.name>>, ObjectFile)
            /\ IF opt.c THEN UNCHANGED rmlist ELSE Enter(ObjectFile)
            /\ pc' = "wait" /\ UNCHANGED current
    /\ UNCHANGED <<opt, argi, outfile, itemp, stemp, llist, errcnt, status, disk,
                   stdout, faults>>

\* "if (!find(f, llist[1])) llist[1] = append(f, llist[1])"
Listed(f) == IF f \in ToSet(llist) THEN llist ELSE Append(llist, f)

\* Case 3 and the default: objects once, other files as often as named.
KeepForLinker ==
    /\ pc = "filename" /\ current.name.suffix \in {"o", "out", "other"}
    /\ llist' = IF current.name.suffix = "o" THEN Listed(current.name)
                ELSE Append(llist, current.name)
    /\ IF opt.E /\ current.name.suffix # "o"
       THEN Run("cpp", <<current.name>>, None) /\ pc' = "wait" /\ UNCHANGED current
       ELSE BackToMain /\ UNCHANGED child
    /\ UNCHANGED <<opt, argi, outfile, temps, errcnt, status, disk, stdout, faults>>

(***************************************************************************)
(* What a tool makes of its input: the next form of the same source, or    *)
(* for the linker one file of all objects; None if its input is of a wrong *)
(* form.                                                                   *)
(***************************************************************************)
Form(tool) == CASE tool = "cpp" -> "c" [] tool = "rcc" -> "i" [] tool = "as" -> "s"
NextForm(tool) == CASE tool = "cpp" -> "i" [] tool = "rcc" -> "s" [] tool = "as" -> "o"
IsObject(f) == f.suffix = "lib" \/ (f \in DOMAIN disk /\ disk[f].form = "o")
Origin(f) == IF f.suffix = "lib" THEN <<f>> ELSE disk[f].of
Product(p) ==
    IF p.tool = "ld"
    THEN IF \A k \in DOMAIN p.in : IsObject(p.in[k])
         THEN Contents("exe", FlattenSeq([k \in DOMAIN p.in |-> Origin(p.in[k])]))
         ELSE None
    ELSE IF p.in[1] \in DOMAIN disk /\ disk[p.in[1]].form = Form(p.tool)
    THEN Contents(NextForm(p.tool), Origin(p.in[1]))
    ELSE None

(***************************************************************************)
(* compose leaves out "$3" where there is no output file, but not the "-o" *)
(* before it; ucpp refuses a command that ends in "-o".                    *)
(***************************************************************************)
Accepts(p) == p.out # None

Succeeds(p) == Accepts(p) /\ Product(p) # None

\* Files after p has written contents c to its output.
Written(p, c) ==
    IF p.out = None THEN disk
    ELSE [f \in DOMAIN disk \cup {p.out} |-> IF f = p.out THEN c ELSE disk[f]]
Partial == Contents("partial", << >>)

\* Mutant: filename() is called again without the source's base name.
ContinuedAnew(f) == [name |-> f, base |-> f.base]

\* filename(f, base) once more, for the file a tool has made of current.
Continued(f) == [current EXCEPT !.name = f]

(***************************************************************************)
(* callsys returned 0: filename() goes on with the tool's output, or is    *)
(* done with this file.                                                    *)
(***************************************************************************)
ToolSucceeds ==
    /\ pc = "wait" /\ child.tool # "ld" /\ Succeeds(child)
    /\ disk' = Written(child, Product(child))
    /\ stdout' = IF child.out = None THEN Append(stdout, Product(child)) ELSE stdout
    /\ child' = None
    /\ \/ /\ child.tool \in {"cpp", "rcc"} /\ ~opt.E /\ (opt.S => child.tool = "cpp")
          /\ current' = Continued(child.out)
          /\ pc' = "filename" /\ UNCHANGED llist
       \/ /\ opt.E \/ (opt.S /\ child.tool = "rcc")
          /\ BackToMain /\ UNCHANGED llist
       \/ /\ child.tool = "as"
          /\ llist' = Listed(child.out)
          /\ BackToMain
    /\ UNCHANGED <<opt, argi, outfile, temps, errcnt, status, faults>>

\* Mutant: a failed assembly is not counted.
CountedNotAs(tool) == IF tool = "as" THEN errcnt ELSE errcnt + 1

\* The error count after tool has failed.
Counted(tool) == errcnt + 1

(***************************************************************************)
(* callsys returned something else: the tool found errors or was killed.   *)
(* It leaves its output file as it was, or half written.                   *)
(***************************************************************************)
ToolFails ==
    /\ pc = "wait" /\ child.tool # "ld"
    /\ disk' \in {disk, Written(child, Partial)}
    /\ child' = None
    /\ errcnt' = Counted(child.tool)
    /\ faults' = IF Succeeds(child) THEN faults \cup {"tool"} ELSE faults
    /\ llist' = IF child.tool = "as" THEN Listed(child.out) ELSE llist
    /\ BackToMain
    /\ UNCHANGED <<opt, argi, outfile, temps, status, stdout>>

Linking == errcnt = 0 /\ ~opt.E /\ ~opt.S /\ ~opt.c /\ llist # << >>
Executable == IF outfile # None THEN outfile ELSE AOut

\* The end of main, up to the linker or rm(rmlist).
EndOfArguments ==
    /\ pc = "args" /\ argi = Len(opt.args)
    /\ IF Linking THEN Run("ld", llist, Executable) /\ pc' = "wait"
                  ELSE pc' = "rm" /\ UNCHANGED child
    /\ UNCHANGED <<opt, argi, outfile, current, temps, llist, errcnt, status, disk,
                   stdout, faults>>

LinkerEnds ==
    /\ pc = "wait" /\ child.tool = "ld"
    /\ \/ /\ Succeeds(child)
          /\ disk' = Written(child, Product(child))
          /\ UNCHANGED <<errcnt, faults>>
       \/ /\ disk' \in {disk, Written(child, Partial)}
          /\ errcnt' = Counted(child.tool)
          /\ faults' = IF Succeeds(child) THEN faults \cup {"ld"} ELSE faults
    /\ child' = None
    /\ pc' = "rm"
    /\ UNCHANGED <<opt, argi, outfile, current, temps, llist, status, stdout>>

\* Mutant: the list is searched from its second node on.
RemovedButFirst == [f \in DOMAIN disk \ ToSet(SubSeq(rmlist, 2, Len(rmlist))) |-> disk[f]]

\* The files left by rm(rmlist).
Removed == [f \in DOMAIN disk \ ToSet(rmlist) |-> disk[f]]

RemoveTemps ==
    /\ pc = "rm"
    /\ disk' = Removed
    /\ status' = IF errcnt > 0 THEN 1 ELSE 0
    /\ pc' = "exit"
    /\ UNCHANGED <<opt, argi, outfile, current, child, temps, llist, errcnt, stdout, faults>>

(***************************************************************************)
(* SIGINT, SIGTERM or SIGHUP at any moment: interrupt() removes the files  *)
(* and exits.  A tool that runs is not waited for.                         *)
(***************************************************************************)
Interrupt ==
    /\ pc # "exit"
    /\ disk' = Removed
    /\ status' = 100
    /\ pc' = "exit"
    /\ faults' = faults \cup (IF child = None THEN {"signal"} ELSE {"signal", "orphan"})
    /\ UNCHANGED <<opt, argi, outfile, current, child, temps, llist, errcnt, stdout>>

\* The tool lcc left behind dies of the signal, or goes on to its end.
OrphanEnds ==
    /\ pc = "exit" /\ child # None
    /\ child' = None
    /\ disk' \in {disk, Written(child, Partial)}
          \cup {Written(child, c) : c \in {Product(child)} \ {None}}
    /\ UNCHANGED <<opt, pc, argi, outfile, current, temps, llist, errcnt, status, stdout,
                   faults>>

Terminating == pc = "exit" /\ child = None /\ UNCHANGED vars

Main ==
    \/ ParseOptions \/ NextArgument \/ EndOfArguments
    \/ Preprocess \/ Compile \/ Assemble \/ KeepForLinker
    \/ ToolSucceeds \/ ToolFails \/ LinkerEnds \/ RemoveTemps

Next == Main \/ Interrupt \/ OrphanEnds \/ Terminating

Spec == Init /\ [][Next]_vars

---------------------------------------------------------------------------
(***************************************************************************)
(* Properties                                                              *)
(***************************************************************************)

LinkMode == ~opt.E /\ ~opt.S /\ ~opt.c

\* The arguments a program is made of: all, but an object named again.
Wanted ==
    LET again(k) == \E j \in 1..k-1 : opt.args[j] = opt.args[k] /\ opt.args[k].suffix = "o"
    IN  FlattenSeq([k \in DOMAIN opt.args |->
                        IF again(k) THEN << >> ELSE <<opt.args[k]>>])

(***************************************************************************)
(* filename() and llist: although all sources share the temporary files    *)
(* itemp and stemp, a program lcc has made without complaint consists of   *)
(* the arguments, each from its own source, in the order given.            *)
(***************************************************************************)
LinkedInOrder ==
    status = 0 /\ LinkMode /\ Wanted # << >> =>
        Executable \in DOMAIN disk /\ disk[Executable] = Contents("exe", Wanted)

\* The last argument that filename() compiles into the file of its base.
LastOfBase(k, suffixes) ==
    \A j \in k+1..Len(opt.args) :
        opt.args[j].suffix \in suffixes => opt.args[j].base # opt.args[k].base

(***************************************************************************)
(* -c and -S without complaint leave, for each source, its own object or   *)
(* assembly file (of two sources of one base, the later one's).            *)
(***************************************************************************)
ResultsLeft ==
    status = 0 /\ ~opt.E /\ (opt.c \/ opt.S) =>
        LET kinds == IF opt.S THEN {"c", "i"} ELSE {"c", "i", "s"} IN
        \A k \in DOMAIN opt.args :
            LET a == opt.args[k]
                f == IF outfile # None THEN outfile
                     ELSE IF opt.S THEN Assembly(a.base) ELSE Object(a.base)
            IN  a.suffix \in kinds /\ LastOfBase(k, kinds) =>
                   f \in DOMAIN disk /\
                   disk[f] = Contents(IF opt.S THEN "s" ELSE "o", <<a>>)

(***************************************************************************)
(* errcnt and the exit status: lcc reports success exactly when every file *)
(* was there and every tool did its work.                                  *)
(***************************************************************************)
StatusHonest ==
    status \in {0, 1} /\ ~opt.E => (status = 0 <=> faults = {})

(***************************************************************************)
(* "errcnt == 0 && ..." before the linker runs: a missing file or a failed *)
(* compilation leaves the executable of an earlier run alone.              *)
(***************************************************************************)
FailureKeepsExecutable ==
    LinkMode /\ faults \cap {"missing", "tool"} # {} =>
        /\ Executable \in DOMAIN disk <=> Executable \in DOMAIN Disk
        /\ Executable \in DOMAIN Disk => disk[Executable] = Disk[Executable]

(***************************************************************************)
(* rm(rmlist) at the end of main and in interrupt(): no temporary file is  *)
(* left, but for the output of a tool that a signal to lcc left running.   *)
(***************************************************************************)
NoTempsLeft ==
    pc = "exit" =>
        Cardinality({f \in DOMAIN disk : f.dir = "tmp"})
            <= IF "orphan" \in faults THEN 1 ELSE 0
===========================================================================
