--------------------------- MODULE DriverProofs ---------------------------
(***************************************************************************)
(* Theorems about the driver for all command lines, files and failures of  *)
(* tools: its exit status is honest, what it leaves is made of the right   *)
(* sources, a failure keeps the executable, and no temporary file stays.   *)
(***************************************************************************)
EXTENDS Driver, Recursion, TLAPS, SequenceTheorems, FiniteSetTheorems

---------------------------------------------------------------------------
(* Sequences *)

\* A longer prefix has one element more.
LEMMA NextPrefix ==
    ASSUME NEW T, NEW s \in Seq(T), NEW k \in 0 .. (Len(s) - 1)
    PROVE  /\ SubSeq(s, 1, k) \in Seq(T) /\ s[k + 1] \in T
           /\ SubSeq(s, 1, k + 1) = Append(SubSeq(s, 1, k), s[k + 1])
<1> DEFINE p == SubSeq(s, 1, k)
           q == SubSeq(s, 1, k + 1)
           r == Append(p, s[k + 1])
<1>1. Len(s) \in Nat /\ DOMAIN s = 1 .. Len(s) /\ \A i \in 1 .. Len(s) : s[i] \in T
  BY LenProperties, ElementOfSeq
<1>2. k + 1 \in 1 .. Len(s) /\ k \in Nat
  BY <1>1
<1>3. p \in Seq(T) /\ Len(p) = k /\ \A i \in 1 .. k : p[i] = s[i]
  <2>1. \A i \in 1 .. k : s[i] \in T
    BY <1>1, <1>2
  <2>2. p \in Seq(T) /\ Len(p) = (IF 1 <= k THEN k - 1 + 1 ELSE 0)
        /\ \A i \in 1 .. (k - 1 + 1) : p[i] = s[1 + i - 1]
    BY <2>1, SubSeqProperties
  <2> QED
    BY <1>2, <2>2
<1>4. q \in Seq(T) /\ Len(q) = k + 1 /\ \A i \in 1 .. (k + 1) : q[i] = s[i]
  <2>1. \A i \in 1 .. (k + 1) : s[i] \in T
    BY <1>1, <1>2
  <2>2. q \in Seq(T) /\ Len(q) = (IF 1 <= k + 1 THEN k + 1 - 1 + 1 ELSE 0)
        /\ \A i \in 1 .. (k + 1 - 1 + 1) : q[i] = s[1 + i - 1]
    BY <2>1, SubSeqProperties
  <2> QED
    BY <1>2, <2>2
<1> HIDE DEF p, q
<1>5. /\ r \in Seq(T) /\ Len(r) = k + 1 /\ r[k + 1] = s[k + 1]
      /\ \A i \in 1 .. k : r[i] = p[i]
  BY <1>1, <1>2, <1>3, AppendProperties
<1> HIDE DEF r
<1>6. \A i \in 1 .. Len(q) : q[i] = r[i]
  BY <1>2, <1>3, <1>4, <1>5
<1>7. q = r
  BY <1>4, <1>5, <1>6, SeqEqual
<1> QED
  BY <1>1, <1>2, <1>3, <1>7 DEF p, q, r

\* The elements of a sequence and of a longer one.
LEMMA ToSetAppend ==
    ASSUME NEW T, NEW s \in Seq(T), NEW x \in T
    PROVE  ToSet(Append(s, x)) = ToSet(s) \cup {x}
<1> DEFINE r == Append(s, x)
<1>1. Len(s) \in Nat /\ DOMAIN s = 1 .. Len(s)
  BY LenProperties
<1>2. r \in Seq(T) /\ Len(r) = Len(s) + 1 /\ r[Len(s) + 1] = x
      /\ \A i \in 1 .. Len(s) : r[i] = s[i]
  BY AppendProperties
<1>3. DOMAIN r = 1 .. (Len(s) + 1)
  BY <1>2, LenProperties
<1> HIDE DEF r
<1>4. ToSet(r) = ToSet(s) \cup {x}
  <2>1. ASSUME NEW y \in ToSet(r) PROVE y \in ToSet(s) \cup {x}
    <3>1. PICK i \in 1 .. (Len(s) + 1) : y = r[i]
      BY <1>3 DEF ToSet
    <3> QED
      BY <1>1, <1>2, <3>1 DEF ToSet
  <2>2. ASSUME NEW y \in ToSet(s) PROVE y \in ToSet(r)
    <3>1. PICK i \in 1 .. Len(s) : y = s[i]
      BY <1>1 DEF ToSet
    <3>2. i \in DOMAIN r /\ r[i] = y
      BY <1>1, <1>2, <1>3, <3>1
    <3> QED
      BY <3>2 DEF ToSet
  <2>3. x \in ToSet(r)
    BY <1>1, <1>2, <1>3 DEF ToSet
  <2> QED
    BY <2>1, <2>2, <2>3
<1> QED
  BY <1>4 DEF r

---------------------------------------------------------------------------
(* The names and the tool that runs *)

TempName == [dir : {"tmp"}, base : Stems, suffix : {"i", "s", "o"}]
IsTemp(t, suffix) == t \in ToSet(rmlist) /\ t.suffix = suffix
Busy == pc = "wait" \/ (pc = "exit" /\ child # None)
Arguments == 1 .. Len(opt.args)

\* filename() deals with this argument of main.
InFile == pc = "filename" \/ (pc = "wait" /\ child.tool # "ld")
ThisArg == opt.args[argi]

TypeOK ==
    /\ opt \in Invocation
    /\ pc \in {"options", "args", "filename", "wait", "rm", "exit"}
    /\ argi \in 0 .. Len(opt.args)
    /\ outfile \in {None, opt.o}
    /\ errcnt \in Nat
    /\ status \in {None, 0, 1, 8, 100}
    /\ faults \subseteq {"missing", "tool", "ld", "signal", "orphan"}
    /\ pc = "options" =>
          disk = Disk /\ rmlist = << >> /\ llist = << >> /\ faults = {} /\ argi = 0 /\ errcnt = 0

\* Each name made has its own stem; besides those of itemp and stemp every
\* argument took one at most.
InPreparation == pc = "filename" \/ (pc = "wait" /\ child.tool \in {"cpp", "rcc"})
NamesMade ==
    /\ rmlist \in Seq(TempName)
    /\ \A k \in DOMAIN rmlist : rmlist[k].base = TempStem[k]
    /\ Len(rmlist) + (IF InPreparation THEN 1 ELSE 0)
         <= argi + (IF itemp = None THEN 0 ELSE 1) + (IF stemp = None THEN 0 ELSE 1)
    /\ itemp = None \/ IsTemp(itemp, "i")
    /\ stemp = None \/ IsTemp(stemp, "s")

\* The file filename() works on is the argument or was made of it.
CurrentFile ==
    InFile =>
        /\ argi \in Arguments
        /\ current = [name |-> current.name, base |-> ThisArg.base]
        /\ \/ current.name = ThisArg /\ ThisArg.suffix # "lib"
           \/ /\ ThisArg.suffix = "c" /\ ~opt.E
              /\ current.name = itemp /\ IsTemp(itemp, "i")
           \/ /\ ThisArg.suffix \in {"c", "i"} /\ ~opt.E /\ ~opt.S
              /\ current.name = stemp /\ IsTemp(stemp, "s")

\* What the linker is given are arguments and objects made.
LinkFile == {a \in Arg : a.suffix \notin {"c", "i", "s"}} \cup {t \in TempName : t.suffix = "o"}
ListNames ==
    LinkMode => llist \in Seq(LinkFile) /\ ToSet(llist) \subseteq Arg \cup ToSet(rmlist)

\* The tool that runs, on what, and the file it writes.
Target == IF outfile # None THEN outfile
          ELSE IF opt.S THEN Assembly(current.base) ELSE Object(current.base)
LinkerRuns ==
    /\ child = [tool |-> "ld", in |-> llist, out |-> Executable]
    /\ LinkMode /\ errcnt = 0
PreprocessorRuns ==
    /\ child.tool = "cpp" /\ child.in = <<current.name>> /\ ~opt.E
    /\ current.name.suffix = "c" /\ child.out = itemp /\ IsTemp(itemp, "i")
CompilerRuns ==
    /\ child.tool = "rcc" /\ child.in = <<current.name>> /\ ~opt.E
    /\ current.name.suffix = "i"
    /\ IF opt.S THEN child.out = Target ELSE child.out = stemp /\ IsTemp(stemp, "s")
AssemblerRuns ==
    /\ child.tool = "as" /\ child.in = <<current.name>> /\ ~opt.E /\ ~opt.S
    /\ current.name.suffix = "s"
    /\ IF opt.c THEN child.out = Target
                ELSE IsTemp(child.out, "o") /\ child.out \notin ToSet(llist)
ToStandardOutput == child.tool = "cpp" /\ child.out = None /\ opt.E
ToolRuns ==
    /\ pc \notin {"wait", "exit"} => child = None
    /\ Busy => \/ LinkerRuns \/ PreprocessorRuns \/ CompilerRuns \/ AssemblerRuns
               \/ ToStandardOutput

Names == TypeOK /\ NamesMade /\ CurrentFile /\ ListNames /\ ToolRuns

LEMMA ArgType ==
    ASSUME NEW a \in Arg
    PROVE  a.suffix \in Suffix /\ a.dir # "tmp" /\ a # None
  BY DriverAssumption DEF IsName

LEMMA TempType ==
    ASSUME NEW t \in TempName
    PROVE  /\ t.dir = "tmp" /\ t.suffix \in {"i", "s", "o"} /\ t \notin Arg /\ t # None
<1>1. t.dir = "tmp" /\ t.suffix \in {"i", "s", "o"} /\ t.base \in Stems
  BY DEF TempName
<1>2. t \in Made
  BY DEF TempName, Made
<1> QED
  BY <1>1, <1>2, ArgType, DriverAssumption

LEMMA InvocationType ==
    ASSUME TypeOK
    PROVE  /\ opt.E \in BOOLEAN /\ opt.S \in BOOLEAN /\ opt.c \in BOOLEAN
           /\ opt.args \in Seq(Arg) /\ Len(opt.args) \in Nat /\ DOMAIN opt.args = Arguments
           /\ \A k \in Arguments : opt.args[k] \in Arg
           /\ Len(opt.args) + 2 <= Len(TempStem)
           /\ opt.o = None \/ opt.o.dir # "tmp"
<1>1. IsInvocation(opt) /\ Len(opt.args) + 2 <= Len(TempStem)
  BY DriverAssumption DEF TypeOK
<1>2. /\ opt.E \in BOOLEAN /\ opt.S \in BOOLEAN /\ opt.c \in BOOLEAN
      /\ opt.args \in Seq(Arg) /\ (opt.o = None \/ opt.o.dir # "tmp")
  BY <1>1 DEF IsInvocation
<1>3. Len(opt.args) \in Nat /\ DOMAIN opt.args = Arguments
  BY <1>2, LenProperties DEF Arguments
<1>4. \A k \in Arguments : opt.args[k] \in Arg
  BY <1>2, ElementOfSeq DEF Arguments
<1> QED
  BY <1>1, <1>2, <1>3, <1>4

LEMMA NamesInit == Init => Names
<1> SUFFICES ASSUME Init PROVE Names
  OBVIOUS
<1>1. /\ opt \in Invocation /\ pc = "options" /\ argi = 0 /\ outfile = None /\ child = None
      /\ itemp = None /\ stemp = None /\ rmlist = << >> /\ llist = << >> /\ errcnt = 0
      /\ status = None /\ disk = Disk /\ faults = {}
  BY DEF Init
<1>2. TypeOK
  <2>1. Len(opt.args) \in Nat
    BY <1>1, DriverAssumption, LenProperties DEF IsInvocation
  <2> QED
    BY <1>1, <2>1 DEF TypeOK
<1>3. rmlist \in Seq(TempName) /\ llist \in Seq(LinkFile) /\ Len(rmlist) = 0
  BY <1>1, EmptySeq
<1>4. DOMAIN rmlist = {} /\ ToSet(llist) = {}
  BY <1>1 DEF ToSet
<1>5. NamesMade
  BY <1>1, <1>3, <1>4 DEF NamesMade, InPreparation
<1> QED
  BY <1>1, <1>2, <1>3, <1>4, <1>5 DEF Names, CurrentFile, InFile, ListNames, ToolRuns, Busy

LEMMA TypeStep ==
    ASSUME TypeOK, [Next]_vars
    PROVE  TypeOK'
<1>0. /\ opt \in Invocation /\ argi \in 0 .. Len(opt.args) /\ outfile \in {None, opt.o}
      /\ errcnt \in Nat /\ status \in {None, 0, 1, 8, 100}
      /\ faults \subseteq {"missing", "tool", "ld", "signal", "orphan"}
      /\ pc \in {"options", "args", "filename", "wait", "rm", "exit"}
      /\ Len(opt.args) \in Nat
  BY InvocationType DEF TypeOK
<1>1. opt' = opt
  BY DEF Next, Main, vars, ParseOptions, NextArgument, EndOfArguments, Preprocess, Compile,
         Assemble, KeepForLinker, ToolSucceeds, ToolFails, LinkerEnds, RemoveTemps, Interrupt,
         OrphanEnds, Terminating
<1>2. CASE ParseOptions
  BY <1>0, <1>1, <1>2 DEF ParseOptions, TypeOK
<1>3. CASE NextArgument
  <2>1. pc' \in {"args", "filename"} /\ outfile' = outfile /\ status' = status
    BY <1>3 DEF NextArgument
  <2>2. argi' \in 0 .. Len(opt.args)
    BY <1>0, <1>3 DEF NextArgument
  <2>3. errcnt' \in Nat
    BY <1>0, <1>3 DEF NextArgument
  <2>4. faults' \subseteq {"missing", "tool", "ld", "signal", "orphan"}
    <3>1. faults' = faults \/ faults' = faults \cup {"missing"}
      BY <1>3 DEF NextArgument
    <3>2. faults \subseteq {"missing", "tool", "ld", "signal", "orphan"}
      BY <1>0
    <3> QED
      BY <3>1, <3>2
  <2> QED
    BY <1>0, <1>1, <2>1, <2>2, <2>3, <2>4 DEF TypeOK
<1>4. CASE EndOfArguments \/ Preprocess \/ Compile \/ Assemble \/ KeepForLinker
  <2>1. /\ argi' = argi /\ outfile' = outfile /\ errcnt' = errcnt /\ status' = status
        /\ faults' = faults
    BY <1>4 DEF EndOfArguments, Preprocess, Compile, Assemble, KeepForLinker
  <2>2. pc' \in {"args", "wait", "rm"}
    BY <1>4 DEF EndOfArguments, Preprocess, Compile, Assemble, KeepForLinker, BackToMain
  <2> QED
    BY <1>0, <1>1, <2>1, <2>2 DEF TypeOK
<1>5. CASE ToolSucceeds
  <2>1. /\ argi' = argi /\ outfile' = outfile /\ errcnt' = errcnt /\ status' = status
        /\ faults' = faults /\ pc' \in {"args", "filename"}
    BY <1>5 DEF ToolSucceeds, BackToMain
  <2> QED
    BY <1>0, <1>1, <2>1 DEF TypeOK
<1>6. CASE ToolFails \/ LinkerEnds
  <2>1. /\ argi' = argi /\ outfile' = outfile /\ status' = status
        /\ errcnt' \in {errcnt, errcnt + 1}
        /\ faults' \subseteq faults \cup {"tool", "ld"} /\ pc' \in {"args", "rm"}
    BY <1>6 DEF ToolFails, LinkerEnds, BackToMain, Counted
  <2>2. errcnt' \in Nat
    BY <1>0, <2>1
  <2> QED
    BY <1>0, <1>1, <2>1, <2>2 DEF TypeOK
<1>7. CASE RemoveTemps \/ Interrupt
  <2>1. /\ argi' = argi /\ outfile' = outfile /\ status' \in {0, 1, 100} /\ errcnt' = errcnt
        /\ faults' \subseteq faults \cup {"signal", "orphan"} /\ pc' = "exit"
    BY <1>7 DEF RemoveTemps, Interrupt
  <2> QED
    BY <1>0, <1>1, <2>1 DEF TypeOK
<1>8. CASE OrphanEnds
  <2>1. /\ argi' = argi /\ outfile' = outfile /\ status' = status /\ errcnt' = errcnt
        /\ faults' = faults /\ pc' = "exit"
    BY <1>8 DEF OrphanEnds
  <2> QED
    BY <1>0, <1>1, <2>1 DEF TypeOK
<1>9. CASE UNCHANGED vars
  BY <1>9 DEF vars, temps, TypeOK
<1> QED
  BY <1>2, <1>3, <1>4, <1>5, <1>6, <1>7, <1>8, <1>9 DEF Next, Main, Terminating

\* A new name has a stem of its own.
LEMMA NewName ==
    ASSUME TypeOK, NamesMade, NEW suffix \in {"i", "s", "o"},
           Len(rmlist) + 1 <= Len(TempStem), Enter(NewTemp(suffix))
    PROVE  /\ NewTemp(suffix) \in TempName /\ NewTemp(suffix) \notin ToSet(rmlist)
           /\ rmlist' \in Seq(TempName) /\ Len(rmlist') = Len(rmlist) + 1
           /\ \A k \in DOMAIN rmlist' : rmlist'[k].base = TempStem[k]
           /\ ToSet(rmlist') = ToSet(rmlist) \cup {NewTemp(suffix)}
<1> DEFINE n == Len(rmlist)
           t == NewTemp(suffix)
<1>1. rmlist \in Seq(TempName) /\ n \in Nat /\ DOMAIN rmlist = 1 .. n
      /\ \A k \in 1 .. n : rmlist[k].base = TempStem[k]
  <2>1. rmlist \in Seq(TempName) /\ \A k \in DOMAIN rmlist : rmlist[k].base = TempStem[k]
    BY DEF NamesMade
  <2> QED
    BY <2>1, LenProperties
<1>2. Len(TempStem) \in Nat /\ DOMAIN TempStem = 1 .. Len(TempStem)
      /\ \A j, k \in DOMAIN TempStem : TempStem[j] = TempStem[k] => j = k
  BY DriverAssumption, LenProperties
<1>3. rmlist' = Append(rmlist, t)
  BY DEF Enter
<1>4. t = [dir |-> "tmp", base |-> TempStem[n + 1], suffix |-> suffix]
  BY DEF NewTemp
<1> HIDE DEF n, t
<1>5. n + 1 \in DOMAIN TempStem
  BY <1>1, <1>2 DEF n
<1>6. t \in TempName /\ t.base = TempStem[n + 1]
  BY <1>4, <1>5 DEF TempName, Stems
<1>7. t \notin ToSet(rmlist)
  <2> SUFFICES ASSUME t \in ToSet(rmlist) PROVE FALSE
    OBVIOUS
  <2>1. PICK k \in 1 .. n : t = rmlist[k]
    BY <1>1 DEF ToSet
  <2>2. TempStem[k] = TempStem[n + 1]
    BY <1>1, <1>6, <2>1
  <2>3. k \in DOMAIN TempStem /\ k # n + 1
    BY <1>1, <1>2, <1>5
  <2> QED
    BY <1>2, <1>5, <2>2, <2>3
<1>8. /\ rmlist' \in Seq(TempName) /\ Len(rmlist') = n + 1 /\ rmlist'[n + 1] = t
      /\ \A k \in 1 .. n : rmlist'[k] = rmlist[k]
  BY <1>1, <1>3, <1>6, AppendProperties DEF n
<1>9. DOMAIN rmlist' = 1 .. (n + 1)
  BY <1>8, LenProperties
<1>10. \A k \in DOMAIN rmlist' : rmlist'[k].base = TempStem[k]
  <2> SUFFICES ASSUME NEW k \in 1 .. (n + 1) PROVE rmlist'[k].base = TempStem[k]
    BY <1>9
  <2>1. k \in 1 .. n \/ k = n + 1
    BY <1>1
  <2> QED
    BY <1>1, <1>6, <1>8, <2>1
<1>11. ToSet(rmlist') = ToSet(rmlist) \cup {t}
  BY <1>1, <1>3, <1>6, ToSetAppend
<1> QED
  BY <1>6, <1>7, <1>8, <1>10, <1>11 DEF n, t

\* What starting a tool, or leaving a file be, does to everything else.
LEMMA FileStep ==
    ASSUME Preprocess \/ Compile \/ Assemble \/ KeepForLinker
    PROVE  /\ pc = "filename"
           /\ opt' = opt /\ argi' = argi /\ outfile' = outfile /\ errcnt' = errcnt
           /\ status' = status /\ disk' = disk /\ faults' = faults /\ ThisArg' = ThisArg
           /\ \/ /\ pc' = "args" /\ child' = child
                 /\ itemp' = itemp /\ stemp' = stemp /\ rmlist' = rmlist
              \/ /\ pc' = "wait" /\ current' = current
                 /\ child' = [tool |-> child'.tool, in |-> <<current.name>>, out |-> child'.out]
<1>1. /\ pc = "filename" /\ opt' = opt /\ argi' = argi /\ outfile' = outfile
      /\ errcnt' = errcnt /\ status' = status /\ disk' = disk /\ faults' = faults
  BY DEF Preprocess, Compile, Assemble, KeepForLinker
<1>2. CASE Preprocess
  BY <1>1, <1>2 DEF Preprocess, Run, ThisArg
<1>3. CASE Compile
  BY <1>1, <1>3 DEF Compile, Run, ThisArg, BackToMain
<1>4. CASE Assemble
  BY <1>1, <1>4 DEF Assemble, Run, ThisArg, BackToMain
<1>5. CASE KeepForLinker
  BY <1>1, <1>5 DEF KeepForLinker, Run, ThisArg, BackToMain, temps
<1> QED
  BY <1>2, <1>3, <1>4, <1>5

LEMMA NamesMadeStep ==
    ASSUME Names, [Next]_vars
    PROVE  NamesMade' /\ ToSet(rmlist) \subseteq ToSet(rmlist')
<1> DEFINE n == Len(rmlist)
           count == argi + (IF itemp = None THEN 0 ELSE 1) + (IF stemp = None THEN 0 ELSE 1)
<1>0. /\ TypeOK /\ NamesMade /\ n \in Nat /\ argi \in Nat /\ argi <= Len(opt.args)
      /\ Len(opt.args) \in Nat /\ Len(opt.args) + 2 <= Len(TempStem) /\ Len(TempStem) \in Nat
      /\ n + (IF InPreparation THEN 1 ELSE 0) <= count
      /\ itemp = None \/ IsTemp(itemp, "i")
      /\ stemp = None \/ IsTemp(stemp, "s")
  <2>1. TypeOK /\ NamesMade
    BY DEF Names
  <2>2. n \in Nat /\ Len(TempStem) \in Nat
    BY <2>1, DriverAssumption, LenProperties DEF NamesMade
  <2> QED
    BY <2>1, <2>2, InvocationType DEF TypeOK, NamesMade
<1> HIDE DEF n
<1>1. ASSUME rmlist' = rmlist, itemp' = itemp, stemp' = stemp,
             argi' = argi + 1 \/ (argi' = argi /\ (InPreparation' => InPreparation))
      PROVE  NamesMade' /\ ToSet(rmlist) \subseteq ToSet(rmlist')
  <2>1. argi' \in Nat
    BY <1>0, <1>1
  <2>2. n + (IF InPreparation' THEN 1 ELSE 0)
           <= argi' + (IF itemp = None THEN 0 ELSE 1) + (IF stemp = None THEN 0 ELSE 1)
    <3>1. CASE argi' = argi + 1
      BY <1>0, <3>1
    <3>2. CASE argi' = argi /\ (InPreparation' => InPreparation)
      BY <1>0, <3>2
    <3> QED
      BY <1>1, <3>1, <3>2
  <2>3. (itemp' = None \/ IsTemp(itemp, "i")') /\ (stemp' = None \/ IsTemp(stemp, "s")')
    BY <1>0, <1>1 DEF IsTemp
  <2>4. rmlist' \in Seq(TempName) /\ \A k \in DOMAIN rmlist' : rmlist'[k].base = TempStem[k]
    BY <1>0, <1>1 DEF NamesMade
  <2> QED
    BY <1>1, <2>2, <2>3, <2>4 DEF NamesMade, n
<1>2. CASE ParseOptions \/ NextArgument \/ EndOfArguments
  <2>1. rmlist' = rmlist /\ itemp' = itemp /\ stemp' = stemp
    BY <1>2 DEF ParseOptions, NextArgument, EndOfArguments, temps
  <2>2. NextArgument => argi' = argi + 1
    BY DEF NextArgument
  <2>3. ParseOptions => argi' = argi /\ ~InPreparation'
    BY DEF ParseOptions, InPreparation
  <2>4. EndOfArguments => argi' = argi /\ ~InPreparation'
    BY DEF EndOfArguments, InPreparation, Run
  <2> QED
    BY <1>1, <1>2, <2>1, <2>2, <2>3, <2>4
<1>3. CASE ToolSucceeds \/ ToolFails \/ LinkerEnds \/ RemoveTemps \/ Interrupt \/ OrphanEnds
  <2>1. rmlist' = rmlist /\ itemp' = itemp /\ stemp' = stemp /\ argi' = argi
    BY <1>3 DEF ToolSucceeds, ToolFails, LinkerEnds, RemoveTemps, Interrupt, OrphanEnds, temps
  <2>2. InPreparation' => InPreparation
    BY <1>3 DEF ToolSucceeds, ToolFails, LinkerEnds, RemoveTemps, Interrupt, OrphanEnds,
                InPreparation, BackToMain
  <2> QED
    BY <1>1, <2>1, <2>2
<1>4. CASE UNCHANGED vars
  <2>1. /\ rmlist' = rmlist /\ itemp' = itemp /\ stemp' = stemp /\ argi' = argi
        /\ pc' = pc /\ child' = child
    BY <1>4 DEF vars, temps
  <2>2. InPreparation' => InPreparation
    BY <2>1 DEF InPreparation
  <2> QED
    BY <1>1, <2>1, <2>2
<1>5. CASE KeepForLinker
  <2>1. rmlist' = rmlist /\ itemp' = itemp /\ stemp' = stemp /\ argi' = argi /\ InPreparation
    BY <1>5 DEF KeepForLinker, temps, InPreparation
  <2> QED
    BY <1>1, <2>1
\* A name has been entered.
<1>6. ASSUME NEW suffix \in {"i", "s", "o"}, Enter(NewTemp(suffix)), argi' = argi, InPreparation,
             \/ /\ suffix = "i" /\ itemp = None /\ itemp' = NewTemp("i") /\ stemp' = stemp
             \/ /\ suffix = "s" /\ stemp = None /\ stemp' = NewTemp("s") /\ itemp' = itemp
             \/ /\ suffix = "o" /\ itemp' = itemp /\ stemp' = stemp /\ ~InPreparation'
      PROVE  NamesMade' /\ ToSet(rmlist) \subseteq ToSet(rmlist')
  <2>1. n + 1 <= Len(TempStem)
    BY <1>0, <1>6
  <2>2. /\ NewTemp(suffix) \in TempName
        /\ rmlist' \in Seq(TempName) /\ Len(rmlist') = n + 1
        /\ \A k \in DOMAIN rmlist' : rmlist'[k].base = TempStem[k]
        /\ ToSet(rmlist') = ToSet(rmlist) \cup {NewTemp(suffix)}
    BY <1>0, <1>6, <2>1, NewName DEF n
  <2>3. NewTemp(suffix) # None /\ NewTemp(suffix).suffix = suffix
    BY <2>2, TempType DEF NewTemp
  <2>4. (itemp' = None \/ IsTemp(itemp, "i")') /\ (stemp' = None \/ IsTemp(stemp, "s")')
    BY <1>0, <1>6, <2>2, <2>3 DEF IsTemp
  <2>5. n + 1 + (IF InPreparation' THEN 1 ELSE 0)
           <= argi + (IF itemp' = None THEN 0 ELSE 1) + (IF stemp' = None THEN 0 ELSE 1)
    BY <1>0, <1>6, <2>3
  <2> QED
    BY <1>6, <2>2, <2>4, <2>5 DEF NamesMade
<1>7. CASE Preprocess
  <2>1. argi' = argi /\ stemp' = stemp /\ InPreparation
    BY <1>7 DEF Preprocess, InPreparation
  <2>2. CASE opt.E \/ itemp # None
    <3>1. rmlist' = rmlist /\ itemp' = itemp
      BY <1>7, <2>2 DEF Preprocess
    <3> QED
      BY <1>1, <2>1, <3>1
  <2>3. CASE ~opt.E /\ itemp = None
    <3>1. itemp' = NewTemp("i") /\ Enter(NewTemp("i"))
      BY <1>7, <2>3 DEF Preprocess
    <3> QED
      BY <1>6, <2>1, <2>3, <3>1
  <2> QED
    BY <2>2, <2>3
<1>8. CASE Compile
  <2>1. argi' = argi /\ itemp' = itemp /\ InPreparation
    BY <1>8 DEF Compile, InPreparation
  <2>2. CASE opt.E \/ opt.S \/ stemp # None
    <3>1. rmlist' = rmlist /\ stemp' = stemp
      BY <1>8, <2>2 DEF Compile
    <3> QED
      BY <1>1, <2>1, <3>1
  <2>3. CASE ~opt.E /\ ~opt.S /\ stemp = None
    <3>1. stemp' = NewTemp("s") /\ Enter(NewTemp("s"))
      BY <1>8, <2>3 DEF Compile
    <3> QED
      BY <1>6, <2>1, <2>3, <3>1
  <2> QED
    BY <2>2, <2>3
<1>9. CASE Assemble
  <2>1. argi' = argi /\ itemp' = itemp /\ stemp' = stemp /\ InPreparation
    BY <1>9 DEF Assemble, InPreparation
  <2>2. CASE opt.E \/ opt.S \/ opt.c
    <3>1. rmlist' = rmlist
      BY <1>9, <2>2 DEF Assemble
    <3> QED
      BY <1>1, <2>1, <3>1
  <2>3. CASE ~opt.E /\ ~opt.S /\ ~opt.c
    <3>1. Enter(NewTemp("o")) /\ ~InPreparation'
      BY <1>9, <2>3 DEF Assemble, ObjectFile, InPreparation, Run
    <3> QED
      BY <1>6, <2>1, <3>1
  <2> QED
    BY <2>2, <2>3
<1> QED
  BY <1>2, <1>3, <1>4, <1>5, <1>7, <1>8, <1>9 DEF Next, Main, Terminating

\* What main does with an argument.
LEMMA ArgumentStep ==
    ASSUME TypeOK, NextArgument
    PROVE  /\ argi' = argi + 1 /\ argi' \in Arguments /\ ThisArg' = opt.args[argi + 1]
           /\ ThisArg' \in Arg /\ pc = "args" /\ argi \in Nat
           /\ opt' = opt /\ outfile' = outfile /\ child' = child /\ itemp' = itemp
           /\ stemp' = stemp /\ rmlist' = rmlist /\ status' = status /\ disk' = disk
           /\ \/ /\ pc' = "args" /\ ThisArg'.suffix = "lib" /\ errcnt' = errcnt /\ faults' = faults
                 /\ llist' = IF opt.c \/ opt.S \/ opt.E THEN llist ELSE Append(llist, ThisArg')
              \/ /\ pc' = "args" /\ errcnt' = errcnt + 1 /\ faults' = faults \cup {"missing"}
                 /\ llist' = llist /\ ThisArg'.suffix # "lib"
              \/ /\ pc' = "filename" /\ ThisArg'.suffix # "lib" /\ ThisArg' \in DOMAIN disk
                 /\ current' = [name |-> ThisArg', base |-> ThisArg'.base]
                 /\ errcnt' = errcnt /\ faults' = faults /\ llist' = llist
<1>1. /\ argi' = argi + 1 /\ opt' = opt /\ outfile' = outfile /\ child' = child /\ itemp' = itemp
      /\ stemp' = stemp /\ rmlist' = rmlist /\ status' = status /\ disk' = disk
      /\ pc = "args" /\ argi < Len(opt.args)
  BY DEF NextArgument, temps
<1>2. argi \in Nat /\ argi' \in Arguments
  BY <1>1, InvocationType DEF TypeOK, Arguments
<1>3. ThisArg' = opt.args[argi + 1] /\ ThisArg' \in Arg
  BY <1>1, <1>2, InvocationType DEF ThisArg
<1> QED
  BY <1>1, <1>2, <1>3 DEF NextArgument

LEMMA CurrentFileStep ==
    ASSUME Names, [Next]_vars
    PROVE  CurrentFile'
<1>0. /\ TypeOK /\ NamesMade /\ CurrentFile /\ ToolRuns
      /\ NamesMade' /\ ToSet(rmlist) \subseteq ToSet(rmlist')
  BY NamesMadeStep DEF Names
<1>1. CASE NextArgument
  <2>1. SUFFICES ASSUME pc' = "filename" PROVE CurrentFile'
    BY <1>1, ArgumentStep, <1>0 DEF CurrentFile, InFile
  <2> DEFINE a == opt.args[argi + 1]
  <2>2. /\ argi' \in Arguments /\ opt' = opt /\ ThisArg' = a /\ a.suffix # "lib"
        /\ current' = [name |-> a, base |-> a.base]
    BY <1>0, <1>1, <2>1, ArgumentStep
  <2> HIDE DEF a
  <2>3. Arguments' = Arguments
    BY <2>2 DEF Arguments
  <2> QED
    BY <2>2, <2>3 DEF CurrentFile
<1>2. CASE Preprocess \/ Compile \/ Assemble \/ KeepForLinker
  <2>1. SUFFICES ASSUME pc' = "wait" PROVE CurrentFile'
    BY <1>2, FileStep DEF CurrentFile, InFile
  <2>2. /\ pc = "filename" /\ opt' = opt /\ argi' = argi /\ ThisArg' = ThisArg
        /\ current' = current
    BY <1>2, <2>1, FileStep
  <2>3. /\ argi \in Arguments
        /\ current = [name |-> current.name, base |-> ThisArg.base]
        /\ \/ current.name = ThisArg /\ ThisArg.suffix # "lib"
           \/ /\ ThisArg.suffix = "c" /\ ~opt.E
              /\ current.name = itemp /\ IsTemp(itemp, "i")
           \/ /\ ThisArg.suffix \in {"c", "i"} /\ ~opt.E /\ ~opt.S
              /\ current.name = stemp /\ IsTemp(stemp, "s")
    BY <1>0, <2>2 DEF CurrentFile, InFile
  <2>4. current.name = itemp /\ IsTemp(itemp, "i") => itemp' = itemp /\ IsTemp(itemp, "i")'
    <3>1. current.name.suffix = "i" => itemp' = itemp
      BY <1>2 DEF Preprocess, Compile, Assemble, KeepForLinker, temps
    <3> QED
      BY <1>0, <3>1 DEF IsTemp
  <2>5. current.name = stemp /\ IsTemp(stemp, "s") => stemp' = stemp /\ IsTemp(stemp, "s")'
    <3>1. current.name.suffix = "s" => stemp' = stemp
      BY <1>2 DEF Preprocess, Compile, Assemble, KeepForLinker, temps
    <3> QED
      BY <1>0, <3>1 DEF IsTemp
  <2>6. Arguments' = Arguments
    BY <2>2 DEF Arguments
  <2>7. CASE current.name = ThisArg /\ ThisArg.suffix # "lib"
    BY <2>2, <2>3, <2>6, <2>7 DEF CurrentFile
  <2>8. CASE ThisArg.suffix = "c" /\ ~opt.E /\ current.name = itemp /\ IsTemp(itemp, "i")
    BY <2>2, <2>3, <2>4, <2>6, <2>8 DEF CurrentFile
  <2>9. CASE ThisArg.suffix \in {"c", "i"} /\ ~opt.E /\ ~opt.S
             /\ current.name = stemp /\ IsTemp(stemp, "s")
    BY <2>2, <2>3, <2>5, <2>6, <2>9 DEF CurrentFile
  <2> QED
    BY <2>3, <2>7, <2>8, <2>9
<1>3. CASE ToolSucceeds
  <2>1. SUFFICES ASSUME pc' = "filename" PROVE CurrentFile'
    BY <1>3 DEF ToolSucceeds, BackToMain, CurrentFile, InFile
  <2>2. /\ pc = "wait" /\ child.tool \in {"cpp", "rcc"} /\ ~opt.E /\ (opt.S => child.tool = "cpp")
        /\ current' = [current EXCEPT !.name = child.out]
        /\ opt' = opt /\ argi' = argi /\ itemp' = itemp /\ stemp' = stemp /\ rmlist' = rmlist
    BY <1>3, <2>1 DEF ToolSucceeds, BackToMain, Continued, temps
  <2>3. /\ argi \in Arguments
        /\ current = [name |-> current.name, base |-> ThisArg.base]
        /\ \/ current.name = ThisArg /\ ThisArg.suffix # "lib"
           \/ ThisArg.suffix = "c" /\ IsTemp(current.name, "i")
           \/ IsTemp(current.name, "s")
    BY <1>0, <2>2 DEF CurrentFile, InFile
  <2>4. current' = [name |-> child.out, base |-> ThisArg.base]
    BY <2>2, <2>3
  <2>5. PreprocessorRuns \/ CompilerRuns
    <3>1. Busy
      BY <2>2 DEF Busy
    <3> QED
      BY <1>0, <2>2, <3>1 DEF ToolRuns, LinkerRuns, AssemblerRuns, ToStandardOutput
  <2>6. Arguments' = Arguments /\ ThisArg' = ThisArg
    BY <2>2 DEF Arguments, ThisArg
  <2>7. CASE PreprocessorRuns
    <3>1. current.name.suffix = "c" /\ child.out = itemp /\ IsTemp(itemp, "i")
      BY <2>7 DEF PreprocessorRuns
    <3>2. ThisArg.suffix = "c"
      BY <2>3, <3>1 DEF IsTemp
    <3>3. IsTemp(itemp, "i")' /\ current'.name = itemp' /\ current'.base = ThisArg'.base
      BY <2>2, <2>4, <2>6, <3>1 DEF IsTemp
    <3> QED
      BY <2>2, <2>3, <2>4, <2>6, <3>2, <3>3 DEF CurrentFile
  <2>8. CASE CompilerRuns
    <3>1. current.name.suffix = "i" /\ ~opt.S /\ child.out = stemp /\ IsTemp(stemp, "s")
      BY <2>2, <2>8 DEF CompilerRuns
    <3>2. ThisArg.suffix \in {"c", "i"}
      BY <2>3, <3>1 DEF IsTemp
    <3>3. IsTemp(stemp, "s")' /\ current'.name = stemp' /\ current'.base = ThisArg'.base
      BY <2>2, <2>4, <2>6, <3>1 DEF IsTemp
    <3> QED
      BY <2>2, <2>3, <2>4, <2>6, <3>1, <3>2, <3>3 DEF CurrentFile
  <2> QED
    BY <2>5, <2>7, <2>8
<1>4. CASE ParseOptions \/ EndOfArguments \/ ToolFails \/ LinkerEnds \/ RemoveTemps \/ Interrupt
           \/ OrphanEnds
  <2>1. ~InFile'
    BY <1>4 DEF ParseOptions, EndOfArguments, ToolFails, LinkerEnds, RemoveTemps, Interrupt,
                OrphanEnds, InFile, BackToMain, Run
  <2> QED
    BY <2>1 DEF CurrentFile
<1>5. CASE UNCHANGED vars
  BY <1>0, <1>5 DEF vars, temps, CurrentFile, InFile, ThisArg, Arguments, IsTemp
<1> QED
  BY <1>1, <1>2, <1>3, <1>4, <1>5 DEF Next, Main, Terminating

\* The tool of filename() that has run.
LEMMA ToolOfFile ==
    ASSUME Names, ToolSucceeds \/ ToolFails
    PROVE  /\ pc = "wait" /\ child.tool # "ld" /\ InFile /\ child' = None
           /\ PreprocessorRuns \/ CompilerRuns \/ AssemblerRuns \/ ToStandardOutput
           /\ opt' = opt /\ argi' = argi /\ outfile' = outfile /\ itemp' = itemp /\ stemp' = stemp
           /\ rmlist' = rmlist /\ status' = status
<1>1. /\ pc = "wait" /\ child.tool # "ld" /\ child' = None
      /\ opt' = opt /\ argi' = argi /\ outfile' = outfile /\ itemp' = itemp /\ stemp' = stemp
      /\ rmlist' = rmlist /\ status' = status
  BY DEF ToolSucceeds, ToolFails, temps
<1>2. Busy /\ InFile
  BY <1>1 DEF Busy, InFile
<1>3. ~LinkerRuns
  BY <1>1 DEF LinkerRuns
<1> QED
  BY <1>1, <1>2, <1>3 DEF Names, ToolRuns

LEMMA ListNamesStep ==
    ASSUME Names, [Next]_vars
    PROVE  ListNames'
<1>0. /\ TypeOK /\ NamesMade /\ CurrentFile /\ ListNames /\ ToolRuns
      /\ ToSet(rmlist) \subseteq ToSet(rmlist')
  BY NamesMadeStep DEF Names
<1>1. opt' = opt /\ LinkMode' = LinkMode
  <2>1. opt' = opt
    BY DEF Next, Main, vars, ParseOptions, NextArgument, EndOfArguments, Preprocess, Compile,
           Assemble, KeepForLinker, ToolSucceeds, ToolFails, LinkerEnds, RemoveTemps, Interrupt,
           OrphanEnds, Terminating
  <2> QED
    BY <2>1 DEF LinkMode
<1> SUFFICES ASSUME LinkMode PROVE ListNames'
  BY <1>1 DEF ListNames
<1>2. llist \in Seq(LinkFile) /\ ToSet(llist) \subseteq Arg \cup ToSet(rmlist)
  BY <1>0 DEF ListNames
<1>3. CASE llist' = llist
  <2>1. LinkFile' = LinkFile /\ ToSet(llist') = ToSet(llist)
    BY <1>3 DEF LinkFile
  <2> QED
    BY <1>0, <1>2, <1>3, <2>1 DEF ListNames
<1>4. ASSUME NEW f \in LinkFile, f \in Arg \/ f \in ToSet(rmlist), llist' = Append(llist, f)
      PROVE  ListNames'
  <2>1. llist' \in Seq(LinkFile)
    BY <1>2, <1>4, AppendProperties
  <2>2. ToSet(llist') = ToSet(llist) \cup {f}
    BY <1>2, <1>4, ToSetAppend
  <2> QED
    BY <1>0, <1>2, <1>4, <2>1, <2>2 DEF ListNames
<1>5. CASE NextArgument
  <2>1. SUFFICES ASSUME llist' # llist PROVE ListNames'
    BY <1>3
  <2>2. ThisArg'.suffix = "lib" /\ ThisArg' \in Arg /\ llist' = Append(llist, ThisArg')
    BY <1>0, <1>5, <2>1, ArgumentStep DEF LinkMode
  <2> DEFINE a == opt.args[argi + 1]
  <2>3. a.suffix = "lib" /\ a \in Arg /\ llist' = Append(llist, a)
    BY <1>0, <1>5, <2>2, ArgumentStep
  <2> QED
    BY <1>4, <2>3 DEF LinkFile
<1>6. CASE KeepForLinker
  <2>1. pc = "filename" /\ current.name.suffix \in {"o", "out", "other"}
        /\ (llist' = llist \/ llist' = Append(llist, current.name))
    BY <1>6 DEF KeepForLinker, Listed
  <2>2. current.name = ThisArg /\ ThisArg \in Arg
    BY <1>0, <2>1, InvocationType DEF CurrentFile, InFile, IsTemp, ThisArg
  <2>3. current.name \in LinkFile /\ current.name \in Arg
    BY <2>1, <2>2 DEF LinkFile
  <2> QED
    BY <1>3, <1>4, <2>1, <2>3
<1>7. CASE ToolSucceeds \/ ToolFails
  <2>1. llist' = llist \/ (child.tool = "as" /\ llist' = Listed(child.out))
    BY <1>7 DEF ToolSucceeds, ToolFails
  <2>2. SUFFICES ASSUME child.tool = "as", llist' = Append(llist, child.out) PROVE ListNames'
    BY <1>3, <2>1 DEF Listed
  <2>3. IsTemp(child.out, "o")
    BY <1>1, <1>7, <2>2, ToolOfFile DEF AssemblerRuns, PreprocessorRuns, CompilerRuns,
                                        ToStandardOutput, LinkMode
  <2>4. ToSet(rmlist) \subseteq TempName
    BY <1>0, ElementOfSeq DEF NamesMade, ToSet
  <2> QED
    BY <1>4, <2>2, <2>3, <2>4 DEF IsTemp, LinkFile
<1>8. CASE ParseOptions \/ EndOfArguments \/ Preprocess \/ Compile \/ Assemble \/ LinkerEnds
           \/ RemoveTemps \/ Interrupt \/ OrphanEnds \/ UNCHANGED vars
  BY <1>3, <1>8 DEF ParseOptions, EndOfArguments, Preprocess, Compile, Assemble, LinkerEnds,
                    RemoveTemps, Interrupt, OrphanEnds, vars
<1> QED
  BY <1>5, <1>6, <1>7, <1>8 DEF Next, Main, Terminating

LEMMA ToolRunsStep ==
    ASSUME Names, [Next]_vars
    PROVE  ToolRuns'
<1>0. /\ TypeOK /\ NamesMade /\ CurrentFile /\ ListNames /\ ToolRuns
      /\ NamesMade' /\ ToSet(rmlist) \subseteq ToSet(rmlist')
  BY NamesMadeStep DEF Names
<1>1. CASE ParseOptions \/ NextArgument
  <2>1. child' = child /\ child = None /\ pc' # "wait"
    BY <1>0, <1>1 DEF ParseOptions, NextArgument, ToolRuns
  <2> QED
    BY <2>1 DEF ToolRuns, Busy
<1>2. CASE EndOfArguments
  <2>1. CASE Linking
    <3>1. /\ child' = [tool |-> "ld", in |-> llist, out |-> Executable] /\ pc' = "wait"
          /\ llist' = llist /\ outfile' = outfile /\ opt' = opt /\ errcnt' = errcnt
      BY <1>2, <2>1 DEF EndOfArguments, Run
    <3>2. LinkerRuns'
      BY <2>1, <3>1 DEF LinkerRuns, Linking, LinkMode, Executable
    <3> QED
      BY <3>1, <3>2 DEF ToolRuns
  <2>2. CASE ~Linking
    <3>1. child' = child /\ child = None /\ pc' = "rm"
      BY <1>0, <1>2, <2>2 DEF EndOfArguments, ToolRuns
    <3> QED
      BY <3>1 DEF ToolRuns, Busy
  <2> QED
    BY <2>1, <2>2
<1>3. CASE ToolSucceeds \/ ToolFails \/ LinkerEnds \/ OrphanEnds
  <2>1. child' = None /\ pc' # "wait"
    BY <1>3 DEF ToolSucceeds, ToolFails, LinkerEnds, OrphanEnds, BackToMain
  <2> QED
    BY <2>1 DEF ToolRuns, Busy
<1>4. CASE RemoveTemps
  <2>1. child' = child /\ child = None /\ pc' = "exit"
    BY <1>0, <1>4 DEF RemoveTemps, ToolRuns
  <2> QED
    BY <2>1 DEF ToolRuns, Busy
<1>5. ASSUME opt' = opt, outfile' = outfile, child' = child, current' = current, llist' = llist,
             errcnt' = errcnt, itemp' = itemp, stemp' = stemp, rmlist' = rmlist,
             Busy' => Busy, pc' \notin {"wait", "exit"} => child = None
      PROVE  ToolRuns'
  <2>1. LinkerRuns' = LinkerRuns
    BY <1>5 DEF LinkerRuns, Executable, LinkMode
  <2>2. PreprocessorRuns' = PreprocessorRuns
    BY <1>5 DEF PreprocessorRuns, IsTemp
  <2>3. CompilerRuns' = CompilerRuns
    BY <1>5 DEF CompilerRuns, IsTemp, Target
  <2>4. AssemblerRuns' = AssemblerRuns
    BY <1>5 DEF AssemblerRuns, IsTemp, Target
  <2>5. ToStandardOutput' = ToStandardOutput
    BY <1>5 DEF ToStandardOutput
  <2> QED
    BY <1>0, <1>5, <2>1, <2>2, <2>3, <2>4, <2>5 DEF ToolRuns
<1>6. CASE Interrupt
  <2>1. Busy' => Busy
    BY <1>0, <1>6 DEF Interrupt, Busy, ToolRuns
  <2> QED
    BY <1>5, <1>6, <2>1 DEF Interrupt, temps
<1>7. CASE UNCHANGED vars
  <2>1. Busy' => Busy
    BY <1>7 DEF vars, Busy
  <2> QED
    BY <1>0, <1>5, <1>7, <2>1 DEF vars, temps, ToolRuns
<1>8. ASSUME pc = "filename", pc' # "wait", child' = child, pc' # "exit" PROVE ToolRuns'
  BY <1>0, <1>8 DEF ToolRuns, Busy
<1>9. CASE Preprocess
  <2>1. pc' = "wait" /\ current' = current /\ opt' = opt /\ current.name.suffix = "c"
    BY <1>9 DEF Preprocess
  <2>2. CASE opt.E
    <3>1. ToStandardOutput'
      BY <1>9, <2>1, <2>2 DEF Preprocess, Run, ToStandardOutput
    <3> QED
      BY <2>1, <3>1 DEF ToolRuns
  <2>3. CASE ~opt.E
    <3>1. child' = [tool |-> "cpp", in |-> <<current.name>>, out |-> itemp']
      BY <1>9, <2>3 DEF Preprocess, Run
    <3>2. itemp' # None
      <4>1. CASE itemp = None
        <5>1. itemp' = NewTemp("i") /\ rmlist' = Append(rmlist, itemp')
          BY <1>9, <2>3, <4>1 DEF Preprocess, Enter
        <5>2. rmlist \in Seq(TempName) /\ Len(rmlist) \in Nat
          BY <1>0, LenProperties DEF NamesMade
        <5>3. Len(rmlist') = Len(rmlist) + 1 /\ rmlist'[Len(rmlist) + 1] = itemp'
          BY <5>1, <5>2 
        <5>4. rmlist' \in Seq(TempName)
          BY <1>0 DEF NamesMade
        <5>5. itemp' \in TempName
          BY <5>2, <5>3, <5>4, ElementOfSeq
        <5> QED
          BY <5>5, TempType
      <4>2. CASE itemp # None
        BY <1>9, <2>3, <4>2 DEF Preprocess
      <4> QED
        BY <4>1, <4>2
    <3>3. IsTemp(itemp, "i")'
      BY <1>0, <3>2 DEF NamesMade
    <3>4. PreprocessorRuns'
      BY <2>1, <2>3, <3>1, <3>3 DEF PreprocessorRuns
    <3> QED
      BY <2>1, <3>4 DEF ToolRuns
  <2> QED
    BY <2>2, <2>3
<1>10. CASE Compile
  <2>1. pc = "filename" /\ opt' = opt /\ current.name.suffix = "i" /\ outfile' = outfile
    BY <1>10 DEF Compile
  <2>2. CASE opt.E
    <3>1. pc' = "args" /\ child' = child
      BY <1>10, <2>2 DEF Compile, BackToMain
    <3> QED
      BY <1>8, <2>1, <3>1
  <2>3. CASE ~opt.E /\ opt.S
    <3>1. pc' = "wait" /\ current' = current
          /\ child' = [tool |-> "rcc", in |-> <<current.name>>, out |-> Target]
      BY <1>10, <2>3 DEF Compile, Run, Target
    <3>2. Target' = Target
      BY <2>1, <3>1 DEF Target
    <3>3. CompilerRuns'
      BY <2>1, <2>3, <3>1, <3>2 DEF CompilerRuns
    <3> QED
      BY <3>1, <3>3 DEF ToolRuns
  <2>4. CASE ~opt.E /\ ~opt.S
    <3>1. child' = [tool |-> "rcc", in |-> <<current.name>>, out |-> stemp'] /\ pc' = "wait"
          /\ current' = current
      BY <1>10, <2>4 DEF Compile, Run
    <3>2. stemp' # None
      <4>1. CASE stemp = None
        <5>1. stemp' = NewTemp("s") /\ rmlist' = Append(rmlist, stemp')
          BY <1>10, <2>4, <4>1 DEF Compile, Enter
        <5>2. rmlist \in Seq(TempName) /\ Len(rmlist) \in Nat
          BY <1>0, LenProperties DEF NamesMade
        <5>3. Len(rmlist') = Len(rmlist) + 1 /\ rmlist'[Len(rmlist) + 1] = stemp'
          BY <5>1, <5>2 
        <5>4. rmlist' \in Seq(TempName)
          BY <1>0 DEF NamesMade
        <5>5. stemp' \in TempName
          BY <5>2, <5>3, <5>4, ElementOfSeq
        <5> QED
          BY <5>5, TempType
      <4>2. CASE stemp # None
        BY <1>10, <2>4, <4>2 DEF Compile
      <4> QED
        BY <4>1, <4>2
    <3>3. IsTemp(stemp, "s")'
      BY <1>0, <3>2 DEF NamesMade
    <3>4. CompilerRuns'
      BY <2>1, <2>4, <3>1, <3>3 DEF CompilerRuns
    <3> QED
      BY <3>1, <3>4 DEF ToolRuns
  <2> QED
    BY <2>2, <2>3, <2>4
<1>11. CASE Assemble
  <2>1. pc = "filename" /\ opt' = opt /\ current.name.suffix = "s" /\ outfile' = outfile
        /\ llist' = llist
    BY <1>11 DEF Assemble
  <2>2. CASE opt.E \/ opt.S
    <3>1. pc' = "args" /\ child' = child
      BY <1>11, <2>2 DEF Assemble, BackToMain
    <3> QED
      BY <1>8, <2>1, <3>1
  <2>3. CASE ~opt.E /\ ~opt.S
    <3>1. pc' = "wait" /\ current' = current
          /\ child' = [tool |-> "as", in |-> <<current.name>>, out |-> ObjectFile]
      BY <1>11, <2>3 DEF Assemble, Run
    <3>2. CASE opt.c
      <4>1. ObjectFile = Target /\ Target' = Target
        BY <2>1, <2>3, <3>1, <3>2 DEF ObjectFile, Target
      <4>2. AssemblerRuns'
        BY <2>1, <2>3, <3>1, <3>2, <4>1 DEF AssemblerRuns
      <4> QED
        BY <3>1, <4>2 DEF ToolRuns
    <3>3. CASE ~opt.c
      <4>1. ObjectFile = NewTemp("o") /\ Enter(NewTemp("o"))
        BY <1>11, <2>3, <3>3 DEF Assemble, ObjectFile
      <4>2. rmlist \in Seq(TempName) /\ Len(rmlist) \in Nat
        BY <1>0, LenProperties DEF NamesMade
      <4>3. Len(rmlist) + 1 <= Len(TempStem)
        <5>1. argi \in Nat /\ argi <= Len(opt.args) /\ Len(opt.args) \in Nat
              /\ Len(opt.args) + 2 <= Len(TempStem) /\ Len(TempStem) \in Nat
          BY <1>0, InvocationType, DriverAssumption, LenProperties DEF TypeOK
        <5>2. Len(rmlist) + 1 <= argi + (IF itemp = None THEN 0 ELSE 1)
                                      + (IF stemp = None THEN 0 ELSE 1)
          BY <1>0, <2>1 DEF NamesMade, InPreparation
        <5> QED
          BY <4>2, <5>1, <5>2
      <4>4. /\ NewTemp("o") \in TempName /\ NewTemp("o") \notin ToSet(rmlist)
            /\ ToSet(rmlist') = ToSet(rmlist) \cup {NewTemp("o")}
        BY <1>0, <4>1, <4>3, NewName
      <4>5. NewTemp("o") \notin ToSet(llist)
        <5>1. ToSet(llist) \subseteq Arg \cup ToSet(rmlist)
          BY <1>0, <2>3, <3>3 DEF ListNames, LinkMode
        <5> QED
          BY <4>4, <5>1, TempType
      <4> DEFINE t == NewTemp("o")
      <4>6. t.suffix = "o" /\ child'.out = t
        BY <3>1, <4>1 DEF NewTemp
      <4> HIDE DEF t
      <4>7. IsTemp(child.out, "o")' /\ (child.out \notin ToSet(llist))'
        BY <2>1, <4>4, <4>5, <4>6 DEF IsTemp, t
      <4>8. AssemblerRuns'
        BY <2>1, <2>3, <3>1, <3>3, <4>7 DEF AssemblerRuns
      <4> QED
        BY <3>1, <4>8 DEF ToolRuns
    <3> QED
      BY <3>2, <3>3
  <2> QED
    BY <2>2, <2>3
<1>12. CASE KeepForLinker
  <2>1. CASE opt.E /\ current.name.suffix # "o"
    <3>1. ToStandardOutput' /\ pc' = "wait"
      BY <1>12, <2>1 DEF KeepForLinker, Run, ToStandardOutput
    <3> QED
      BY <3>1 DEF ToolRuns
  <2>2. CASE ~(opt.E /\ current.name.suffix # "o")
    <3>1. pc = "filename" /\ pc' = "args" /\ child' = child
      BY <1>12, <2>2 DEF KeepForLinker, BackToMain
    <3> QED
      BY <1>8, <3>1
  <2> QED
    BY <2>1, <2>2
<1> QED
  BY <1>1, <1>2, <1>3, <1>4, <1>6, <1>7, <1>9, <1>10, <1>11, <1>12 DEF Next, Main, Terminating

LEMMA NamesStep == Names /\ [Next]_vars => Names'
<1> SUFFICES ASSUME Names, [Next]_vars PROVE Names'
  OBVIOUS
<1>1. TypeOK'
  BY TypeStep DEF Names
<1> QED
  BY <1>1, NamesMadeStep, CurrentFileStep, ListNamesStep, ToolRunsStep DEF Names

\* Only names made by tempname and the results asked for are ever written:
\* the file that filename() works on was made of its argument, the linker is
\* given arguments and objects made, and a new temporary name has never been
\* in use (tempname, filename() and llist of lcc.c).
THEOREM NamesInvariant == Spec => []Names
<1>1. Init => Names
  BY NamesInit
<1>2. Names /\ [Next]_vars => Names'
  BY NamesStep
<1> QED
  BY <1>1, <1>2, PTL DEF Spec

---------------------------------------------------------------------------
(* What is written and removed *)

\* The tool that runs writes its output file, and nothing else.
Writes ==
    /\ Busy /\ child' = None /\ child.out # None
    /\ DOMAIN disk' = DOMAIN disk \cup {child.out}
    /\ \A f \in DOMAIN disk : f # child.out => disk'[f] = disk[f]

\* lcc removes the names of rmlist, and nothing else.
Removes ==
    /\ pc # "exit" /\ pc' = "exit" /\ child' = child /\ rmlist' = rmlist
    /\ DOMAIN disk' = DOMAIN disk \ ToSet(rmlist)
    /\ \A f \in DOMAIN disk' : disk'[f] = disk[f]

LEMMA WrittenDisk ==
    ASSUME NEW c, Busy, child' = None, disk' = Written(child, c)
    PROVE  disk' = disk \/ Writes
<1>1. CASE child.out = None
  BY <1>1 DEF Written
<1>2. CASE child.out # None
  <2>1. disk' = [f \in DOMAIN disk \cup {child.out} |-> IF f = child.out THEN c ELSE disk[f]]
    BY <1>2 DEF Written
  <2> QED
    BY <1>2, <2>1 DEF Writes
<1> QED
  BY <1>1, <1>2

LEMMA DiskStep ==
    ASSUME Names, [Next]_vars
    PROVE  disk' = disk \/ Writes \/ Removes
<1>1. CASE ToolSucceeds
  BY <1>1, WrittenDisk DEF ToolSucceeds, Busy
<1>2. CASE ToolFails
  BY <1>2, WrittenDisk DEF ToolFails, Busy
<1>3. CASE LinkerEnds
  BY <1>3, WrittenDisk DEF LinkerEnds, Busy
<1>4. CASE OrphanEnds
  <2>1. Busy /\ child' = None
    BY <1>4 DEF OrphanEnds, Busy
  <2>2. disk' = disk \/ disk' = Written(child, Partial) \/ disk' = Written(child, Product(child))
    BY <1>4 DEF OrphanEnds
  <2> QED
    BY <2>1, <2>2, WrittenDisk
<1>5. CASE RemoveTemps \/ Interrupt
  <2>1. /\ disk' = [f \in DOMAIN disk \ ToSet(rmlist) |-> disk[f]]
        /\ pc # "exit" /\ pc' = "exit" /\ child' = child /\ rmlist' = rmlist
    BY <1>5 DEF RemoveTemps, Interrupt, Removed, temps
  <2> QED
    BY <2>1 DEF Removes
<1>6. CASE ParseOptions \/ NextArgument \/ EndOfArguments \/ Preprocess \/ Compile \/ Assemble
           \/ KeepForLinker \/ UNCHANGED vars
  BY <1>6 DEF ParseOptions, NextArgument, EndOfArguments, Preprocess, Compile, Assemble,
              KeepForLinker, vars
<1> QED
  BY <1>1, <1>2, <1>3, <1>4, <1>5, <1>6 DEF Next, Main, Terminating

LEMMA Temporary ==
    ASSUME Names
    PROVE  \A t \in ToSet(rmlist) : t \in TempName /\ t.dir = "tmp" /\ t \notin Arg
<1>1. \A t \in ToSet(rmlist) : t \in TempName
  BY ElementOfSeq DEF Names, NamesMade, ToSet
<1> QED
  BY <1>1, TempType

\* A tool writes a temporary file, or one that no temporary name is.
LEMMA OutputName ==
    ASSUME Names, Busy
    PROVE  /\ child.out = None \/ child.out \in ToSet(rmlist) \/ child.out.dir # "tmp"
           /\ LinkMode => child.tool = "ld" \/ child.out \in ToSet(rmlist)
           /\ child.tool = "ld" => LinkMode /\ errcnt = 0 /\ child.out = Executable
<1>1. TypeOK /\ outfile \in {None, opt.o} /\ (opt.o = None \/ opt.o.dir # "tmp")
  BY InvocationType DEF Names, TypeOK
<1>2. Target.dir # "tmp" /\ Executable.dir # "tmp"
  BY <1>1 DEF Target, Executable, Assembly, Object, AOut
<1>3. LinkerRuns \/ PreprocessorRuns \/ CompilerRuns \/ AssemblerRuns \/ ToStandardOutput
  BY DEF Names, ToolRuns
<1>4. CASE LinkerRuns
  BY <1>2, <1>4 DEF LinkerRuns
<1>5. CASE PreprocessorRuns
  BY <1>5 DEF PreprocessorRuns, IsTemp
<1>6. CASE CompilerRuns
  BY <1>2, <1>6 DEF CompilerRuns, IsTemp, LinkMode
<1>7. CASE AssemblerRuns
  BY <1>2, <1>7 DEF AssemblerRuns, IsTemp, LinkMode
<1>8. CASE ToStandardOutput
  BY <1>8 DEF ToStandardOutput, LinkMode
<1> QED
  BY <1>3, <1>4, <1>5, <1>6, <1>7, <1>8

---------------------------------------------------------------------------
(* Temporary files *)

TempFiles == {f \in DOMAIN disk : f.dir = "tmp"}

\* The temporary files there are have been entered in rmlist; after the end
\* there is one at most, which a tool left running has written.
TempsListed ==
    /\ pc # "exit" => TempFiles \subseteq ToSet(rmlist)
    /\ pc = "exit" /\ (child # None \/ "orphan" \notin faults) => TempFiles = {}
    /\ pc = "exit" /\ child # None => "orphan" \in faults
    /\ pc = "exit" => \E x : TempFiles \subseteq {x}

LEMMA TempsListedStep ==
    ASSUME Names, TempsListed, [Next]_vars
    PROVE  TempsListed'
<1>0. Names' /\ ToolRuns /\ ToSet(rmlist) \subseteq ToSet(rmlist')
  BY NamesStep, NamesMadeStep DEF Names
<1>1. CASE OrphanEnds
  <2>1. pc = "exit" /\ pc' = "exit" /\ child # None /\ child' = None /\ faults' = faults
    BY <1>1 DEF OrphanEnds
  <2>2. "orphan" \in faults /\ TempFiles = {}
    BY <2>1 DEF TempsListed
  <2>3. TempFiles' \subseteq {child.out}
    <3>1. disk' = disk \/ Writes
      BY <2>1, DiskStep DEF Removes
    <3> QED
      BY <2>2, <3>1 DEF TempFiles, Writes
  <2> QED
    BY <2>1, <2>2, <2>3 DEF TempsListed
<1>2. CASE Removes
  <2>1. TempFiles' = {}
    <3>1. TempFiles \subseteq ToSet(rmlist)
      BY <1>2 DEF Removes, TempsListed
    <3> QED
      BY <1>2, <3>1 DEF Removes, TempFiles
  <2>2. child' = child /\ pc # "exit" /\ pc' = "exit"
    BY <1>2 DEF Removes
  <2>3. child' # None => "orphan" \in faults'
    <3>1. RemoveTemps => child = None
      BY <1>0 DEF RemoveTemps, ToolRuns
    <3>2. ParseOptions => child = None
      BY <1>0 DEF ParseOptions, ToolRuns
    <3>3. Interrupt \/ RemoveTemps \/ ParseOptions
      BY <2>2 DEF Next, Main, vars, NextArgument, EndOfArguments, Preprocess, Compile, Assemble,
                  KeepForLinker, ToolSucceeds, ToolFails, LinkerEnds, OrphanEnds, Terminating,
                  BackToMain, Run
    <3> QED
      BY <2>2, <3>1, <3>2, <3>3 DEF Interrupt
  <2> QED
    BY <2>1, <2>2, <2>3 DEF TempsListed
<1>3. CASE ~OrphanEnds /\ ~Removes /\ pc' # "exit"
  <2>1. pc # "exit"
    BY <1>3 DEF Next, Main, vars, ParseOptions, NextArgument, EndOfArguments, Preprocess, Compile,
                Assemble, KeepForLinker, ToolSucceeds, ToolFails, LinkerEnds, RemoveTemps,
                Interrupt, Terminating
  <2>2. TempFiles \subseteq ToSet(rmlist)
    BY <2>1 DEF TempsListed
  <2>3. disk' = disk \/ Writes
    BY <1>3, DiskStep
  <2>4. TempFiles' \subseteq ToSet(rmlist)
    <3>1. CASE disk' = disk
      BY <2>2, <3>1 DEF TempFiles
    <3>2. CASE Writes
      <4>1. Busy /\ child.out # None /\ DOMAIN disk' = DOMAIN disk \cup {child.out}
        BY <3>2 DEF Writes
      <4>2. child.out \in ToSet(rmlist) \/ child.out.dir # "tmp"
        BY <4>1, OutputName
      <4> QED
        BY <2>2, <4>1, <4>2 DEF TempFiles
    <3> QED
      BY <2>3, <3>1, <3>2
  <2> QED
    BY <1>0, <1>3, <2>4 DEF TempsListed
<1>4. CASE ~OrphanEnds /\ ~Removes /\ pc' = "exit"
  <2>1. ParseOptions \/ UNCHANGED vars
    <3>1. RemoveTemps \/ Interrupt => Removes
      BY DEF RemoveTemps, Interrupt, Removed, temps, Removes
    <3> QED
      BY <1>4, <3>1 DEF Next, Main, NextArgument, EndOfArguments, Preprocess, Compile,
                Assemble, KeepForLinker, ToolSucceeds, ToolFails, LinkerEnds, Terminating,
                BackToMain, Run
  <2>2. CASE ParseOptions
    <3>1. disk' = Disk /\ child' = None
      BY <1>0, <2>2 DEF ParseOptions, Names, TypeOK, ToolRuns
    <3>2. TempFiles' = {}
      BY <3>1, ArgType, DriverAssumption DEF TempFiles
    <3> QED
      BY <1>4, <3>1, <3>2 DEF TempsListed
  <2>3. CASE UNCHANGED vars
    BY <2>3 DEF vars, temps, TempsListed, TempFiles
  <2> QED
    BY <2>1, <2>2, <2>3
<1> QED
  BY <1>1, <1>2, <1>3, <1>4

\* rm(rmlist) at the end of main and in interrupt() (lcc.c): however lcc
\* ends, no temporary file is left, but for the output of a tool that a
\* signal to lcc left running.
THEOREM LeavesNoTemps == Spec => []NoTempsLeft
<1>1. Init => TempsListed
  <2> SUFFICES ASSUME Init PROVE TempsListed
    OBVIOUS
  <2>1. pc = "options" /\ disk = Disk
    BY DEF Init
  <2>2. TempFiles = {}
    BY <2>1, ArgType, DriverAssumption DEF TempFiles
  <2> QED
    BY <2>1, <2>2 DEF TempsListed
<1>2. Names /\ TempsListed /\ [Next]_vars => TempsListed'
  BY TempsListedStep
<1>3. Names /\ TempsListed => NoTempsLeft
  <2> SUFFICES ASSUME Names, TempsListed, pc = "exit"
               PROVE  Cardinality(TempFiles) <= IF "orphan" \in faults THEN 1 ELSE 0
    BY DEF NoTempsLeft, TempFiles
  <2>1. CASE TempFiles = {}
    BY <2>1, FS_EmptySet
  <2>2. CASE TempFiles # {}
    <3>1. "orphan" \in faults
      BY <2>2 DEF TempsListed
    <3>2. PICK x : TempFiles \subseteq {x}
      BY DEF TempsListed
    <3>3. TempFiles = {x}
      BY <2>2, <3>2
    <3> QED
      BY <3>1, <3>3, FS_Singleton
  <2> QED
    BY <2>1, <2>2
<1> QED
  BY <1>1, <1>2, <1>3, NamesInvariant, PTL DEF Spec

---------------------------------------------------------------------------
(* Failures and the executable *)

\* What has gone wrong before the linker runs has been counted.
Blamed ==
    /\ faults \cap {"missing", "tool"} # {} => errcnt > 0
    /\ "ld" \in faults => pc \in {"rm", "exit"} /\ errcnt > 0
    /\ pc # "exit" => status = None /\ faults \subseteq {"missing", "tool", "ld"}
    /\ status \in {0, 1} => pc = "exit" /\ child = None
    /\ status = 0 => errcnt = 0

LEMMA NoneIsNoStatus == None \notin {0, 1, 8, 100}
  BY DriverAssumption

LEMMA BlamedStep ==
    ASSUME Names, Blamed, [Next]_vars
    PROVE  Blamed'
<1>0. /\ TypeOK /\ ToolRuns /\ errcnt \in Nat
      /\ pc # "exit" => status = None /\ faults \subseteq {"missing", "tool", "ld"}
      /\ (faults \cap {"missing", "tool"} # {} \/ "ld" \in faults) => errcnt > 0
  BY NoneIsNoStatus DEF Names, TypeOK, Blamed
<1>1. CASE ParseOptions
  <2>1. /\ pc = "options" /\ faults' = faults /\ faults = {}
        /\ \/ pc' = "exit" /\ status' = 8
           \/ pc' = "args" /\ status' = status
    BY <1>0, <1>1 DEF ParseOptions, TypeOK
  <2> QED
    BY <1>0, <2>1, NoneIsNoStatus DEF Blamed
<1>2. CASE NextArgument
  <2>1. /\ pc = "args" /\ pc' \in {"args", "filename"} /\ status' = status
        /\ \/ errcnt' = errcnt /\ faults' = faults
           \/ errcnt' = errcnt + 1 /\ faults' = faults \cup {"missing"}
    BY <1>0, <1>2, ArgumentStep
  <2>2. status = None /\ "ld" \notin faults
    BY <1>0, <2>1 DEF Blamed
  <2> QED
    BY <1>0, <2>1, <2>2, NoneIsNoStatus DEF Blamed
<1>3. CASE EndOfArguments \/ Preprocess \/ Compile \/ Assemble \/ KeepForLinker \/ ToolSucceeds
  <2>1. /\ pc \in {"args", "filename", "wait"} /\ pc' # "exit" /\ status' = status
        /\ errcnt' = errcnt /\ faults' = faults
    BY <1>3 DEF EndOfArguments, Preprocess, Compile, Assemble, KeepForLinker, ToolSucceeds,
                BackToMain
  <2>2. status = None /\ "ld" \notin faults
    BY <1>0, <2>1 DEF Blamed
  <2> QED
    BY <1>0, <2>1, <2>2, NoneIsNoStatus DEF Blamed
<1>4. CASE ToolFails
  <2>1. /\ pc = "wait" /\ pc' = "args" /\ status' = status
        /\ errcnt' = errcnt + 1 /\ faults' \in {faults, faults \cup {"tool"}}
    BY <1>4 DEF ToolFails, BackToMain, Counted
  <2>2. status = None /\ "ld" \notin faults
    BY <1>0, <2>1 DEF Blamed
  <2> QED
    BY <1>0, <2>1, <2>2, NoneIsNoStatus DEF Blamed
<1>5. CASE LinkerEnds
  <2>1. /\ pc = "wait" /\ pc' = "rm" /\ status' = status
        /\ \/ errcnt' = errcnt /\ faults' = faults
           \/ errcnt' = errcnt + 1 /\ faults' \in {faults, faults \cup {"ld"}}
    BY <1>5 DEF LinkerEnds, Counted
  <2>2. status = None /\ "ld" \notin faults
    BY <1>0, <2>1 DEF Blamed
  <2> QED
    BY <1>0, <2>1, <2>2, NoneIsNoStatus DEF Blamed
<1>6. CASE RemoveTemps
  <2>1. /\ pc = "rm" /\ pc' = "exit" /\ errcnt' = errcnt /\ faults' = faults
        /\ status' = (IF errcnt > 0 THEN 1 ELSE 0) /\ child' = None
    BY <1>0, <1>6 DEF RemoveTemps, ToolRuns
  <2> QED
    BY <1>0, <2>1, NoneIsNoStatus DEF Blamed
<1>7. CASE Interrupt
  <2>1. /\ pc' = "exit" /\ errcnt' = errcnt /\ status' = 100
        /\ faults' \subseteq faults \cup {"signal", "orphan"}
    BY <1>7 DEF Interrupt
  <2> QED
    BY <1>0, <2>1, NoneIsNoStatus DEF Blamed
<1>8. CASE OrphanEnds
  <2>1. /\ pc = "exit" /\ pc' = "exit" /\ errcnt' = errcnt /\ status' = status
        /\ faults' = faults /\ child' = None
    BY <1>8 DEF OrphanEnds
  <2> QED
    BY <2>1 DEF Blamed
<1>9. CASE UNCHANGED vars
  BY <1>9 DEF vars, Blamed
<1> QED
  BY <1>1, <1>2, <1>3, <1>4, <1>5, <1>6, <1>7, <1>8, <1>9 DEF Next, Main, Terminating

\* A file is what it was when lcc started.
As(f) == (f \in DOMAIN disk <=> f \in DOMAIN Disk) /\ (f \in DOMAIN Disk => disk[f] = Disk[f])

\* The executable is what it was, or the linker has run, after no error.
ExecutableKept ==
    LinkMode =>
        \/ As(Executable)
        \/ /\ pc \in {"wait", "rm", "exit"} /\ (Busy => child.tool = "ld")
           /\ faults \cap {"missing", "tool"} = {}

LEMMA AsStep ==
    ASSUME NEW f, As(f), Writes => f # child.out, Removes => f \notin ToSet(rmlist),
           disk' = disk \/ Writes \/ Removes
    PROVE  As(f)'
<1>1. CASE disk' = disk
  BY <1>1 DEF As
<1>2. CASE Writes
  BY <1>2 DEF As, Writes
<1>3. CASE Removes
  BY <1>3 DEF As, Removes
<1> QED
  BY <1>1, <1>2, <1>3

LEMMA ExecutableKeptStep ==
    ASSUME Names, Blamed, ExecutableKept, [Next]_vars
    PROVE  ExecutableKept'
<1>0. /\ TypeOK /\ ToolRuns /\ outfile \in {None, opt.o}
      /\ (opt.o = None \/ opt.o.dir # "tmp") /\ Names'
  BY InvocationType, NamesStep DEF Names, TypeOK
<1>1. opt' = opt /\ LinkMode' = LinkMode
  <2>1. opt' = opt
    BY DEF Next, Main, vars, ParseOptions, NextArgument, EndOfArguments, Preprocess, Compile,
           Assemble, KeepForLinker, ToolSucceeds, ToolFails, LinkerEnds, RemoveTemps, Interrupt,
           OrphanEnds, Terminating
  <2> QED
    BY <2>1 DEF LinkMode
<1> SUFFICES ASSUME LinkMode PROVE ExecutableKept'
  BY <1>1 DEF ExecutableKept
<1>2. CASE ParseOptions
  <2>1. disk' = Disk
    BY <1>0, <1>2 DEF ParseOptions, TypeOK
  <2> QED
    BY <2>1 DEF ExecutableKept, As
<1>3. CASE ~ParseOptions
  <2>1. outfile' = outfile /\ Executable' = Executable
    <3>1. outfile' = outfile
      BY <1>3 DEF Next, Main, vars, NextArgument, EndOfArguments, Preprocess, Compile,
             Assemble, KeepForLinker, ToolSucceeds, ToolFails, LinkerEnds, RemoveTemps, Interrupt,
             OrphanEnds, Terminating
    <3> QED
      BY <3>1 DEF Executable
  <2>2. Executable.dir # "tmp" /\ Executable \notin ToSet(rmlist)
    <3>1. Executable.dir # "tmp"
      BY <1>0 DEF Executable, AOut
    <3> QED
      BY <3>1, Temporary
  <2> DEFINE x == Executable
  <2>3. CASE As(x) /\ ~(Busy /\ child.tool = "ld")
    <3>1. Writes => x # child.out
      BY <2>2, <2>3, OutputName DEF Writes
    <3>2. As(x)'
      <4> HIDE DEF x
      <4>1. x \notin ToSet(rmlist)
        BY <2>2 DEF x
      <4>2. (As(x) /\ (Writes => x # child.out)) => \A y : y = x => As(y)'
        BY <4>1, AsStep, DiskStep
      <4>3. \A y : y = x => As(y)'
        BY <2>3, <3>1, <4>2
      <4> QED
        BY <2>1, <4>3 DEF x
    <3> QED
      BY <3>2 DEF ExecutableKept
  <2>4. CASE Busy /\ child.tool = "ld"
    <3>1. faults \cap {"missing", "tool"} = {}
      <4>1. errcnt = 0
        BY <2>4, OutputName
      <4> QED
        BY <4>1 DEF Blamed
    <3>2. LinkerEnds \/ Interrupt \/ OrphanEnds \/ UNCHANGED vars
      BY <2>4 DEF Busy, Next, Main, ParseOptions, NextArgument, EndOfArguments, Preprocess,
                  Compile, Assemble, KeepForLinker, ToolSucceeds, ToolFails, RemoveTemps,
                  Terminating
    <3>3. /\ pc' \in {"wait", "rm", "exit"} /\ faults' \cap {"missing", "tool"} = {}
          /\ child' \in {child, None} /\ (pc' \in {"wait", "exit"} /\ child' # None => child' = child)
      BY <2>4, <3>1, <3>2 DEF LinkerEnds, Interrupt, OrphanEnds, vars, Busy
    <3>4. Busy' => child'.tool = "ld"
      <4>1. pc' = "wait" => child' = child
        BY <3>2 DEF LinkerEnds, Interrupt, OrphanEnds, vars
      <4> QED
        BY <2>4, <3>3, <4>1 DEF Busy
    <3> QED
      BY <3>3, <3>4 DEF ExecutableKept
  <2>5. CASE ~As(x) /\ ~Busy
    <3>1. pc \in {"rm", "exit"} /\ faults \cap {"missing", "tool"} = {}
      BY <2>5 DEF ExecutableKept, Busy
    <3>2. child = None
      BY <1>0, <2>5, <3>1 DEF ToolRuns, Busy
    <3>3. RemoveTemps \/ Interrupt \/ UNCHANGED vars
      BY <3>1, <3>2 DEF Next, Main, ParseOptions, NextArgument, EndOfArguments, Preprocess,
                  Compile, Assemble, KeepForLinker, ToolSucceeds, ToolFails, LinkerEnds,
                  OrphanEnds, Terminating
    <3>4. /\ pc' \in {"rm", "exit"} /\ child' = None
          /\ faults' \cap {"missing", "tool"} = {}
      BY <3>1, <3>2, <3>3 DEF RemoveTemps, Interrupt, vars
    <3> QED
      BY <3>4 DEF ExecutableKept, Busy
  <2> QED
    BY <2>3, <2>4, <2>5 DEF ExecutableKept
<1> QED
  BY <1>2, <1>3

\* "errcnt == 0 && ..." before the linker runs (main of lcc.c): a missing
\* file or a failed compilation leaves the executable of an earlier run alone.
THEOREM FailureLeavesExecutable == Spec => []FailureKeepsExecutable
<1>1. Init => Blamed /\ ExecutableKept
  <2> SUFFICES ASSUME Init PROVE Blamed /\ ExecutableKept
    OBVIOUS
  <2>1. pc = "options" /\ disk = Disk /\ faults = {} /\ status = None
    BY DEF Init
  <2>2. Blamed
    BY <2>1, NoneIsNoStatus DEF Blamed
  <2>3. As(Executable)
    BY <2>1 DEF As
  <2> QED
    BY <2>2, <2>3 DEF ExecutableKept
<1>2. Names /\ Blamed /\ [Next]_vars => Blamed'
  BY BlamedStep
<1>3. Names /\ Blamed /\ ExecutableKept /\ [Next]_vars => ExecutableKept'
  BY ExecutableKeptStep
<1>4. ExecutableKept => FailureKeepsExecutable
  BY DEF ExecutableKept, FailureKeepsExecutable, As
<1> QED
  BY <1>1, <1>2, <1>3, <1>4, NamesInvariant, PTL DEF Spec

---------------------------------------------------------------------------
(* What the files hold that filename() works on *)

\* The operand of -o names no C source, and one result at most.
Operand ==
    /\ pc \notin {"options", "exit"} => opt.o = None \/ ~WouldOverwrite(opt.o)
    /\ outfile # None /\ (opt.c \/ opt.S) => NumberOfSources = 1

\* The inputs still to be read are what they were.
SourcesKept ==
    pc \notin {"rm", "exit"} =>
        /\ \A a \in Arg : a.suffix \in {"c", "i"} => As(a)
        /\ ~opt.S => \A k \in Arguments : k > argi /\ opt.args[k].suffix = "s" => As(opt.args[k])
        /\ LinkMode => \A a \in Arg : As(a)

\* The file filename() works on is there, in the form that its suffix says,
\* made of the argument.
CurrentHolds ==
    InFile /\ ~opt.E /\ faults = {} =>
        /\ current.name \in DOMAIN disk
        /\ current.name.suffix \in {"c", "i"} \/ (current.name.suffix = "s" /\ ~opt.S) =>
              disk[current.name] = Contents(current.name.suffix, <<ThisArg>>)

LEMMA OperandStep ==
    ASSUME Names, Operand, [Next]_vars
    PROVE  Operand'
<1>1. opt' = opt /\ NumberOfSources' = NumberOfSources
  <2>1. opt' = opt
    BY DEF Next, Main, vars, ParseOptions, NextArgument, EndOfArguments, Preprocess, Compile,
           Assemble, KeepForLinker, ToolSucceeds, ToolFails, LinkerEnds, RemoveTemps, Interrupt,
           OrphanEnds, Terminating
  <2> QED
    BY <2>1 DEF NumberOfSources
<1>2. CASE ParseOptions
  <2>1. outfile = None \/ outfile = opt.o
    BY DEF Names, TypeOK
  <2> QED
    BY <1>1, <1>2, <2>1 DEF ParseOptions, Operand
<1>3. CASE ~ParseOptions
  <2>1. outfile' = outfile /\ (pc' \notin {"options", "exit"} => pc \notin {"options", "exit"})
    BY <1>3 DEF Next, Main, vars, NextArgument, EndOfArguments, Preprocess, Compile,
           Assemble, KeepForLinker, ToolSucceeds, ToolFails, LinkerEnds, RemoveTemps, Interrupt,
           OrphanEnds, Terminating
  <2> QED
    BY <1>1, <2>1 DEF Operand
<1> QED
  BY <1>2, <1>3

LEMMA OneSource ==
    ASSUME TypeOK, NumberOfSources = 1, NEW j \in Arguments, NEW k \in Arguments,
           IsSource(opt.args[j]), IsSource(opt.args[k])
    PROVE  j = k
<1> DEFINE S == {i \in DOMAIN opt.args : IsSource(opt.args[i])}
<1>1. DOMAIN opt.args = Arguments /\ Len(opt.args) \in Nat
  BY InvocationType
<1>2. IsFiniteSet(S)
  <2>1. IsFiniteSet(Arguments)
    BY <1>1, FS_Interval DEF Arguments
  <2> QED
    BY <1>1, <2>1, FS_Subset
<1>3. Cardinality(S) = 1
  BY DEF NumberOfSources
<1>4. j \in S /\ k \in S
  BY <1>1
<1> HIDE DEF S
<1>5. PICK x : S = {x}
  BY <1>2, <1>3, FS_Singleton
<1> QED
  BY <1>4, <1>5

\* What a tool writes is no source that is still to be read.
LEMMA OutputNoSource ==
    ASSUME Names, Operand, pc = "wait", child.tool # "ld", child.out # None,
           NEW a \in Arg,
           \/ a.suffix \in {"c", "i"}
           \/ LinkMode
           \/ ~opt.S /\ a.suffix = "s" /\ \E k \in Arguments : k > argi /\ opt.args[k] = a
    PROVE  child.out # a
<1>1. TypeOK /\ Busy /\ InFile /\ CurrentFile /\ (\A t \in ToSet(rmlist) : t \notin Arg)
  BY Temporary DEF Names, Busy, InFile
<1>2. outfile # None => outfile.suffix \notin {"c", "i"}
  BY <1>1 DEF Operand, WouldOverwrite, TypeOK
<1>3. Target.suffix \notin {"c", "i"}
  BY <1>2 DEF Target, Assembly, Object
<1>4. PreprocessorRuns \/ CompilerRuns \/ AssemblerRuns
  BY <1>1 DEF Names, ToolRuns, LinkerRuns, ToStandardOutput
<1>5. SUFFICES ASSUME child.out \notin ToSet(rmlist) PROVE child.out # a
  BY <1>1
<1>6. CASE PreprocessorRuns
  BY <1>5, <1>6 DEF PreprocessorRuns, IsTemp
<1>7. CASE CompilerRuns
  BY <1>3, <1>5, <1>7 DEF CompilerRuns, IsTemp, LinkMode
<1>8. CASE AssemblerRuns
  <2>1. opt.c /\ ~opt.S /\ child.out = Target /\ current.name.suffix = "s"
    BY <1>5, <1>8 DEF AssemblerRuns, IsTemp
  <2>2. CASE a.suffix \in {"c", "i"}
    BY <1>3, <2>1, <2>2
  <2>3. CASE a.suffix = "s" /\ \E k \in Arguments : k > argi /\ opt.args[k] = a
    <3>1. PICK k \in Arguments : k > argi /\ opt.args[k] = a
      BY <2>3
    <3>2. argi \in Arguments /\ IsSource(opt.args[argi])
      BY <1>1, <2>1 DEF CurrentFile, IsTemp, IsSource, ThisArg
    <3>3. outfile = None
      <4>1. NumberOfSources # 1
        BY <1>1, <2>3, <3>1, <3>2, OneSource DEF IsSource, Arguments
      <4> QED
        BY <2>1, <4>1 DEF Operand
    <3> QED
      BY <2>1, <2>3, <3>3 DEF Target, Object
  <2> QED
    BY <2>1, <2>2, <2>3 DEF LinkMode
<1> QED
  BY <1>4, <1>6, <1>7, <1>8

LEMMA SourcesKeptStep ==
    ASSUME Names, Operand, SourcesKept, [Next]_vars
    PROVE  SourcesKept'
<1> SUFFICES ASSUME pc' \notin {"rm", "exit"} PROVE SourcesKept'
  BY DEF SourcesKept
<1>1. /\ pc \notin {"rm", "exit"} /\ opt' = opt /\ ~Removes
      /\ argi' = argi \/ argi' = argi + 1
  BY DEF Next, Main, vars, ParseOptions, NextArgument, EndOfArguments, Preprocess, Compile,
         Assemble, KeepForLinker, ToolSucceeds, ToolFails, LinkerEnds, RemoveTemps, Interrupt,
         OrphanEnds, Terminating, Removes
<1>2. TypeOK /\ argi \in Nat /\ (\A k \in Arguments : opt.args[k] \in Arg)
  BY InvocationType DEF Names, TypeOK
<1>3. disk' # disk => Writes /\ pc = "wait" /\ child.tool # "ld" /\ child.out # None
  <2> SUFFICES ASSUME disk' # disk PROVE Writes /\ pc = "wait" /\ child.tool # "ld" /\ child.out # None
    OBVIOUS
  <2>1. Writes
    BY <1>1, DiskStep
  <2>2. ToolSucceeds \/ ToolFails
    BY <1>1, <2>1 DEF Writes, Busy, Next, Main, vars, ParseOptions, NextArgument, EndOfArguments,
         Preprocess, Compile, Assemble, KeepForLinker, LinkerEnds, RemoveTemps, Interrupt,
         OrphanEnds, Terminating
  <2> QED
    BY <2>1, <2>2 DEF ToolSucceeds, ToolFails, Writes
<1>5. ASSUME NEW a \in Arg, As(a),
             \/ a.suffix \in {"c", "i"}
             \/ LinkMode
             \/ ~opt.S /\ a.suffix = "s" /\ \E k \in Arguments : k > argi /\ opt.args[k] = a
      PROVE  As(a)'
  <2>1. CASE disk' = disk
    BY <1>5, <2>1 DEF As
  <2>2. CASE disk' # disk
    <3>1. a # child.out
      BY <1>3, <1>5, <2>2, OutputNoSource
    <3> QED
      BY <1>1, <1>3, <1>5, <2>2, <3>1, AsStep
  <2> QED
    BY <2>1, <2>2
<1>6. \A a \in Arg : a.suffix \in {"c", "i"} => As(a)'
  BY <1>1, <1>5 DEF SourcesKept
<1>7. ~opt.S => \A k \in Arguments : k > argi' /\ opt.args[k].suffix = "s" => As(opt.args[k])'
  <2> SUFFICES ASSUME ~opt.S, NEW k \in Arguments, k > argi', opt.args[k].suffix = "s"
               PROVE  As(opt.args[k])'
    OBVIOUS
  <2>1. k > argi
    BY <1>1, <1>2 DEF Arguments
  <2>2. opt.args[k] \in Arg /\ As(opt.args[k])
    BY <1>1, <1>2, <2>1 DEF SourcesKept
  <2> DEFINE a == opt.args[k]
  <2>3. \A b \in Arg : b = a => As(b)'
    BY <1>5, <2>1, <2>2
  <2>4. As(a)'
    <3>1. a' = a
      BY <1>1
    <3> QED
      BY <2>2, <2>3, <3>1
  <2> QED
    BY <2>4
<1>8. LinkMode => \A a \in Arg : As(a)'
  BY <1>1, <1>5 DEF SourcesKept
<1>9. LinkMode' = LinkMode /\ Arguments' = Arguments
  BY <1>1 DEF LinkMode, Arguments
<1> QED
  BY <1>1, <1>6, <1>7, <1>8, <1>9 DEF SourcesKept

\* A tool that runs on what its input should be does its work.
LEMMA Works ==
    ASSUME Names, CurrentHolds, pc = "wait", child.tool # "ld", ~opt.E, faults = {}
    PROVE  /\ Succeeds(child) /\ child.tool \in {"cpp", "rcc", "as"} /\ child.out # None
           /\ Product(child) = Contents(NextForm(child.tool), <<ThisArg>>)
           /\ PreprocessorRuns \/ CompilerRuns \/ AssemblerRuns
           /\ ThisArg \in Arg /\ argi \in Arguments
<1>1. TypeOK /\ Busy /\ InFile /\ CurrentFile /\ ToolRuns /\ (\A t \in ToSet(rmlist) : t # None)
  BY Temporary, TempType DEF Names, Busy, InFile
<1>2. PreprocessorRuns \/ CompilerRuns \/ AssemblerRuns
  BY <1>1 DEF ToolRuns, LinkerRuns, ToStandardOutput
<1>3. ThisArg \in Arg /\ argi \in Arguments
  BY <1>1, InvocationType DEF ThisArg, CurrentFile
<1>4. child.out # None
  <2>1. Target # None
    <3>1. current.base = ThisArg.base
      BY <1>1 DEF CurrentFile
    <3>2. Assembly(current.base) \in Made /\ Object(current.base) \in Made
      BY <1>3, <3>1 DEF Assembly, Object, Made
    <3> QED
      BY <3>2, DriverAssumption DEF Target
  <2> QED
    BY <1>1, <1>2, <2>1 DEF PreprocessorRuns, CompilerRuns, AssemblerRuns, IsTemp
<1>5. child.tool \in {"cpp", "rcc", "as"} /\ child.in = <<current.name>>
      /\ current.name.suffix = Form(child.tool) /\ (child.tool = "as" => ~opt.S)
  BY <1>2 DEF PreprocessorRuns, CompilerRuns, AssemblerRuns, Form
<1>6. /\ current.name \in DOMAIN disk
      /\ disk[current.name] = Contents(Form(child.tool), <<ThisArg>>)
      /\ current.name.suffix # "lib"
  BY <1>1, <1>5 DEF CurrentHolds, Form
<1>7. disk[current.name].form = Form(child.tool) /\ Origin(current.name) = <<ThisArg>>
  BY <1>6 DEF Contents, Origin
<1>8. child.in[1] = current.name /\ child.tool # "ld"
  BY <1>5
<1>9. Product(child) = Contents(NextForm(child.tool), <<ThisArg>>)
  BY <1>6, <1>7, <1>8 DEF Product
<1>10. Product(child) # None
  <2>1. NextForm(child.tool) \in Forms
    BY <1>5 DEF NextForm, Forms
  <2>2. <<ThisArg>> \in Seq(Arg)
    BY <1>3
  <2>3. Product(child) \in [form : Forms, of : Seq(Arg)]
    BY <1>9, <2>1, <2>2 DEF Contents
  <2> QED
    BY <2>3, DriverAssumption
<1> QED
  BY <1>2, <1>3, <1>4, <1>5, <1>9, <1>10 DEF Succeeds, Accepts

\* What an input holds that is what it was.
LEMMA AsGiven ==
    ASSUME NEW a \in Arg, As(a), a \in DOMAIN disk
    PROVE  disk[a] = Contents(FormOf(a), <<a>>)
<1>1. a \in DOMAIN Disk /\ disk[a] = Disk[a]
  BY DEF As
<1> QED
  BY <1>1, DriverAssumption

LEMMA CurrentHoldsStep ==
    ASSUME Names, Operand, SourcesKept, CurrentHolds, [Next]_vars
    PROVE  CurrentHolds'
<1>1. TypeOK /\ (\A k \in Arguments : opt.args[k] \in Arg)
  BY InvocationType DEF Names
<1>2. CASE NextArgument
  <2>1. SUFFICES ASSUME pc' = "filename" PROVE CurrentHolds'
    BY <1>1, <1>2, ArgumentStep DEF CurrentHolds, InFile
  <2> DEFINE a == opt.args[argi + 1]
  <2>2. /\ argi + 1 \in Arguments /\ opt' = opt /\ ThisArg' = a /\ a \in Arg /\ a \in DOMAIN disk
        /\ current' = [name |-> a, base |-> a.base] /\ disk' = disk /\ pc = "args"
        /\ argi \in Nat
    BY <1>1, <1>2, <2>1, ArgumentStep
  <2>3. argi + 1 > argi
    BY <2>2
  <2>4. a.suffix \in {"c", "i"} \/ (a.suffix = "s" /\ ~opt.S) => As(a)
    <3>1. a.suffix = "s" /\ ~opt.S => As(a)
      BY <2>2, <2>3 DEF SourcesKept
    <3> QED
      BY <2>2, <3>1 DEF SourcesKept
  <2> HIDE DEF a
  <2>5. a.suffix \in {"c", "i"} \/ (a.suffix = "s" /\ ~opt.S) =>
           disk[a] = Contents(a.suffix, <<a>>)
    BY <2>2, <2>4, AsGiven DEF FormOf
  <2>6. current'.name = a
    BY <2>2
  <2> QED
    BY <2>2, <2>5, <2>6 DEF CurrentHolds
<1>3. CASE Preprocess \/ Compile \/ Assemble \/ KeepForLinker
  <2>1. SUFFICES ASSUME pc' = "wait" PROVE CurrentHolds'
    BY <1>3, FileStep DEF CurrentHolds, InFile
  <2>2. /\ pc = "filename" /\ opt' = opt /\ ThisArg' = ThisArg /\ current' = current
        /\ disk' = disk /\ faults' = faults
    BY <1>3, <2>1, FileStep
  <2> QED
    BY <2>2 DEF CurrentHolds, InFile
<1>4. CASE ToolSucceeds
  <2>1. SUFFICES ASSUME pc' = "filename", ~opt.E, faults = {} PROVE CurrentHolds'
    BY <1>4 DEF ToolSucceeds, BackToMain, CurrentHolds, InFile
  <2>2. /\ pc = "wait" /\ child.tool \in {"cpp", "rcc"} /\ (opt.S => child.tool = "cpp")
        /\ child.tool # "ld"
        /\ current' = [current EXCEPT !.name = child.out]
        /\ disk' = Written(child, Product(child))
        /\ opt' = opt /\ argi' = argi
    BY <1>4, <2>1 DEF ToolSucceeds, BackToMain, Continued
  <2>3. current = [name |-> current.name, base |-> ThisArg.base] /\ ThisArg' = ThisArg
    BY <2>2 DEF Names, CurrentFile, InFile, ThisArg
  <2>4. current'.name = child.out
    BY <2>2, <2>3
  <2>5. /\ child.out # None
        /\ PreprocessorRuns \/ CompilerRuns
        /\ Product(child) = Contents(NextForm(child.tool), <<ThisArg>>)
    BY <2>1, <2>2, Works DEF AssemblerRuns
  <2>6. child.out \in DOMAIN disk' /\ disk'[child.out] = Product(child)
    <3>1. disk' = [f \in DOMAIN disk \cup {child.out} |->
                      IF f = child.out THEN Product(child) ELSE disk[f]]
      BY <2>2, <2>5 DEF Written
    <3> QED
      BY <3>1
  <2>7. child.out.suffix = NextForm(child.tool)
    BY <2>2, <2>5 DEF PreprocessorRuns, CompilerRuns, IsTemp, NextForm
  <2>8. disk'[current'.name] = Contents(current'.name.suffix, <<ThisArg>>)
    BY <2>4, <2>5, <2>6, <2>7
  <2> QED
    BY <2>2, <2>3, <2>4, <2>6, <2>8 DEF CurrentHolds
<1>5. CASE ParseOptions \/ EndOfArguments \/ ToolFails \/ LinkerEnds \/ RemoveTemps \/ Interrupt
           \/ OrphanEnds
  <2>1. ~InFile'
    BY <1>5 DEF ParseOptions, EndOfArguments, ToolFails, LinkerEnds, RemoveTemps, Interrupt,
                OrphanEnds, InFile, BackToMain, Run
  <2> QED
    BY <2>1 DEF CurrentHolds
<1>6. CASE UNCHANGED vars
  BY <1>6 DEF vars, CurrentHolds, InFile, ThisArg
<1> QED
  BY <1>2, <1>3, <1>4, <1>5, <1>6 DEF Next, Main, Terminating

---------------------------------------------------------------------------
(* What the linker is given *)

\* Its files are objects, each made of arguments.
GoodObject(f) == IsObject(f) /\ Origin(f) \in Seq(Arg)
ListHolds ==
    LinkMode /\ faults = {} /\ pc \notin {"rm", "exit"} =>
        \A f \in ToSet(llist) : GoodObject(f)

LEMMA ListHoldsStep ==
    ASSUME Names, Operand, SourcesKept, CurrentHolds, ListHolds, Blamed, [Next]_vars
    PROVE  ListHolds'
<1> SUFFICES ASSUME LinkMode', faults' = {}, pc' \notin {"rm", "exit"} PROVE ListHolds'
  BY DEF ListHolds
<1>1. /\ pc \notin {"rm", "exit"} /\ opt' = opt /\ faults = {}
  BY DEF Next, Main, vars, ParseOptions, NextArgument, EndOfArguments, Preprocess, Compile,
         Assemble, KeepForLinker, ToolSucceeds, ToolFails, LinkerEnds, RemoveTemps, Interrupt,
         OrphanEnds, Terminating
<1>2. LinkMode /\ TypeOK /\ CurrentFile /\ (\A k \in Arguments : opt.args[k] \in Arg)
  BY <1>1, InvocationType DEF LinkMode, Names
<1>3. /\ llist \in Seq(LinkFile) /\ \A f \in ToSet(llist) : GoodObject(f) /\ f \in LinkFile
  <2>1. llist \in Seq(LinkFile)
    BY <1>2 DEF Names, ListNames
  <2> QED
    BY <1>1, <1>2, <2>1, ElementOfSeq DEF ListHolds, ToSet
<1>4. ASSUME disk' = disk, llist' = llist
      PROVE  ListHolds'
  <2>1. \A f : GoodObject(f)' <=> GoodObject(f)
    BY <1>4 DEF GoodObject, IsObject, Origin
  <2> QED
    BY <1>3, <1>4, <2>1 DEF ListHolds
<1>5. ASSUME NEW f \in LinkFile, GoodObject(f), disk' = disk, llist' \in {llist, Append(llist, f)}
      PROVE  ListHolds'
  <2>1. \A g : GoodObject(g)' <=> GoodObject(g)
    BY <1>5 DEF GoodObject, IsObject, Origin
  <2>2. ToSet(llist') \subseteq ToSet(llist) \cup {f}
    BY <1>3, <1>5, ToSetAppend
  <2> QED
    BY <1>3, <1>5, <2>1, <2>2 DEF ListHolds
<1>6. CASE NextArgument
  <2> DEFINE a == opt.args[argi + 1]
  <2>1. llist' = llist \/ (llist' = Append(llist, a) /\ a.suffix = "lib" /\ a \in Arg)
    BY <1>2, <1>6, ArgumentStep
  <2>2. disk' = disk
    BY <1>6 DEF NextArgument
  <2>3. CASE a.suffix = "lib" /\ a \in Arg /\ llist' = Append(llist, a)
    <3>1. GoodObject(a) /\ a \in LinkFile
      BY <2>3 DEF GoodObject, IsObject, Origin, LinkFile
    <3> QED
      BY <1>5, <2>2, <2>3, <3>1
  <2> QED
    BY <1>4, <2>1, <2>2, <2>3
<1>7. CASE KeepForLinker
  <2>1. /\ pc = "filename" /\ current.name.suffix \in {"o", "out", "other"} /\ disk' = disk
        /\ llist' \in {llist, Append(llist, current.name)}
    BY <1>7 DEF KeepForLinker, Listed
  <2>2. current.name = ThisArg /\ ThisArg \in Arg
    BY <1>2, <2>1 DEF CurrentFile, InFile, IsTemp, ThisArg
  <2>3. ThisArg \in DOMAIN disk /\ As(ThisArg)
    BY <1>1, <1>2, <2>1, <2>2 DEF CurrentHolds, SourcesKept, InFile, LinkMode
  <2>4. disk[ThisArg] = Contents("o", <<ThisArg>>)
    BY <2>1, <2>2, <2>3, AsGiven DEF FormOf
  <2>5. GoodObject(current.name) /\ current.name \in LinkFile
    BY <2>1, <2>2, <2>3, <2>4 DEF GoodObject, IsObject, Origin, Contents, LinkFile
  <2> QED
    BY <1>5, <2>1, <2>5
<1>8. CASE ToolSucceeds
  <2>1. /\ pc = "wait" /\ child.tool # "ld" /\ disk' = Written(child, Product(child))
        /\ llist' = llist \/ (child.tool = "as" /\ llist' = Listed(child.out))
    BY <1>8 DEF ToolSucceeds
  <2>2. /\ child.tool \in {"cpp", "rcc", "as"} /\ child.out # None
        /\ Product(child) = Contents(NextForm(child.tool), <<ThisArg>>)
        /\ PreprocessorRuns \/ CompilerRuns \/ AssemblerRuns
        /\ ThisArg \in Arg
    BY <1>1, <1>2, <2>1, Works DEF LinkMode
  <2>3. child.out \notin ToSet(llist)
    <3>1. \A f \in ToSet(llist) : f.suffix \notin {"c", "i", "s"}
      BY <1>3 DEF LinkFile
    <3> QED
      BY <1>2, <2>2, <3>1 DEF PreprocessorRuns, CompilerRuns, AssemblerRuns, IsTemp, LinkMode
  <2>4. disk' = [f \in DOMAIN disk \cup {child.out} |->
                    IF f = child.out THEN Product(child) ELSE disk[f]]
    BY <2>1, <2>2 DEF Written
  <2>5. \A f \in ToSet(llist) : GoodObject(f)'
    BY <1>3, <2>3, <2>4 DEF GoodObject, IsObject, Origin
  <2>6. CASE llist' = llist
    BY <2>5, <2>6 DEF ListHolds
  <2>7. CASE child.tool = "as" /\ llist' = Append(llist, child.out)
    <3>1. child.out \in LinkFile /\ child.out.suffix = "o"
      <4>1. IsTemp(child.out, "o")
        BY <1>2, <2>2, <2>7 DEF PreprocessorRuns, CompilerRuns, AssemblerRuns, LinkMode
      <4>2. child.out \in TempName /\ child.out.suffix = "o"
        BY <4>1, Temporary DEF IsTemp
      <4> QED
        BY <4>2 DEF LinkFile
    <3>2. ToSet(llist') = ToSet(llist) \cup {child.out}
      BY <1>3, <2>7, <3>1, ToSetAppend
    <3>3. \A f : f = child.out => GoodObject(f)'
      <4>1. Product(child) = Contents("o", <<ThisArg>>)
        BY <2>2, <2>7 DEF NextForm
      <4> QED
        <5>1. child.out \in DOMAIN disk' /\ disk'[child.out] = [form |-> "o", of |-> <<ThisArg>>]
          BY <2>4, <4>1 DEF Contents
        <5>2. <<ThisArg>> \in Seq(Arg)
          BY <2>2
        <5>3. disk'[child.out].form = "o" /\ disk'[child.out].of \in Seq(Arg)
          BY <5>1, <5>2
        <5> QED
          BY <3>1, <5>1, <5>3 DEF GoodObject, IsObject, Origin
    <3> QED
      BY <2>5, <3>2, <3>3 DEF ListHolds
  <2> QED
    BY <2>1, <2>6, <2>7 DEF Listed
<1>9. CASE ToolFails
  <2>1. pc = "wait" /\ child.tool # "ld" /\ ~Succeeds(child)
    BY <1>9 DEF ToolFails
  <2> QED
    BY <1>1, <1>2, <2>1, Works DEF LinkMode
<1>10. CASE ParseOptions \/ EndOfArguments \/ Preprocess \/ Compile \/ Assemble \/ UNCHANGED vars
  BY <1>4, <1>10 DEF ParseOptions, EndOfArguments, Preprocess, Compile, Assemble, vars
<1>11. ~LinkerEnds /\ ~RemoveTemps /\ ~Interrupt /\ ~OrphanEnds
  BY DEF LinkerEnds, RemoveTemps, Interrupt, OrphanEnds
<1> QED
  BY <1>6, <1>7, <1>8, <1>9, <1>10, <1>11 DEF Next, Main, Terminating

\* The linker does its work if nothing has gone wrong.
LEMMA LinkerWorks ==
    ASSUME Names, ListHolds, pc = "wait", child.tool = "ld", faults = {}
    PROVE  /\ Succeeds(child) /\ child.out = Executable /\ child.out # None
           /\ [k \in DOMAIN llist |-> Origin(llist[k])] \in Seq(Seq(Arg))
           /\ Product(child) =
                 Contents("exe", FlattenSeq([k \in DOMAIN llist |-> Origin(llist[k])]))
<1> DEFINE origins == [k \in DOMAIN llist |-> Origin(llist[k])]
<1>1. child = [tool |-> "ld", in |-> llist, out |-> Executable] /\ LinkMode
  <2>1. Busy
    BY DEF Busy
  <2> QED
    BY <2>1 DEF Names, ToolRuns, LinkerRuns, PreprocessorRuns, CompilerRuns, AssemblerRuns,
                ToStandardOutput
<1>2. llist \in Seq(LinkFile) /\ DOMAIN llist = 1 .. Len(llist) /\ Len(llist) \in Nat
  BY <1>1, LenProperties DEF Names, ListNames
<1>3. \A k \in DOMAIN llist : IsObject(llist[k]) /\ Origin(llist[k]) \in Seq(Arg)
  BY <1>1 DEF ListHolds, ToSet, GoodObject
<1>4. origins \in Seq(Seq(Arg))
  BY <1>2, <1>3, SeqDef
<1>5. FlattenSeq(origins) \in Seq(Arg)
  <2> HIDE DEF origins
  <2>1. << >> \in Seq(Arg)
    OBVIOUS
  <2> QED
    BY <1>4, <2>1, Flatten
<1>6. child.in = llist /\ child.tool = "ld" /\ child.out = Executable
  BY <1>1
<1>7. Product(child) = Contents("exe", FlattenSeq(origins))
  BY <1>3, <1>6 DEF Product
<1>8. Product(child) # None
  <2>1. "exe" \in Forms
    BY DEF Forms
  <2>2. Product(child) \in [form : Forms, of : Seq(Arg)]
    BY <1>5, <1>7, <2>1 DEF Contents
  <2> QED
    BY <2>2, DriverAssumption
<1>9. Executable # None
  <2>1. AOut \in Made
    BY DEF AOut, Made
  <2> QED
    BY <2>1, DriverAssumption DEF Executable
<1> QED
  BY <1>4, <1>6, <1>7, <1>8, <1>9 DEF Succeeds, Accepts

---------------------------------------------------------------------------
(* The exit status *)

\* Every error counted is a fault: no tool fails on what lcc gives it.
Honest ==
    /\ pc # "exit" \/ status \in {0, 1} =>
          /\ faults \subseteq {"missing", "tool", "ld"}
          /\ ~opt.E /\ errcnt > 0 => faults # {}
    /\ status = 1 => errcnt > 0

LEMMA HonestStep ==
    ASSUME Names, Blamed, CurrentHolds, ListHolds, Honest, [Next]_vars
    PROVE  Honest'
<1>1. /\ TypeOK /\ errcnt \in Nat
      /\ pc # "exit" => status = None /\ faults \subseteq {"missing", "tool", "ld"}
      /\ pc # "exit" /\ ~opt.E /\ errcnt > 0 => faults # {}
  BY DEF Names, TypeOK, Blamed, Honest
<1>2. opt' = opt
  BY DEF Next, Main, vars, ParseOptions, NextArgument, EndOfArguments, Preprocess, Compile,
         Assemble, KeepForLinker, ToolSucceeds, ToolFails, LinkerEnds, RemoveTemps, Interrupt,
         OrphanEnds, Terminating
<1>3. CASE ToolFails
  <2>1. /\ pc = "wait" /\ child.tool # "ld" /\ status' = status /\ pc' = "args"
        /\ faults' = IF Succeeds(child) THEN faults \cup {"tool"} ELSE faults
    BY <1>3 DEF ToolFails, BackToMain
  <2>2. ~opt.E => faults' # {}
    BY <2>1, Works
  <2> QED
    BY <1>1, <1>2, <2>1, <2>2, NoneIsNoStatus DEF Honest
<1>4. CASE LinkerEnds
  <2>1. /\ pc = "wait" /\ child.tool = "ld" /\ status' = status /\ pc' = "rm"
        /\ \/ errcnt' = errcnt /\ faults' = faults
           \/ faults' = IF Succeeds(child) THEN faults \cup {"ld"} ELSE faults
    BY <1>4 DEF LinkerEnds
  <2>2. errcnt' # errcnt => faults' # {}
    BY <2>1, LinkerWorks
  <2> QED
    BY <1>1, <1>2, <2>1, <2>2, NoneIsNoStatus DEF Honest
<1>5. CASE NextArgument
  <2>1. /\ pc = "args" /\ pc' # "exit" /\ status' = status
        /\ \/ errcnt' = errcnt /\ faults' = faults
           \/ faults' = faults \cup {"missing"}
    BY <1>1, <1>5, ArgumentStep
  <2> QED
    BY <1>1, <1>2, <2>1, NoneIsNoStatus DEF Honest
<1>6. CASE EndOfArguments \/ Preprocess \/ Compile \/ Assemble \/ KeepForLinker \/ ToolSucceeds
  <2>1. /\ pc # "exit" /\ pc' # "exit" /\ status' = status /\ errcnt' = errcnt /\ faults' = faults
    BY <1>6 DEF EndOfArguments, Preprocess, Compile, Assemble, KeepForLinker, ToolSucceeds,
                BackToMain
  <2> QED
    BY <1>1, <1>2, <2>1, NoneIsNoStatus DEF Honest
<1>7. CASE ParseOptions
  <2>1. /\ pc = "options" /\ errcnt' = errcnt /\ faults' = faults
        /\ \/ pc' = "exit" /\ status' = 8
           \/ pc' = "args" /\ status' = status
    BY <1>7 DEF ParseOptions
  <2> QED
    BY <1>1, <1>2, <2>1, NoneIsNoStatus DEF Honest
<1>8. CASE RemoveTemps
  <2>1. /\ pc = "rm" /\ errcnt' = errcnt /\ faults' = faults
        /\ status' = IF errcnt > 0 THEN 1 ELSE 0
    BY <1>8 DEF RemoveTemps
  <2> QED
    BY <1>1, <1>2, <2>1 DEF Honest
<1>9. CASE Interrupt
  <2>1. pc' = "exit" /\ status' = 100
    BY <1>9 DEF Interrupt
  <2> QED
    BY <2>1 DEF Honest
<1>10. CASE OrphanEnds \/ UNCHANGED vars
  <2>1. pc' = pc /\ status' = status /\ errcnt' = errcnt /\ faults' = faults
    BY <1>10 DEF OrphanEnds, vars
  <2> QED
    BY <1>2, <2>1 DEF Honest
<1> QED
  BY <1>3, <1>4, <1>5, <1>6, <1>7, <1>8, <1>9, <1>10 DEF Next, Main, Terminating

\* What filename() works on and what the linker is given, in the whole.
Inputs == Names /\ Blamed /\ Operand /\ SourcesKept /\ CurrentHolds /\ ListHolds

LEMMA InputsInit == Init => Inputs
<1> SUFFICES ASSUME Init PROVE Inputs
  OBVIOUS
<1>1. /\ pc = "options" /\ disk = Disk /\ faults = {} /\ status = None /\ outfile = None
      /\ llist = << >> /\ argi = 0
  BY DEF Init
<1>2. ToSet(llist) = {} /\ \A f : As(f)
  BY <1>1 DEF ToSet, As
<1>3. Blamed /\ Operand /\ CurrentHolds
  BY <1>1, NoneIsNoStatus DEF Blamed, Operand, CurrentHolds, InFile
<1>4. SourcesKept /\ ListHolds
  BY <1>2 DEF SourcesKept, ListHolds
<1> QED
  BY <1>3, <1>4, NamesInit DEF Inputs

LEMMA InputsStep == Inputs /\ [Next]_vars => Inputs'
<1> SUFFICES ASSUME Inputs, [Next]_vars PROVE Inputs'
  OBVIOUS
<1>1. Names' /\ Blamed' /\ Operand'
  BY NamesStep, BlamedStep, OperandStep DEF Inputs
<1>2. SourcesKept' /\ CurrentHolds'
  BY SourcesKeptStep, CurrentHoldsStep DEF Inputs
<1>3. ListHolds'
  BY ListHoldsStep DEF Inputs
<1> QED
  BY <1>1, <1>2, <1>3 DEF Inputs

\* errcnt and the exit status (main of lcc.c): lcc reports success exactly
\* when every file was there and every tool did its work.
THEOREM StatusIsHonest == Spec => []StatusHonest
<1>1. Init => Inputs /\ Honest
  <2>1. Init => Honest
    BY NoneIsNoStatus DEF Init, Honest
  <2> QED
    BY <2>1, InputsInit
<1>2. Inputs /\ Honest /\ [Next]_vars => Inputs' /\ Honest'
  <2>1. Inputs /\ Honest /\ [Next]_vars => Honest'
    BY HonestStep DEF Inputs
  <2> QED
    BY <2>1, InputsStep
<1>3. Inputs /\ Honest => StatusHonest
  <2> SUFFICES ASSUME Inputs, Honest, status \in {0, 1}, ~opt.E
               PROVE  status = 0 <=> faults = {}
    BY DEF StatusHonest
  <2>1. CASE status = 0
    <3>1. faults \subseteq {"missing", "tool", "ld"} /\ errcnt = 0
      BY <2>1 DEF Inputs, Blamed, Honest
    <3>2. faults \cap {"missing", "tool"} = {} /\ "ld" \notin faults
      BY <3>1 DEF Inputs, Blamed
    <3> QED
      BY <2>1, <3>1, <3>2
  <2>2. CASE status = 1
    BY <2>2 DEF Honest
  <2> QED
    BY <2>1, <2>2
<1> QED
  BY <1>1, <1>2, <1>3, PTL DEF Spec

---------------------------------------------------------------------------
(* The results of -c and -S *)

\* main has come to the end of its arguments.
AllSeen ==
    pc = "rm" \/ (pc = "wait" /\ child.tool = "ld") \/ status \in {0, 1} =>
        argi = Len(opt.args)

\* The arguments that filename() has dealt with; of those with a result, the
\* last of each base.
Done == IF InFile THEN argi - 1 ELSE argi
Kinds == IF opt.S THEN {"c", "i"} ELSE {"c", "i", "s"}
LastSoFar(k) ==
    \A j \in Arguments :
        j > k /\ j <= Done /\ opt.args[j].suffix \in Kinds => opt.args[j].base # opt.args[k].base
TargetOf(a) == IF outfile # None THEN outfile
               ELSE IF opt.S THEN Assembly(a.base) ELSE Object(a.base)
HasResult(k) ==
    /\ TargetOf(opt.args[k]) \in DOMAIN disk
    /\ disk[TargetOf(opt.args[k])] = Contents(IF opt.S THEN "s" ELSE "o", <<opt.args[k]>>)
ResultsSoFar ==
    faults = {} /\ ~opt.E /\ ~LinkMode /\ (pc \notin {"options", "exit"} \/ status \in {0, 1}) =>
        \A k \in Arguments :
            k <= Done /\ opt.args[k].suffix \in Kinds /\ LastSoFar(k) => HasResult(k)

LEMMA AllSeenStep ==
    ASSUME Names, Blamed, AllSeen, [Next]_vars
    PROVE  AllSeen'
<1>1. opt' = opt /\ (pc # "exit" => status \notin {0, 1})
  <2>1. opt' = opt
    BY DEF Next, Main, vars, ParseOptions, NextArgument, EndOfArguments, Preprocess, Compile,
         Assemble, KeepForLinker, ToolSucceeds, ToolFails, LinkerEnds, RemoveTemps, Interrupt,
         OrphanEnds, Terminating
  <2> QED
    BY <2>1, NoneIsNoStatus DEF Blamed
<1>2. CASE EndOfArguments \/ LinkerEnds \/ RemoveTemps \/ OrphanEnds \/ UNCHANGED vars
  BY <1>1, <1>2 DEF EndOfArguments, LinkerEnds, RemoveTemps, OrphanEnds, vars, AllSeen
<1>3. CASE ParseOptions \/ NextArgument \/ ToolSucceeds \/ ToolFails \/ Interrupt
  <2>1. pc' \notin {"rm", "wait"} /\ status' \notin {0, 1}
    BY <1>1, <1>3 DEF ParseOptions, NextArgument, ToolSucceeds, ToolFails, Interrupt, BackToMain
  <2> QED
    BY <2>1 DEF AllSeen
<1>4. CASE Preprocess \/ Compile \/ Assemble \/ KeepForLinker
  <2>1. pc' # "rm" /\ status' \notin {0, 1}
    BY <1>1, <1>4, FileStep
  <2>2. pc' = "wait" => child'.tool # "ld"
    BY <1>4 DEF Preprocess, Compile, Assemble, KeepForLinker, Run, BackToMain
  <2> QED
    BY <2>1, <2>2 DEF AllSeen
<1> QED
  BY <1>2, <1>3, <1>4 DEF Next, Main, Terminating

LEMMA TargetNotTemporary ==
    ASSUME Names, NEW a
    PROVE  TargetOf(a) \notin ToSet(rmlist)
<1>1. TargetOf(a).dir # "tmp"
  <2>1. outfile \in {None, opt.o} /\ (opt.o = None \/ opt.o.dir # "tmp")
    BY InvocationType DEF Names, TypeOK
  <2> QED
    BY <2>1 DEF TargetOf, Assembly, Object
<1> QED
  BY <1>1, Temporary

LEMMA ResultKept ==
    ASSUME Names, NEW k, HasResult(k), opt' = opt, outfile' = outfile,
           disk' = disk \/ Writes \/ Removes,
           Writes => child.out # TargetOf(opt.args[k])
    PROVE  HasResult(k)'
<1> DEFINE f == TargetOf(opt.args[k])
           c == Contents(IF opt.S THEN "s" ELSE "o", <<opt.args[k]>>)
<1>1. f \in DOMAIN disk /\ disk[f] = c /\ f \notin ToSet(rmlist) /\ (Writes => child.out # f)
  BY TargetNotTemporary DEF HasResult
<1>2. f' = f /\ c' = c
  BY DEF TargetOf
<1> HIDE DEF f, c
<1>3. f \in DOMAIN disk' /\ disk'[f] = c
  <2>1. CASE disk' = disk
    BY <1>1, <2>1
  <2>2. CASE Writes
    BY <1>1, <2>2 DEF Writes
  <2>3. CASE Removes
    BY <1>1, <2>3 DEF Removes
  <2> QED
    BY <2>1, <2>2, <2>3
<1>4. f' \in DOMAIN disk' /\ disk'[f'] = c'
  BY <1>2, <1>3
<1> QED
  BY <1>4 DEF HasResult, f, c

\* The tool that ends writes over no result that is the last of its base.
Spares ==
    \A k \in Arguments :
        k <= Done /\ opt.args[k].suffix \in Kinds /\ LastSoFar(k)' => child.out # TargetOf(opt.args[k])

\* One argument more has been dealt with; its result, if it has one, is there.
OneMore ==
    /\ Done' = Done + 1 /\ Done + 1 \in Arguments
    /\ \A k \in Arguments : k = Done + 1 /\ opt.args[k].suffix \in Kinds => HasResult(k)'

LEMMA ResultsSoFarStep ==
    ASSUME Inputs, ResultsSoFar, [Next]_vars
    PROVE  ResultsSoFar'
<1> SUFFICES ASSUME faults' = {}, ~opt'.E, ~LinkMode',
                    pc' \notin {"options", "exit"} \/ status' \in {0, 1}
             PROVE  ResultsSoFar'
  BY DEF ResultsSoFar
<1>0. Names /\ TypeOK /\ CurrentFile /\ ToolRuns /\ argi \in Nat /\ argi <= Len(opt.args)
      /\ Len(opt.args) \in Nat /\ (\A k \in Arguments : opt.args[k] \in Arg)
  BY InvocationType DEF Inputs, Names, TypeOK
<1>1. /\ opt' = opt /\ ~opt.E /\ ~LinkMode /\ LinkMode' = LinkMode /\ Kinds' = Kinds
      /\ Arguments' = Arguments
  <2>1. opt' = opt
    BY DEF Next, Main, vars, ParseOptions, NextArgument, EndOfArguments, Preprocess, Compile,
         Assemble, KeepForLinker, ToolSucceeds, ToolFails, LinkerEnds, RemoveTemps, Interrupt,
         OrphanEnds, Terminating
  <2> QED
    BY <2>1 DEF LinkMode, Kinds, Arguments
<1>2. InFile => argi \in Arguments
  BY <1>0 DEF CurrentFile
\* No result is lost, and none is due for an argument dealt with.
<1>3. ASSUME pc \notin {"options", "exit"} \/ status \in {0, 1}, faults = {}, outfile' = outfile,
             disk' = disk \/ Writes \/ Removes,
             Writes => Spares, Done \in Nat, Done' = Done \/ OneMore
      PROVE  ResultsSoFar'
  <2> SUFFICES ASSUME NEW k \in Arguments, k <= Done', opt.args[k].suffix \in Kinds, LastSoFar(k)'
               PROVE  HasResult(k)'
    BY <1>1 DEF ResultsSoFar
  <2>0. Done' = Done \/ Done' = Done + 1
    BY <1>3 DEF OneMore
  <2>1. CASE k <= Done
    <3>1. LastSoFar(k)
      BY <1>1, <1>3, <2>0 DEF LastSoFar, Arguments
    <3>2. HasResult(k)
      BY <1>1, <1>3, <2>1, <3>1 DEF ResultsSoFar
    <3>3. Writes => child.out # TargetOf(opt.args[k])
      BY <1>3, <2>1 DEF Spares
    <3> QED
      BY <1>0, <1>1, <1>3, <3>2, <3>3, ResultKept
  <2>2. CASE k = Done + 1 /\ OneMore
    BY <2>2 DEF OneMore
  <2>3. k \in Nat
    BY DEF Arguments
  <2>4. k <= Done \/ (k = Done + 1 /\ OneMore)
    BY <1>3, <2>0, <2>3
  <2> QED
    BY <2>1, <2>2, <2>4
<1>4. CASE ParseOptions
  <2>1. Done' = 0
    BY <1>0, <1>4 DEF ParseOptions, TypeOK, Done, InFile
  <2> QED
    BY <1>1, <2>1 DEF ResultsSoFar, Arguments
<1>5. CASE NextArgument
  <2>1. /\ pc = "args" /\ argi' = argi + 1 /\ argi + 1 \in Arguments /\ outfile' = outfile
        /\ disk' = disk
        /\ \/ pc' = "args" /\ opt.args[argi + 1].suffix = "lib" /\ faults' = faults
           \/ pc' = "args" /\ "missing" \in faults'
           \/ pc' = "filename" /\ faults' = faults
    BY <1>0, <1>1, <1>5, ArgumentStep
  <2>2. Done = argi
    BY <2>1 DEF Done, InFile
  <2>3. ~Writes
    BY <2>1 DEF Writes, Busy
  <2>4. CASE pc' = "args" /\ opt.args[argi + 1].suffix = "lib" /\ faults' = faults
    <3>1. Done' = argi + 1
      BY <2>1, <2>4 DEF Done, InFile
    <3>2. OneMore
      BY <2>1, <2>2, <2>4, <3>1 DEF OneMore, Kinds
    <3> QED
      BY <1>0, <1>1, <1>3, <2>1, <2>2, <2>3, <2>4, <3>2
  <2>5. CASE pc' = "filename" /\ faults' = faults
    <3>1. Done' = argi
      BY <1>0, <2>1, <2>5 DEF Done, InFile
    <3> QED
      BY <1>0, <1>1, <1>3, <2>1, <2>2, <2>3, <2>5, <3>1
  <2> QED
    BY <2>1, <2>4, <2>5
<1>6. CASE Preprocess \/ Compile \/ Assemble \/ KeepForLinker
  <2>1. /\ pc = "filename" /\ argi' = argi /\ outfile' = outfile /\ disk' = disk /\ faults' = faults
        /\ pc' \in {"args", "wait"}
    BY <1>6, FileStep
  <2>2. Done = argi - 1 /\ argi \in Arguments /\ argi - 1 \in Nat
    BY <1>2, <2>1 DEF Done, InFile, Arguments
  <2>3. ~Writes
    BY <2>1 DEF Writes, Busy
  <2>4. CASE pc' = "wait"
    <3>1. child'.tool # "ld"
      BY <1>6, <2>4 DEF Preprocess, Compile, Assemble, KeepForLinker, Run, BackToMain
    <3>2. Done' = argi - 1
      BY <2>1, <2>4, <3>1 DEF Done, InFile
    <3> QED
      BY <1>1, <1>3, <2>1, <2>2, <2>3, <3>2
  <2>5. CASE pc' = "args"
    <3>1. Done' = argi
      BY <2>1, <2>5 DEF Done, InFile
    <3>2. ThisArg.suffix \notin Kinds
      <4>1. /\ ~Preprocess /\ ~Compile
            /\ Assemble => opt.S /\ current.name.suffix = "s"
            /\ KeepForLinker => current.name.suffix \in {"o", "out", "other"}
        BY <1>1, <2>5 DEF Preprocess, Compile, Assemble, KeepForLinker
      <4>2. current.name = ThisArg
        BY <1>0, <1>6, <2>1, <4>1 DEF CurrentFile, InFile, IsTemp
      <4> QED
        BY <1>6, <4>1, <4>2 DEF Kinds
    <3>3. Done + 1 = argi
      BY <1>0, <2>2
    <3>4. OneMore
      BY <2>2, <3>1, <3>2, <3>3 DEF OneMore, ThisArg
    <3> QED
      BY <1>1, <1>3, <2>1, <2>2, <2>3, <3>4
  <2> QED
    BY <2>1, <2>4, <2>5
<1>7. CASE ToolSucceeds
  <2>1. /\ pc = "wait" /\ child.tool # "ld" /\ argi' = argi /\ outfile' = outfile
        /\ disk' = Written(child, Product(child)) /\ faults' = faults /\ faults = {}
        /\ child' = None
        /\ \/ pc' = "filename" /\ (opt.S => child.tool = "cpp") /\ child.tool # "as"
           \/ pc' = "args" /\ (child.tool = "as" \/ (opt.S /\ child.tool = "rcc"))
    BY <1>1, <1>7 DEF ToolSucceeds, BackToMain
  <2>2. Done = argi - 1 /\ argi \in Arguments /\ argi - 1 \in Nat /\ InFile /\ Done + 1 = argi
    <3>1. InFile
      BY <2>1 DEF InFile
    <3> QED
      BY <1>0, <1>2, <3>1 DEF Done, Arguments
  <2>3. /\ child.out # None /\ Product(child) = Contents(NextForm(child.tool), <<ThisArg>>)
        /\ PreprocessorRuns \/ CompilerRuns \/ AssemblerRuns
    BY <1>1, <2>1, Works DEF Inputs
  <2>4. disk' = disk \/ Writes
    BY <2>1, WrittenDisk DEF Busy
  <2>5. CASE pc' = "filename"
    <3>1. child.out \in ToSet(rmlist)
      BY <2>1, <2>3, <2>5 DEF PreprocessorRuns, CompilerRuns, AssemblerRuns, IsTemp
    <3>2. Done' = argi - 1
      BY <2>1, <2>5 DEF Done, InFile
    <3>3. \A k \in Arguments : child.out # TargetOf(opt.args[k])
      BY <1>0, <3>1, TargetNotTemporary
    <3>4. Spares
      BY <3>3 DEF Spares
    <3> QED
      BY <1>1, <1>3, <2>1, <2>2, <2>4, <3>2, <3>4
  <2>6. CASE pc' = "args"
    <3>1. Done' = argi
      BY <2>1, <2>6 DEF Done, InFile
    <3>2. /\ CompilerRuns \/ AssemblerRuns
          /\ child.tool = IF opt.S THEN "rcc" ELSE "as"
      BY <2>1, <2>3, <2>6 DEF PreprocessorRuns, CompilerRuns, AssemblerRuns
    <3>3. child.out = TargetOf(ThisArg)
      <4>1. child.out = Target
        BY <1>1, <3>2 DEF CompilerRuns, AssemblerRuns, LinkMode
      <4>2. current.base = ThisArg.base
        BY <1>0, <2>2 DEF CurrentFile
      <4> QED
        BY <4>1, <4>2 DEF Target, TargetOf
    <3>4. ThisArg.suffix \in Kinds /\ IsSource(ThisArg)
      BY <1>0, <2>2, <3>2 DEF CurrentFile, IsTemp, Kinds, IsSource, CompilerRuns, AssemblerRuns
    <3>5. ASSUME NEW k \in Arguments, k = argi PROVE HasResult(k)'
      <4>1. disk' = [f \in DOMAIN disk \cup {child.out} |->
                        IF f = child.out THEN Product(child) ELSE disk[f]]
        BY <2>1, <2>3 DEF Written
      <4>2. child.out \in DOMAIN disk' /\ disk'[child.out] = Product(child)
        BY <4>1
      <4>3. NextForm(child.tool) = IF opt.S THEN "s" ELSE "o"
        BY <3>2 DEF NextForm
      <4>4. TargetOf(opt.args[k])' = child.out /\ opt'.args[k] = ThisArg
        BY <1>1, <2>1, <3>3, <3>5 DEF TargetOf, ThisArg
      <4> QED
        BY <1>1, <2>3, <4>2, <4>3, <4>4 DEF HasResult
    <3>6. ASSUME NEW k \in Arguments, k <= Done, opt.args[k].suffix \in Kinds, LastSoFar(k)'
          PROVE  child.out # TargetOf(opt.args[k])
      <4>1. argi > k
        BY <2>2, <3>6 DEF Arguments
      <4>2. CASE outfile # None
        <5>1. IsSource(opt.args[k]) /\ IsSource(opt.args[argi])
          BY <3>4, <3>6 DEF IsSource, Kinds, ThisArg
        <5>2. NumberOfSources = 1
          BY <1>1, <4>2 DEF Inputs, Operand, LinkMode
        <5> QED
          BY <1>0, <2>2, <4>1, <5>1, <5>2, OneSource DEF Arguments
      <4>3. CASE outfile = None
        <5>1. opt.args[argi].base # opt.args[k].base
          BY <1>1, <2>1, <2>2, <3>1, <3>4, <3>6, <4>1 DEF LastSoFar, ThisArg, Arguments
        <5> QED
          BY <3>3, <4>3, <5>1 DEF TargetOf, ThisArg, Assembly, Object
      <4> QED
        BY <4>2, <4>3
    <3>7. Spares
      BY <3>6 DEF Spares
    <3>8. OneMore
      BY <2>2, <3>1, <3>5 DEF OneMore
    <3> QED
      BY <1>1, <1>3, <2>1, <2>2, <2>4, <3>7, <3>8
  <2> QED
    BY <2>1, <2>5, <2>6
<1>8. CASE ToolFails
  <2>1. /\ pc = "wait" /\ child.tool # "ld"
        /\ faults' = IF Succeeds(child) THEN faults \cup {"tool"} ELSE faults
    BY <1>8 DEF ToolFails
  <2> QED
    BY <1>1, <2>1, Works DEF Inputs
<1>9. CASE LinkerEnds
  <2>1. Busy /\ child.tool = "ld"
    BY <1>9 DEF LinkerEnds, Busy
  <2> QED
    BY <1>0, <1>1, <2>1, OutputName
<1>10. CASE EndOfArguments
  <2>1. /\ pc = "args" /\ argi' = argi /\ outfile' = outfile /\ disk' = disk /\ faults' = faults
        /\ pc' = "rm" \/ (pc' = "wait" /\ child'.tool = "ld")
    BY <1>10 DEF EndOfArguments, Run
  <2>2. Done = argi /\ Done' = argi /\ ~Writes
    BY <2>1 DEF Done, InFile, Writes, Busy
  <2> QED
    BY <1>0, <1>1, <1>3, <2>1, <2>2
<1>11. CASE RemoveTemps
  <2>1. pc = "rm" /\ pc' = "exit" /\ argi' = argi /\ outfile' = outfile /\ faults' = faults
    BY <1>11 DEF RemoveTemps
  <2>2. Done = argi /\ Done' = argi /\ ~Writes
    BY <2>1 DEF Done, InFile, Writes, Busy
  <2>3. disk' = disk \/ Writes \/ Removes
    BY <1>0, DiskStep
  <2> QED
    BY <1>0, <1>1, <1>3, <2>1, <2>2, <2>3
<1>12. CASE Interrupt
  BY <1>12 DEF Interrupt
<1>13. CASE OrphanEnds
  <2>1. pc = "exit" /\ pc' = "exit" /\ child # None /\ status' = status
    BY <1>13 DEF OrphanEnds
  <2> QED
    BY <2>1 DEF Inputs, Blamed
<1>14. CASE UNCHANGED vars
  BY <1>14 DEF vars, ResultsSoFar, LinkMode, Arguments, Done, InFile, Kinds, LastSoFar, HasResult,
               TargetOf
<1> QED
  BY <1>4, <1>5, <1>6, <1>7, <1>8, <1>9, <1>10, <1>11, <1>12, <1>13, <1>14 DEF Next, Main, Terminating

\* With -c and -S (filename() of lcc.c): success without complaint leaves,
\* for each source, its own object or assembly file.
THEOREM LeavesResults == Spec => []ResultsLeft
<1>1. Init => Inputs /\ AllSeen /\ ResultsSoFar
  <2>1. Init => AllSeen /\ ResultsSoFar
    BY NoneIsNoStatus DEF Init, AllSeen, ResultsSoFar
  <2> QED
    BY <2>1, InputsInit
<1>2. Inputs /\ AllSeen /\ ResultsSoFar /\ [Next]_vars => (Inputs /\ AllSeen /\ ResultsSoFar)'
  <2>1. Inputs /\ AllSeen /\ [Next]_vars => AllSeen'
    BY AllSeenStep DEF Inputs
  <2> QED
    BY <2>1, InputsStep, ResultsSoFarStep
<1>3. Inputs /\ AllSeen /\ ResultsSoFar /\ StatusHonest => ResultsLeft
  <2> SUFFICES ASSUME Inputs, AllSeen, ResultsSoFar, StatusHonest,
                      status = 0, ~opt.E, opt.c \/ opt.S,
                      NEW k \in DOMAIN opt.args, opt.args[k].suffix \in Kinds, LastOfBase(k, Kinds)
               PROVE  HasResult(k)
    BY DEF ResultsLeft, Kinds, HasResult, TargetOf
  <2>1. faults = {} /\ ~LinkMode /\ argi = Len(opt.args) /\ pc = "exit"
    BY DEF StatusHonest, LinkMode, AllSeen, Inputs, Blamed
  <2>2. DOMAIN opt.args = Arguments /\ Len(opt.args) \in Nat
    BY InvocationType DEF Inputs, Names
  <2>3. Done = Len(opt.args)
    BY <2>1 DEF Done, InFile
  <2>4. LastSoFar(k) /\ k \in Arguments /\ k <= Done
    BY <2>2, <2>3 DEF LastSoFar, LastOfBase, Arguments
  <2> QED
    BY <2>1, <2>4 DEF ResultsSoFar
<1> QED
  BY <1>1, <1>2, <1>3, StatusIsHonest, PTL DEF Spec

---------------------------------------------------------------------------
(* What the program is linked from *)

Again(k) == \E j \in 1..k-1 : opt.args[j] = opt.args[k] /\ opt.args[k].suffix = "o"
Pieces == [k \in DOMAIN opt.args |-> IF Again(k) THEN << >> ELSE <<opt.args[k]>>]
Origins == [k \in DOMAIN llist |-> Origin(llist[k])]

\* The linker's list names the objects and consists of the pieces of the
\* arguments dealt with so far.
ObjectsNamed ==
    \A a \in Arg : a.suffix = "o" =>
        (a \in ToSet(llist) <=> \E j \in Arguments : j <= Done /\ opt.args[j] = a)
InOrder == FlattenSeq(Origins) = FlattenSeq(SubSeq(Pieces, 1, Done))
ListSoFar ==
    LinkMode /\ faults = {} /\ pc \notin {"rm", "exit"} => ObjectsNamed /\ InOrder

LEMMA PiecesType ==
    ASSUME TypeOK
    PROVE  Pieces \in Seq(Seq(Arg)) /\ Len(Pieces) = Len(opt.args)
<1>1. /\ DOMAIN opt.args = 1 .. Len(opt.args) /\ Len(opt.args) \in Nat
      /\ \A k \in 1 .. Len(opt.args) : opt.args[k] \in Arg
  BY InvocationType DEF Arguments
<1>2. \A k \in 1 .. Len(opt.args) : (IF Again(k) THEN << >> ELSE <<opt.args[k]>>) \in Seq(Arg)
  <2>1. << >> \in Seq(Arg) /\ \A x \in Arg : <<x>> \in Seq(Arg)
    OBVIOUS
  <2> QED
    BY <1>1, <2>1
<1>3. Pieces \in [1 .. Len(opt.args) -> Seq(Arg)]
  BY <1>1, <1>2 DEF Pieces
<1>4. Pieces \in Seq(Seq(Arg))
  BY <1>1, <1>3, SeqDef
<1> QED
  BY <1>1, <1>3, <1>4, LenProperties

\* One argument more.
LEMMA NextPiece ==
    ASSUME TypeOK, NEW d \in Nat, d + 1 \in Arguments
    PROVE  /\ FlattenSeq(SubSeq(Pieces, 1, d + 1)) =
                 FlattenSeq(SubSeq(Pieces, 1, d)) \o Pieces[d + 1]
           /\ FlattenSeq(SubSeq(Pieces, 1, d)) \in Seq(Arg)
           /\ Pieces[d + 1] = IF Again(d + 1) THEN << >> ELSE <<opt.args[d + 1]>>
<1>1. Pieces \in Seq(Seq(Arg)) /\ d \in 0 .. (Len(Pieces) - 1)
  BY PiecesType, InvocationType DEF Arguments
<1>2. /\ SubSeq(Pieces, 1, d) \in Seq(Seq(Arg)) /\ Pieces[d + 1] \in Seq(Arg)
      /\ SubSeq(Pieces, 1, d + 1) = Append(SubSeq(Pieces, 1, d), Pieces[d + 1])
  BY <1>1, NextPrefix
<1>3. d + 1 \in DOMAIN opt.args
  BY InvocationType
<1>4. Pieces[d + 1] = IF Again(d + 1) THEN << >> ELSE <<opt.args[d + 1]>>
  BY <1>3 DEF Pieces
<1> QED
  BY <1>2, <1>4, Flatten

\* What f is made of after a step; that of the files listed stays the same.
NextOrigin(f) == IF f.suffix = "lib" THEN <<f>> ELSE disk'[f].of
OriginsKept == \A f \in ToSet(llist) : NextOrigin(f) = Origin(f)

LEMMA NextOrigins == Origins' = [k \in DOMAIN llist' |-> NextOrigin(llist'[k])]
  BY DEF Origins, Origin, NextOrigin

LEMMA OriginsSame ==
    ASSUME OriginsKept, llist' = llist
    PROVE  Origins' = Origins
<1>1. \A k \in DOMAIN llist : NextOrigin(llist[k]) = Origin(llist[k])
  BY DEF OriginsKept, ToSet
<1>2. Origins' = [k \in DOMAIN llist |-> NextOrigin(llist[k])]
  BY NextOrigins
<1> QED
  BY <1>1, <1>2 DEF Origins

LEMMA OriginsAppended ==
    ASSUME Names, LinkMode, OriginsKept, \A g \in ToSet(llist) : GoodObject(g),
           NEW f \in LinkFile, llist' = Append(llist, f),
           NEW a \in Arg, NextOrigin(f) = <<a>>
    PROVE  FlattenSeq(Origins') = FlattenSeq(Origins) \o <<a>>
<1> DEFINE n == Len(llist)
           next == Origins'
           more == Append(Origins, <<a>>)
<1>1. /\ llist \in Seq(LinkFile) /\ n \in Nat /\ DOMAIN llist = 1 .. n
  BY LenProperties DEF Names, ListNames
<1>2. /\ llist' \in Seq(LinkFile) /\ Len(llist') = n + 1 /\ llist'[n + 1] = f
      /\ \A k \in 1 .. n : llist'[k] = llist[k]
  BY <1>1, AppendProperties
<1>3. DOMAIN llist' = 1 .. (n + 1)
  BY <1>2, LenProperties
<1> HIDE DEF n
<1>4. Origins \in Seq(Seq(Arg)) /\ Len(Origins) = n /\ <<a>> \in Seq(Arg)
  <2>1. \A k \in 1 .. n : Origin(llist[k]) \in Seq(Arg)
    BY <1>1 DEF ToSet, GoodObject
  <2>2. Origins \in [1 .. n -> Seq(Arg)]
    BY <1>1, <2>1 DEF Origins
  <2> QED
    BY <1>1, <2>2, SeqDef, LenProperties
<1>5. next = [k \in 1 .. (n + 1) |-> NextOrigin(llist'[k])]
  BY <1>3, NextOrigins
<1>6. \A k \in 1 .. n : NextOrigin(llist'[k]) = Origins[k]
  <2>1. \A k \in 1 .. n : NextOrigin(llist[k]) = Origin(llist[k])
    BY <1>1 DEF OriginsKept, ToSet
  <2> QED
    BY <1>1, <1>2, <2>1 DEF Origins
<1> HIDE DEF next
<1>7. /\ more \in Seq(Seq(Arg)) /\ Len(more) = n + 1 /\ more[n + 1] = <<a>>
      /\ \A k \in 1 .. n : more[k] = Origins[k]
  BY <1>4, AppendProperties
<1> HIDE DEF more
<1>8. \A k \in 1 .. (n + 1) : next[k] = more[k]
  <2> SUFFICES ASSUME NEW k \in 1 .. (n + 1) PROVE next[k] = more[k]
    OBVIOUS
  <2>1. CASE k \in 1 .. n
    BY <1>5, <1>6, <1>7, <2>1
  <2>2. CASE k = n + 1
    BY <1>2, <1>5, <1>7, <2>2
  <2> QED
    BY <1>1, <2>1, <2>2
<1>9. next = more
  <2>1. more = [k \in 1 .. (n + 1) |-> more[k]]
    BY <1>7, LenProperties
  <2> QED
    BY <1>5, <1>8, <2>1
<1>10. FlattenSeq(more) = FlattenSeq(Origins) \o <<a>>
  BY <1>4, Flatten DEF more
<1> QED
  BY <1>9, <1>10 DEF next

\* What a step may do to the list: nothing while main is at an argument ...
Idle == llist' = llist /\ Done' = Done

\* ... leave out an object named again, or append what was made of the next.
Repeats ==
    /\ llist' = llist /\ Done' = Done + 1 /\ Done + 1 \in Arguments
    /\ opt.args[Done + 1].suffix = "o" /\ opt.args[Done + 1] \in ToSet(llist)
Appends ==
    /\ Done' = Done + 1 /\ Done + 1 \in Arguments
    /\ \E f \in LinkFile :
          /\ llist' = Append(llist, f) /\ NextOrigin(f) = <<opt.args[Done + 1]>>
          /\ \/ f = opt.args[Done + 1] /\ (f.suffix = "o" => f \notin ToSet(llist))
             \/ f \notin Arg /\ opt.args[Done + 1].suffix # "o"

LEMMA ListChange ==
    ASSUME Names, LinkMode, ObjectsNamed, InOrder, OriginsKept,
           \A g \in ToSet(llist) : GoodObject(g), opt' = opt, Done \in Nat,
           Idle \/ Repeats \/ Appends
    PROVE  ObjectsNamed' /\ InOrder'
<1>1. /\ TypeOK /\ llist \in Seq(LinkFile) /\ Arguments' = Arguments /\ Pieces' = Pieces
      /\ Arguments \subseteq Nat /\ \A k \in Arguments : opt.args[k] \in Arg
  BY InvocationType DEF Names, ListNames, Arguments, Pieces, Again
<1>2. CASE Idle
  <2>1. Origins' = Origins
    BY <1>2, OriginsSame DEF Idle
  <2> QED
    BY <1>1, <1>2, <2>1 DEF Idle, ObjectsNamed, InOrder
<1> DEFINE a == opt.args[Done + 1]
<1>3. Done + 1 \in Arguments => a \in Arg /\ \A j \in Arguments : j <= Done + 1 <=> j <= Done \/ j = Done + 1
  BY <1>1
<1>4. Done + 1 \in Arguments =>
         (Again(Done + 1) <=> a.suffix = "o" /\ \E j \in Arguments : j <= Done /\ opt.args[j] = a)
  BY <1>1 DEF Again, Arguments
<1>5. Done + 1 \in Arguments =>
         /\ FlattenSeq(SubSeq(Pieces, 1, Done + 1)) = FlattenSeq(SubSeq(Pieces, 1, Done)) \o Pieces[Done + 1]
         /\ FlattenSeq(SubSeq(Pieces, 1, Done)) \in Seq(Arg)
         /\ Pieces[Done + 1] = IF Again(Done + 1) THEN << >> ELSE <<a>>
  BY <1>1, NextPiece
<1>6. CASE Repeats
  <2>1. /\ llist' = llist /\ Done' = Done + 1 /\ Done + 1 \in Arguments
        /\ a.suffix = "o" /\ a \in ToSet(llist)
    BY <1>6 DEF Repeats
  <2>2. Again(Done + 1)
    BY <1>3, <1>4, <2>1 DEF ObjectsNamed
  <2>3. FlattenSeq(SubSeq(Pieces, 1, Done + 1)) = FlattenSeq(SubSeq(Pieces, 1, Done))
    <3>1. FlattenSeq(SubSeq(Pieces, 1, Done + 1)) = FlattenSeq(SubSeq(Pieces, 1, Done)) \o << >>
      BY <1>5, <2>1, <2>2
    <3> QED
      BY <1>5, <2>1, <3>1, ConcatEmptySeq
  <2>4. Origins' = Origins
    BY <2>1, OriginsSame
  <2>5. InOrder'
    BY <1>1, <2>1, <2>3, <2>4 DEF InOrder
  <2>6. ObjectsNamed'
    <3> SUFFICES ASSUME NEW b \in Arg, b.suffix = "o"
                 PROVE  b \in ToSet(llist) <=> \E j \in Arguments : j <= Done + 1 /\ opt.args[j] = b
      BY <1>1, <2>1 DEF ObjectsNamed
    <3>1. b \in ToSet(llist) <=> \E j \in Arguments : j <= Done /\ opt.args[j] = b
      BY DEF ObjectsNamed
    <3>2. a \in ToSet(llist) /\ \A j \in Arguments : j <= Done + 1 <=> j <= Done \/ j = Done + 1
      BY <1>3, <2>1
    <3> QED
      BY <3>1, <3>2
  <2> QED
    BY <2>5, <2>6
<1>7. CASE Appends
  <2>1. Done' = Done + 1 /\ Done + 1 \in Arguments /\ a \in Arg
    BY <1>3, <1>7 DEF Appends
  <2>2. PICK f \in LinkFile :
           /\ llist' = Append(llist, f) /\ NextOrigin(f) = <<a>>
           /\ \/ f = a /\ (f.suffix = "o" => f \notin ToSet(llist))
              \/ f \notin Arg /\ a.suffix # "o"
    BY <1>7 DEF Appends
  <2>3. ~Again(Done + 1)
    <3>1. a.suffix = "o" => a \notin ToSet(llist)
      BY <2>2
    <3> QED
      BY <1>4, <2>1, <3>1 DEF ObjectsNamed
  <2>4. FlattenSeq(Origins') = FlattenSeq(Origins) \o <<a>>
    BY <2>1, <2>2, OriginsAppended
  <2>5. InOrder'
    <3>1. FlattenSeq(SubSeq(Pieces, 1, Done + 1)) = FlattenSeq(SubSeq(Pieces, 1, Done)) \o <<a>>
      BY <1>5, <2>1, <2>3
    <3> QED
      BY <1>1, <2>1, <2>4, <3>1 DEF InOrder
  <2>6. ObjectsNamed'
    <3>0. ToSet(llist') = ToSet(llist) \cup {f}
      BY <1>1, <2>2, ToSetAppend
    <3> SUFFICES ASSUME NEW b \in Arg, b.suffix = "o"
                 PROVE  b \in ToSet(llist) \cup {f} <=>
                           \E j \in Arguments : j <= Done + 1 /\ opt.args[j] = b
      BY <1>1, <2>1, <3>0 DEF ObjectsNamed
    <3>1. b \in ToSet(llist) <=> \E j \in Arguments : j <= Done /\ opt.args[j] = b
      BY DEF ObjectsNamed
    <3>2. \A j \in Arguments : j <= Done + 1 <=> j <= Done \/ j = Done + 1
      BY <1>3, <2>1
    <3>3. b = f <=> b = a
      BY <2>2
    <3>4. (\E j \in Arguments : j <= Done + 1 /\ opt.args[j] = b) <=>
             (\E j \in Arguments : j <= Done /\ opt.args[j] = b) \/ b = a
      BY <2>1, <3>2
    <3> QED
      BY <3>1, <3>3, <3>4
  <2> QED
    BY <2>5, <2>6
<1> QED
  BY <1>2, <1>6, <1>7

LEMMA ListSoFarStep ==
    ASSUME Inputs, ListSoFar, [Next]_vars
    PROVE  ListSoFar'
<1> SUFFICES ASSUME LinkMode', faults' = {}, pc' \notin {"rm", "exit"}
             PROVE  ObjectsNamed' /\ InOrder'
  BY DEF ListSoFar
<1>1. /\ pc \notin {"rm", "exit"} /\ opt' = opt /\ faults = {}
  BY DEF Next, Main, vars, ParseOptions, NextArgument, EndOfArguments, Preprocess, Compile,
         Assemble, KeepForLinker, ToolSucceeds, ToolFails, LinkerEnds, RemoveTemps, Interrupt,
         OrphanEnds, Terminating
<1>2. /\ LinkMode /\ ~opt.E /\ Names /\ TypeOK /\ CurrentFile /\ llist \in Seq(LinkFile)
      /\ argi \in Nat /\ argi <= Len(opt.args) /\ Len(opt.args) \in Nat
      /\ \A k \in Arguments : opt.args[k] \in Arg
  BY <1>1, InvocationType DEF LinkMode, Names, Inputs, TypeOK, ListNames
<1>3. /\ ObjectsNamed /\ InOrder
      /\ \A f \in ToSet(llist) : GoodObject(f) /\ f \in LinkFile
  <2>1. \A f \in ToSet(llist) : GoodObject(f)
    BY <1>1, <1>2 DEF Inputs, ListHolds
  <2> QED
    BY <1>1, <1>2, <2>1, ElementOfSeq DEF ListSoFar, ToSet
<1>4. InFile => argi \in Arguments
  BY <1>2 DEF CurrentFile
<1>5. Done \in Nat
  BY <1>2, <1>4 DEF Done, Arguments
<1>6. disk' = disk => OriginsKept
  BY DEF OriginsKept, NextOrigin, Origin
<1>7. SUFFICES OriginsKept /\ (Idle \/ Repeats \/ Appends)
  BY <1>1, <1>2, <1>3, <1>5, ListChange
<1>8. CASE NextArgument
  <2>1. /\ pc = "args" /\ argi' = argi + 1 /\ argi + 1 \in Arguments /\ disk' = disk
        /\ opt.args[argi + 1] \in Arg
        /\ \/ /\ pc' = "args" /\ opt.args[argi + 1].suffix = "lib"
              /\ llist' = Append(llist, opt.args[argi + 1])
           \/ pc' = "filename" /\ llist' = llist
    <3>1. "missing" \notin faults'
      OBVIOUS
    <3> QED
      BY <1>1, <1>2, <1>8, <3>1, ArgumentStep DEF LinkMode
  <2>2. Done = argi
    BY <2>1 DEF Done, InFile
  <2>3. CASE pc' = "args" /\ opt.args[argi + 1].suffix = "lib"
             /\ llist' = Append(llist, opt.args[argi + 1])
    <3>1. Done' = argi + 1
      BY <2>1, <2>3 DEF Done, InFile
    <3>2. opt.args[argi + 1] \in LinkFile
      BY <2>1, <2>3 DEF LinkFile
    <3>3. NextOrigin(opt.args[argi + 1]) = <<opt.args[argi + 1]>>
      BY <2>3 DEF NextOrigin
    <3>4. Appends
      BY <2>1, <2>2, <2>3, <3>1, <3>2, <3>3 DEF Appends
    <3> QED
      BY <1>6, <2>1, <3>4
  <2>4. CASE pc' = "filename" /\ llist' = llist
    <3>1. Done' = argi
      BY <1>2, <2>1, <2>4 DEF Done, InFile
    <3> QED
      BY <1>6, <2>1, <2>2, <2>4, <3>1 DEF Idle
  <2> QED
    BY <2>1, <2>3, <2>4
<1>9. CASE Preprocess \/ Compile \/ Assemble
  <2>1. /\ pc = "filename" /\ pc' = "wait" /\ child'.tool # "ld" /\ argi' = argi
        /\ disk' = disk /\ llist' = llist
    BY <1>2, <1>9 DEF Preprocess, Compile, Assemble, Run, LinkMode
  <2>2. Done' = Done
    BY <2>1 DEF Done, InFile
  <2> QED
    BY <1>6, <2>1, <2>2 DEF Idle
<1>10. CASE KeepForLinker
  <2>1. /\ pc = "filename" /\ current.name.suffix \in {"o", "out", "other"} /\ disk' = disk
        /\ pc' = "args" /\ argi' = argi
        /\ llist' = IF current.name.suffix = "o" /\ current.name \in ToSet(llist) THEN llist
                    ELSE Append(llist, current.name)
    BY <1>2, <1>10 DEF KeepForLinker, Listed, BackToMain
  <2>2. current.name = ThisArg /\ ThisArg \in Arg /\ argi \in Arguments
    BY <1>2, <1>4, <2>1 DEF CurrentFile, InFile, IsTemp, ThisArg
  <2>3. Done' = Done + 1 /\ Done + 1 = argi
    BY <1>2, <2>1 DEF Done, InFile
  <2>4. ThisArg \in DOMAIN disk /\ As(ThisArg)
    BY <1>1, <1>2, <2>1, <2>2 DEF Inputs, CurrentHolds, SourcesKept, InFile, LinkMode
  <2>5. NextOrigin(ThisArg) = <<ThisArg>>
    BY <2>1, <2>2, <2>4, AsGiven DEF NextOrigin, Contents
  <2>6. CASE ThisArg.suffix = "o" /\ ThisArg \in ToSet(llist)
    <3>1. Repeats
      BY <2>1, <2>2, <2>3, <2>6 DEF Repeats, ThisArg
    <3> QED
      BY <1>6, <2>1, <3>1
  <2>7. CASE ~(ThisArg.suffix = "o" /\ ThisArg \in ToSet(llist))
    <3>1. ThisArg \in LinkFile
      BY <2>1, <2>2 DEF LinkFile
    <3>2. Appends
      BY <2>1, <2>2, <2>3, <2>5, <2>7, <3>1 DEF Appends, ThisArg
    <3> QED
      BY <1>6, <2>1, <3>2
  <2> QED
    BY <2>6, <2>7
<1>11. CASE ToolSucceeds
  <2>1. /\ pc = "wait" /\ child.tool # "ld" /\ disk' = Written(child, Product(child))
        /\ argi' = argi
        /\ \/ pc' = "filename" /\ llist' = llist
           \/ child.tool = "as" /\ pc' = "args" /\ llist' = Listed(child.out)
    BY <1>2, <1>11 DEF ToolSucceeds, BackToMain, LinkMode
  <2>2. /\ child.out # None
        /\ Product(child) = Contents(NextForm(child.tool), <<ThisArg>>)
        /\ PreprocessorRuns \/ CompilerRuns \/ AssemblerRuns
        /\ ThisArg \in Arg /\ argi \in Arguments /\ InFile
    BY <1>1, <1>2, <2>1, Works DEF Inputs, InFile
  <2>3. child.out \notin ToSet(llist)
    <3>1. \A f \in ToSet(llist) : f.suffix \notin {"c", "i", "s"}
      BY <1>3 DEF LinkFile
    <3> QED
      BY <1>2, <2>2, <3>1 DEF PreprocessorRuns, CompilerRuns, AssemblerRuns, IsTemp, LinkMode
  <2>4. disk' = [f \in DOMAIN disk \cup {child.out} |->
                    IF f = child.out THEN Product(child) ELSE disk[f]]
    BY <2>1, <2>2 DEF Written
  <2>5. OriginsKept
    BY <1>3, <2>3, <2>4 DEF OriginsKept, NextOrigin, Origin, GoodObject, IsObject
  <2>6. CASE pc' = "filename" /\ llist' = llist
    <3>1. Done' = Done
      BY <2>1, <2>2, <2>6 DEF Done, InFile
    <3> QED
      BY <2>5, <2>6, <3>1 DEF Idle
  <2>7. CASE child.tool = "as" /\ pc' = "args" /\ llist' = Listed(child.out)
    <3>1. Done' = Done + 1 /\ Done + 1 = argi
      BY <1>2, <2>1, <2>2, <2>7 DEF Done, InFile
    <3>2. IsTemp(child.out, "o") /\ current.name.suffix = "s"
      BY <1>2, <2>2, <2>7 DEF PreprocessorRuns, CompilerRuns, AssemblerRuns, LinkMode
    <3>3. child.out \in TempName /\ child.out.suffix = "o" /\ child.out \notin Arg
      BY <1>2, <3>2, Temporary DEF IsTemp
    <3>4. child.out \in LinkFile
      BY <3>3 DEF LinkFile
    <3>5. NextOrigin(child.out) = <<ThisArg>>
      <4>1. disk'[child.out] = Product(child)
        BY <2>4
      <4> QED
        BY <2>2, <3>3, <4>1 DEF NextOrigin, Contents
    <3>6. ThisArg.suffix # "o"
      BY <1>2, <2>2, <3>2 DEF CurrentFile, IsTemp
    <3>7. llist' = Append(llist, child.out)
      BY <2>3, <2>7 DEF Listed
    <3>8. Appends
      BY <2>2, <3>1, <3>3, <3>4, <3>5, <3>6, <3>7 DEF Appends, ThisArg
    <3> QED
      BY <2>5, <3>8
  <2> QED
    BY <2>1, <2>6, <2>7
<1>12. CASE ToolFails
  <2>1. pc = "wait" /\ child.tool # "ld" /\ ~Succeeds(child)
    BY <1>12 DEF ToolFails
  <2> QED
    BY <1>1, <1>2, <2>1, Works DEF Inputs
<1>13. CASE ParseOptions \/ EndOfArguments
  <2>1. /\ pc \in {"options", "args"} /\ argi' = argi /\ disk' = disk /\ llist' = llist
        /\ pc' = "args" \/ (pc' = "wait" /\ child'.tool = "ld")
    BY <1>13 DEF ParseOptions, EndOfArguments, Run
  <2>2. Done' = Done
    BY <2>1 DEF Done, InFile
  <2> QED
    BY <1>6, <2>1, <2>2 DEF Idle
<1>14. CASE UNCHANGED vars
  <2>1. disk' = disk /\ llist' = llist /\ Done' = Done
    BY <1>14 DEF vars, Done, InFile
  <2> QED
    BY <1>6, <2>1 DEF Idle
<1>15. ~LinkerEnds /\ ~RemoveTemps /\ ~Interrupt /\ ~OrphanEnds
  BY DEF LinkerEnds, RemoveTemps, Interrupt, OrphanEnds
<1> QED
  BY <1>8, <1>9, <1>10, <1>11, <1>12, <1>13, <1>14, <1>15 DEF Next, Main, Terminating

\* After the linker has run without complaint there is the program wanted.
Linked ==
    LinkMode /\ Wanted # << >> /\ faults = {} /\ (pc = "rm" \/ status = 0) =>
        Executable \in DOMAIN disk /\ disk[Executable] = Contents("exe", Wanted)

\* At the end of the arguments the list consists of all that is wanted.
LEMMA AllListed ==
    ASSUME TypeOK, InOrder, Done = Len(opt.args)
    PROVE  FlattenSeq(Origins) = Wanted
<1>1. SubSeq(Pieces, 1, Len(opt.args)) = Pieces
  BY PiecesType, SubSeqFull
<1>2. Wanted = FlattenSeq(Pieces)
  BY DEF Wanted, Pieces, Again
<1> QED
  BY <1>1, <1>2 DEF InOrder

LEMMA LinkedStep ==
    ASSUME Inputs, Honest, AllSeen, ListSoFar, Linked, [Next]_vars
    PROVE  Linked'
<1>1. opt' = opt /\ LinkMode' = LinkMode /\ Wanted' = Wanted
  <2>1. opt' = opt
    BY DEF Next, Main, vars, ParseOptions, NextArgument, EndOfArguments, Preprocess, Compile,
         Assemble, KeepForLinker, ToolSucceeds, ToolFails, LinkerEnds, RemoveTemps, Interrupt,
         OrphanEnds, Terminating
  <2> QED
    BY <2>1 DEF LinkMode, Wanted
<1> SUFFICES ASSUME LinkMode, Wanted # << >>, faults' = {}, pc' = "rm" \/ status' = 0
             PROVE  (Executable \in DOMAIN disk /\ disk[Executable] = Contents("exe", Wanted))'
  BY <1>1 DEF Linked
<1>2. /\ Names /\ TypeOK /\ NamesMade /\ ToolRuns /\ (pc # "exit" => status # 0)
      /\ (status = 0 => pc = "exit" /\ child = None)
  BY NoneIsNoStatus DEF Inputs, Names, Blamed
<1>3. CASE LinkerEnds
  <2>1. pc = "wait" /\ child.tool = "ld" /\ outfile' = outfile /\ llist' = llist
    BY <1>3 DEF LinkerEnds
  <2>2. faults = {}
    BY <1>3 DEF LinkerEnds
  <2>3. /\ Succeeds(child) /\ child.out = Executable /\ child.out # None
        /\ Product(child) = Contents("exe", FlattenSeq(Origins))
    BY <1>2, <2>1, <2>2, LinkerWorks DEF Inputs, Origins
  <2>4. disk' = Written(child, Product(child))
    BY <1>3, <2>3 DEF LinkerEnds
  <2>5. FlattenSeq(Origins) = Wanted
    <3>1. argi = Len(opt.args) /\ Done = argi
      BY <2>1 DEF AllSeen, Done, InFile
    <3>2. InOrder
      BY <2>1, <2>2 DEF ListSoFar
    <3> QED
      BY <1>2, <3>1, <3>2, AllListed
  <2>6. Executable \in DOMAIN disk' /\ disk'[Executable] = Contents("exe", Wanted)
    <3>1. disk' = [f \in DOMAIN disk \cup {child.out} |->
                      IF f = child.out THEN Product(child) ELSE disk[f]]
      BY <2>3, <2>4 DEF Written
    <3> QED
      BY <2>3, <2>5, <3>1
  <2>7. Executable' = Executable
    BY <2>1 DEF Executable
  <2> QED
    BY <1>1, <2>6, <2>7
<1>4. CASE EndOfArguments
  <2>1. /\ pc = "args" /\ argi = Len(opt.args) /\ faults = {} /\ pc' = "rm" /\ ~Linking
    BY <1>2, <1>4 DEF EndOfArguments
  <2>2. llist = << >>
    <3>1. errcnt = 0
      <4>1. ~(errcnt > 0) /\ errcnt \in Nat
        BY <1>2, <2>1 DEF Honest, LinkMode, TypeOK
      <4> QED
        BY <4>1
    <3> QED
      BY <2>1, <3>1 DEF Linking, LinkMode
  <2>3. FlattenSeq(Origins) = Wanted
    <3>1. Done = argi /\ InOrder
      BY <2>1 DEF Done, InFile, ListSoFar
    <3> QED
      BY <1>2, <2>1, <3>1, AllListed
  <2>4. Origins = << >>
    BY <2>2 DEF Origins
  <2>5. FlattenSeq(<< >>) = << >>
    BY DEF FlattenSeq
  <2> QED
    BY <2>3, <2>4, <2>5
<1>5. CASE RemoveTemps
  <2>1. /\ pc = "rm" /\ faults = {} /\ outfile' = outfile /\ disk' = Removed
    BY <1>5 DEF RemoveTemps
  <2>2. Executable \in DOMAIN disk /\ disk[Executable] = Contents("exe", Wanted)
    BY <2>1 DEF Linked
  <2>3. Executable \notin ToSet(rmlist)
    <3>1. outfile \in {None, opt.o} /\ (opt.o = None \/ opt.o.dir # "tmp")
      BY <1>2, InvocationType DEF TypeOK
    <3>2. Executable.dir # "tmp"
      BY <3>1 DEF Executable, AOut
    <3> QED
      BY <1>2, <3>2, Temporary
  <2>4. Executable' = Executable
    BY <2>1 DEF Executable
  <2>5. Executable \in DOMAIN disk' /\ disk'[Executable] = Contents("exe", Wanted)
    BY <2>1, <2>2, <2>3 DEF Removed
  <2> QED
    BY <1>1, <2>4, <2>5
<1>6. CASE UNCHANGED vars
  <2>1. pc' = pc /\ status' = status /\ faults' = faults /\ disk' = disk /\ outfile' = outfile
    BY <1>6 DEF vars
  <2>2. Executable' = Executable
    BY <2>1 DEF Executable
  <2>3. Executable \in DOMAIN disk /\ disk[Executable] = Contents("exe", Wanted)
    BY <2>1 DEF Linked
  <2> QED
    BY <1>1, <2>1, <2>2, <2>3
<1>7. ~ParseOptions /\ ~NextArgument /\ ~Preprocess /\ ~Compile /\ ~Assemble /\ ~KeepForLinker
      /\ ~ToolSucceeds /\ ~ToolFails /\ ~Interrupt /\ ~OrphanEnds
  <2>1. pc' # "rm" => status' = 0
    OBVIOUS
  <2> QED
    BY <1>2, <2>1 DEF ParseOptions, NextArgument, Preprocess, Compile, Assemble, KeepForLinker,
                      ToolSucceeds, ToolFails, Interrupt, OrphanEnds, BackToMain
<1> QED
  BY <1>3, <1>4, <1>5, <1>6, <1>7 DEF Next, Main, Terminating

\* filename() and llist (lcc.c): although all sources share the temporary
\* files itemp and stemp, a program lcc has made without complaint consists
\* of the arguments, each from its own source, in the order given.
THEOREM ProgramInOrder == Spec => []LinkedInOrder
<1> DEFINE I == Inputs /\ Honest /\ AllSeen /\ ListSoFar /\ Linked
<1>1. Init => I
  <2> SUFFICES ASSUME Init PROVE I
    OBVIOUS
  <2>1. Inputs /\ Honest /\ AllSeen /\ Linked
    BY InputsInit, NoneIsNoStatus DEF Init, Honest, AllSeen, Linked
  <2>2. /\ TypeOK /\ llist = << >> /\ argi = 0 /\ pc = "options"
    BY <2>1 DEF Inputs, Names, Init
  <2>3. Done = 0 /\ ToSet(llist) = {} /\ Origins = << >>
    BY <2>2 DEF Done, InFile, ToSet, Origins
  <2>4. ObjectsNamed
    <3>1. \A j \in Arguments : ~(j <= 0)
      BY <2>2, InvocationType DEF Arguments
    <3> QED
      BY <2>3, <3>1 DEF ObjectsNamed
  <2>5. SubSeq(Pieces, 1, 0) = << >>
    BY SubSeqEmpty
  <2>6. InOrder
    BY <2>3, <2>5 DEF InOrder
  <2> QED
    BY <2>1, <2>4, <2>6 DEF ListSoFar
<1>2. I /\ [Next]_vars => I'
  <2> SUFFICES ASSUME I, [Next]_vars PROVE I'
    OBVIOUS
  <2>1. Inputs' /\ Honest'
    BY InputsStep, HonestStep DEF Inputs
  <2>2. AllSeen'
    BY AllSeenStep DEF Inputs
  <2>3. ListSoFar' /\ Linked'
    BY ListSoFarStep, LinkedStep
  <2> QED
    BY <2>1, <2>2, <2>3
<1>3. I /\ StatusHonest => LinkedInOrder
  <2> SUFFICES ASSUME I, StatusHonest, status = 0, LinkMode, Wanted # << >>
               PROVE  Executable \in DOMAIN disk /\ disk[Executable] = Contents("exe", Wanted)
    BY DEF LinkedInOrder
  <2>1. faults = {}
    BY DEF StatusHonest, LinkMode
  <2> QED
    BY <2>1 DEF Linked
<1> QED
  BY <1>1, <1>2, <1>3, StatusIsHonest, PTL DEF Spec
===========================================================================
