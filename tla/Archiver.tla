----------------------------- MODULE Archiver -----------------------------
(***************************************************************************)
(* The archiver binutils/ar: the commands d, r, t and x of ar.c and the    *)
(* symbol directory __.SYMDEF of ranlib.c, which is itself a member that   *)
(* rCmd puts in front of the others.  A command reads the archive member   *)
(* by member and writes one or two temporary files; install then copies    *)
(* them over the archive.                                                  *)
(*                                                                         *)
(* An archive is a sequence of members; the bytes of a member are an       *)
(* object (Exports gives the names it exports, none if it is not an object *)
(* module) or a directory.  A file name stands for its basename.           *)
(***************************************************************************)
EXTENDS Integers, Sequences, FiniteSets, Filtered

CONSTANTS
    File,           \* names of files and members
    SYMDEF,         \* the name "__.SYMDEF"
    Object,         \* contents of files
    Exports,        \* Exports[o]: the names object o exports, in order
    Size,           \* Size[o]: bytes of object o, padded to 4
    Symbol,         \* names of symbols
    StringSize,     \* bytes of one "symbol:file," string of the directory
    Command,        \* the commands considered
    MAX_SYM_ENTRIES,
    MaxCommands, MaxTime,  \* bounds on the commands and on the clock
    Missing,        \* no file
    Damaged         \* an archive that was truncated and not completed

HEADER == 88        \* sizeof(ArHeader)
MAGIC == 4          \* sizeof(unsigned int)
ENTRY == 16         \* sizeof(Entry)

Named == File \cup {SYMDEF}
Entry == [name : Symbol, file : Named, position : Nat]
Content == Object \cup Seq(Entry)
Member == [name : Named, content : Content, date : Nat]
OnDisk == [content : Content, date : Nat]

(***************************************************************************)
(* A command line.  where is "b" or "a" when -b or -a names the member at; *)
(* the names in args are replaced by Missing as matchargs consumes them.   *)
(* The commands considered name a file once.                               *)
(***************************************************************************)
IsCommand(c) ==
    /\ c.op \in {"d", "r", "t", "x", "none"}
    /\ c.args \in Seq(File)
    /\ \A i, k \in DOMAIN c.args : c.args[i] = c.args[k] => i = k
    /\ c.where \in {"a", "b", "none"} /\ c.at \in File
    /\ c.u \in BOOLEAN /\ c.s \in BOOLEAN
    /\ c.op = "none" => c.s

ASSUME ArchiverAssumption ==
    /\ SYMDEF \notin File /\ Missing \notin Named
    /\ Missing \notin Seq(Member) \cup OnDisk
    /\ Damaged \notin Seq(Member) /\ Damaged # Missing
    /\ \A o \in Object : o \notin Seq(Entry)
    /\ \A o \in Object : Exports[o] \in Seq(Symbol) /\ Size[o] \in Nat
    /\ Command # {} /\ \A c \in Command : IsCommand(c)
    /\ MAX_SYM_ENTRIES \in Nat /\ MaxCommands \in Nat /\ MaxTime \in Nat
    /\ StringSize \in Nat

VARIABLES
    archive,        \* the archive file
    disk,           \* the other files of the directory
    now,            \* the clock, as coarse as st_mtime
    commands,       \* commands given so far
    cmd,            \* the command line
    job,            \* the job of rCmd, dCmd, ... : cmd, or adding the directory
    pc,
    args,           \* namv
    next,           \* the member getMember returns next
    tmp0, tmp1,     \* the temporary files, Missing before mkstemp
    status,         \* "ok" or how the command failed
    before          \* history: archive and disk before the job or edit

files == <<archive, disk, now>>
temps == <<tmp0, tmp1>>
vars == <<files, commands, cmd, job, pc, args, next, temps, status, before>>

Members == IF archive = Missing THEN << >> ELSE archive

\* A file as a new member, with the date of the file (moveFile).
FromFile(d, n) == [name |-> n, content |-> d[n].content, date |-> d[n].date]

Init ==
    /\ archive = Missing
    /\ disk \in [Named -> {Missing} \cup [content : Object, date : {0}]]
    /\ disk[SYMDEF] = Missing
    /\ now = 0 /\ commands = 0
    /\ cmd = (CHOOSE c \in Command : TRUE) /\ job = cmd
    /\ pc = "idle"
    /\ args = << >> /\ next = 1
    /\ tmp0 = Missing /\ tmp1 = Missing
    /\ status = "ok"
    /\ before = [archive |-> Missing, disk |-> disk]

---------------------------------------------------------------------------
\* Mutant: the second temporary file is forgotten.
UnlinkedFirst == tmp0' = Missing /\ UNCHANGED tmp1

\* unlinkTempFiles
Unlinked == tmp0' = Missing /\ tmp1' = Missing

\* done(c) and the ends of main.
Exit(how) == pc' = "idle" /\ status' = how /\ Unlinked

\* The start of dCmd, rCmd, tCmd or xCmd with init and getArchive.
Start(j) ==
    /\ job' = j
    /\ args' = j.args /\ next' = 1
    /\ before' = [archive |-> archive, disk |-> disk]
    /\ IF archive = Missing /\ j.op \in {"d", "t", "x"}
       THEN Exit("no archive")
       ELSE /\ pc' = "scan"
            /\ tmp0' = (IF j.op \in {"d", "r"} THEN << >> ELSE Missing)
            /\ tmp1' = Missing
            /\ status' = "ok"

\* main reads a command line; -s alone goes straight to updateSymbols.
RunCommand(c) ==
    /\ pc = "idle" /\ status # "killed" /\ archive # Damaged
    /\ commands < MaxCommands
    /\ commands' = commands + 1
    /\ cmd' = c
    /\ IF c.op = "none"
       THEN /\ pc' = "update" /\ job' = c /\ args' = c.args /\ status' = "ok"
            /\ before' = [archive |-> archive, disk |-> disk]
            /\ UNCHANGED <<next, temps>>
       ELSE Start(c)
    /\ UNCHANGED files

\* The place of n among the names not consumed yet.
ArgsFor(n) == {i \in DOMAIN args : args[i] = n}
MatchArgs(n) ==
    LET i == CHOOSE i \in ArgsFor(n) : \A k \in ArgsFor(n) : i <= k
    IN  args' = [args EXCEPT ![i] = Missing]

\* With -u a member gives way only to a newer file.
Newer(m) == disk[m.name].date > m.date

(***************************************************************************)
(* baMatch: -b starts the second temporary file at the member named; -a    *)
(* only sets a variable that nothing reads.                                *)
(***************************************************************************)
SecondFile(m) == tmp1 # Missing \/ (job.where = "b" /\ job.at = m.name)

Open2(m) == IF job.op = "r" /\ SecondFile(m) /\ tmp1 = Missing THEN << >> ELSE tmp1

\* copyFile to the temporary file in use.
Put(m, x) ==
    IF Open2(m) = Missing
    THEN tmp0' = Append(tmp0, x) /\ UNCHANGED tmp1
    ELSE tmp1' = Append(Open2(m), x) /\ UNCHANGED tmp0

Scanning(ops) == pc = "scan" /\ job.op \in ops /\ next <= Len(Members)
ThisMember == Members[next]
Wanted(n) == ArgsFor(n) # {}

\* dCmd, one member.
DeleteMember ==
    /\ Scanning({"d"})
    /\ LET m == ThisMember IN
       IF Wanted(m.name) THEN MatchArgs(m.name) /\ UNCHANGED temps
                         ELSE Put(m, m) /\ UNCHANGED args
    /\ next' = next + 1
    /\ UNCHANGED <<files, commands, cmd, job, pc, status, before>>

\* rCmd, one member; without names every member is wanted.
ReplaceMember ==
    /\ Scanning({"r"})
    /\ LET m == ThisMember IN
       /\ IF job.args # << >> /\ Wanted(m.name) THEN MatchArgs(m.name)
                                                ELSE UNCHANGED args
       /\ IF /\ job.args = << >> \/ Wanted(m.name)
             /\ disk[m.name] # Missing
             /\ ~job.u \/ Newer(m)
          THEN Put(m, FromFile(disk, m.name))
          ELSE Put(m, m)
    /\ next' = next + 1
    /\ UNCHANGED <<files, commands, cmd, job, pc, status, before>>

(***************************************************************************)
(* tCmd and xCmd, one member.  A file that creat cannot make is skipped    *)
(* with a message; having skipped a member xCmd stops if no name is left.  *)
(***************************************************************************)
ReadMember ==
    /\ Scanning({"t", "x"})
    /\ LET m == ThisMember
           wanted == job.args = << >> \/ Wanted(m.name)
       IN  \E created \in BOOLEAN :
           /\ created => job.op = "x" /\ wanted
           /\ IF Wanted(m.name) THEN MatchArgs(m.name) ELSE UNCHANGED args
           /\ disk' = IF created
                      THEN [disk EXCEPT ![m.name] =
                               [content |-> m.content, date |-> now]]
                      ELSE disk
           /\ status' = IF job.op = "x" /\ wanted /\ ~created THEN "not created"
                                                             ELSE status
           /\ IF job.op = "x" /\ ~created /\ job.args # << >>
                 /\ \A i \in DOMAIN args' : args'[i] = Missing
              THEN pc' = "finish" ELSE UNCHANGED pc
    /\ next' = next + 1
    /\ UNCHANGED <<archive, now, commands, cmd, job, temps, before>>

\* What a file may hold when writing x to it has failed.
Parts(x) == IF x \in Object THEN Object
                            ELSE {SubSeq(x, 1, k) : k \in 0 .. Len(x)}

\* copyFile of xCmd cannot write: done(1); some of the member stays in its file.
ExtractionError ==
    /\ Scanning({"x"})
    /\ LET m == ThisMember IN
       /\ job.args = << >> \/ Wanted(m.name)
       /\ \E part \in Parts(m.content) :
             disk' = [disk EXCEPT ![m.name] = [content |-> part, date |-> now]]
    /\ Exit("write error")
    /\ UNCHANGED <<archive, now, commands, cmd, job, args, next, before>>

\* getMember finds no further member.
ScanEnds ==
    /\ pc = "scan" /\ next > Len(Members)
    /\ pc' = CASE job.op = "r" -> "append"
               [] job.op = "d" -> "install"
               [] OTHER -> "finish"
    /\ UNCHANGED <<files, commands, cmd, job, args, next, temps, status, before>>

AsMembers(d, names) == [i \in DOMAIN names |-> FromFile(d, names[i])]
Readable(d) == {n \in Named : d[n] # Missing}

\* The files named that are not members yet, in order, as members.
NewMembers == AsMembers(disk, Only(args, Readable(disk)))

\* Mutant: the new members go to the file in use.
AppendArgsNoSwap ==
    /\ pc = "append"
    /\ IF tmp1 = Missing THEN tmp0' = tmp0 \o NewMembers /\ UNCHANGED tmp1
                         ELSE tmp1' = tmp1 \o NewMembers /\ UNCHANGED tmp0
    /\ args' = [i \in DOMAIN args |-> Missing]
    /\ pc' = "install"
    /\ UNCHANGED <<files, commands, cmd, job, next, status, before>>

(***************************************************************************)
(* moveargfiles: getMember has swapped the files at the end of the archive, *)
(* so the new members follow the first part.  A file that cannot be opened *)
(* counts as done.                                                         *)
(***************************************************************************)
AppendArgs ==
    /\ pc = "append"
    /\ tmp0' = tmp0 \o NewMembers
    /\ args' = [i \in DOMAIN args |-> Missing]
    /\ pc' = "install"
    /\ UNCHANGED <<files, commands, cmd, job, next, tmp1, status, before>>

\* Mutant: the temporary files are removed as soon as the archive is open.
TruncateUnlinking ==
    /\ pc = "install"
    /\ archive' = Damaged
    /\ tmp1' = Missing
    /\ pc' = "copy"
    /\ UNCHANGED <<disk, now, commands, cmd, job, args, next, tmp0, status, before>>

\* install: creat() empties the archive ...
Truncate ==
    /\ pc = "install"
    /\ archive' = Damaged
    /\ pc' = "copy"
    /\ UNCHANGED <<disk, now, commands, cmd, job, args, next, temps, status, before>>

\* ... and the temporary files are copied into it.
CopyTemps ==
    /\ pc = "copy"
    /\ archive' = IF tmp1 = Missing THEN tmp0 ELSE tmp0 \o tmp1
    /\ pc' = "finish"
    /\ UNCHANGED <<disk, now, commands, cmd, job, args, next, temps, status, before>>

\* creat or a write fails: done(1).
WriteError ==
    /\ \/ pc \in {"scan", "append"} /\ job.op \in {"d", "r"}
       \/ pc \in {"install", "copy"}
    /\ Exit("write error")
    /\ UNCHANGED <<files, commands, cmd, job, args, next, before>>

\* Nothing handles a signal: the temporary files stay.
Kill ==
    /\ pc # "idle"
    /\ pc' = "idle" /\ status' = "killed"
    /\ UNCHANGED <<files, commands, cmd, job, args, next, temps, before>>

\* Mutant: only -s brings the directory up to date.
HasSymbolsNever(a) == FALSE

\* hasSymbols: the first member is the directory.
HasSymbols(a) ==
    /\ a # Missing /\ a # << >>
    /\ a[1].name = SYMDEF

\* The end of a job: unlinkTempFiles, notFound, and whether to updateSymbols.
Finish ==
    /\ pc = "finish"
    /\ Unlinked
    /\ LET lost == \E i \in DOMAIN args : args[i] # Missing
           adding == job # cmd
       IN  IF lost \/ adding \/ ~(cmd.s \/ (cmd.op \in {"d", "r"} /\ HasSymbols(archive)))
           THEN pc' = "idle" /\ status' = IF lost THEN "not found" ELSE "ok"
           ELSE pc' = "update" /\ UNCHANGED status
    /\ UNCHANGED <<files, commands, cmd, job, args, next, before>>

---------------------------------------------------------------------------
IsObjectContent(x) == x \in Object
Bytes(x) == IF IsObjectContent(x) THEN Size[x]
            ELSE MAGIC + Len(x) * (ENTRY + StringSize)
Padded(k) == ((k + 3) \div 4) * 4

\* nextMember: the offset of member i of a.
Offset(a, i) ==
    LET at[k \in 1..Len(a)] ==
            IF k = 1 THEN MAGIC ELSE at[k-1] + HEADER + Padded(Bytes(a[k-1].content))
    IN  at[i]

\* addSymbol for every export of every member, in order.
Directory(a) ==
    LET entries(i) ==
            LET e == IF IsObjectContent(a[i].content) THEN Exports[a[i].content]
                     ELSE << >>
            IN  [k \in DOMAIN e |-> [name |-> e[k], file |-> a[i].name,
                                     position |-> Offset(a, i)]]
        upto[i \in 0..Len(a)] == IF i = 0 THEN << >> ELSE upto[i-1] \o entries(i)
    IN  upto[Len(a)]

Overflow(d) == Len(d) > MAX_SYM_ENTRIES

(***************************************************************************)
(* updateSymbols: the directory goes to the file __.SYMDEF and from there  *)
(* into the archive, in front of what is its first member.  With nothing   *)
(* exported stringArea is still NULL and strlen(stringArea) crashes; the   *)
(* file then exists, but what was buffered for it is lost.  When the file  *)
(* cannot be written: DirectoryNotWritten.                                 *)
(***************************************************************************)
UpdateSymbols ==
    /\ pc = "update"
    /\ IF archive = Missing THEN
          /\ Exit("no archive")
          /\ UNCHANGED <<disk, job, args, next, before>>
       ELSE IF archive = << >> THEN
          /\ Exit("ok")
          /\ UNCHANGED <<disk, job, args, next, before>>
       ELSE LET d == Directory(archive) IN
          IF Overflow(d) THEN
             /\ Exit("overflow")
             /\ UNCHANGED <<disk, job, args, next, before>>
          ELSE
             /\ disk' = [disk EXCEPT ![SYMDEF] = [content |-> d, date |-> now]]
             /\ IF d = << >>
                THEN Exit("crash") /\ UNCHANGED <<job, args, next, before>>
                ELSE /\ job' = [op |-> "r", args |-> <<SYMDEF>>, where |-> "b",
                                at |-> archive[1].name, u |-> FALSE, s |-> FALSE]
                     /\ args' = <<SYMDEF>> /\ next' = 1
                     /\ before' = [archive |-> archive, disk |-> disk']
                     /\ pc' = "scan" /\ tmp0' = << >> /\ tmp1' = Missing
                     /\ UNCHANGED status
    /\ UNCHANGED <<archive, now, commands, cmd>>

\* updateSymbols when the file __.SYMDEF cannot be made, or a write to it fails
\* and it is removed: the archive stays without an up-to-date directory.
DirectoryNotWritten ==
    /\ pc = "update" /\ archive \notin {Missing, << >>}
    /\ ~Overflow(Directory(archive))
    /\ disk' \in {disk, [disk EXCEPT ![SYMDEF] = Missing]}
    /\ Exit("no directory")
    /\ UNCHANGED <<archive, now, commands, cmd, job, args, next, before>>

\* Between two commands a file is written, or removed, and time may pass.
EditFile(n, o) ==
    /\ pc = "idle" /\ status # "killed" /\ archive # Damaged
    /\ commands \in 1..(MaxCommands - 1)
    /\ \E t \in {now, now + 1} :
          /\ t <= MaxTime
          /\ now' = t
          /\ disk' = [disk EXCEPT ![n] = IF o = Missing THEN Missing
                                         ELSE [content |-> o, date |-> t]]
    /\ before' = [archive |-> archive, disk |-> disk']
    /\ UNCHANGED <<archive, commands, cmd, job, pc, args, next, temps, status>>

\* No further command, or nothing a further command could work on.
Terminating ==
    /\ pc = "idle"
    /\ commands = MaxCommands \/ status = "killed" \/ archive = Damaged
    /\ UNCHANGED vars

Next ==
    \/ \E c \in Command : RunCommand(c)
    \/ DeleteMember \/ ReplaceMember \/ ReadMember \/ ScanEnds
    \/ AppendArgs \/ Truncate \/ CopyTemps \/ Finish \/ UpdateSymbols
    \/ WriteError \/ ExtractionError \/ DirectoryNotWritten \/ Kill
    \/ \E n \in File, o \in Object \cup {Missing} : EditFile(n, o)
    \/ Terminating

Spec == Init /\ [][Next]_vars

---------------------------------------------------------------------------
(***************************************************************************)
(* Properties                                                              *)
(***************************************************************************)
NamesIn(a) == {a[i].name : i \in DOMAIN a}
NamedBy(j) == {j.args[i] : i \in DOMAIN j.args}

\* Job j puts the file d[m.name] in the place of member m.
Replaces(j, d, m) ==
    /\ j.args = << >> \/ m.name \in NamedBy(j)
    /\ d[m.name] # Missing
    /\ j.u => d[m.name].date > m.date

Replaced(j, a, d) ==
    [i \in DOMAIN a |-> IF Replaces(j, d, a[i]) THEN FromFile(d, a[i].name) ELSE a[i]]

\* Where the new members go: in front of the member given with -b.
Cut(j, a) ==
    LET here == {i \in DOMAIN a : a[i].name = j.at}
    IN  IF j.where = "b" /\ here # {} THEN CHOOSE i \in here : TRUE ELSE Len(a) + 1

Added(j, a, d) == AsMembers(d, Only(j.args, Readable(d) \ NamesIn(a)))
NotNamed(j, a) == {a[i] : i \in {i \in DOMAIN a : a[i].name \notin NamedBy(j)}}

\* The archive that job j makes of archive a and the files of d.
Asked(j, a, d) ==
    CASE j.op = "d" -> Only(a, NotNamed(j, a))
      [] j.op = "r" -> SubSeq(Replaced(j, a, d), 1, Cut(j, a) - 1)
                         \o Added(j, a, d)
                         \o SubSeq(Replaced(j, a, d), Cut(j, a), Len(a))
      [] OTHER -> a

Before == IF before.archive = Missing THEN << >> ELSE before.archive
Result == Asked(job, Before, before.disk)

(***************************************************************************)
(* rCmd, dCmd, xCmd with baMatch, getMember's swap and install: what the   *)
(* loop over members and two temporary files leaves is the archive asked   *)
(* for: members named replaced in place or dropped, new ones in the order  *)
(* of the command line, in front of the member given with -b or at the     *)
(* end, and everything else as it was; x leaves a copy of each member      *)
(* unless it has said that it cannot create a file.                        *)
(***************************************************************************)
AskedFor ==
    pc = "finish" =>
        /\ job.op \in {"d", "r"} => archive = Result
        /\ job.op = "x" /\ status # "not created" => \A i \in DOMAIN archive :
              job.args = << >> \/ archive[i].name \in NamedBy(job) =>
                  disk[archive[i].name].content = archive[i].content

(***************************************************************************)
(* install: at any moment, a kill at any moment included, the archive is   *)
(* what it was or what it is to be, or else the temporary files on disk    *)
(* hold all of what it is to be.  Only a write error in install, which     *)
(* removes them, loses the archive.                                        *)
(***************************************************************************)
ContentsRecoverable ==
    \/ archive = before.archive
    \/ archive = Result
    \/ archive = Damaged /\ status = "write error"
    \/ archive = Damaged /\ Result = (IF tmp1 = Missing THEN tmp0 ELSE tmp0 \o tmp1)

WithoutPosition(d) == [i \in DOMAIN d |-> [name |-> d[i].name, file |-> d[i].file]]

(***************************************************************************)
(* main, hasSymbols, updateSymbols: after a successful d, r or s an        *)
(* archive that starts with a directory has no second member of any name,  *)
(* and the directory lists exactly what the members export, which is what  *)
(* ld's library search relies on; and after s there is a directory.        *)
(***************************************************************************)
LinkableArchive ==
    pc = "idle" /\ commands > 0 /\ status = "ok" /\ cmd.op \in {"d", "r", "none"}
      /\ archive \notin {Missing, << >>} =>
        /\ Cardinality(NamesIn(archive)) = Len(archive)
        /\ cmd.s => archive[1].name = SYMDEF
        /\ archive[1].name = SYMDEF =>
              WithoutPosition(archive[1].content) = WithoutPosition(Directory(archive))

\* unlinkTempFiles: however a command ends, unless it is killed, it leaves
\* neither v0... nor v1... behind.
NoTempFilesLeft ==
    pc = "idle" /\ status # "killed" => tmp0 = Missing /\ tmp1 = Missing
===========================================================================
