----------------------------- MODULE MCLinker -----------------------------
(***************************************************************************)
(* A small world for the linker: seven object modules, four names, eleven  *)
(* libraries, among them some with a member of the same name, two with a    *)
(* stale symbol directory, an empty one, a missing one and a file that is  *)
(* no archive.                                                             *)
(***************************************************************************)
EXTENDS Linker, TLC

CONSTANTS main, f, g, h,
          crt, prog, libf, libh, libfg, liboddh, note,
          crtO, progO, fO, hO, gO, noteO,
          lA, lB, lAB, lC, lD, lS, lO, lM, lE, lGone, lText

MCName == {main, f, g, h}
MCObject == {crt, prog, libf, libh, libfg, liboddh, note}
MCFile == {crtO, progO, fO, hO, gO, noteO}
MCLibrary == {lA, lB, lAB, lC, lD, lS, lO, lM, lE, lGone, lText}

Place_(s, v) == [segment |-> s, value |-> v]
Rel(s, o, m, v, b) ==
    [segment |-> s, offset |-> o, method |-> m, value |-> v, base |-> b]
Size(c, d, b) == [ABS |-> 0, CODE |-> c, DATA |-> d, BSS |-> b]
NoDefs == [n \in {} |-> Place_("ABS", 0)]

MCContents ==
    [o \in MCObject |->
     CASE o = crt ->
            [magic |-> TRUE, size |-> Size(16, 4, 0), undefs |-> {f},
             defs |-> main :> Place_("CODE", 4),
             relocs |-> {Rel("CODE", 0, "J20", 0, SymBase(f)),
                         Rel("CODE", 8, "R15", 4, SegBase("CODE")),
                         Rel("DATA", 0, "W32", 0, SymBase(main))}]
       [] o = prog ->
            [magic |-> TRUE, size |-> Size(12, 8, 4), undefs |-> {f, h},
             defs |-> g :> Place_("DATA", 4),
             relocs |-> {Rel("CODE", 0, "RH20", 4, SymBase(h)),
                         Rel("CODE", 4, "RL12", 4, SymBase(h)),
                         Rel("CODE", 8, "J20", 0, SymBase(f)),
                         Rel("DATA", 0, "W32", 0, SegBase("BSS"))}]
       [] o = libf ->
            [magic |-> TRUE, size |-> Size(8, 0, 0), undefs |-> {h},
             defs |-> f :> Place_("CODE", 0),
             relocs |-> {Rel("CODE", 0, "RH20", 0, SymBase(h)),
                         Rel("CODE", 4, "JALR12", 0, SymBase(h))}]
       [] o = libh ->
            [magic |-> TRUE, size |-> Size(8, 0, 12), undefs |-> {main},
             defs |-> h :> Place_("CODE", 4),
             relocs |-> {Rel("CODE", 0, "RH20", 0, SegBase("BSS")),
                         Rel("CODE", 4, "RS12", 0, SegBase("BSS"))}]
       [] o = libfg ->
            [magic |-> TRUE, size |-> Size(4, 4, 0), undefs |-> {},
             defs |-> f :> Place_("CODE", 0) @@ g :> Place_("DATA", 0),
             relocs |-> {Rel("DATA", 0, "W32", 0, SegBase("DATA"))}]
       [] o = liboddh ->
            [magic |-> TRUE, size |-> Size(4, 0, 4), undefs |-> {},
             defs |-> h :> Place_("CODE", 2), relocs |-> {}]
       [] o = note ->
            [magic |-> FALSE, size |-> Size(0, 0, 0), undefs |-> {},
             defs |-> NoDefs, relocs |-> {}]]

MCDirectory ==
    [x \in MCFile |-> CASE x = crtO -> crt [] x = progO -> prog
                        [] x = noteO -> note [] OTHER -> Missing]

Entry(n, x) == [name |-> n, file |-> x]
Lib(kind, symdef, member) ==
    [kind |-> kind, symdef |-> symdef,
     member |-> [x \in MCFile |-> IF x \in DOMAIN member THEN member[x] ELSE Missing]]
NoMember == [x \in {} |-> note]

MCArchive ==
    [l \in MCLibrary |->
     CASE l = lA  -> Lib("archive", <<Entry(f, fO)>>, fO :> libf)
       [] l = lB  -> Lib("archive", <<Entry(h, hO)>>, hO :> libh)
       [] l = lAB -> Lib("archive", <<Entry(f, fO), Entry(h, hO)>>,
                         fO :> libf @@ hO :> libh)
       [] l = lC  -> Lib("archive", <<Entry(f, hO), Entry(g, hO)>>, hO :> libfg)
       [] l = lD  -> Lib("archive", <<Entry(h, hO)>>, NoMember)
       [] l = lS  -> Lib("archive", <<Entry(f, fO), Entry(h, fO)>>, fO :> libf)
       [] l = lO  -> Lib("archive", <<Entry(h, gO)>>, gO :> liboddh)
       [] l = lM  -> Lib("archive", <<Entry(main, gO)>>, gO :> crt)
       [] l = lE  -> Lib("archive", << >>, NoMember)
       [] l = lGone -> Lib("missing", << >>, NoMember)
       [] l = lText -> Lib("other", << >>, NoMember)]

CONSTANT MaxLibs        \* how many -l options at most

Starts(c, d, b) == [ABS |-> 0, CODE |-> c, DATA |-> d, BSS |-> b]
MCStarts == {Starts(Unset, Unset, Unset), Starts(4096, Unset, Unset),
             Starts(Unset, 64, Unset), Starts(8, 8, 4096)}

MCFiles == {<<crtO>>, <<progO>>, <<crtO, progO>>, <<progO, crtO>>,
            <<crtO, noteO>>, <<crtO, hO>>, <<crtO, crtO>>}

MCInvocation ==
    [files : MCFiles, libs : UNION {[1..k -> MCLibrary] : k \in 0..MaxLibs},
     start : {Starts(Unset, Unset, Unset), Starts(8, 8, 4096)},
     pageAlign : {FALSE}, header : {"aout"}]
    \cup
    [files : MCFiles, libs : {<<lAB>>, <<lB, lA>>},
     start : MCStarts, pageAlign : BOOLEAN, header : {"none", "aout", "elf"}]
===========================================================================
