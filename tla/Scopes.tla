------------------------------ MODULE Scopes ------------------------------
(***************************************************************************)
(* The symbol tables of lcc: sym.c, the declarations of decl.c that enter  *)
(* identifiers in them (decl, dclglobal, dcllocal, dclparam, parameters,   *)
(* funcdefn, compound, finalize), the uses of expr.c, and the arena FUNC,  *)
(* which is emptied after every external declaration.                      *)
(*                                                                         *)
(* A table exists for a level only once something is declared there, so    *)
(* the chain of tables has gaps.  The parser reads one token ahead: an     *)
(* identifier is looked up when it becomes the token, before or after a    *)
(* scope is left.  A source file is any sequence of declarations and uses  *)
(* of a few names, bounded by the symbols in memory and the nesting of     *)
(* blocks.                                                                 *)
(***************************************************************************)
EXTENDS Naturals, Sequences, FiniteSets, SequencesExt

CONSTANTS Name,     \* identifiers
          Unit      \* the kinds of source files considered: see IsUnit

\* The levels; LABELS and CONSTANTS have tables of their own.
GLOBAL == 3
PARAM == 4
LOCAL_ == 5     \* LOCAL

\* names are used, for functions only if functions; symbols and level are bounds.
IsUnit(u) == /\ u.names \subseteq Name /\ u.functions \in BOOLEAN
             /\ u.symbols \in Nat /\ u.level \in Nat /\ u.level >= LOCAL_

ASSUME ScopesAssumption == \A u \in Unit : IsUnit(u)

NULL == 0

VARIABLES
    unit,           \* the kind of source file
    st,             \* level, identifiers, externals and the symbols, by address
    cfunc,          \* the function being defined, NULL if its name is not in Name
    t, tsym,        \* the token if it is an identifier, else "none", and its symbol
    phase,          \* "open", "rejected" by an error, "ended", or "failed" at the end
    scopes,         \* history: what the tables say, see ScopesOf
    linkage, definitions, designated, refused,      \* history: see BlockScopes
    ownNamed        \* history: functions defined with a parameter of their name

vars == <<unit, st, cfunc, t, tsym, phase, scopes, linkage, definitions, designated, refused, ownNamed>>

(***************************************************************************)
(* Tables.  bucket is the hash chain, newest first, restricted to the      *)
(* names that matter; all and the field up of the symbols are the list of  *)
(* all symbols.                                                            *)
(***************************************************************************)
Table == [level : Nat, bucket : Seq(Nat), all : Nat, arena : {"PERM", "FUNC"}]

Fresh(s) == CHOOSE n \in 1..(Cardinality(DOMAIN s.syms) + 1) :
                n \notin DOMAIN s.syms /\ \A k \in 1..(n - 1) : k \in DOMAIN s.syms

\* The first entry for name in the chain of a table, or NULL.
Find(s, tp, name) ==
    LET is == {i \in DOMAIN tp.bucket : s.syms[tp.bucket[i]].name = name}
    IN  IF is = {} THEN NULL
        ELSE tp.bucket[CHOOSE i \in is : \A j \in is : i <= j]

lookup(s, name) ==
    LET is == {i \in DOMAIN s.identifiers : Find(s, s.identifiers[i], name) # NULL}
    IN  IF is = {} THEN NULL
        ELSE Find(s, s.identifiers[CHOOSE i \in is : \A j \in is : j <= i], name)

NewTable(s, level) ==
    [level |-> level, bucket |-> << >>, all |-> Last(s.identifiers).all, arena |-> "FUNC"]

NewSymbol(name, scope, sclass, kind, arena) ==
    [name |-> name, scope |-> scope, sclass |-> sclass, kind |-> kind, arena |-> arena,
     alias |-> NULL, up |-> NULL, defined |-> FALSE, ref |-> FALSE,
     emitted |-> 0, exported |-> FALSE, imported |-> FALSE]

With(f, x, y) == [z \in DOMAIN f \cup {x} |-> IF z = x THEN y ELSE f[z]]
Linked(tp, n) == [tp EXCEPT !.bucket = <<n>> \o @, !.all = n]

\* install(name, &identifiers, level): the table of the level is made on demand.
install(s, p) ==
    LET n == Fresh(s)
        ids == IF Last(s.identifiers).level < p.scope
               THEN Append(s.identifiers, NewTable(s, p.scope)) ELSE s.identifiers
        tp == Last(ids)
    IN  [s EXCEPT !.syms = With(@, n, [p EXCEPT !.up = tp.all]),
                  !.identifiers = Append(Front(ids), Linked(tp, n))]

installGlobal(s, p) ==
    LET n == Fresh(s)
        tp == s.identifiers[1]
    IN  [s EXCEPT !.syms = With(@, n, [p EXCEPT !.up = tp.all]),
                  !.identifiers[1] = Linked(tp, n)]

installExternal(s, p) ==
    LET n == Fresh(s)
    IN  [s EXCEPT !.syms = With(@, n, [p EXCEPT !.up = s.externals.all]),
                  !.externals = Linked(@, n)]

\* The symbols from head along up, as long as they are of scope lev.
Chain(s, head, lev) ==
    LET most == Cardinality(DOMAIN s.syms)
        c[k \in 0..(most + 1)] == IF k = 0 THEN head
                                  ELSE IF c[k-1] = NULL THEN NULL ELSE s.syms[c[k-1]].up
        last == CHOOSE k \in 0..(most + 1) :
                    /\ \/ k > most
                       \/ c[k] \notin DOMAIN s.syms \/ s.syms[c[k]].scope # lev
                    /\ \A j \in 0..(k - 1) : c[j] \in DOMAIN s.syms /\ s.syms[c[j]].scope = lev
    IN  [k \in 1..last |-> c[k-1]]

Without(bucket, p) == RemoveAt(bucket, CHOOSE i \in DOMAIN bucket : bucket[i] = p)

\* Mutant: the entry stays in the list of all externals.
relocateListed(s, name) ==
    LET p == Find(s, s.externals, name)
    IN  [s EXCEPT !.externals.bucket = Without(@, p),
                  !.syms[p].up = s.identifiers[1].all,
                  !.identifiers[1] = Linked(@, p)]

\* The entry moves from the externals to the globals, in the hash chains and in the
\* lists of all symbols.
relocate(s, name) ==
    LET p == Find(s, s.externals, name)
        chain == Chain(s, s.externals.all, GLOBAL)
        i == CHOOSE k \in DOMAIN chain : chain[k] = p
        unlinked == IF i = 1 THEN [s EXCEPT !.externals.all = s.syms[p].up]
                    ELSE [s EXCEPT !.syms[chain[i-1]].up = s.syms[p].up]
    IN  [unlinked EXCEPT !.externals.bucket = Without(@, p),
                         !.syms[p].up = s.identifiers[1].all,
                         !.identifiers[1] = Linked(@, p)]

enterscope(s) == [s EXCEPT !.level = @ + 1]

exitscope(s) ==
    [s EXCEPT !.identifiers = IF Last(@).level = s.level THEN Front(@) ELSE @,
              !.level = @ - 1]

\* foreach: the symbols it visits, from the list of the innermost table of level lev.
Tables(s, lev) == {i \in DOMAIN s.identifiers : s.identifiers[i].level = lev}
foreach(s, lev) ==
    IF Tables(s, lev) = {} THEN << >>
    ELSE LET i == CHOOSE j \in Tables(s, lev) : TRUE
         IN  Chain(s, s.identifiers[i].all, lev)

\* deallocate(FUNC): what was in the arena is gone, whoever still points to it.  The
\* symbols of blocks that are PERM stay in memory; here they go too, and
\* NothingFreedReached says that nobody misses them.
deallocate(s) ==
    [s EXCEPT !.syms = [n \in {m \in DOMAIN @ : @[m].arena = "PERM" /\ @[m].scope = GLOBAL} |-> @[n]],
              !.identifiers = [i \in DOMAIN @ |-> IF @[i].arena = "FUNC"
                                                  THEN [@[i] EXCEPT !.arena = "freed"] ELSE @[i]]]

(***************************************************************************)
(* Declarations.                                                           *)
(***************************************************************************)
\* A definition is printed, and the name exported unless it is static.
defglobal(s, p) ==
    LET sym == s.syms[p]
    IN  [s EXCEPT !.syms[p] = [sym EXCEPT !.emitted = @ + 1, !.defined = TRUE,
                                          !.exported = @ \/ sym.sclass # "STATIC"]]

initglobal(s, p) ==
    [defglobal(s, p) EXCEPT !.syms[p].sclass = IF @ = "EXTERN" THEN "AUTO" ELSE @]

\* Mutant: what a block has introduced is not looked for.
dclglobalAnew(s, id, sclass, kind, init) ==
    LET p == lookup(s, id)
        known == p # NULL /\ s.syms[p].scope = GLOBAL
        r == IF known THEN p ELSE Fresh(s)
        placed == IF known
                  THEN [s EXCEPT !.syms[p].sclass = IF @ = "EXTERN" THEN sclass ELSE @]
                  ELSE installGlobal(s, NewSymbol(id, GLOBAL, sclass, kind, "PERM"))
        typed == [placed EXCEPT !.syms[r].kind = kind]
    IN  [s |-> IF init THEN initglobal(typed, r) ELSE typed, p |-> r,
         error |-> known /\ \/ s.syms[p].kind # kind
                            \/ kind # "function" /\ s.syms[p].defined /\ init]

\* The symbol of a declaration at file scope: the one it has, the one a block has
\* introduced, or a new one.
dclglobal(s, id, sclass, kind, init) ==
    LET p == lookup(s, id)
        known == p # NULL /\ s.syms[p].scope = GLOBAL
        q == Find(s, s.externals, id)
        r == IF known THEN p ELSE IF q # NULL THEN q ELSE Fresh(s)
        placed == IF known
                  THEN [s EXCEPT !.syms[p].sclass = IF @ = "EXTERN" THEN sclass ELSE @]
                  ELSE IF q # NULL THEN [relocate(s, id) EXCEPT !.syms[q].sclass = sclass]
                  ELSE installGlobal(s, NewSymbol(id, GLOBAL, sclass, kind, "PERM"))
        typed == [placed EXCEPT !.syms[r].kind = kind]
    IN  [s |-> IF init THEN initglobal(typed, r) ELSE typed, p |-> r,
         error |-> known /\ \/ s.syms[p].kind # kind
                            \/ kind # "function" /\ s.syms[p].defined /\ init]

dclparam(s, id) ==
    install(s, NewSymbol(id, s.level, "AUTO", "object", "FUNC"))

\* A parameter list of at most one name.
parameters(s, params) == IF params = << >> THEN s ELSE dclparam(s, params[1])

\* The declarator of a function that is not defined here, dclr1 and exitparams.
prototype(s, params) ==
    LET opened == IF s.level + 1 > PARAM THEN enterscope(enterscope(s)) ELSE enterscope(s)
        args == parameters(opened, params)
    IN  IF args.level > PARAM THEN exitscope(exitscope(args)) ELSE exitscope(args)

\* The symbol behind the extern declarations of blocks.
Outside(s, id) ==
    LET g == Find(s, s.identifiers[1], id)
    IN  IF g # NULL /\ s.syms[g].sclass # "TYPEDEF" THEN g ELSE Find(s, s.externals, id)

\* An extern declaration in a block, or a call of an unknown function: a symbol of the
\* block with an alias outside.
dclextern(s, id, kind, q) ==
    LET p == Fresh(s)
        local == install(s, NewSymbol(id, s.level, "EXTERN", kind, "PERM"))
        outer == IF q # NULL THEN local
                 ELSE installExternal(local, NewSymbol(id, GLOBAL, "EXTERN", kind, "PERM"))
    IN  [outer EXCEPT !.syms[p].alias = IF q # NULL THEN q ELSE Fresh(local)]

dcllocal(s, id, sclass, kind) ==
    LET q == lookup(s, id)
        old == s.syms[q]
    IN  [error |-> /\ q # NULL
                   /\ old.scope >= s.level \/ (old.scope = PARAM /\ s.level = LOCAL_)
                   /\ ~(sclass = "EXTERN" /\ old.sclass = "EXTERN" /\ old.kind = kind),
         s |-> IF sclass = "EXTERN" THEN dclextern(s, id, kind, Outside(s, id))
               ELSE install(s, NewSymbol(id, s.level, sclass, kind,
                                         IF sclass = "STATIC" THEN "PERM" ELSE "FUNC"))]

(***************************************************************************)
(* What the tables say, in the terms of BlockScopes.                       *)
(***************************************************************************)
Meaningless == [kind |-> "none", scope |-> 0]
Index(level) == IF level = GLOBAL THEN 1 ELSE IF level <= LOCAL_ THEN 2 ELSE level - LOCAL_ + 2

Entity(s, p) ==
    LET sym == s.syms[p]
        linked == sym.sclass = "EXTERN" \/ (sym.scope = GLOBAL /\ sym.sclass # "TYPEDEF")
    IN  [kind |-> sym.kind, scope |-> IF linked THEN 0 ELSE Index(sym.scope)]

ScopesOf(s) ==
    [i \in 1..Index(s.level) |-> [n \in Name |->
        LET js == {j \in DOMAIN s.identifiers :
                     /\ Index(s.identifiers[j].level) = i
                     /\ Find(s, s.identifiers[j], n) # NULL}
        IN  IF js = {} THEN Meaningless
            ELSE Entity(s, Find(s, s.identifiers[CHOOSE j \in js : \A k \in js : k <= j], n))]]

C == INSTANCE BlockScopes WITH status <- phase

\* The tables after a step, and what they say.
Becomes(s) == st' = s /\ scopes' = ScopesOf(s)

(***************************************************************************)
(* The parser.                                                             *)
(***************************************************************************)
\* The next token is looked up in the tables of s.  Between functions a declaration
\* starts with an identifier only if it names a type.
gettok(s, file) ==
    \E n \in unit.names \cup {"none"} :
        /\ n # "none" /\ file =>
              LET p == Find(s, s.identifiers[1], n) IN p # NULL /\ s.syms[p].sclass = "TYPEDEF"
        /\ t' = n /\ tsym' = IF n = "none" THEN NULL ELSE lookup(s, n)

Fits(s) == Cardinality(DOMAIN s.syms) <= unit.symbols

\* Before the first declaration; also after an error, when nothing that is read or
\* printed matters any more.
Start == [st |-> [level |-> GLOBAL, syms |-> << >>,
                  identifiers |-> <<[level |-> GLOBAL, bucket |-> << >>, all |-> NULL, arena |-> "PERM"]>>,
                  externals |-> [level |-> GLOBAL, bucket |-> << >>, all |-> NULL, arena |-> "PERM"]],
          cfunc |-> NULL, t |-> "none", tsym |-> NULL, linkage |-> [n \in Name |-> "none"],
          definitions |-> {}, ownNamed |-> {}, designated |-> Meaningless]

Init ==
    /\ unit \in Unit
    /\ st = Start.st /\ scopes = ScopesOf(st) /\ cfunc = Start.cfunc /\ t = Start.t /\ tsym = Start.tsym
    /\ linkage = Start.linkage /\ definitions = Start.definitions /\ ownNamed = Start.ownNamed
    /\ designated = Start.designated /\ refused = << >> /\ phase = "open"

Reject(item) ==
    /\ phase' = "rejected" /\ refused' = item
    /\ Becomes(Start.st) /\ cfunc' = Start.cfunc /\ t' = Start.t /\ tsym' = Start.tsym
    /\ linkage' = Start.linkage /\ definitions' = Start.definitions /\ ownNamed' = Start.ownNamed
    /\ designated' = Start.designated
    /\ UNCHANGED unit

Between == phase = "open" /\ st.level = GLOBAL /\ t = "none"
Inside == phase = "open" /\ st.level > GLOBAL /\ t = "none"

\* An external declaration that is no function definition, with deallocate.
GlobalDecl(id, sclass, kind, init, params) ==
    /\ Between
    /\ LET d == dclglobal(prototype(st, params), id, sclass, kind, init)
       IN  /\ Fits(d.s)
           /\ \/ d.error /\ Reject(<<"linked", id, kind, init>>)
              \/ /\ ~d.error
                 /\ gettok(d.s, TRUE)
                 /\ Becomes(deallocate(d.s))
                 /\ linkage' = C!LinkageAfter(id, sclass, kind)
                 /\ definitions' = IF init THEN definitions \cup {id} ELSE definitions
                 /\ designated' = Meaningless
                 /\ UNCHANGED <<unit, cfunc, phase, refused, ownNamed>>

Typedef(id) ==
    /\ phase = "open" /\ t = "none" /\ ~unit.functions
    /\ LET p == lookup(st, id)
           error == p # NULL /\ st.syms[p].scope = st.level
           s == install(st, NewSymbol(id, st.level, "TYPEDEF", "type",
                                      IF st.level < LOCAL_ THEN "PERM" ELSE "FUNC"))
       IN  \/ error /\ Reject(<<"own", id, "type">>)
           \/ /\ ~error /\ Fits(s)
              /\ gettok(s, st.level = GLOBAL)
              /\ Becomes(IF st.level = GLOBAL THEN deallocate(s) ELSE s)
              /\ designated' = Meaningless
              /\ UNCHANGED <<unit, cfunc, phase, linkage, definitions, refused, ownNamed>>

\* The head of a function definition and the { of its body.  The parameters of the old
\* style are declared twice, in the list and after it.
FunctionBegin(f, sclass, params, oldstyle) ==
    /\ Between
    /\ LET listed == parameters(enterscope(st), params)
           s == IF oldstyle THEN parameters(enterscope(exitscope(listed)), params) ELSE listed
           p == lookup(s, f)
           d == dclglobal(s, f, sclass, "function", FALSE)
           error == d.error \/ (p # NULL /\ s.syms[p].kind = "function" /\ s.syms[p].defined)
           body == enterscope([d.s EXCEPT !.syms[d.p].defined = TRUE])
       IN  /\ Fits(body)
           /\ \/ error /\ Reject(<<"function", f>>)
              \/ /\ ~error
                 /\ gettok(body, FALSE)
                 /\ Becomes(body) /\ cfunc' = d.p
                 /\ linkage' = C!LinkageAfter(f, sclass, "function")
                 /\ definitions' = definitions \cup {f}
                 /\ ownNamed' = IF f \in ToSet(params) THEN ownNamed \cup {f} ELSE ownNamed
                 /\ designated' = Meaningless
                 /\ UNCHANGED <<unit, phase, refused>>

\* The same for a function whose name nobody declares otherwise.
OtherFunctionBegin(params) ==
    /\ Between
    /\ Becomes(enterscope(parameters(enterscope(st), params))) /\ Fits(st')
    /\ gettok(st', FALSE)
    /\ designated' = Meaningless
    /\ UNCHANGED <<unit, cfunc, phase, linkage, definitions, refused, ownNamed>>

BlockBegin ==
    /\ Inside /\ st.level < unit.level
    /\ Becomes(enterscope(st)) /\ gettok(st', FALSE)
    /\ designated' = Meaningless
    /\ UNCHANGED <<unit, cfunc, phase, linkage, definitions, refused, ownNamed>>

\* Mutant: the token behind the } is read first.
BlockEndLate ==
    /\ Inside /\ st.level > LOCAL_
    /\ Becomes(exitscope(st)) /\ gettok(st, FALSE)
    /\ designated' = Meaningless
    /\ UNCHANGED <<unit, cfunc, phase, linkage, definitions, refused, ownNamed>>

\* The scope is left before the token behind the } is read.
BlockEnd ==
    /\ Inside /\ st.level > LOCAL_
    /\ Becomes(exitscope(st)) /\ gettok(st', FALSE)
    /\ designated' = Meaningless
    /\ UNCHANGED <<unit, cfunc, phase, linkage, definitions, refused, ownNamed>>

\* The end of compound and funcdefn; program then empties the arena.
FunctionEnd ==
    /\ Inside /\ st.level = LOCAL_
    /\ LET body == exitscope(st)
           s == exitscope(IF cfunc = NULL THEN body ELSE defglobal(body, cfunc))
       IN  gettok(s, TRUE) /\ Becomes(deallocate(s))
    /\ cfunc' = NULL
    /\ designated' = Meaningless
    /\ UNCHANGED <<unit, phase, linkage, definitions, refused, ownNamed>>

LocalDecl(id, sclass, kind, params) ==
    /\ Inside
    /\ LET s == IF kind = "function" THEN prototype(st, params) ELSE st
           d == dcllocal(s, id, sclass, kind)
       IN  /\ Fits(d.s)
           /\ \/ d.error /\ Reject(IF sclass = "EXTERN" THEN <<"linked", id, kind, FALSE>>
                                   ELSE <<"own", id, kind>>)
              \/ /\ ~d.error
                 /\ gettok(d.s, FALSE)
                 /\ Becomes(d.s)
                 /\ linkage' = IF sclass = "EXTERN" THEN C!LinkageAfter(id, sclass, kind) ELSE linkage
                 /\ designated' = Meaningless
                 /\ UNCHANGED <<unit, cfunc, phase, definitions, refused, ownNamed>>

\* A use of the token that is an identifier: primary and idtree.  Only the uses of
\* symbols outside blocks matter at the end.
Used(s, p) ==
    LET q == IF s.syms[p].scope > PARAM /\ s.syms[p].sclass = "EXTERN" THEN s.syms[p].alias ELSE p
    IN  [s EXCEPT !.syms[q].ref = s.syms[q].scope = GLOBAL /\ s.syms[q].sclass # "TYPEDEF"]

Use ==
    /\ phase = "open" /\ t # "none" /\ tsym # NULL
    /\ Becomes(Used(st, tsym))
    /\ designated' = Entity(st, tsym)
    /\ gettok(st', st.level = GLOBAL)
    /\ UNCHANGED <<unit, cfunc, phase, linkage, definitions, refused, ownNamed>>

UseUndeclared == phase = "open" /\ t # "none" /\ tsym = NULL /\ Reject(<<"use", t>>)

CallUndeclared ==
    /\ phase = "open" /\ t # "none" /\ tsym = NULL
    /\ LET p == Fresh(st)
           s == dclextern(st, t, "function", Find(st, st.externals, t))
       IN  /\ Fits(s)
           /\ Becomes(Used(s, p))
           /\ designated' = Entity(s, p)
    /\ linkage' = C!LinkageAfter(t, "EXTERN", "function")
    /\ gettok(st', FALSE)
    /\ UNCHANGED <<unit, cfunc, phase, definitions, refused, ownNamed>>

(***************************************************************************)
(* The end of the file.                                                    *)
(***************************************************************************)
doextern(s) ==
    [s EXCEPT !.syms = [p \in DOMAIN @ |->
        IF p \in ToSet(Chain(s, s.externals.all, GLOBAL)) THEN [@[p] EXCEPT !.imported = TRUE] ELSE @[p]]]

Tentative(sym) == ~sym.defined /\ sym.kind = "object" /\ sym.sclass \in {"AUTO", "STATIC"}
Imported(sym) == ~sym.defined /\ (sym.sclass = "EXTERN" \/ (sym.kind = "function" /\ sym.sclass = "AUTO"))

doglobal(s) ==
    [s EXCEPT !.syms = [p \in DOMAIN @ |->
        IF p \notin ToSet(foreach(s, GLOBAL)) THEN @[p]
        ELSE IF Imported(@[p]) THEN [@[p] EXCEPT !.imported = TRUE]
        ELSE IF Tentative(@[p]) THEN defglobal(s, p).syms[p] ELSE @[p]]]

Unresolved(s) ==
    \E p \in ToSet(foreach(s, GLOBAL)) :
        LET sym == s.syms[p]
        IN  sym.sclass = "STATIC" /\ ~sym.defined /\ sym.kind = "function" /\ sym.ref

finalize ==
    /\ Between
    /\ Becomes(doglobal(doextern(st)))
    /\ phase' = IF Unresolved(st') THEN "failed" ELSE "ended"
    /\ designated' = Meaningless
    /\ UNCHANGED <<unit, cfunc, t, tsym, linkage, definitions, refused, ownNamed>>

Stopped == phase # "open" /\ UNCHANGED vars

Params == {<< >>} \cup (IF unit.functions THEN {} ELSE {<<n>> : n \in unit.names})

Next ==
    \/ \E id \in unit.names, sclass \in {"AUTO", "STATIC", "EXTERN"} :
          \/ /\ ~unit.functions
             /\ \/ \E init \in BOOLEAN : GlobalDecl(id, sclass, "object", init, << >>)
                \/ LocalDecl(id, sclass, "object", << >>)
          \/ \E params \in Params : GlobalDecl(id, sclass, "function", FALSE, params)
          \/ \E params \in Params, oldstyle \in BOOLEAN : FunctionBegin(id, sclass, params, oldstyle)
    \/ \E id \in unit.names, params \in Params : LocalDecl(id, "EXTERN", "function", params)
    \/ \E id \in unit.names : Typedef(id)
    \/ \E params \in Params : OtherFunctionBegin(params)
    \/ BlockBegin \/ BlockEnd \/ FunctionEnd
    \/ Use \/ UseUndeclared \/ CallUndeclared
    \/ finalize \/ Stopped

Spec == Init /\ [][Next]_vars

(***************************************************************************)
(* Properties.                                                             *)
(***************************************************************************)
\* lcc's tables, levels and lookahead give every use the meaning C gives it, and a
\* declaration or use is refused only for an error of its own.
ImplementsBlockScopes == C!Spec

\* Nobody points into an arena that was emptied: not a table, a list, an alias of a
\* symbol that lives on, the current function or the token read ahead.
NothingFreedReached ==
    LET live == DOMAIN st.syms
    IN  /\ \A i \in DOMAIN st.identifiers :
              st.identifiers[i].arena # "freed" /\ ToSet(st.identifiers[i].bucket) \subseteq live
        /\ ToSet(st.externals.bucket) \subseteq live
        /\ {tsym, cfunc} \cup {st.syms[p].alias : p \in live} \subseteq live \cup {NULL}

\* foreach visits each symbol of a scope once, whatever was moved between the tables
\* and while inner tables are open.
ForeachExact ==
    /\ \A i \in DOMAIN st.identifiers :
          LET tp == st.identifiers[i] IN Chain(st, tp.all, tp.level) = tp.bucket
    /\ Chain(st, st.externals.all, GLOBAL) = st.externals.bucket

\* The pointers between tables, lists, aliases and symbols survive every declaration,
\* every end of a scope, relocate and deallocate(FUNC): foreach and doextern meet each
\* symbol once, and nothing is read from an emptied arena.
TablesSound == NothingFreedReached /\ ForeachExact

\* The symbols of a name outside blocks.
Outer(n) == {p \in DOMAIN st.syms : /\ st.syms[p].name = n /\ st.syms[p].scope = GLOBAL
                                    /\ st.syms[p].sclass # "TYPEDEF"}

\* At the end a name with linkage has one symbol, printed once if the file defines it,
\* exported if its linkage is external, otherwise imported; a static function that is
\* called is defined, or the compiler fails.
LinkedNames ==
    /\ phase = "failed" =>
          \E n \in Name : \/ n \in ownNamed \/ linkage[n] = "both"
                          \/ linkage[n] = "internal" /\ n \notin definitions
    /\ phase = "ended" =>
          \A n \in Name \ ownNamed : linkage[n] \in {"internal", "external"} =>
             \E p \in Outer(n) :
                LET sym == st.syms[p]
                IN  /\ Outer(n) = {p}
                    /\ sym.emitted = IF sym.defined THEN 1 ELSE 0
                    /\ n \in definitions => sym.defined
                    /\ sym.exported <=> sym.defined /\ linkage[n] = "external"
                    /\ sym.imported => ~sym.defined /\ linkage[n] = "external"
                    /\ sym.ref => sym.defined \/ sym.imported
===========================================================================
