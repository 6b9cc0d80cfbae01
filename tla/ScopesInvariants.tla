------------------------- MODULE ScopesInvariants -------------------------
(***************************************************************************)
(* The inductive invariants of Scopes, and the terms in which the proofs   *)
(* of ScopesProofs speak of its steps.                                     *)
(*                                                                         *)
(* TablesInvariant: the order of the pointers of sym.c.  ScopesInvariant:  *)
(* the open scopes of BlockScopes are read off the view of the tables.     *)
(* LinkedInvariant: a name with linkage has one symbol, with the marks of  *)
(* its linkage.  The other definitions say what an operation does to the   *)
(* tables, to their view, or to the symbols of a name.                     *)
(***************************************************************************)
EXTENDS Scopes

---------------------------------------------------------------------------
(* Tables in order *)

\* What is in memory.
Symbol == [name : Name, scope : Nat, sclass : {"AUTO", "STATIC", "EXTERN", "TYPEDEF"},
           kind : {"object", "function", "type"}, arena : {"PERM", "FUNC"},
           alias : Nat, up : Nat, defined : BOOLEAN, ref : BOOLEAN,
           emitted : Nat, exported : BOOLEAN, imported : BOOLEAN]

Memory == UNION {[D -> Symbol] : D \in SUBSET (Nat \ {NULL})}

State == [level : Nat, syms : Memory, identifiers : Seq(Table), externals : Table]

\* The symbols in memory: what they point to is in memory too, an alias is a symbol
\* outside blocks, and the symbols outside blocks are permanent.
SymbolsSound(syms) ==
    /\ syms \in Memory /\ IsFiniteSet(DOMAIN syms)
    /\ \A p \in DOMAIN syms :
          /\ syms[p].scope >= GLOBAL
          /\ syms[p].scope = GLOBAL => syms[p].arena = "PERM"
          /\ syms[p].up \in DOMAIN syms \cup {NULL}
          /\ syms[p].scope = GLOBAL /\ syms[p].up # NULL => syms[syms[p].up].scope = GLOBAL
          /\ \/ syms[p].alias = NULL
             \/ syms[p].alias \in DOMAIN syms /\ syms[syms[p].alias].scope = GLOBAL

\* What the list of a table of a level may go on with.
Below(syms, level) == {NULL} \cup {p \in DOMAIN syms : syms[p].scope < level}

At(bucket, end, i) == IF i \in DOMAIN bucket THEN bucket[i] ELSE end

\* The list of a table runs through its hash chain, and then leaves the level.
Listed(syms, tp) ==
    /\ tp.bucket \in Seq(DOMAIN syms)
    /\ \A i, j \in DOMAIN tp.bucket : tp.bucket[i] = tp.bucket[j] => i = j
    /\ \A i \in DOMAIN tp.bucket : syms[tp.bucket[i]].scope = tp.level
    /\ \E end \in Below(syms, tp.level) :
          /\ tp.all = At(tp.bucket, end, 1)
          /\ \A i \in DOMAIN tp.bucket : syms[tp.bucket[i]].up = At(tp.bucket, end, i + 1)

\* The tables go from the outermost to the innermost level.
TablesNested(level, ids) ==
    /\ level >= GLOBAL /\ ids # << >>
    /\ ids[1].level = GLOBAL /\ ids[1].arena = "PERM"
    /\ \A i, j \in DOMAIN ids : i < j => ids[i].level < ids[j].level
    /\ ids[Len(ids)].level <= level

\* Every table is listed, and no symbol is both a global and an external.
AllListed(syms, ids, ext) ==
    /\ ext.level = GLOBAL /\ Listed(syms, ext)
    /\ \A i \in DOMAIN ids : Listed(syms, ids[i])
    /\ ToSet(ids[1].bucket) \cap ToSet(ext.bucket) = {}

Sound(s) ==
    /\ s \in State
    /\ SymbolsSound(s.syms)
    /\ TablesNested(s.level, s.identifiers)
    /\ AllListed(s.syms, s.identifiers, s.externals)

---------------------------------------------------------------------------
(* Lists *)

\* Nothing changes in the symbols of a table.
Agree(f, g, tp) ==
    /\ ToSet(tp.bucket) \subseteq DOMAIN g
    /\ \A p \in ToSet(tp.bucket) : g[p].scope = f[p].scope /\ g[p].up = f[p].up
    /\ Below(f, tp.level) \subseteq Below(g, tp.level)

\* The symbol in front of the one at i is followed by what is behind it.
Bypassed(f, g, tp, i) ==
    /\ DOMAIN f \subseteq DOMAIN g /\ Below(f, tp.level) \subseteq Below(g, tp.level)
    /\ \A q \in ToSet(tp.bucket) : g[q].scope = f[q].scope
    /\ \A k \in DOMAIN tp.bucket : k # i => g[tp.bucket[k]].up =
          IF k = i - 1 THEN f[tp.bucket[i]].up ELSE f[tp.bucket[k]].up

\* The table tp2 has lost the symbol at i of tp.
Loses(f, tp, i, tp2) ==
    /\ tp2.level = tp.level /\ tp2.bucket = Without(tp.bucket, tp.bucket[i])
    /\ tp2.all = IF i = 1 THEN f[tp.bucket[i]].up ELSE tp.all

Forgets(tp, i, tp2) == ToSet(tp2.bucket) = ToSet(tp.bucket) \ {tp.bucket[i]}

---------------------------------------------------------------------------
(* The operations on the tables *)

\* The symbols outside blocks stay where they are.
Kept(s, s2) ==
    \A p \in DOMAIN s.syms : s.syms[p].scope = GLOBAL =>
        p \in DOMAIN s2.syms /\ s2.syms[p].scope = GLOBAL

Outermost(s, q) == q \in DOMAIN s.syms /\ s.syms[q].scope = GLOBAL

\* Only what the tables do not depend on changes in the symbols.
Same(s, s2) ==
    /\ s2 \in State /\ s2.level = s.level
    /\ s2.identifiers = s.identifiers /\ s2.externals = s.externals
    /\ DOMAIN s2.syms = DOMAIN s.syms
    /\ \A p \in DOMAIN s.syms :
          /\ s2.syms[p].scope = s.syms[p].scope /\ s2.syms[p].arena = s.syms[p].arena
          /\ s2.syms[p].up = s.syms[p].up
          /\ s2.syms[p].alias = s.syms[p].alias \/ Outermost(s, s2.syms[p].alias)

\* At most the table of the current level goes.
Dropped(s, s2) ==
    /\ \A i \in DOMAIN s2.identifiers : i \in DOMAIN s.identifiers /\ s2.identifiers[i] = s.identifiers[i]
    /\ \A i \in DOMAIN s.identifiers : i \notin DOMAIN s2.identifiers => s.identifiers[i].level = s.level

\* A new symbol without alias, in front of the list that begins at head.
Storable(s, y, scope, head) ==
    /\ y \in Symbol /\ y.scope = scope /\ scope >= GLOBAL /\ y.alias = NULL
    /\ scope = GLOBAL => y.arena = "PERM"
    /\ y.up = head /\ head \in DOMAIN s.syms \cup {NULL}
    /\ scope = GLOBAL /\ head # NULL => s.syms[head].scope = GLOBAL

\* The symbols g are those of s and y at the address n.
IsStored(s, n, y, g) ==
    /\ SymbolsSound(g) /\ n \notin DOMAIN s.syms /\ n \in Nat /\ n # NULL
    /\ DOMAIN g = DOMAIN s.syms \cup {n} /\ g[n] = y
    /\ \A p \in DOMAIN s.syms : g[p] = s.syms[p]

\* What a declaration leaves.
Adds(s, s2, n, p) ==
    /\ Sound(s2) /\ Kept(s, s2) /\ s2.level = s.level
    /\ DOMAIN s.syms \subseteq DOMAIN s2.syms /\ n \in DOMAIN s2.syms
    /\ s2.syms[n].scope = p.scope /\ s2.syms[n].sclass = p.sclass

FollowedBy(f, q, v) == [f EXCEPT ![q].up = v]

\* g differs from f in what follows q.
Refollowed(f, g, q, v) ==
    /\ SymbolsSound(g) /\ DOMAIN g = DOMAIN f /\ g[q].up = v
    /\ \A p \in DOMAIN f : g[p].scope = f[p].scope /\ (p # q => g[p].up = f[p].up)

\* Only symbols of blocks go.
Purged(s, s2) ==
    /\ s2.identifiers = s.identifiers
    /\ \A p : p \in DOMAIN s2.syms <=> Outermost(s, p)
    /\ \A p \in DOMAIN s2.syms : s2.syms[p] = s.syms[p]

---------------------------------------------------------------------------
(* The declarations *)

\* The tables are in order after a declaration, and the symbols outside blocks stay.
Leaves(s, s2) == Sound(s2) /\ Kept(s, s2) /\ s2.level = s.level

---------------------------------------------------------------------------
(* The inductive invariant of TablesSound *)

\* The tables are in order, and the token read ahead and the current function are
\* symbols in memory; the function is one outside blocks, which outlives its body.
TablesInvariant ==
    /\ unit \in Unit /\ Sound(st)
    /\ t \in Name \cup {"none"} /\ tsym \in DOMAIN st.syms \cup {NULL}
    /\ cfunc = NULL \/ Outermost(st, cfunc)

---------------------------------------------------------------------------
(* What the tables say *)

\* The hash chain of a level, empty without a table; what a name is there.
Bucket(s, l) == IF Tables(s, l) = {} THEN << >>
                ELSE s.identifiers[CHOOSE j \in Tables(s, l) : TRUE].bucket
First(s, b, n) == Find(s, [bucket |-> b], n)
Named(s, l, n) == First(s, Bucket(s, l), n)
View(s) == [l \in Nat |-> [n \in Name |-> IF Named(s, l, n) = NULL THEN Meaningless
                                          ELSE Entity(s, Named(s, l, n))]]

\* A symbol in front of a chain is found first.
Before(p, b) == <<p>> \o b

FoundAfter(s, p, b, n, x) == x = IF s.syms[p].name = n THEN p ELSE First(s, b, n)

\* What is found depends on the names in the chain.
SameNames(s, s2, b) == \A q \in ToSet(b) : s2.syms[q].name = s.syms[q].name

\* Symbols that say the same.
Alike(s, s2, q) == s2.syms[q].name = s.syms[q].name /\ Entity(s2, q) = Entity(s, q)

\* A view with a meaning more.
Put(v, l, n, e) == [v EXCEPT ![l] = [v[l] EXCEPT ![n] = e]]

\* p has come in front of the chain of a level, and nothing else changed in the chains.
Pushed(s, s2, level, p) ==
    \A l \in Nat :
        /\ Bucket(s2, l) = IF l = level THEN Before(p, Bucket(s, l)) ELSE Bucket(s, l)
        /\ \A q \in ToSet(Bucket(s, l)) : Alike(s, s2, q)

---------------------------------------------------------------------------
(* What the operations make the tables say *)

\* n is a new symbol like p; the others are as they were.
IsNew(s, s2, n, p) ==
    /\ n \notin DOMAIN s.syms /\ n # NULL
    /\ DOMAIN s2.syms = DOMAIN s.syms \cup {n}
    /\ \A q \in DOMAIN s.syms : s2.syms[q] = s.syms[q]
    /\ s2.syms[n].name = p.name /\ s2.syms[n].scope = p.scope /\ s2.syms[n].sclass = p.sclass
    /\ s2.syms[n].kind = p.kind /\ s2.syms[n].defined = p.defined

\* The table of a level gets n in front, or is made for it.
TablesPushed(s, s2, level, n) ==
    /\ \A i \in DOMAIN s.identifiers : s.identifiers[i].level # level =>
          \E j \in DOMAIN s2.identifiers : /\ s2.identifiers[j].level = s.identifiers[i].level
                                           /\ s2.identifiers[j].bucket = s.identifiers[i].bucket
    /\ \A j \in DOMAIN s2.identifiers : s2.identifiers[j].level # level =>
          \E i \in DOMAIN s.identifiers : s.identifiers[i].level = s2.identifiers[j].level
    /\ \E j \in DOMAIN s2.identifiers : /\ s2.identifiers[j].level = level
                                        /\ s2.identifiers[j].bucket = Before(n, Bucket(s, level))

\* n is in no table.
Unlisted(s, n) == \A l \in Nat : n \notin ToSet(Bucket(s, l))

\* What a new symbol says.
Says(p) == Entity([syms |-> [q \in {NULL} |-> p]], NULL)

---------------------------------------------------------------------------
(* Symbols that change without a change of what the tables say *)

\* A symbol y that is now z means the same; names in N may be defined since.
Agrees(y, z, N) ==
    /\ z.name = y.name /\ z.kind = y.kind /\ z.scope = y.scope
    /\ \/ z.sclass = y.sclass
       \/ y.scope = GLOBAL /\ y.sclass # "TYPEDEF" /\ z.sclass # "TYPEDEF"
    /\ z.defined => y.defined \/ y.name \in N

Restated(s, s2, N) ==
    /\ s2.identifiers = s.identifiers /\ DOMAIN s2.syms = DOMAIN s.syms
    /\ \A q \in DOMAIN s.syms : Agrees(s.syms[q], s2.syms[q], N)

\* The symbols of types are those with TYPEDEF, and what is defined is in D.
Meant(s, D) ==
    \A q \in DOMAIN s.syms :
       /\ s.syms[q].sclass = "TYPEDEF" <=> s.syms[q].kind = "type"
       /\ s.syms[q].defined => s.syms[q].name \in D

\* The symbols keep their names.
Remains(s, s2) == \A q \in DOMAIN s.syms : q \in DOMAIN s2.syms /\ s2.syms[q].name = s.syms[q].name

---------------------------------------------------------------------------
(* What a name means *)

\* What a level says of a name.
SaysOf(s, l, n) ==
    LET p == Named(s, l, n)
    IN  /\ p = NULL => View(s)[l][n] = Meaningless
        /\ p # NULL => /\ p \in DOMAIN s.syms /\ s.syms[p].name = n /\ s.syms[p].scope = l
                       /\ View(s)[l][n] = Entity(s, p)

\* Lookup finds the innermost meaning.
Finds(s, n, p) ==
    /\ p = NULL => \A l \in Nat : View(s)[l][n] = Meaningless
    /\ p # NULL => /\ p \in DOMAIN s.syms /\ s.syms[p].name = n
                   /\ s.syms[p].scope \in Nat /\ GLOBAL <= s.syms[p].scope /\ s.syms[p].scope <= s.level
                   /\ View(s)[s.syms[p].scope][n] = Entity(s, p) /\ Entity(s, p) # Meaningless
                   /\ \A l \in Nat : l > s.syms[p].scope => View(s)[l][n] = Meaningless

---------------------------------------------------------------------------
(* Declarations at file scope *)

\* The place of a moved symbol in the lists means nothing.
AllAgree(D, f, g) == g \in [D -> Symbol] /\ \A x \in D : Agrees(f[x], g[x], {})

\* q, an external of that name, is now in front of the globals.
Moved(s, u, name, q) ==
    /\ q \in DOMAIN s.syms /\ s.syms[q].name = name /\ s.syms[q].scope = GLOBAL /\ Unlisted(s, q)
    /\ u.identifiers = [s.identifiers EXCEPT ![1] = Linked(s.identifiers[1], q)]
    /\ DOMAIN u.syms = DOMAIN s.syms
    /\ \A x \in DOMAIN s.syms : Agrees(s.syms[x], u.syms[x], {})

\* Something with linkage.
Global(kind) == [kind |-> kind, scope |-> 0]

\* id is declared with linkage at file scope, by the symbol r.
Declares(s, s2, r, id, kind, D) ==
    /\ View(s2) = Put(View(s), GLOBAL, id, Global(kind))
    /\ s2.syms[r].name = id /\ s2.syms[r].kind = kind
    /\ Meant(s2, D)

Classed(s, p, x) == [s EXCEPT !.syms[p].sclass = x]
Reclassed(s, p, x) == [s EXCEPT !.syms[p].sclass = IF @ = "EXTERN" THEN x ELSE @]
Kinded(s, p, x) == [s EXCEPT !.syms[p].kind = x]

Retype(r, y, sclass, kind) ==
    /\ y.name = r.name /\ y.scope = r.scope /\ y.defined = r.defined
    /\ y.sclass = sclass /\ y.kind = kind

\* The symbol q of u has another storage class and kind in s2.
RetypedIn(u, s2, q, sclass, kind) ==
    /\ s2.identifiers = u.identifiers /\ DOMAIN s2.syms = DOMAIN u.syms
    /\ Retype(u.syms[q], s2.syms[q], sclass, kind)
    /\ \A x \in DOMAIN u.syms : x # q => s2.syms[x] = u.syms[x]

\* N when the declaration has an initializer.
Defined(init, id) == IF init THEN {id} ELSE {}

---------------------------------------------------------------------------
(* Scopes, parameters and prototypes *)

\* The names of a level are forgotten.
NothingThere == [n \in Name |-> Meaningless]
Erased(v, l) == [v EXCEPT ![l] = NothingThere]

\* A parameter or a variable of a block.
LocalOf(kind, level) == [kind |-> kind, scope |-> Index(level)]

\* The view after the parameters are declared at a level.
WithParams(v, level, params) ==
    IF params = << >> THEN v ELSE Put(v, level, params[1], LocalOf("object", level))

\* A declaration in a block.
LocalEntity(sclass, kind, level) == IF sclass = "EXTERN" THEN Global(kind) ELSE LocalOf(kind, level)

---------------------------------------------------------------------------
(* The open scopes *)

\* What the i-th scope of a view says: the parameters and the outermost block of a
\* function are one scope.
Within(v, i) ==
    [n \in Name |-> IF i = 1 THEN v[GLOBAL][n]
                    ELSE IF i = 2 THEN IF v[LOCAL_][n] # Meaningless THEN v[LOCAL_][n] ELSE v[PARAM][n]
                    ELSE v[i + 3][n]]

Open(v, level) == [i \in 1 .. Index(level) |-> Within(v, i)]

\* The tables of a scope that know n.
Knowing(s, i, n) == {j \in DOMAIN s.identifiers : /\ Index(s.identifiers[j].level) = i
                                                  /\ Find(s, s.identifiers[j], n) # NULL}

\* The levels the parser stops at.
Level(l) == l \in Nat /\ (l = GLOBAL \/ l >= LOCAL_)

IsView(v) == DOMAIN v = Nat /\ \A l \in Nat : DOMAIN v[l] = Name

\* A scope at a name.
WithinAt(v, i, n) == IF i = 1 THEN v[GLOBAL][n]
                     ELSE IF i = 2 THEN IF v[LOCAL_][n] # Meaningless THEN v[LOCAL_][n] ELSE v[PARAM][n]
                     ELSE v[i + 3][n]

\* A declaration in the innermost scope.
DeclaredIn(sc, n, e) == [sc EXCEPT ![Len(sc)] = [@ EXCEPT ![n] = e]]

\* A function begins, and ends.
IsParams(params) == params = << >> \/ \E n \in Name : params = <<n>>

ParametersOf(params) ==
    [n \in Name |-> IF n \in ToSet(params) THEN LocalOf("object", PARAM) ELSE Meaningless]

\* What is seen of a name.
Showing(sc, n) == {i \in DOMAIN sc : sc[i][n] # Meaningless}
Seen(sc, n) == IF Showing(sc, n) = {} THEN Meaningless
               ELSE sc[CHOOSE i \in Showing(sc, n) : \A j \in Showing(sc, n) : j <= i][n]

---------------------------------------------------------------------------
(* The inductive invariant of the refinement *)

\* The token read ahead is looked up in the tables as they are now.
TokenFound ==
    /\ t # "none" => t \in unit.names
    /\ tsym = IF t = "none" THEN NULL ELSE lookup(st, t)
    /\ t # "none" /\ st.level = GLOBAL => tsym # NULL

\* What is marked as defined is defined in the file.
MarksMeant ==
    /\ Meant(st, definitions)
    /\ cfunc = NULL \/ st.syms[cfunc].name \in definitions
    /\ st.level = GLOBAL => cfunc = NULL

ScopesInvariant ==
    /\ TablesInvariant /\ Level(st.level) /\ scopes = Open(View(st), st.level)
    /\ phase = "open" => TokenFound /\ MarksMeant

\* What BlockScopes says, of the tables.
Clash(n, e) == LET old == Last(scopes)[n] IN old # Meaningless /\ ~(old = e /\ e.scope = 0)

\* A step that defines nothing.
Continues(s) ==
    /\ Sound(s) /\ Level(s.level) /\ Becomes(s)
    /\ Meant(st, definitions) => Meant(s, definitions)
    /\ st.level = GLOBAL \/ Remains(st, s)
    /\ s.level = GLOBAL => st.level = GLOBAL
    /\ UNCHANGED <<unit, cfunc, definitions>>

\* The parameters of a function that is defined.
HeadOf(s, params, h) ==
    /\ Leaves(enterscope(s), h) /\ h.level = PARAM
    /\ View(h) = WithParams(View(s), PARAM, params)
    /\ \A D : Meant(s, D) => Meant(h, D)
    /\ Remains(s, h)

---------------------------------------------------------------------------
(* Names with linkage *)

\* Where the symbols outside blocks are.
Globals(s) == ToSet(s.identifiers[1].bucket)
Externals(s) == ToSet(s.externals.bucket)

\* The symbols of n outside blocks, and those of them that are no types.
IsOf(s, p, n) == p \in DOMAIN s.syms /\ s.syms[p].name = n /\ s.syms[p].scope = GLOBAL
IsOuter(s, p, n) == IsOf(s, p, n) /\ s.syms[p].sclass # "TYPEDEF"

\* A name has one symbol outside blocks, or a type and an external.
OneSymbol(s, n) ==
    /\ \A p : IsOf(s, p, n) => p \in Globals(s) \cup Externals(s)
    /\ \A p : IsOf(s, p, n) /\ p \in Externals(s) => s.syms[p].sclass = "EXTERN" /\ ~s.syms[p].defined
    /\ \A p, q : /\ IsOf(s, p, n) /\ IsOf(s, q, n)
                 /\ \/ p \in Globals(s) /\ q \in Globals(s)
                    \/ IsOuter(s, p, n) /\ IsOuter(s, q, n)
                 => p = q

\* A symbol y of linkage l is printed when it is defined, but a function only at the
\* end of its body, and exported if its linkage is external.
Printed(y, l, current) ==
    /\ y.emitted = IF y.defined /\ ~current THEN 1 ELSE 0
    /\ ~y.imported
    /\ l = "internal" => y.sclass = "STATIC"
    /\ l = "external" => y.sclass \in {"AUTO", "EXTERN"}
    /\ y.exported => y.emitted = 1
    /\ y.emitted = 1 /\ l \in {"internal", "external"} => (y.exported <=> l = "external")

\* A name of linkage l in a file that defines the names in D, inside the function c.
NameSound(s, n, l, D, c) ==
    /\ OneSymbol(s, n)
    /\ l # "none" <=> \E p : IsOuter(s, p, n)
    /\ n \in D => \E p : IsOuter(s, p, n) /\ s.syms[p].defined
    /\ IsOf(s, c, n) => IsOuter(s, c, n) /\ s.syms[c].defined
    /\ \A p : IsOuter(s, p, n) => Printed(s.syms[p], l, p = c)

\* What is declared with linkage in an open scope has one.
LinkageKnown ==
    /\ linkage \in [Name -> {"none", "internal", "external", "both"}]
    /\ \A i \in DOMAIN scopes, n \in Name :
          scopes[i][n] # Meaningless /\ scopes[i][n].scope = 0 => linkage[n] # "none"

NamesSound == \A n \in Name \ ownNamed : NameSound(st, n, linkage[n], definitions, cfunc)

LinkedInvariant ==
    /\ ScopesInvariant /\ LinkedNames
    /\ phase = "open" => LinkageKnown /\ NamesSound

---------------------------------------------------------------------------
(* Linkage *)

\* One declaration with linkage more: a name that has a linkage keeps it or has both.
LinkageStep(l, l2, sclass) ==
    /\ l2 \in {"internal", "external", "both"}
    /\ l # "none" => l2 \in {l, "both"}
    /\ sclass = "STATIC" => l2 \in {"internal", "both"}
    /\ l = "none" /\ sclass # "STATIC" => l2 = "external"

---------------------------------------------------------------------------
(* What leaves a name alone *)

SameMarks(y, z) ==
    /\ z.sclass = y.sclass /\ z.kind = y.kind /\ z.defined = y.defined
    /\ z.emitted = y.emitted /\ z.exported = y.exported /\ z.imported = y.imported

\* The symbols of n outside blocks are as they were, where they were.
Undisturbed(s, s2, n) ==
    /\ \A p : IsOf(s2, p, n) <=> IsOf(s, p, n)
    /\ \A p : IsOf(s, p, n) => /\ SameMarks(s.syms[p], s2.syms[p])
                               /\ p \in Globals(s2) <=> p \in Globals(s)
                               /\ p \in Externals(s2) <=> p \in Externals(s)

Quiet(s, s2) == \A n : Undisturbed(s, s2, n)

---------------------------------------------------------------------------
(* What declares a name *)

\* A symbol that is not defined, printed, exported or imported.
Blank(y) == ~y.defined /\ y.emitted = 0 /\ ~y.exported /\ ~y.imported

\* p, a new symbol of n, is with gs among the globals or with es among the externals.
Entered(s, s2, p, n, sclass, gs, es) ==
    /\ p \notin DOMAIN s.syms /\ p \in DOMAIN s2.syms
    /\ \A q, a : IsOf(s2, q, a) <=> IsOf(s, q, a) \/ (q = p /\ a = n)
    /\ \A q, a : IsOf(s, q, a) => SameMarks(s.syms[q], s2.syms[q])
    /\ Blank(s2.syms[p]) /\ s2.syms[p].sclass = sclass
    /\ Globals(s2) = Globals(s) \cup gs /\ Externals(s2) = Externals(s) \cup es

\* p, a symbol of n, is written, and among the globals from now on.
Rewrites(s, s2, p, n) ==
    /\ IsOf(s, p, n) /\ p \in Globals(s2) /\ p \notin Externals(s2)
    /\ \A q, a : IsOf(s2, q, a) <=> IsOf(s, q, a)
    /\ \A q, a : IsOf(s, q, a) /\ q # p => /\ SameMarks(s.syms[q], s2.syms[q])
                                           /\ q \in Globals(s2) <=> q \in Globals(s)
                                           /\ q \in Externals(s2) <=> q \in Externals(s)

\* r is the one symbol of the name that is no type.
TheOne(u, r, n) == OneSymbol(u, n) /\ \A q : IsOuter(u, q, n) <=> q = r

\* The symbol z is y, declared with that type and perhaps an initializer.
Initialises(y, z, kind, init) ==
    /\ z.kind = kind /\ z.imported = y.imported
    /\ z.sclass = IF init /\ y.sclass = "EXTERN" THEN "AUTO" ELSE y.sclass
    /\ z.emitted = y.emitted + IF init THEN 1 ELSE 0
    /\ z.defined <=> y.defined \/ init
    /\ z.exported <=> y.exported \/ (init /\ y.sclass # "STATIC")

\* The symbol z is y after its definition is printed.
Completed(y, z) ==
    /\ z.sclass = y.sclass /\ z.kind = y.kind /\ z.defined /\ z.imported = y.imported
    /\ z.emitted = y.emitted + 1 /\ (z.exported <=> y.exported \/ y.sclass # "STATIC")

\* The same symbols, but for the lists they are in.
AllMarks(D, f, g) ==
    /\ g \in [D -> Symbol]
    /\ \A x \in D : g[x].name = f[x].name /\ g[x].scope = f[x].scope /\ SameMarks(f[x], g[x])

\* What relocate writes.
Moves(s, u, q) ==
    /\ u.identifiers = [s.identifiers EXCEPT ![1] = Linked(s.identifiers[1], q)]
    /\ u.externals.bucket = Without(s.externals.bucket, q)
    /\ \E f : /\ f = s.syms \/ \E c : f = [s.syms EXCEPT ![c].up = s.syms[q].up]
              /\ u.syms = [f EXCEPT ![q].up = s.identifiers[1].all]

\* The symbol y of a declaration goes on with the symbol r of the name n, or is new.
Resumes(s, y, r, n, sclass) ==
    \/ r \notin DOMAIN s.syms /\ Blank(y) /\ y.sclass = sclass /\ \A q : ~IsOuter(s, q, n)
    \/ /\ IsOuter(s, r, n)
       /\ y.defined = s.syms[r].defined /\ y.emitted = s.syms[r].emitted
       /\ y.exported = s.syms[r].exported /\ y.imported = s.syms[r].imported
       /\ y.sclass = IF s.syms[r].sclass = "EXTERN" THEN sclass ELSE s.syms[r].sclass

\* All names but n are left alone.
Spares(s, u, n) == \A a : a # n => Undisturbed(s, u, a)

\* r is a global of that name, and other names are left alone.
Placed(s, u, r, n) ==
    /\ Sound(u) /\ IsOf(u, r, n) /\ r \in Globals(u) /\ Spares(s, u, n)

\* What a declaration at file scope makes of a name.
Declared(s, u, r, n, sclass, kind, init) ==
    /\ TheOne(u, r, n) /\ r \in Globals(u)
    /\ \E y : Resumes(s, y, r, n, sclass) /\ Initialises(y, u.syms[r], kind, init)

\* A declaration of n at file scope that is no error, with nothing of n hidden.
Declarable(s, n, d) ==
    /\ OneSymbol(s, n) /\ ~d.error
    /\ \A q \in DOMAIN s.syms : s.syms[q].sclass = "TYPEDEF" <=> s.syms[q].kind = "type"
    /\ lookup(s, n) # NULL => s.syms[lookup(s, n)].scope = GLOBAL

---------------------------------------------------------------------------
(* What a declaration makes of a name *)

\* No symbol of n outside blocks is defined.
Undefined(s, n) == \A q : IsOuter(s, q, n) => ~s.syms[q].defined

\* The body of a function begins.
Begun(s, r) == [s EXCEPT !.syms[r].defined = TRUE]

\* q is the symbol of a name outside blocks, or there is none.
Outsider(s, n, q) == /\ q # NULL => IsOuter(s, q, n)
                     /\ q = NULL => \A p : ~IsOuter(s, p, n)

---------------------------------------------------------------------------
(* The end of the file *)

\* What the end of the file makes of a symbol.
Finishes(s, g, p) ==
    LET y == s.syms[p]
        z == g.syms[p]
    IN  /\ z.name = y.name /\ z.scope = y.scope /\ z.sclass = y.sclass /\ z.kind = y.kind
        /\ z.ref = y.ref
        /\ \/ /\ p \in Externals(s) \/ (p \in Globals(s) /\ Imported(y))
              /\ z.imported /\ z.defined = y.defined /\ z.emitted = y.emitted
              /\ z.exported = y.exported
           \/ p \in Globals(s) /\ ~Imported(y) /\ Tentative(y) /\ Completed(y, z)
           \/ /\ p \notin Externals(s)
              /\ p \in Globals(s) => ~Imported(y) /\ ~Tentative(y)
              /\ SameMarks(y, z)

\* What LinkedNames says of the symbol of a name of linkage l, in a file that defines D.
Finished(z, n, l, D) ==
    /\ z.emitted = IF z.defined THEN 1 ELSE 0
    /\ n \in D => z.defined
    /\ z.exported <=> z.defined /\ l = "external"
    /\ z.imported => ~z.defined /\ l = "external"
    /\ z.ref => z.defined \/ z.imported

---------------------------------------------------------------------------
(* The invariant of names with linkage *)

\* The names are sound after a step.
NamesKept == phase' = "open" => NamesSound'

\* Only the end of the file ends it.
Goes == phase = "open" /\ phase' \in {"open", "rejected"} /\ NamesKept
===========================================================================
