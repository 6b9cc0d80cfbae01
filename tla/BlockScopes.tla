--------------------------- MODULE BlockScopes ---------------------------
(***************************************************************************)
(* What C says of declarations and uses of identifiers, without symbol     *)
(* tables, levels or memory: scopes nest, a use means the declaration in   *)
(* the innermost scope that has one, and declarations with linkage mean    *)
(* one thing however many there are.  The parameters and the outermost     *)
(* block of a function are one scope.  lcc's symbol tables (module Scopes) *)
(* implement this specification.                                           *)
(***************************************************************************)
EXTENDS Naturals, Sequences, SequencesExt

CONSTANT Name       \* identifiers

VARIABLES scopes,       \* the open scopes, the file first: what each name means there
          linkage,      \* the linkage a name was declared with so far
          definitions,  \* names with an initializer or a function body
          designated,   \* what an identifier meant, after a step that uses one
          refused,      \* the declaration or use that was refused
          status        \* "open", "rejected", "ended" or "failed"

absvars == <<scopes, linkage, definitions, designated, refused, status>>

\* What an identifier can mean.  scope is 0 for what has linkage, so that all
\* declarations of it are the same, and otherwise the scope it was declared in.
Kind == {"object", "function", "type"}
Undeclared == [kind |-> "none", scope |-> 0]
Linked(k) == [kind |-> k, scope |-> 0]
Own(k, i) == [kind |-> k, scope |-> i]
NoNames == [n \in Name |-> Undeclared]

Init == /\ scopes = <<NoNames>>
        /\ linkage = [n \in Name |-> "none"]
        /\ definitions = {}
        /\ designated = Undeclared
        /\ refused = << >>
        /\ status = "open"

\* The scopes in which n is declared; the innermost hides the others.
Declaring(n) == {i \in DOMAIN scopes : scopes[i][n] # Undeclared}
Visible(n) ==
    IF Declaring(n) = {} THEN Undeclared
    ELSE scopes[CHOOSE i \in Declaring(n) : \A j \in Declaring(n) : j <= i][n]

\* The linkage of n after one more declaration.  extern, and a function without a
\* storage class, take the linkage of the declaration that is visible.
LinkageAfter(n, sclass, kind) ==
    LET inherits == sclass = "EXTERN" \/ (sclass = "AUTO" /\ kind = "function")
        v == Visible(n)
        new == IF sclass = "STATIC" THEN "internal"
               ELSE IF inherits /\ v # Undeclared /\ v = Linked(v.kind) THEN linkage[n]
               ELSE "external"
    IN  [linkage EXCEPT ![n] = IF @ \in {"none", new} THEN new ELSE "both"]

\* A second declaration in one scope is an error unless both have linkage and the
\* same type, and so is a second definition.
Conflict(n, e) ==
    LET old == Last(scopes)[n]
    IN  old # Undeclared /\ ~(old = e /\ e.scope = 0)

\* What a declaration, use or block is to the compiler: read, or refused for an error
\* of its own, after which the rest means nothing.
Read(effect) == UNCHANGED <<refused, status>> /\ effect
Refuse(item, error) ==
    refused' = item /\ status' = "rejected" /\ error
Meant(e) == designated' = e

Declared(n, e) == [scopes EXCEPT ![Len(scopes)] = [@ EXCEPT ![n] = e]]

\* A declaration without linkage: a local variable, a typedef name.
DeclareOwn(n, k) ==
    LET e == Own(k, Len(scopes))
    IN  /\ k = "type" \/ (k = "object" /\ Len(scopes) > 1)
        /\ \/ Read(/\ Meant(Undeclared) /\ UNCHANGED <<linkage, definitions>>
                   /\ scopes' = Declared(n, e))
           \/ Refuse(<<"own", n, k>>, Conflict(n, e))

\* A declaration of an object or a function with linkage, perhaps its definition.
DeclareLinked(n, k, sclass, defines) ==
    /\ sclass = "EXTERN" \/ Len(scopes) = 1
    /\ \/ Read(/\ Meant(Undeclared)
               /\ definitions' = IF defines THEN definitions \cup {n} ELSE definitions
               /\ linkage' = LinkageAfter(n, sclass, k)
               /\ scopes' = Declared(n, Linked(k)))
       \/ Refuse(<<"linked", n, k, defines>>,
                 Conflict(n, Linked(k)) \/ (defines /\ n \in definitions))

\* f ( params ) {
Parameters(params) ==
    [n \in Name |-> IF n \in params THEN Own("object", 2) ELSE Undeclared]
Define(f, sclass, params) ==
    /\ Len(scopes) = 1
    /\ \/ Read(/\ Meant(Undeclared)
               /\ definitions' = definitions \cup {f}
               /\ linkage' = LinkageAfter(f, sclass, "function")
               /\ scopes' = Append(Declared(f, Linked("function")), Parameters(params)))
       \/ Refuse(<<"function", f>>, Conflict(f, Linked("function")) \/ f \in definitions)

\* The same for a function whose name is not in Name.
DefineOther(params) ==
    /\ Len(scopes) = 1
    /\ Read(/\ Meant(Undeclared) /\ UNCHANGED <<linkage, definitions>>
            /\ scopes' = Append(scopes, Parameters(params)))

OpenBlock ==
    /\ Len(scopes) > 1
    /\ Read(/\ Meant(Undeclared) /\ UNCHANGED <<linkage, definitions>>
            /\ scopes' = Append(scopes, NoNames))

Close ==
    /\ Len(scopes) > 1
    /\ Read(/\ Meant(Undeclared) /\ UNCHANGED <<linkage, definitions>>
            /\ scopes' = Front(scopes))

Use(n) ==
    \/ Read(/\ UNCHANGED <<linkage, definitions>>
            /\ Visible(n) # Undeclared /\ Meant(Visible(n))
            /\ UNCHANGED scopes)
    \/ Refuse(<<"use", n>>, Visible(n) = Undeclared)

\* A call of a name that is not declared declares it as a function of the block.
CallUndeclared(n) ==
    /\ Visible(n) = Undeclared /\ Len(scopes) > 1
    /\ Read(/\ UNCHANGED definitions
            /\ linkage' = LinkageAfter(n, "EXTERN", "function")
            /\ Meant(Linked("function"))
            /\ scopes' = Declared(n, Linked("function")))

\* The end of the file; the compiler may still miss a static function.
End ==
    /\ Len(scopes) = 1
    /\ status' \in {"ended", "failed"}
    /\ Meant(Undeclared)
    /\ UNCHANGED <<scopes, linkage, definitions, refused>>

Next ==
    /\ status = "open"
    /\ \/ \E n \in Name, k \in Kind : DeclareOwn(n, k)
       \/ \E n \in Name, k \in {"object", "function"}, sclass \in {"AUTO", "STATIC", "EXTERN"},
             defines \in BOOLEAN : DeclareLinked(n, k, sclass, defines)
       \/ \E f \in Name, sclass \in {"AUTO", "STATIC", "EXTERN"}, params \in SUBSET Name :
             Define(f, sclass, params)
       \/ \E params \in SUBSET Name : DefineOther(params)
       \/ OpenBlock \/ Close
       \/ \E n \in Name : Use(n) \/ CallUndeclared(n)
       \/ End

Spec == Init /\ [][Next]_absvars
===========================================================================
