--------------------------- MODULE ScopesProofs ---------------------------
(***************************************************************************)
(* Theorems about lcc's symbol tables for every kind of source file, any   *)
(* number of names and any nesting of blocks: the lists of symbols that    *)
(* foreach follows are the hash chains of their tables, no table, list or  *)
(* alias leads into an arena that was emptied, the tables with the token   *)
(* read ahead implement the scopes of C (BlockScopes), and a name with     *)
(* linkage has one symbol, printed, exported or imported as its linkage    *)
(* says (LinkedNames).                                                     *)
(*                                                                         *)
(* For the refinement, a state of the tables is reduced to its view: what  *)
(* each level says of each name.  Every operation of sym.c and decl.c is   *)
(* shown to put one meaning in the view, to erase a level of it, or to     *)
(* leave it alone; the open scopes of BlockScopes are read off the view.   *)
(***************************************************************************)
EXTENDS ScopesInvariants, Recursion

---------------------------------------------------------------------------
(* Lists *)

\* What is in memory has addresses and is symbols.
LEMMA InMemory ==
    ASSUME NEW f
    PROVE  f \in Memory <=> DOMAIN f \subseteq Nat \ {NULL} /\ f \in [DOMAIN f -> Symbol]
BY DEF Memory

\* An address nobody uses is found.
LEMMA FreshIsFree ==
    ASSUME NEW s, SymbolsSound(s.syms)
    PROVE  Fresh(s) \in Nat \ {NULL} /\ Fresh(s) \notin DOMAIN s.syms
<1> DEFINE D == DOMAIN s.syms
           m == Cardinality(D) + 1
           Free == {n \in 1 .. m : n \notin D}
<1>1. IsFiniteSet(D) /\ Cardinality(D) \in Nat
  BY FS_CardinalityType DEF SymbolsSound
<1>2. m \in Nat /\ m > Cardinality(D) /\ 1 \in Int /\ m \in Int
  BY <1>1
<1>3. Cardinality(1 .. m) = m
  <2> HIDE DEF m
  <2>1. Cardinality(1 .. m) = IF 1 > m THEN 0 ELSE m - 1 + 1
    BY <1>2, FS_Interval
  <2>2. m >= 1
    BY <1>1, <1>2
  <2> QED
    BY <1>2, <2>1, <2>2
<1>4. Free # {}
  <2> SUFFICES ASSUME 1 .. m \in SUBSET D PROVE FALSE
    BY DEF m
  <2> HIDE DEF m, D
  <2>1. Cardinality(1 .. m) <= Cardinality(D)
    BY <1>1, FS_Subset
  <2> QED
    BY <1>1, <1>2, <1>3, <2>1
<1>5. Free \subseteq Nat
  OBVIOUS
<1>6. PICK n \in Free : \A k \in Free : n <= k
  <2> HIDE DEF Free
  <2> QED
    BY <1>4, <1>5, LeastNumber
<1>7. n \in 1 .. m /\ n \notin D
  OBVIOUS
<1>8. \A k \in 1 .. (n - 1) : k \in D
  <2> SUFFICES ASSUME NEW k \in 1 .. (n - 1), k \notin D PROVE FALSE
    OBVIOUS
  <2>1. k \in 1 .. m /\ k < n
    BY <1>2, <1>7
  <2>2. k \in Free
    BY <2>1
  <2> HIDE DEF Free
  <2> QED
    BY <1>6, <1>7, <1>2, <2>1, <2>2
<1> HIDE DEF m, Free
<1>9. Fresh(s) \in 1 .. (Cardinality(D) + 1) /\ Fresh(s) \notin D
  BY <1>7, <1>8 DEF Fresh, m
<1> QED
  BY <1>1, <1>9 DEF NULL

\* The list of a table, read as foreach reads it, is its hash chain.
LEMMA ChainOfTable ==
    ASSUME NEW s, SymbolsSound(s.syms), NEW tp \in Table, Listed(s.syms, tp)
    PROVE  Chain(s, tp.all, tp.level) = tp.bucket
<1> DEFINE D == DOMAIN s.syms
           V == D \cup {NULL}
           most == Cardinality(D)
           b == tp.bucket
           n == Len(b)
           next(v) == IF v = NULL THEN NULL ELSE s.syms[v].up
           Step == [p \in ((0 + 1) .. (most + 1)) \X V |-> next(p[2])]
           Follow(f) == f = [k \in 0 .. (most + 1) |->
                                IF k = 0 THEN tp.all
                                ELSE IF f[k-1] = NULL THEN NULL ELSE s.syms[f[k-1]].up]
           c == CHOOSE f : Follow(f)
           Stops(k) == /\ \/ k > most
                          \/ c[k] \notin D \/ s.syms[c[k]].scope # tp.level
                       /\ \A j \in 0 .. (k - 1) : c[j] \in D /\ s.syms[c[j]].scope = tp.level
           last == CHOOSE k \in 0 .. (most + 1) : Stops(k)
<1>1. /\ IsFiniteSet(D) /\ most \in Nat /\ D \subseteq Nat \ {NULL}
      /\ \A p \in D : s.syms[p].up \in V
  BY FS_CardinalityType, InMemory DEF SymbolsSound
<1>2. /\ b \in Seq(D) /\ \A i, j \in DOMAIN b : b[i] = b[j] => i = j
      /\ \A i \in DOMAIN b : s.syms[b[i]].scope = tp.level
  BY DEF Listed
<1>3. PICK end \in Below(s.syms, tp.level) :
         /\ tp.all = At(b, end, 1)
         /\ \A i \in DOMAIN b : s.syms[b[i]].up = At(b, end, i + 1)
  BY DEF Listed
<1>4. n \in Nat /\ DOMAIN b = 1 .. n /\ \A i \in 1 .. n : b[i] \in D
  BY <1>2, LenProperties, ElementOfSeq
<1>5. end \in V /\ ~(end \in D /\ s.syms[end].scope = tp.level)
  <2>1. tp.level \in Nat
    BY DEF Table
  <2> QED
    BY <1>1, <2>1 DEF Below
<1>6. n <= most
  <2>1. b \in Injection(1 .. n, D)
    <3>1. b \in [1 .. n -> D]
      BY <1>2, LenProperties
    <3> HIDE DEF b, n, D
    <3> QED
      BY <1>2, <1>4, <3>1 DEF Injection, IsInjective
  <2>2. Cardinality(1 .. n) <= Cardinality(D)
    <3> HIDE DEF b, n, D
    <3> QED
      BY <1>1, <2>1, FS_Injection
  <2>3. 1 \in Int /\ n \in Int
    BY <1>4
  <2>4. Cardinality(1 .. n) = IF 1 > n THEN 0 ELSE n - 1 + 1
    <3> HIDE DEF n
    <3> QED
      BY <2>3, FS_Interval
  <2> HIDE DEF n, most, D
  <2>5. Cardinality(1 .. n) = n
    BY <1>4, <2>4
  <2> QED
    BY <1>1, <1>4, <2>2, <2>5 DEF most
<1> HIDE DEF most
<1>7. tp.all \in V
  BY <1>3, <1>4, <1>5 DEF At
<1>8. Step \in [((0 + 1) .. (most + 1)) \X V -> V]
  <2>1. ASSUME NEW p \in ((0 + 1) .. (most + 1)) \X V PROVE next(p[2]) \in V
    <3>1. p[2] \in V
      OBVIOUS
    <3> QED
      BY <1>1, <3>1
  <2> QED
    BY <2>1
<1>9. PICK f \in [0 .. (most + 1) -> V] : Follows(f, 0, most + 1, tp.all, Step)
  <2>1. 0 \in Nat /\ most + 1 \in Nat /\ 0 <= most + 1
    BY <1>1
  <2> HIDE DEF V, Step
  <2> QED
    BY <1>7, <1>8, <2>1, RecursionExists, Zenon
<1>10. Follow(f)
  <2>1. ASSUME NEW k \in 0 .. (most + 1)
        PROVE  f[k] = IF k = 0 THEN tp.all
                      ELSE IF f[k-1] = NULL THEN NULL ELSE s.syms[f[k-1]].up
    <3>1. CASE k = 0
      BY <1>9, <3>1 DEF Follows
    <3>2. CASE k # 0
      <4>1. k \in (0 + 1) .. (most + 1) /\ k - 1 \in 0 .. (most + 1)
        BY <1>1, <3>2
      <4>2. f[k] = Step[<<k, f[k - 1]>>] /\ f[k - 1] \in V
        BY <1>9, <4>1 DEF Follows
      <4>3. f[k] = next(f[k - 1])
        <5> HIDE DEF next
        <5> QED
          BY <4>1, <4>2
      <4> QED
        BY <3>2, <4>3
    <3> QED
      BY <3>1, <3>2
  <2> QED
    BY <2>1
<1>11. Follow(c)
  BY <1>10
<1>12. Chain(s, tp.all, tp.level) = [k \in 1 .. last |-> c[k - 1]]
  BY DEF Chain, most
<1> HIDE DEF c, Step
<1>13. \A k \in 0 .. (most + 1) :
          c[k] = IF k = 0 THEN tp.all ELSE IF c[k-1] = NULL THEN NULL ELSE s.syms[c[k-1]].up
  BY <1>11, Zenon
<1> DEFINE Good == {k \in 0 .. n : c[k] = At(b, end, k + 1)}
<1>14. 0 \in Good
  BY <1>1, <1>3, <1>4, <1>13
<1>15. ASSUME NEW k \in 0 .. (n - 1), k \in Good PROVE k + 1 \in Good
  <2> DEFINE m == k + 1
  <2>1. m \in 0 .. n /\ m \in 1 .. n /\ m - 1 = k /\ m \in 0 .. (most + 1) /\ m # 0
    BY <1>1, <1>4, <1>6
  <2>2. c[k] = b[m] /\ b[m] \in D /\ b[m] # NULL
    BY <1>1, <1>4, <1>15, <2>1 DEF At
  <2> HIDE DEF m, b, n, D, V
  <2>3. c[m] = s.syms[b[m]].up
    BY <1>13, <2>1, <2>2
  <2>4. s.syms[b[m]].up = At(b, end, m + 1)
    BY <1>3, <1>4, <2>1
  <2> QED
    BY <2>1, <2>3, <2>4 DEF m
<1> HIDE DEF Good, b, n, D, V
<1>16. \A k \in 0 .. n : k \in Good
  BY <1>4, <1>14, <1>15, UpTo
<1>17. \A k \in 0 .. n : c[k] = At(b, end, k + 1)
  BY <1>16 DEF Good
<1>18. \A j \in 0 .. (n - 1) : c[j] = b[j + 1] /\ c[j] \in D /\ s.syms[c[j]].scope = tp.level
  <2> TAKE j \in 0 .. (n - 1)
  <2>1. j \in 0 .. n /\ j + 1 \in 1 .. n
    BY <1>4
  <2> QED
    BY <1>2, <1>4, <1>17, <2>1 DEF At
<1>19. c[n] \notin D \/ s.syms[c[n]].scope # tp.level
  <2>1. n \in 0 .. n /\ n + 1 \notin 1 .. n
    BY <1>4
  <2>2. c[n] = end
    BY <1>4, <1>17, <2>1 DEF At
  <2> QED
    BY <1>5, <2>2
<1>20. Stops(n) /\ n \in 0 .. (most + 1)
  BY <1>1, <1>4, <1>6, <1>18, <1>19
<1>21. \A k \in 0 .. (most + 1) : Stops(k) => k = n
  <2> SUFFICES ASSUME NEW k \in 0 .. (most + 1), Stops(k), k # n PROVE FALSE
    OBVIOUS
  <2>1. k < n \/ n < k
    BY <1>4
  <2>2. CASE k < n
    <3>1. k \in 0 .. (n - 1) /\ ~(k > most)
      BY <1>1, <1>4, <1>6, <2>2
    <3> QED
      BY <1>18, <3>1
  <2>3. CASE n < k
    <3>1. n \in 0 .. (k - 1)
      BY <1>1, <1>4, <2>3
    <3> QED
      BY <1>19, <3>1
  <2> QED
    BY <2>1, <2>2, <2>3
<1>22. last = n
  <2> HIDE DEF Stops
  <2> QED
    BY <1>20, <1>21
<1>23. [k \in 1 .. last |-> c[k - 1]] = b
  <2>1. b = [k \in 1 .. n |-> b[k]]
    BY <1>2, <1>4, LenProperties
  <2>2. \A k \in 1 .. n : c[k - 1] = b[k]
    <3> TAKE k \in 1 .. n
    <3>1. k - 1 \in 0 .. (n - 1) /\ k - 1 + 1 = k
      BY <1>4
    <3> QED
      BY <1>18, <3>1
  <2> HIDE DEF last
  <2> QED
    BY <1>22, <2>1, <2>2
<1> QED
  BY <1>12, <1>23 DEF b

\* A list does not change with symbols that are not on it.
LEMMA ListedKept ==
    ASSUME NEW f, NEW g, NEW tp \in Table, Listed(f, tp), Agree(f, g, tp)
    PROVE  Listed(g, tp)
<1> DEFINE b == tp.bucket
<1>1. b \in Seq(DOMAIN f) /\ Len(b) \in Nat /\ DOMAIN b = 1 .. Len(b)
  BY LenProperties DEF Listed
<1>2. \A i \in DOMAIN b : b[i] \in ToSet(b) /\ b[i] \in DOMAIN g
  BY DEF ToSet, Agree
<1>3. b \in Seq(DOMAIN g)
  <2>1. b \in [1 .. Len(b) -> DOMAIN g]
    <3>1. b \in [1 .. Len(b) -> DOMAIN f]
      BY <1>1, LenProperties
    <3> QED
      BY <1>1, <1>2, <3>1
  <2> QED
    BY <1>1, <2>1, FunctionIsSeq
<1> QED
  BY <1>2, <1>3 DEF Listed, Agree

\* A symbol may be put in front of a list.
LEMMA ListedLinked ==
    ASSUME NEW f, NEW g, NEW tp \in Table, Listed(f, tp), NEW n \in DOMAIN g, n \in Nat,
           DOMAIN f \subseteq Nat, DOMAIN g \subseteq Nat,
           n \notin ToSet(tp.bucket), g[n].scope = tp.level, g[n].up = tp.all,
           Agree(f, g, tp)
    PROVE  /\ Listed(g, Linked(tp, n)) /\ Linked(tp, n) \in Table
           /\ Linked(tp, n).level = tp.level /\ Linked(tp, n).arena = tp.arena
           /\ ToSet(Linked(tp, n).bucket) = ToSet(tp.bucket) \cup {n}
<1> DEFINE b == tp.bucket
           c == <<n>> \o b
<1>1. Listed(g, tp)
  BY ListedKept
<1>2. /\ b \in Seq(DOMAIN g) /\ Len(b) \in Nat /\ DOMAIN b = 1 .. Len(b)
      /\ \A i, j \in DOMAIN b : b[i] = b[j] => i = j
      /\ \A i \in DOMAIN b : g[b[i]].scope = tp.level
  BY <1>1, LenProperties DEF Listed
<1>3. PICK end \in Below(g, tp.level) :
         tp.all = At(b, end, 1) /\ \A i \in DOMAIN b : g[b[i]].up = At(b, end, i + 1)
  BY <1>1 DEF Listed
<1>4. /\ Linked(tp, n).level = tp.level /\ Linked(tp, n).bucket = c
      /\ Linked(tp, n).all = n /\ Linked(tp, n).arena = tp.arena
  BY DEF Linked, Table
<1>5. /\ c \in Seq(DOMAIN g) /\ Len(c) = Len(b) + 1 /\ ToSet(c) = ToSet(b) \cup {n}
      /\ c[1] = n /\ \A i \in 1 .. Len(b) : c[i + 1] = b[i]
  <2>1. b \in Seq(DOMAIN g) /\ n \in DOMAIN g
    BY <1>2
  <2> HIDE DEF b
  <2> QED
    BY <2>1, Prepended
<1>6. DOMAIN c = 1 .. (Len(b) + 1) /\ \A i \in DOMAIN c : i = 1 \/ (i - 1 \in DOMAIN b /\ c[i] = b[i - 1])
  <2>1. DOMAIN c = 1 .. (Len(b) + 1)
    BY <1>5, LenProperties
  <2>2. ASSUME NEW i \in DOMAIN c, i # 1 PROVE i - 1 \in DOMAIN b /\ c[i] = b[i - 1]
    <3>1. i - 1 \in 1 .. Len(b) /\ i - 1 + 1 = i
      BY <1>2, <2>1, <2>2
    <3>2. c[i - 1 + 1] = b[i - 1]
      BY <1>5, <3>1
    <3> QED
      BY <1>2, <3>1, <3>2
  <2> QED
    BY <2>1, <2>2
<1>7. \A i \in DOMAIN b : b[i] # n
  BY DEF ToSet, b
<1>8. \A i, j \in DOMAIN c : c[i] = c[j] => i = j
  <2> SUFFICES ASSUME NEW i \in DOMAIN c, NEW j \in DOMAIN c, c[i] = c[j] PROVE i = j
    OBVIOUS
  <2>1. i \in Nat /\ j \in Nat
    BY <1>2, <1>6
  <2>2. CASE i = 1
    BY <1>5, <1>6, <1>7, <2>2
  <2>3. CASE j = 1
    BY <1>5, <1>6, <1>7, <2>3
  <2>4. CASE i # 1 /\ j # 1
    <3>1. b[i - 1] = b[j - 1] /\ i - 1 \in DOMAIN b /\ j - 1 \in DOMAIN b
      BY <1>6, <2>4
    <3>2. i - 1 = j - 1
      BY <1>2, <3>1
    <3> QED
      BY <2>1, <3>2
  <2> QED
    BY <2>2, <2>3, <2>4
<1>9. \A i \in DOMAIN c : g[c[i]].scope = tp.level
  <2> TAKE i \in DOMAIN c
  <2>1. CASE i = 1
    BY <1>5, <2>1
  <2>2. CASE i # 1
    BY <1>2, <1>6, <2>2
  <2> QED
    BY <2>1, <2>2
<1>10. n = At(c, end, 1)
  BY <1>2, <1>5, <1>6 DEF At
<1>11. \A i \in DOMAIN c : g[c[i]].up = At(c, end, i + 1)
  <2> TAKE i \in DOMAIN c
  <2>1. i \in Nat /\ (i \in DOMAIN b <=> i + 1 \in DOMAIN c)
    BY <1>2, <1>6
  <2>0. i \in DOMAIN b => c[i + 1] = b[i]
    BY <1>2, <1>5
  <2>2. At(c, end, i + 1) = At(b, end, i)
    BY <2>0, <2>1 DEF At
  <2>3. CASE i = 1
    BY <1>3, <1>5, <2>2, <2>3
  <2>4. CASE i # 1
    <3>1. i - 1 \in DOMAIN b /\ c[i] = b[i - 1] /\ i - 1 + 1 = i
      BY <1>6, <2>1, <2>4
    <3>2. g[b[i - 1]].up = At(b, end, i - 1 + 1)
      BY <1>3, <3>1
    <3> QED
      BY <2>2, <3>1, <3>2
  <2> QED
    BY <2>3, <2>4
<1>12. Listed(g, Linked(tp, n))
  <2> DEFINE l == Linked(tp, n)
  <2>1. l.bucket = c /\ l.level = tp.level /\ l.all = n
    BY <1>4
  <2> HIDE DEF l
  <2>2. \E e \in Below(g, l.level) :
           l.all = At(l.bucket, e, 1) /\ \A i \in DOMAIN l.bucket : g[l.bucket[i]].up = At(l.bucket, e, i + 1)
    BY <1>10, <1>11, <2>1
  <2>3. Listed(g, l)
    BY <1>5, <1>8, <1>9, <2>1, <2>2 DEF Listed
  <2> QED
    BY <2>3 DEF l
<1>13. Linked(tp, n) \in Table
  <2>1. c \in Seq(Nat)
    <3>1. DOMAIN g \subseteq Nat
      OBVIOUS
    <3> QED
      BY <1>5, <3>1, SeqMonotonic
  <2> QED
    BY <2>1 DEF Linked, Table, c, b
<1> QED
  BY <1>4, <1>12, <1>5, <1>13 DEF b

\* A sequence without its element at i.
LEMMA WithoutIs ==
    ASSUME NEW T, NEW b \in Seq(T), \A k, l \in DOMAIN b : b[k] = b[l] => k = l,
           NEW i \in DOMAIN b
    PROVE  /\ Without(b, b[i]) \in Seq(T) /\ Len(Without(b, b[i])) = Len(b) - 1
           /\ \A k \in 1 .. (Len(b) - 1) :
                 Without(b, b[i])[k] = IF k < i THEN b[k] ELSE b[k + 1]
           /\ ToSet(Without(b, b[i])) = ToSet(b) \ {b[i]}
<1>1. (CHOOSE k \in DOMAIN b : b[k] = b[i]) = i
  OBVIOUS
<1>2. Without(b, b[i]) = RemoveAt(b, i)
  BY <1>1 DEF Without
<1> DEFINE c == RemoveAt(b, i)
<1>3. c \in Seq(T) /\ Len(c) = Len(b) - 1 /\ \A k \in 1 .. (Len(b) - 1) : c[k] = IF k < i THEN b[k] ELSE b[k + 1]
  BY ElementRemoved
<1>4. ToSet(c) = ToSet(b) \ {b[i]}
  BY ElementRemovedSet
<1> HIDE DEF c
<1>5. Without(b, b[i]) = c
  BY <1>2 DEF c
<1> QED
  BY <1>3, <1>4, <1>5

\* A symbol taken out of a list, as relocate does.
LEMMA ListedWithout ==
    ASSUME NEW f, NEW g, NEW tp \in Table, Listed(f, tp), NEW i \in DOMAIN tp.bucket,
           NEW tp2 \in Table, Loses(f, tp, i, tp2), Bypassed(f, g, tp, i)
    PROVE  Listed(g, tp2) /\ Forgets(tp, i, tp2)
<1> DEFINE b == tp.bucket
           p == b[i]
           n == Len(b)
           c == tp2.bucket
           old(k) == IF k < i THEN k ELSE k + 1
<1>0. /\ DOMAIN f \subseteq DOMAIN g /\ Below(f, tp.level) \subseteq Below(g, tp.level)
      /\ \A q \in ToSet(b) : g[q].scope = f[q].scope
      /\ \A k \in DOMAIN b : k # i => g[b[k]].up = IF k = i - 1 THEN f[p].up ELSE f[b[k]].up
      /\ tp2.level = tp.level /\ tp2.bucket = Without(b, p)
      /\ tp2.all = IF i = 1 THEN f[p].up ELSE tp.all
  BY DEF Bypassed, Loses
<1>1. /\ b \in Seq(DOMAIN f) /\ n \in Nat /\ DOMAIN b = 1 .. n /\ i \in 1 .. n
      /\ \A k, l \in 1 .. n : b[k] = b[l] => k = l
      /\ \A k \in 1 .. n : f[b[k]].scope = tp.level /\ b[k] \in DOMAIN f
  BY LenProperties, ElementOfSeq DEF Listed
<1>2. PICK end \in Below(f, tp.level) :
         tp.all = At(b, end, 1) /\ \A k \in DOMAIN b : f[b[k]].up = At(b, end, k + 1)
  BY DEF Listed
<1>3. /\ c \in Seq(DOMAIN f) /\ Len(c) = n - 1 /\ ToSet(c) = ToSet(b) \ {p}
      /\ \A k \in 1 .. (n - 1) : c[k] = IF k < i THEN b[k] ELSE b[k + 1]
  <2>1. c = Without(b, b[i]) /\ i \in DOMAIN b /\ \A k, l \in DOMAIN b : b[k] = b[l] => k = l
    BY <1>0, <1>1
  <2> HIDE DEF b, c
  <2>2. /\ Without(b, b[i]) \in Seq(DOMAIN f) /\ Len(Without(b, b[i])) = Len(b) - 1
        /\ \A k \in 1 .. (Len(b) - 1) :
              Without(b, b[i])[k] = IF k < i THEN b[k] ELSE b[k + 1]
        /\ ToSet(Without(b, b[i])) = ToSet(b) \ {b[i]}
    <3>1. b \in Seq(DOMAIN f)
      BY <1>1
    <3> QED
      BY <2>1, <3>1, WithoutIs, ZenonT(60)
  <2> QED
    BY <2>1, <2>2
<1> HIDE DEF c, n
<1>4. DOMAIN c = 1 .. (n - 1) /\ c \in Seq(DOMAIN g)
  <2>1. DOMAIN c = 1 .. (n - 1)
    BY <1>3, LenProperties
  <2> QED
    BY <1>0, <1>3, <2>1, SeqMonotonic
<1>5. \A k \in 1 .. (n - 1) : old(k) \in 1 .. n /\ old(k) # i /\ c[k] = b[old(k)]
  BY <1>1, <1>3
<1>6. \A k, l \in 1 .. (n - 1) : old(k) = old(l) => k = l
  BY <1>1
<1>7. \A k, l \in DOMAIN c : c[k] = c[l] => k = l
  <2> SUFFICES ASSUME NEW k \in 1 .. (n - 1), NEW l \in 1 .. (n - 1), c[k] = c[l] PROVE k = l
    BY <1>4
  <2>1. old(k) \in 1 .. n /\ old(l) \in 1 .. n /\ b[old(k)] = b[old(l)]
    BY <1>5
  <2> HIDE DEF old, b
  <2>2. old(k) = old(l)
    BY <1>1, <2>1
  <2> QED
    BY <1>6, <2>2
<1>8. \A k \in DOMAIN c : g[c[k]].scope = tp.level
  <2> TAKE k \in DOMAIN c
  <2>1. old(k) \in 1 .. n /\ c[k] = b[old(k)]
    BY <1>4, <1>5
  <2> HIDE DEF old
  <2>2. b[old(k)] \in ToSet(b)
    BY <1>1, <2>1 DEF ToSet
  <2> QED
    BY <1>0, <1>1, <2>1, <2>2
<1>9. f[p].up = At(b, end, i + 1)
  BY <1>2
<1>10. tp2.all = At(c, end, 1)
  <2>1. 1 \in 1 .. n /\ 2 \in Nat
    BY <1>1
  <2>2. CASE i = 1
    <3>1. tp2.all = At(b, end, 2)
      BY <1>0, <1>9, <2>2
    <3>2. 2 \in 1 .. n <=> 1 \in 1 .. (n - 1)
      BY <1>1
    <3>3. 1 \in 1 .. (n - 1) => c[1] = b[2]
      BY <1>3, <2>2
    <3> QED
      BY <1>1, <1>4, <3>1, <3>2, <3>3 DEF At
  <2>3. CASE i # 1
    <3>1. 1 \in 1 .. (n - 1) /\ 1 < i
      BY <1>1, <2>3
    <3>2. c[1] = b[1]
      BY <1>3, <3>1
    <3> QED
      BY <1>0, <1>1, <1>2, <1>4, <2>1, <2>3, <3>1, <3>2 DEF At
  <2> QED
    BY <2>2, <2>3
<1>11. \A k \in DOMAIN c : g[c[k]].up = At(c, end, k + 1)
  <2> TAKE k \in DOMAIN c
  <2>1. k \in 1 .. (n - 1) /\ k \in Nat
    BY <1>1, <1>4
  <2>2. k + 1 \in 1 .. (n - 1) => c[k + 1] = IF k + 1 < i THEN b[k + 1] ELSE b[k + 1 + 1]
    BY <1>3
  <2>3. CASE k + 1 < i
    <3>1. c[k] = b[k] /\ k \in 1 .. n /\ k # i /\ k # i - 1 /\ k + 1 \in 1 .. n /\ k + 1 \in 1 .. (n - 1)
      BY <1>1, <1>3, <2>1, <2>3
    <3>2. g[c[k]].up = f[b[k]].up
      BY <1>0, <1>1, <3>1
    <3>3. f[b[k]].up = b[k + 1] /\ c[k + 1] = b[k + 1]
      BY <1>1, <1>2, <2>2, <2>3, <3>1 DEF At
    <3> QED
      BY <1>4, <3>1, <3>2, <3>3 DEF At
  <2>4. CASE k + 1 = i
    <3>1. c[k] = b[k] /\ k \in 1 .. n /\ k # i /\ k = i - 1
      BY <1>1, <1>3, <2>1, <2>4
    <3>2. g[c[k]].up = At(b, end, i + 1)
      BY <1>0, <1>1, <1>9, <3>1
    <3>3. i + 1 \in 1 .. n <=> k + 1 \in 1 .. (n - 1)
      BY <1>1, <2>1, <2>4
    <3>4. k + 1 \in 1 .. (n - 1) => c[k + 1] = b[i + 1]
      BY <2>2, <2>4, <1>1, <2>1
    <3> QED
      BY <1>1, <1>4, <3>2, <3>3, <3>4 DEF At
  <2>5. CASE k + 1 > i
    <3> DEFINE m == k + 1
    <3>1. c[k] = b[m] /\ m \in 1 .. n /\ m # i /\ m # i - 1
      BY <1>1, <1>3, <2>1, <2>5
    <3>2. m + 1 \in 1 .. n <=> m \in 1 .. (n - 1)
      BY <1>1, <2>1
    <3>3. m \in 1 .. (n - 1) => c[m] = b[m + 1]
      BY <1>1, <2>1, <2>2, <2>5
    <3> HIDE DEF m
    <3>4. g[c[k]].up = At(b, end, m + 1)
      BY <1>0, <1>1, <1>2, <3>1
    <3>5. g[c[k]].up = At(c, end, m)
      BY <1>1, <1>4, <3>2, <3>3, <3>4 DEF At
    <3> QED
      BY <3>5 DEF m
  <2> QED
    BY <1>1, <2>1, <2>3, <2>4, <2>5
<1>12. Listed(g, tp2)
  <2>1. end \in Below(g, tp.level)
    BY <1>0
  <2>2. tp2.level = tp.level
    BY <1>0
  <2> HIDE DEF b
  <2> QED
    BY <1>4, <1>7, <1>8, <1>10, <1>11, <2>1, <2>2 DEF Listed, c
<1> QED
  BY <1>3, <1>12 DEF c, Forgets

---------------------------------------------------------------------------
(* Looking up *)

\* The hash chain of a table leads to its entries.
LEMMA FindInTable ==
    ASSUME NEW s, NEW tp, NEW T, tp.bucket \in Seq(T), NEW name
    PROVE  Find(s, tp, name) = NULL \/ Find(s, tp, name) \in ToSet(tp.bucket)
<1> DEFINE is == {i \in DOMAIN tp.bucket : s.syms[tp.bucket[i]].name = name}
           first == CHOOSE i \in is : \A j \in is : i <= j
<1>1. CASE is = {}
  BY <1>1 DEF Find
<1>2. CASE is # {}
  <2>1. is \subseteq Nat
    BY LenProperties
  <2>2. \E i \in is : \A j \in is : i <= j
    <3> HIDE DEF is
    <3> QED
      BY <1>2, <2>1, LeastNumber
  <2>3. first \in is
    <3> HIDE DEF is
    <3> QED
      BY <2>2
  <2>4. Find(s, tp, name) = tp.bucket[first]
    BY <1>2 DEF Find
  <2>5. first \in DOMAIN tp.bucket
    BY <2>3
  <2> QED
    BY <2>4, <2>5 DEF ToSet
<1> QED
  BY <1>1, <1>2

\* What the parts of Sound say of the tables.
LEMMA SoundTables ==
    ASSUME NEW s, Sound(s)
    PROVE  /\ s.level \in Nat /\ Len(s.identifiers) \in Nat \ {0}
           /\ DOMAIN s.identifiers = 1 .. Len(s.identifiers)
           /\ \A i \in DOMAIN s.identifiers :
                 /\ s.identifiers[i] \in Table /\ s.identifiers[i].level \in Nat
                 /\ Listed(s.syms, s.identifiers[i])
                 /\ i # 1 => s.identifiers[i].level > GLOBAL
           /\ s.externals \in Table
           /\ DOMAIN s.syms \subseteq Nat \ {NULL}
           /\ \A p \in DOMAIN s.syms : s.syms[p] \in Symbol /\ s.syms[p].scope \in Nat
           /\ s.level = GLOBAL => Len(s.identifiers) = 1
<1> DEFINE ids == s.identifiers
           n == Len(ids)
<1>1. s.level \in Nat /\ ids \in Seq(Table) /\ s.externals \in Table /\ s.syms \in Memory
  BY DEF Sound, State
<1>2. n \in Nat \ {0} /\ DOMAIN ids = 1 .. n
  BY <1>1, LenProperties, EmptySeq DEF Sound, TablesNested
<1>3. \A i \in DOMAIN ids : ids[i] \in Table /\ ids[i].level \in Nat
  <2> TAKE i \in DOMAIN ids
  <2>1. ids[i] \in Table
    BY <1>1, <1>2, ElementOfSeq
  <2> QED
    BY <2>1 DEF Table
<1>4. \A i \in DOMAIN ids : i # 1 => ids[i].level > GLOBAL
  <2> SUFFICES ASSUME NEW i \in DOMAIN ids, i # 1 PROVE ids[i].level > GLOBAL
    OBVIOUS
  <2>1. 1 \in DOMAIN ids /\ 1 < i
    BY <1>2
  <2>2. ids[1].level < ids[i].level /\ ids[1].level = GLOBAL
    BY <2>1 DEF Sound, TablesNested
  <2> QED
    BY <1>3, <2>2 DEF GLOBAL
<1>5. \A i \in DOMAIN ids : Listed(s.syms, ids[i])
  BY DEF Sound, AllListed
<1>6. DOMAIN s.syms \subseteq Nat \ {NULL} /\ s.syms \in [DOMAIN s.syms -> Symbol]
  BY <1>1, InMemory
<1>7. \A p \in DOMAIN s.syms : s.syms[p] \in Symbol /\ s.syms[p].scope \in Nat
  BY <1>6 DEF Symbol
<1>8. s.level = GLOBAL => n = 1
  <2>1. n \in DOMAIN ids /\ ids[n].level <= s.level
    BY <1>2 DEF Sound, TablesNested
  <2>2. ids[n].level \in Nat /\ (n # 1 => ids[n].level > GLOBAL) /\ GLOBAL \in Nat
    BY <1>3, <1>4, <2>1 DEF GLOBAL
  <2> HIDE DEF n, ids
  <2> QED
    BY <1>1, <2>1, <2>2
<1> QED
  BY <1>1, <1>2, <1>3, <1>4, <1>5, <1>6, <1>7, <1>8

\* Where a table leads.
LEMMA FindSound ==
    ASSUME NEW s, Sound(s), NEW name
    PROVE  /\ \A i \in DOMAIN s.identifiers :
                 LET p == Find(s, s.identifiers[i], name)
                 IN  p # NULL => /\ p \in ToSet(s.identifiers[i].bucket) /\ p \in DOMAIN s.syms
                                 /\ s.syms[p].scope = s.identifiers[i].level
           /\ LET p == Find(s, s.externals, name)
              IN  p # NULL => /\ p \in ToSet(s.externals.bucket) /\ p \in DOMAIN s.syms
                              /\ s.syms[p].scope = GLOBAL
<1>1. ASSUME NEW tp, Listed(s.syms, tp), Find(s, tp, name) # NULL
      PROVE  /\ Find(s, tp, name) \in ToSet(tp.bucket)
             /\ Find(s, tp, name) \in DOMAIN s.syms
             /\ s.syms[Find(s, tp, name)].scope = tp.level
  <2>1. tp.bucket \in Seq(DOMAIN s.syms)
    BY <1>1 DEF Listed
  <2>2. Find(s, tp, name) \in ToSet(tp.bucket)
    BY <1>1, <2>1, FindInTable
  <2>3. PICK i \in DOMAIN tp.bucket : Find(s, tp, name) = tp.bucket[i]
    BY <2>2 DEF ToSet
  <2>4. tp.bucket[i] \in DOMAIN s.syms
    BY <2>1, LenProperties, ElementOfSeq
  <2> QED
    BY <1>1, <2>2, <2>3, <2>4 DEF Listed
<1>2. Listed(s.syms, s.externals) /\ s.externals.level = GLOBAL
  BY DEF Sound, AllListed
<1> QED
  BY <1>1, <1>2, SoundTables

\* A name is looked up in memory, and outside blocks among the globals.
LEMMA LookupSound ==
    ASSUME NEW s, Sound(s), NEW name
    PROVE  /\ lookup(s, name) \in DOMAIN s.syms \cup {NULL}
           /\ s.level = GLOBAL /\ lookup(s, name) # NULL => s.syms[lookup(s, name)].scope = GLOBAL
<1> DEFINE n == Len(s.identifiers)
           is == {i \in DOMAIN s.identifiers : Find(s, s.identifiers[i], name) # NULL}
           inner == CHOOSE i \in is : \A j \in is : j <= i
<1>1. n \in Nat /\ DOMAIN s.identifiers = 1 .. n
  BY SoundTables
<1>2. CASE is = {}
  BY <1>2 DEF lookup
<1>3. CASE is # {}
  <2>1. is \subseteq 1 .. n
    BY <1>1
  <2>2. \E i \in is : \A j \in is : j <= i
    <3> HIDE DEF is, n
    <3> QED
      BY <1>1, <1>3, <2>1, GreatestIndex
  <2>3. inner \in is
    <3> HIDE DEF is
    <3> QED
      BY <2>2
  <2>4. lookup(s, name) = Find(s, s.identifiers[inner], name)
    BY <1>3 DEF lookup
  <2> HIDE DEF inner
  <2>5. inner \in DOMAIN s.identifiers /\ Find(s, s.identifiers[inner], name) # NULL
    BY <2>3
  <2>6. /\ Find(s, s.identifiers[inner], name) \in DOMAIN s.syms
        /\ s.syms[Find(s, s.identifiers[inner], name)].scope = s.identifiers[inner].level
    BY <2>5, FindSound
  <2>7. s.level = GLOBAL => s.identifiers[inner].level = GLOBAL
    <3>1. s.level = GLOBAL => inner = 1
      BY <1>1, <2>5, SoundTables
    <3> QED
      BY <3>1 DEF Sound, TablesNested
  <2> QED
    BY <2>4, <2>6, <2>7
<1> QED
  BY <1>2, <1>3

---------------------------------------------------------------------------
(* The operations on the tables *)

\* Such changes keep the tables in order.
LEMMA SameSound ==
    ASSUME NEW s, Sound(s), NEW s2, Same(s, s2)
    PROVE  Sound(s2) /\ Kept(s, s2)
<1>1. SymbolsSound(s2.syms)
  <2>1. s2.syms \in Memory /\ IsFiniteSet(DOMAIN s2.syms)
    BY DEF Same, State, Sound, SymbolsSound
  <2>2. ASSUME NEW p \in DOMAIN s2.syms
        PROVE  /\ s2.syms[p].scope >= GLOBAL
               /\ s2.syms[p].scope = GLOBAL => s2.syms[p].arena = "PERM"
               /\ s2.syms[p].up \in DOMAIN s2.syms \cup {NULL}
               /\ s2.syms[p].scope = GLOBAL /\ s2.syms[p].up # NULL =>
                     s2.syms[s2.syms[p].up].scope = GLOBAL
               /\ \/ s2.syms[p].alias = NULL
                  \/ s2.syms[p].alias \in DOMAIN s2.syms /\ s2.syms[s2.syms[p].alias].scope = GLOBAL
    BY DEF Same, Sound, SymbolsSound, Outermost
  <2> QED
    BY <2>1, <2>2 DEF SymbolsSound
<1>2. \A level \in Nat : Below(s2.syms, level) = Below(s.syms, level)
  BY DEF Same, Below
<1>3. ASSUME NEW tp \in Table, Listed(s.syms, tp) PROVE Listed(s2.syms, tp)
  <2>1. tp.level \in Nat
    BY DEF Table
  <2>2. tp.bucket \in Seq(DOMAIN s.syms)
    BY <1>3 DEF Listed
  <2>3. ToSet(tp.bucket) \subseteq DOMAIN s.syms
    BY <2>2, LenProperties, ElementOfSeq DEF ToSet
  <2>4. \A p \in ToSet(tp.bucket) : /\ s2.syms[p].scope = s.syms[p].scope
                                    /\ s2.syms[p].up = s.syms[p].up
    BY <2>3 DEF Same
  <2>5. ToSet(tp.bucket) \subseteq DOMAIN s2.syms
    BY <2>3 DEF Same
  <2>6. Below(s.syms, tp.level) \subseteq Below(s2.syms, tp.level)
    BY <1>2, <2>1
  <2> QED
    BY <1>3, <2>4, <2>5, <2>6, ListedKept DEF Agree
<1>4. AllListed(s2.syms, s2.identifiers, s2.externals)
  <2>1. s2.identifiers = s.identifiers /\ s2.externals = s.externals
    BY DEF Same
  <2>2. AllListed(s.syms, s.identifiers, s.externals)
    BY DEF Sound
  <2> QED
    BY <1>3, <2>1, <2>2, SoundTables DEF AllListed
<1>5. TablesNested(s2.level, s2.identifiers)
  BY DEF Same, Sound
<1>6. Sound(s2)
  BY <1>1, <1>4, <1>5 DEF Same, Sound
<1>7. Kept(s, s2)
  BY DEF Same, Kept
<1> QED
  BY <1>6, <1>7

\* A symbol may get another class, type or mark.
LEMMA Marked ==
    ASSUME NEW s, Sound(s), NEW p
    PROVE  /\ \A x \in {"AUTO", "STATIC", "EXTERN", "TYPEDEF"} :
                 Same(s, [s EXCEPT !.syms[p].sclass = x])
           /\ \A x \in {"object", "function", "type"} : Same(s, [s EXCEPT !.syms[p].kind = x])
           /\ Same(s, [s EXCEPT !.syms[p].defined = TRUE])
           /\ \A x \in BOOLEAN : Same(s, [s EXCEPT !.syms[p].ref = x])
           /\ Same(s, defglobal(s, p))
           /\ \A q : Outermost(s, q) => Same(s, [s EXCEPT !.syms[p].alias = q])
<1> DEFINE f == s.syms
<1>1. s \in State /\ f \in Memory
  BY DEF Sound, State
<1>2. ASSUME NEW y, p \in DOMAIN f =>
                /\ y \in Symbol /\ y.scope = f[p].scope /\ y.arena = f[p].arena
                /\ y.up = f[p].up /\ (y.alias = f[p].alias \/ Outermost(s, y.alias))
      PROVE  Same(s, [s EXCEPT !.syms[p] = y])
  <2> DEFINE g == [f EXCEPT ![p] = y]
             s2 == [s EXCEPT !.syms = g]
  <2>1. g \in Memory /\ DOMAIN g = DOMAIN f
    BY <1>1, <1>2, InMemory
  <2>2. \A q \in DOMAIN f : g[q] = IF q = p THEN y ELSE f[q]
    OBVIOUS
  <2> HIDE DEF g
  <2>3. /\ s2 \in State /\ s2.syms = g /\ s2.level = s.level
        /\ s2.identifiers = s.identifiers /\ s2.externals = s.externals
    BY <1>1, <2>1 DEF State
  <2> HIDE DEF s2
  <2>4. Same(s, s2)
    BY <1>2, <2>1, <2>2, <2>3 DEF Same
  <2> QED
    BY <2>4 DEF s2, g
<1>3. p \in DOMAIN f => f[p] \in Symbol
  BY SoundTables
<1>4. ASSUME NEW x \in {"AUTO", "STATIC", "EXTERN", "TYPEDEF"}
      PROVE  Same(s, [s EXCEPT !.syms[p].sclass = x])
  <2> DEFINE y == [f[p] EXCEPT !.sclass = x]
  <2>1. p \in DOMAIN f =>
           /\ y \in Symbol /\ y.scope = f[p].scope /\ y.arena = f[p].arena
           /\ y.up = f[p].up /\ y.alias = f[p].alias
    BY <1>3 DEF Symbol
  <2> QED
    BY <1>2, <2>1
<1>5. ASSUME NEW x \in {"object", "function", "type"}
      PROVE  Same(s, [s EXCEPT !.syms[p].kind = x])
  <2> DEFINE y == [f[p] EXCEPT !.kind = x]
  <2>1. p \in DOMAIN f =>
           /\ y \in Symbol /\ y.scope = f[p].scope /\ y.arena = f[p].arena
           /\ y.up = f[p].up /\ y.alias = f[p].alias
    BY <1>3 DEF Symbol
  <2> QED
    BY <1>2, <2>1
<1>6. Same(s, [s EXCEPT !.syms[p].defined = TRUE])
  <2> DEFINE y == [f[p] EXCEPT !.defined = TRUE]
  <2>1. p \in DOMAIN f =>
           /\ y \in Symbol /\ y.scope = f[p].scope /\ y.arena = f[p].arena
           /\ y.up = f[p].up /\ y.alias = f[p].alias
    BY <1>3 DEF Symbol
  <2> QED
    BY <1>2, <2>1
<1>7. ASSUME NEW x \in BOOLEAN PROVE Same(s, [s EXCEPT !.syms[p].ref = x])
  <2> DEFINE y == [f[p] EXCEPT !.ref = x]
  <2>1. p \in DOMAIN f =>
           /\ y \in Symbol /\ y.scope = f[p].scope /\ y.arena = f[p].arena
           /\ y.up = f[p].up /\ y.alias = f[p].alias
    BY <1>3 DEF Symbol
  <2> QED
    BY <1>2, <2>1
<1>8. Same(s, defglobal(s, p))
  <2> DEFINE e == f[p].exported \/ f[p].sclass # "STATIC"
             d == f[p].emitted + 1
             y == [f[p] EXCEPT !.emitted = d, !.defined = TRUE, !.exported = e]
  <2>1. e \in BOOLEAN
    BY Zenon
  <2>2. p \in DOMAIN f => d \in Nat
    BY <1>3 DEF Symbol
  <2>3. defglobal(s, p) = [s EXCEPT !.syms[p] = y]
    BY Zenon DEF defglobal
  <2> HIDE DEF d, e
  <2>4. p \in DOMAIN f =>
           /\ y \in Symbol /\ y.scope = f[p].scope /\ y.arena = f[p].arena
           /\ y.up = f[p].up /\ y.alias = f[p].alias
    BY <1>3, <2>1, <2>2 DEF Symbol
  <2> HIDE DEF y
  <2> QED
    BY <1>2, <2>3, <2>4
<1>9. ASSUME NEW q, Outermost(s, q) PROVE Same(s, [s EXCEPT !.syms[p].alias = q])
  <2> DEFINE y == [f[p] EXCEPT !.alias = q]
  <2>1. q \in Nat
    BY <1>9, SoundTables DEF Outermost
  <2>2. p \in DOMAIN f =>
           /\ y \in Symbol /\ y.scope = f[p].scope /\ y.arena = f[p].arena
           /\ y.up = f[p].up /\ y.alias = q
    BY <1>3, <2>1 DEF Symbol
  <2>3. p \in DOMAIN f =>
           /\ y \in Symbol /\ y.scope = f[p].scope /\ y.arena = f[p].arena
           /\ y.up = f[p].up /\ (y.alias = f[p].alias \/ Outermost(s, y.alias))
    BY <1>9, <2>2
  <2> QED
    BY <1>2, <2>3
<1> QED
  BY <1>4, <1>5, <1>6, <1>7, <1>8, <1>9

\* Scopes are entered and left; what is outside stays.
LEMMA ScopeEntered ==
    ASSUME NEW s, Sound(s)
    PROVE  /\ Sound(enterscope(s)) /\ enterscope(s).level = s.level + 1
           /\ enterscope(s).syms = s.syms
<1> DEFINE s2 == enterscope(s)
<1>1. s \in State /\ s.level \in Nat
  BY DEF Sound, State
<1>2. /\ s2 \in State /\ s2.level = s.level + 1 /\ s2.syms = s.syms
      /\ s2.identifiers = s.identifiers /\ s2.externals = s.externals
  BY <1>1 DEF State, enterscope
<1> HIDE DEF s2
<1>3. TablesNested(s2.level, s2.identifiers)
  <2> DEFINE last == s.identifiers[Len(s.identifiers)].level
  <2>1. last \in Nat
    BY SoundTables
  <2>2. TablesNested(s.level, s.identifiers) /\ last <= s.level
    BY DEF Sound, TablesNested
  <2>3. last <= s.level + 1 /\ s.level + 1 >= GLOBAL
    <3> HIDE DEF last
    <3> QED
      BY <1>1, <2>1, <2>2 DEF TablesNested, GLOBAL
  <2> QED
    BY <1>2, <2>2, <2>3 DEF TablesNested
<1>4. Sound(s2)
  BY <1>2, <1>3 DEF Sound
<1> QED
  BY <1>2, <1>4 DEF s2

\* Leaving a scope takes its table, if it has one.
LEMMA ScopeLeft ==
    ASSUME NEW s, Sound(s), s.level > GLOBAL
    PROVE  /\ Sound(exitscope(s)) /\ exitscope(s).level = s.level - 1
           /\ exitscope(s).syms = s.syms /\ Dropped(s, exitscope(s))
<1> DEFINE ids == s.identifiers
           n == Len(ids)
           left == IF Last(ids).level = s.level THEN Front(ids) ELSE ids
           s2 == exitscope(s)
<1>1. s \in State /\ s.level \in Nat /\ ids \in Seq(Table) /\ s.level - 1 \in Nat
  BY DEF Sound, State, GLOBAL
<1>2. /\ n \in Nat \ {0} /\ DOMAIN ids = 1 .. n /\ Last(ids) = ids[n]
      /\ \A i \in 1 .. n : ids[i].level \in Nat
  BY SoundTables DEF Last
<1>3. /\ ids[1].level = GLOBAL /\ ids[1].arena = "PERM" /\ ids[n].level <= s.level
      /\ \A i, j \in DOMAIN ids : i < j => ids[i].level < ids[j].level
  BY DEF Sound, TablesNested
<1>4. /\ left \in Seq(Table) /\ Len(left) \in 1 .. n /\ DOMAIN left = 1 .. Len(left)
      /\ \A i \in 1 .. Len(left) : left[i] = ids[i]
      /\ left[Len(left)].level <= s.level - 1
      /\ Len(left) = n \/ (Len(left) = n - 1 /\ ids[n].level = s.level)
  <2>1. CASE ids[n].level = s.level
    <3>1. n # 1 /\ n - 1 \in 1 .. n /\ n - 1 \in 0 .. n
      BY <1>2, <1>3, <2>1
    <3>2. left = SubSeq(ids, 1, n - 1)
      BY <1>2, <2>1 DEF Front
    <3> HIDE DEF left
    <3>3. left \in Seq(Table) /\ Len(left) = n - 1 /\ \A i \in 1 .. (n - 1) : left[i] = ids[i]
      <4> HIDE DEF n, ids
      <4> QED
        BY <1>1, <3>1, <3>2, Prefix DEF n
    <3>4. ids[n - 1].level < s.level
      <4>1. n - 1 \in DOMAIN ids /\ n \in DOMAIN ids /\ n - 1 < n
        BY <1>2, <3>1
      <4> QED
        BY <1>3, <2>1, <4>1
    <3>5. ids[n - 1].level <= s.level - 1
      <4>1. ids[n - 1].level \in Nat
        BY <1>2, <3>1
      <4> QED
        BY <1>1, <3>4, <4>1
    <3> QED
      BY <2>1, <3>1, <3>3, <3>5, LenProperties
  <2>2. CASE ids[n].level # s.level
    <3>1. left = ids
      BY <1>2, <2>2
    <3>2. ids[n].level <= s.level - 1
      <4>1. ids[n].level \in Nat
        BY <1>2
      <4> QED
        BY <1>1, <1>3, <2>2, <4>1
    <3> QED
      BY <1>1, <1>2, <3>1, <3>2
  <2> QED
    BY <2>1, <2>2
<1>5. /\ s2 \in State /\ s2.level = s.level - 1 /\ s2.syms = s.syms
      /\ s2.identifiers = left /\ s2.externals = s.externals
  <2>1. s2 = [s EXCEPT !.identifiers = left, !.level = s.level - 1]
    BY DEF exitscope
  <2> HIDE DEF s2, left
  <2> QED
    BY <1>1, <1>4, <2>1 DEF State
<1> HIDE DEF s2, left
<1>6. TablesNested(s2.level, s2.identifiers)
  <2>1. left # << >>
    BY <1>2, <1>4
  <2>2. 1 \in 1 .. Len(left) /\ \A i \in DOMAIN left : i \in DOMAIN ids
    BY <1>2, <1>4
  <2>3. s.level - 1 >= GLOBAL
    BY <1>1 DEF GLOBAL
  <2>4. left[1] = ids[1]
    BY <1>4, <2>2
  <2>5. \A i, j \in DOMAIN left : i < j => left[i].level < left[j].level
    BY <1>3, <1>4, <2>2
  <2> QED
    BY <1>3, <1>4, <1>5, <2>1, <2>3, <2>4, <2>5 DEF TablesNested
<1>7. AllListed(s2.syms, s2.identifiers, s2.externals)
  <2>1. 1 \in 1 .. Len(left) /\ \A i \in DOMAIN left : i \in DOMAIN ids
    BY <1>2, <1>4
  <2>2. left[1] = ids[1] /\ \A i \in DOMAIN left : Listed(s.syms, left[i])
    BY <1>4, <2>1 DEF Sound, AllListed
  <2> QED
    BY <1>5, <2>2 DEF Sound, AllListed
<1>8. Sound(s2)
  BY <1>5, <1>6, <1>7 DEF Sound
<1>9. Dropped(s, s2)
  <2>1. \A i \in DOMAIN ids : i \notin 1 .. Len(left) => i = n /\ ids[n].level = s.level
    <3> HIDE DEF n, ids
    <3> QED
      BY <1>2, <1>4
  <2>2. \A i \in 1 .. Len(left) : i \in DOMAIN ids
    BY <1>2, <1>4
  <2> QED
    BY <1>4, <1>5, <2>1, <2>2 DEF Dropped
<1> QED
  BY <1>5, <1>8, <1>9 DEF s2

\* A list begins in memory, at the level of its table or below.
LEMMA HeadSound ==
    ASSUME NEW f, NEW tp, tp.level \in Nat, Listed(f, tp)
    PROVE  \/ tp.all = NULL
           \/ tp.all \in DOMAIN f /\ (f[tp.all].scope = tp.level \/ f[tp.all].scope < tp.level)
<1>1. PICK end \in Below(f, tp.level) : tp.all = At(tp.bucket, end, 1)
  BY DEF Listed
<1>2. CASE 1 \in DOMAIN tp.bucket
  <2>1. tp.bucket \in Seq(DOMAIN f)
    BY DEF Listed
  <2>2. tp.bucket[1] \in DOMAIN f
    BY <1>2, <2>1, LenProperties, ElementOfSeq
  <2> QED
    BY <1>1, <1>2, <2>2 DEF At, Listed
<1>3. CASE 1 \notin DOMAIN tp.bucket
  BY <1>1, <1>3 DEF At, Below
<1> QED
  BY <1>2, <1>3

\* The list of a table at file scope begins at file scope.
LEMMA GlobalHead ==
    ASSUME NEW f, SymbolsSound(f), NEW tp \in Table, tp.level = GLOBAL, Listed(f, tp)
    PROVE  /\ tp.all \in DOMAIN f \cup {NULL} /\ tp.all \in Nat
           /\ tp.all # NULL => f[tp.all].scope = GLOBAL
<1>1. tp.all \in Nat /\ tp.level \in Nat
  BY DEF Table
<1>2. \/ tp.all = NULL
      \/ tp.all \in DOMAIN f /\ (f[tp.all].scope = tp.level \/ f[tp.all].scope < tp.level)
  BY <1>1, HeadSound
<1>3. \A p \in DOMAIN f : f[p].scope \in Nat /\ f[p].scope >= GLOBAL
  <2>1. f \in [DOMAIN f -> Symbol]
    BY InMemory DEF SymbolsSound
  <2> QED
    BY <2>1 DEF SymbolsSound, Symbol
<1> QED
  BY <1>1, <1>2, <1>3 DEF GLOBAL

\* The elements of the hash chain are in memory.
LEMMA BucketInMemory ==
    ASSUME NEW f, NEW tp, Listed(f, tp)
    PROVE  ToSet(tp.bucket) \subseteq DOMAIN f /\ \A p \in ToSet(tp.bucket) : f[p].scope = tp.level
<1>1. tp.bucket \in Seq(DOMAIN f)
  BY DEF Listed
<1>2. \A i \in DOMAIN tp.bucket : tp.bucket[i] \in DOMAIN f
  BY <1>1, LenProperties, ElementOfSeq
<1> QED
  BY <1>2 DEF ToSet, Listed

\* A symbol is stored at an address nobody uses, and may go in front of its list.
LEMMA Stored ==
    ASSUME NEW s, Sound(s), NEW y, NEW scope, NEW head, Storable(s, y, scope, head),
           NEW n, n = Fresh(s), NEW g, g = With(s.syms, n, y)
    PROVE  /\ IsStored(s, n, y, g)
           /\ \A tp \in Table : Listed(s.syms, tp) =>
                 Listed(g, tp) /\ n \notin ToSet(tp.bucket)
           /\ \A tp \in Table : Listed(s.syms, tp) /\ tp.level = scope /\ tp.all = head =>
                 /\ Listed(g, Linked(tp, n)) /\ Linked(tp, n) \in Table
                 /\ Linked(tp, n).level = tp.level /\ Linked(tp, n).arena = tp.arena
                 /\ ToSet(Linked(tp, n).bucket) = ToSet(tp.bucket) \cup {n}
<1> DEFINE f == s.syms
<1>1. SymbolsSound(f) /\ n \in Nat \ {NULL} /\ n \notin DOMAIN f
  BY FreshIsFree DEF Sound
<1>2. /\ DOMAIN g = DOMAIN f \cup {n} /\ g[n] = y
      /\ \A p \in DOMAIN f : g[p] = f[p]
      /\ g \in [DOMAIN f \cup {n} -> Symbol]
  <2>1. g = [z \in DOMAIN f \cup {n} |-> IF z = n THEN y ELSE f[z]]
    BY DEF With
  <2>2. f \in [DOMAIN f -> Symbol]
    BY <1>1, InMemory DEF SymbolsSound
  <2> QED
    BY <1>1, <2>1, <2>2 DEF Storable
<1> HIDE DEF f
<1>3. DOMAIN f \subseteq Nat \ {NULL} /\ IsFiniteSet(DOMAIN f)
  BY <1>1, InMemory DEF SymbolsSound
<1>4. SymbolsSound(g)
  <2>1. g \in Memory
    BY <1>1, <1>2, <1>3, InMemory
  <2>2. IsFiniteSet(DOMAIN g)
    BY <1>2, <1>3, FS_AddElement
  <2>3. ASSUME NEW p \in DOMAIN g
        PROVE  /\ g[p].scope >= GLOBAL
               /\ g[p].scope = GLOBAL => g[p].arena = "PERM"
               /\ g[p].up \in DOMAIN g \cup {NULL}
               /\ g[p].scope = GLOBAL /\ g[p].up # NULL => g[g[p].up].scope = GLOBAL
               /\ \/ g[p].alias = NULL
                  \/ g[p].alias \in DOMAIN g /\ g[g[p].alias].scope = GLOBAL
    <3>1. CASE p = n
      BY <1>2, <3>1 DEF f, Storable
    <3>2. CASE p \in DOMAIN f
      BY <1>1, <1>2, <3>2 DEF SymbolsSound
    <3> QED
      BY <1>2, <3>1, <3>2
  <2> QED
    BY <2>1, <2>2, <2>3 DEF SymbolsSound
<1>5. \A level : Below(f, level) \subseteq Below(g, level)
  BY <1>2 DEF Below
<1>6. ASSUME NEW tp \in Table, Listed(f, tp)
      PROVE  Listed(g, tp) /\ n \notin ToSet(tp.bucket) /\ Agree(f, g, tp)
  <2>1. ToSet(tp.bucket) \subseteq DOMAIN f
    BY <1>6, BucketInMemory
  <2>2. n \notin ToSet(tp.bucket) /\ Agree(f, g, tp)
    BY <1>1, <1>2, <1>5, <2>1 DEF Agree
  <2>3. Listed(g, tp)
    BY <1>6, <2>2, ListedKept
  <2> QED
    BY <2>2, <2>3
<1>7. ASSUME NEW tp \in Table, Listed(f, tp), tp.level = scope, tp.all = head
      PROVE  /\ Listed(g, Linked(tp, n)) /\ Linked(tp, n) \in Table
             /\ Linked(tp, n).level = tp.level /\ Linked(tp, n).arena = tp.arena
             /\ ToSet(Linked(tp, n).bucket) = ToSet(tp.bucket) \cup {n}
  <2>1. DOMAIN f \subseteq Nat /\ DOMAIN g \subseteq Nat /\ n \in DOMAIN g /\ n \in Nat
    BY <1>1, <1>2, <1>3
  <2>2. g[n].scope = tp.level /\ g[n].up = tp.all
    BY <1>2, <1>7 DEF Storable
  <2>3. Listed(f, tp) /\ n \notin ToSet(tp.bucket) /\ Agree(f, g, tp)
    BY <1>6, <1>7
  <2> QED
    BY <2>1, <2>2, <2>3, ListedLinked
<1>8. IsStored(s, n, y, g)
  BY <1>1, <1>2, <1>4 DEF IsStored, f
<1> QED
  BY <1>6, <1>7, <1>8 DEF f

\* The outermost table may grow.
LEMMA OutermostReplaced ==
    ASSUME NEW level, NEW ids \in Seq(Table), TablesNested(level, ids),
           NEW tp \in Table, tp.level = GLOBAL, tp.arena = "PERM",
           NEW ids2, ids2 = [ids EXCEPT ![1] = tp]
    PROVE  /\ ids2 \in Seq(Table) /\ TablesNested(level, ids2)
           /\ DOMAIN ids2 = DOMAIN ids /\ 1 \in DOMAIN ids /\ ids2[1] = tp
           /\ \A i \in DOMAIN ids : i # 1 => ids2[i] = ids[i]
<1> DEFINE n == Len(ids)
<1>1. n \in Nat \ {0} /\ DOMAIN ids = 1 .. n
  BY LenProperties, EmptySeq DEF TablesNested
<1>2. 1 \in 1 .. n /\ n \in 1 .. n
  BY <1>1
<1>3. ids2 \in Seq(Table) /\ Len(ids2) = n
  BY <1>2, ExceptSeq
<1>4. DOMAIN ids2 = 1 .. n /\ ids2[1] = tp /\ \A i \in 1 .. n : i # 1 => ids2[i] = ids[i]
  BY <1>1, <1>2
<1> HIDE DEF n
<1>5. ids[1].level = GLOBAL
  BY DEF TablesNested
<1>6. \A i \in 1 .. n : ids2[i].level = ids[i].level
  BY <1>4, <1>5
<1>7. ids2 # << >>
  BY <1>1, <1>3, EmptySeq
<1>8. \A i, j \in DOMAIN ids2 : i < j => ids2[i].level < ids2[j].level
  BY <1>1, <1>4, <1>6 DEF TablesNested
<1>9. ids2[Len(ids2)].level <= level
  <2>1. ids[n].level <= level
    BY DEF TablesNested, n
  <2> QED
    BY <1>2, <1>3, <1>6, <2>1
<1>10. TablesNested(level, ids2)
  BY <1>4, <1>7, <1>8, <1>9 DEF TablesNested
<1> QED
  BY <1>1, <1>2, <1>3, <1>4, <1>10

\* A new global.
LEMMA GlobalInstalled ==
    ASSUME NEW s, Sound(s), NEW p \in Symbol, p.scope = GLOBAL, p.arena = "PERM", p.alias = NULL
    PROVE  Adds(s, installGlobal(s, p), Fresh(s), p)
<1> DEFINE n == Fresh(s)
           ids == s.identifiers
           tp == ids[1]
           y == [p EXCEPT !.up = tp.all]
           g == With(s.syms, n, y)
           new == Linked(tp, n)
           s2 == installGlobal(s, p)
<1>1. /\ s \in State /\ SymbolsSound(s.syms) /\ s.level \in Nat /\ ids \in Seq(Table) /\ s.externals \in Table
      /\ 1 \in DOMAIN ids /\ DOMAIN ids = 1 .. Len(ids) /\ tp \in Table /\ tp.level = GLOBAL
      /\ tp.arena = "PERM" /\ Listed(s.syms, tp) /\ GLOBAL \in Nat
  BY SoundTables DEF Sound, State, TablesNested, GLOBAL
<1>2. /\ tp.all \in DOMAIN s.syms \cup {NULL} /\ tp.all \in Nat
      /\ tp.all # NULL => s.syms[tp.all].scope = GLOBAL
  BY <1>1, GlobalHead
<1>3. Storable(s, y, GLOBAL, tp.all) /\ y.sclass = p.sclass
  <2>1. /\ y \in Symbol /\ y.scope = GLOBAL /\ y.arena = "PERM" /\ y.alias = NULL
        /\ y.up = tp.all /\ y.sclass = p.sclass
    BY <1>2 DEF Symbol
  <2>2. GLOBAL >= GLOBAL
    BY DEF GLOBAL
  <2> QED
    BY <1>2, <2>1, <2>2 DEF Storable
<1> HIDE DEF n, y
<1>4. /\ IsStored(s, n, y, g)
      /\ \A l \in Table : Listed(s.syms, l) => Listed(g, l) /\ n \notin ToSet(l.bucket)
      /\ Listed(g, new) /\ new \in Table /\ new.level = GLOBAL /\ new.arena = "PERM"
      /\ ToSet(new.bucket) = ToSet(tp.bucket) \cup {n}
  <2>1. n = Fresh(s) /\ g = With(s.syms, n, y)
    BY DEF n, g
  <2> HIDE DEF g, tp
  <2> QED
    BY <1>1, <1>3, <2>1, Stored
<1>5. /\ SymbolsSound(g) /\ n \notin DOMAIN s.syms
      /\ DOMAIN g = DOMAIN s.syms \cup {n} /\ g[n] = y /\ y.scope = GLOBAL
      /\ \A q \in DOMAIN s.syms : g[q] = s.syms[q]
  BY <1>3, <1>4 DEF IsStored, Storable
<1> HIDE DEF g, new
<1>6. /\ s2 \in State /\ s2.level = s.level /\ s2.syms = g
      /\ s2.identifiers = [ids EXCEPT ![1] = new] /\ s2.externals = s.externals
  <2>1. [ids EXCEPT ![1] = new] \in Seq(Table)
    BY <1>1, <1>4, <1>5, ExceptSeq
  <2>2. s2 = [s EXCEPT !.syms = g, !.identifiers = [ids EXCEPT ![1] = new]]
    BY DEF installGlobal, g, new, n, y
  <2>3. g \in Memory
    BY <1>4, <1>5 DEF SymbolsSound
  <2> HIDE DEF s2
  <2> QED
    BY <1>1, <2>1, <2>2, <2>3 DEF State
<1> HIDE DEF s2
<1>7. /\ DOMAIN s2.identifiers = DOMAIN ids /\ s2.identifiers[1] = new
      /\ \A i \in DOMAIN ids : i # 1 => s2.identifiers[i] = ids[i]
      /\ TablesNested(s2.level, s2.identifiers)
  <2>1. TablesNested(s.level, ids)
    BY DEF Sound
  <2> HIDE DEF ids
  <2>2. ids \in Seq(Table) /\ new \in Table /\ new.level = GLOBAL /\ new.arena = "PERM"
    BY <1>1, <1>4
  <2>3. s2.identifiers = [ids EXCEPT ![1] = new] /\ s2.level = s.level
    BY <1>6
  <2> QED
    BY <2>1, <2>2, <2>3, OutermostReplaced
<1>9. AllListed(s2.syms, s2.identifiers, s2.externals)
  <2>1. /\ s.externals.level = GLOBAL /\ Listed(s.syms, s.externals)
        /\ \A i \in DOMAIN ids : Listed(s.syms, ids[i]) /\ ids[i] \in Table
        /\ ToSet(tp.bucket) \cap ToSet(s.externals.bucket) = {}
    BY SoundTables DEF Sound, AllListed
  <2>2. \A i \in DOMAIN s2.identifiers : Listed(g, s2.identifiers[i])
    BY <1>4, <1>5, <1>7, <2>1
  <2>3. ToSet(new.bucket) \cap ToSet(s.externals.bucket) = {}
    BY <1>1, <1>4, <1>5, <2>1
  <2> QED
    BY <1>1, <1>4, <1>5, <1>6, <1>7, <2>1, <2>2, <2>3 DEF AllListed
<1>10. Sound(s2) /\ Kept(s, s2)
  BY <1>4, <1>5, <1>6, <1>7, <1>9 DEF Sound, Kept
<1> QED
  BY <1>3, <1>4, <1>5, <1>6, <1>10 DEF Adds, s2, n

\* A new external.
LEMMA ExternalInstalled ==
    ASSUME NEW s, Sound(s), NEW p \in Symbol, p.scope = GLOBAL, p.arena = "PERM", p.alias = NULL
    PROVE  Adds(s, installExternal(s, p), Fresh(s), p)
<1> DEFINE n == Fresh(s)
           tp == s.externals
           y == [p EXCEPT !.up = tp.all]
           g == With(s.syms, n, y)
           new == Linked(tp, n)
           s2 == installExternal(s, p)
<1>1. /\ s \in State /\ SymbolsSound(s.syms) /\ tp \in Table /\ tp.level = GLOBAL /\ Listed(s.syms, tp)
      /\ GLOBAL \in Nat
  BY SoundTables DEF Sound, AllListed, GLOBAL
<1>2. /\ tp.all \in DOMAIN s.syms \cup {NULL} /\ tp.all \in Nat
      /\ tp.all # NULL => s.syms[tp.all].scope = GLOBAL
  BY <1>1, GlobalHead
<1>3. Storable(s, y, GLOBAL, tp.all) /\ y.sclass = p.sclass
  <2>1. /\ y \in Symbol /\ y.scope = GLOBAL /\ y.arena = "PERM" /\ y.alias = NULL
        /\ y.up = tp.all /\ y.sclass = p.sclass
    BY <1>2 DEF Symbol
  <2>2. GLOBAL >= GLOBAL
    BY DEF GLOBAL
  <2> QED
    BY <1>2, <2>1, <2>2 DEF Storable
<1> HIDE DEF n, y
<1>4. /\ IsStored(s, n, y, g)
      /\ \A l \in Table : Listed(s.syms, l) => Listed(g, l) /\ n \notin ToSet(l.bucket)
      /\ Listed(g, new) /\ new \in Table /\ new.level = GLOBAL
      /\ ToSet(new.bucket) = ToSet(tp.bucket) \cup {n}
  <2>1. n = Fresh(s) /\ g = With(s.syms, n, y)
    BY DEF n, g
  <2> HIDE DEF g, tp
  <2> QED
    BY <1>1, <1>3, <2>1, Stored
<1>5. /\ SymbolsSound(g) /\ n \notin DOMAIN s.syms
      /\ DOMAIN g = DOMAIN s.syms \cup {n} /\ g[n] = y /\ y.scope = GLOBAL
      /\ \A q \in DOMAIN s.syms : g[q] = s.syms[q]
  BY <1>3, <1>4 DEF IsStored, Storable
<1> HIDE DEF g, new
<1>6. /\ s2 \in State /\ s2.level = s.level /\ s2.syms = g
      /\ s2.identifiers = s.identifiers /\ s2.externals = new
  <2>1. s2 = [s EXCEPT !.syms = g, !.externals = new]
    BY DEF installExternal, g, new, n, y
  <2>2. g \in Memory
    BY <1>5 DEF SymbolsSound
  <2> HIDE DEF s2
  <2> QED
    BY <1>1, <1>4, <2>1, <2>2 DEF State
<1> HIDE DEF s2
<1>7. AllListed(s2.syms, s2.identifiers, s2.externals)
  <2> DEFINE ids == s.identifiers
  <2>1. /\ 1 \in DOMAIN ids /\ \A i \in DOMAIN ids : Listed(s.syms, ids[i]) /\ ids[i] \in Table
        /\ ToSet(ids[1].bucket) \cap ToSet(tp.bucket) = {}
    BY SoundTables DEF Sound, AllListed
  <2>2. \A i \in DOMAIN ids : Listed(g, ids[i]) /\ n \notin ToSet(ids[i].bucket)
    BY <1>4, <2>1
  <2>3. ToSet(ids[1].bucket) \cap ToSet(new.bucket) = {}
    BY <1>4, <2>1, <2>2
  <2> QED
    BY <1>4, <1>6, <2>2, <2>3 DEF AllListed
<1>8. Sound(s2) /\ Kept(s, s2)
  BY <1>5, <1>6, <1>7 DEF Sound, Kept
<1> QED
  BY <1>3, <1>5, <1>6, <1>8 DEF Adds, s2, n

\* A declaration in the current scope, which gets its table on demand.
LEMMA Installed ==
    ASSUME NEW s, Sound(s), NEW p \in Symbol, p.scope = s.level, p.alias = NULL,
           p.scope = GLOBAL => p.arena = "PERM"
    PROVE  Adds(s, install(s, p), Fresh(s), p)
<1> DEFINE n == Fresh(s)
           old == s.identifiers
           ids == IF Last(old).level < p.scope THEN Append(old, NewTable(s, p.scope)) ELSE old
           tp == Last(ids)
           y == [p EXCEPT !.up = tp.all]
           g == With(s.syms, n, y)
           new == Linked(tp, n)
           ids2 == Append(Front(ids), new)
           s2 == install(s, p)
<1>1. /\ s \in State /\ s.level \in Nat /\ s.level >= GLOBAL /\ old \in Seq(Table)
      /\ Len(old) \in Nat \ {0} /\ DOMAIN old = 1 .. Len(old) /\ Last(old) = old[Len(old)]
      /\ old[Len(old)].level <= s.level /\ old[Len(old)].level \in Nat
      /\ \A i \in 1 .. Len(old) : old[i] \in Table /\ Listed(s.syms, old[i])
      /\ GLOBAL \in Nat
  BY SoundTables DEF Sound, State, TablesNested, Last, GLOBAL
\* The tables with the one of the level.
<1>2. /\ ids \in Seq(Table) /\ TablesNested(s.level, ids) /\ Len(ids) \in Nat \ {0}
      /\ \A i \in DOMAIN ids : Listed(s.syms, ids[i])
      /\ tp = ids[Len(ids)] /\ tp.level = s.level /\ ids[1] = old[1]
  <2>1. CASE ~(Last(old).level < p.scope)
    <3>1. ids = old
      BY <2>1
    <3> HIDE DEF ids, old
    <3>2. old[Len(old)].level = s.level
      BY <1>1, <2>1
    <3>3. TablesNested(s.level, old)
      BY DEF Sound, old
    <3> QED
      BY <1>1, <3>1, <3>2, <3>3 DEF Last
  <2>2. CASE Last(old).level < p.scope
    <3> DEFINE made == NewTable(s, p.scope)
    <3>1. /\ Last(old).all \in Nat
          /\ Last(old).all \in Below(s.syms, s.level)
      <4>1. \/ Last(old).all = NULL
            \/ /\ Last(old).all \in DOMAIN s.syms
               /\ \/ s.syms[Last(old).all].scope = Last(old).level
                  \/ s.syms[Last(old).all].scope < Last(old).level
        <5>1. Listed(s.syms, Last(old)) /\ Last(old).level \in Nat
          BY <1>1
        <5> HIDE DEF old
        <5> QED
          BY <5>1, HeadSound
      <4>2. Last(old) \in Table
        BY <1>1
      <4>3. Last(old).all \in DOMAIN s.syms => s.syms[Last(old).all].scope \in Nat
        BY SoundTables
      <4> HIDE DEF old
      <4>4. Last(old).all \in Nat
        BY <4>2 DEF Table
      <4>5. Last(old).all = NULL \/ (Last(old).all \in DOMAIN s.syms /\ s.syms[Last(old).all].scope < s.level)
        BY <1>1, <2>2, <4>1, <4>3
      <4> QED
        BY <4>4, <4>5 DEF Below
    <3>2. made = [level |-> s.level, bucket |-> << >>, all |-> Last(old).all, arena |-> "FUNC"]
      BY DEF NewTable
    <3> HIDE DEF made
    <3>3. made \in Table /\ made.level = s.level
      BY <1>1, <3>1, <3>2 DEF Table
    <3>4. Listed(s.syms, made)
      <4>1. /\ made.bucket = << >> /\ made.level = s.level /\ DOMAIN << >> = {}
            /\ made.all = Last(old).all /\ << >> \in Seq(DOMAIN s.syms)
        BY <3>2
      <4>2. made.all = At(<< >>, made.all, 1)
        BY <4>1 DEF At
      <4> QED
        BY <3>1, <4>1, <4>2 DEF Listed
    <3>5. ids = Append(old, made)
      BY <2>2 DEF made
    <3> HIDE DEF ids
    <3>6. /\ ids \in Seq(Table) /\ Len(ids) = Len(old) + 1 /\ ids[Len(old) + 1] = made
          /\ \A i \in 1 .. Len(old) : ids[i] = old[i]
      BY <1>1, <3>3, <3>5, AppendProperties
    <3>7. DOMAIN ids = 1 .. (Len(old) + 1) /\ Len(ids) \in Nat \ {0} /\ ids # << >>
      BY <1>1, <3>6, LenProperties, EmptySeq
    <3>8. \A i \in DOMAIN ids : i \in 1 .. Len(old) \/ i = Len(old) + 1
      BY <1>1, <3>7
    <3> HIDE DEF old
    <3>9. \A i \in DOMAIN ids : Listed(s.syms, ids[i])
      BY <1>1, <3>4, <3>6, <3>8
    <3>10. ids[1] = old[1] /\ 1 \in 1 .. Len(old) /\ Len(old) \in 1 .. Len(old)
      BY <1>1, <3>6
    <3>11. TablesNested(s.level, old)
      BY DEF Sound, old
    <3>12. ASSUME NEW i \in DOMAIN ids, NEW j \in DOMAIN ids, i < j
           PROVE  ids[i].level < ids[j].level
      <4>1. CASE j \in 1 .. Len(old)
        <5>1. i \in 1 .. Len(old)
          BY <1>1, <3>7, <3>12, <4>1
        <5> QED
          BY <1>1, <3>6, <3>11, <3>12, <4>1, <5>1 DEF TablesNested
      <4>2. CASE j = Len(old) + 1
        <5>1. i \in 1 .. Len(old) /\ (i = Len(old) \/ i < Len(old))
          BY <1>1, <3>7, <3>12, <4>2
        <5>2. ids[i].level = old[i].level /\ old[i].level \in Nat
          BY <1>1, <3>6, <5>1 DEF Table
        <5>3. old[i].level <= old[Len(old)].level
          <6>1. CASE i = Len(old)
            BY <1>1, <5>2, <6>1
          <6>2. CASE i < Len(old)
            <7>1. old[i].level < old[Len(old)].level
              BY <1>1, <3>10, <3>11, <5>1, <6>2 DEF TablesNested
            <7> QED
              BY <1>1, <5>2, <7>1
          <6> QED
            BY <5>1, <6>1, <6>2
        <5>4. ids[j].level = s.level
          BY <3>3, <3>6, <4>2
        <5> QED
          BY <1>1, <2>2, <5>2, <5>3, <5>4
      <4> QED
        BY <3>8, <4>1, <4>2
    <3>13. TablesNested(s.level, ids)
      <4>1. ids[Len(ids)].level <= s.level
        BY <1>1, <3>3, <3>6
      <4> QED
        BY <3>7, <3>10, <3>11, <3>12, <4>1 DEF TablesNested
    <3> QED
      BY <3>3, <3>6, <3>7, <3>9, <3>10, <3>13 DEF Last
  <2> QED
    BY <2>1, <2>2
<1> HIDE DEF ids, old
<1> DEFINE m == Len(ids)
<1>3. /\ m \in Nat \ {0} /\ DOMAIN ids = 1 .. m /\ m \in 1 .. m /\ 1 \in 1 .. m
      /\ tp = ids[m] /\ tp \in Table /\ Listed(s.syms, tp)
  BY <1>2, LenProperties, ElementOfSeq
<1> HIDE DEF tp
<1>4. /\ tp.all \in DOMAIN s.syms \cup {NULL} /\ tp.all \in Nat
      /\ s.level = GLOBAL /\ tp.all # NULL => s.syms[tp.all].scope = GLOBAL
  <2>1. tp.all \in DOMAIN s.syms \cup {NULL} /\ tp.all \in Nat
    BY <1>1, <1>2, <1>3, HeadSound DEF Table
  <2>2. SymbolsSound(s.syms)
    BY DEF Sound
  <2> QED
    BY <1>2, <1>3, <2>1, <2>2, GlobalHead
<1>5. Storable(s, y, s.level, tp.all) /\ y.sclass = p.sclass
  <2>1. /\ y \in Symbol /\ y.scope = s.level /\ y.arena = p.arena /\ y.alias = NULL
        /\ y.up = tp.all /\ y.sclass = p.sclass
    BY <1>4 DEF Symbol
  <2> QED
    BY <1>1, <1>4, <2>1 DEF Storable
<1> HIDE DEF n, y
<1>6. /\ IsStored(s, n, y, g)
      /\ \A l \in Table : Listed(s.syms, l) => Listed(g, l) /\ n \notin ToSet(l.bucket)
      /\ Listed(g, new) /\ new \in Table /\ new.level = s.level /\ new.arena = tp.arena
      /\ ToSet(new.bucket) = ToSet(tp.bucket) \cup {n}
  <2>1. n = Fresh(s) /\ g = With(s.syms, n, y)
    BY DEF n, g
  <2> HIDE DEF g
  <2> QED
    BY <1>2, <1>3, <1>5, <2>1, Stored
<1>7. /\ SymbolsSound(g) /\ n \notin DOMAIN s.syms
      /\ DOMAIN g = DOMAIN s.syms \cup {n} /\ g[n] = y /\ y.scope = s.level
      /\ \A q \in DOMAIN s.syms : g[q] = s.syms[q]
  BY <1>5, <1>6 DEF IsStored, Storable
<1> HIDE DEF g, new
<1>8. /\ ids2 \in Seq(Table) /\ Len(ids2) = m /\ DOMAIN ids2 = 1 .. m /\ ids2[m] = new
      /\ \A i \in 1 .. m : i # m => ids2[i] = ids[i]
  <2> DEFINE front == Front(ids)
  <2>1. front \in Seq(Table) /\ Len(front) = m - 1 /\ \A i \in 1 .. (m - 1) : front[i] = ids[i]
    <3>1. front = SubSeq(ids, 1, m - 1) /\ m - 1 \in 0 .. m
      BY <1>3 DEF Front
    <3> HIDE DEF front
    <3> QED
      BY <1>2, <3>1, Prefix DEF m
  <2> HIDE DEF front, m
  <2>2. /\ ids2 \in Seq(Table) /\ Len(ids2) = Len(front) + 1 /\ ids2[Len(front) + 1] = new
        /\ \A i \in 1 .. Len(front) : ids2[i] = front[i]
    <3>1. ids2 = Append(front, new)
      BY DEF front
    <3> HIDE DEF ids2
    <3> QED
      BY <1>6, <2>1, <3>1, AppendProperties
  <2> HIDE DEF ids2
  <2>3. m - 1 + 1 = m /\ \A i \in 1 .. m : i # m => i \in 1 .. (m - 1)
    BY <1>3
  <2> QED
    BY <2>1, <2>2, <2>3, LenProperties
<1>9. /\ s2 \in State /\ s2.level = s.level /\ s2.syms = g
      /\ s2.identifiers = ids2 /\ s2.externals = s.externals
  <2>1. s2 = [s EXCEPT !.syms = g, !.identifiers = ids2]
    BY DEF install, g, new, n, y, ids2, tp, ids, old
  <2>2. g \in Memory
    BY <1>7 DEF SymbolsSound
  <2> HIDE DEF s2, ids2
  <2> QED
    BY <1>1, <1>8, <2>1, <2>2 DEF State
<1> HIDE DEF s2, ids2, m
<1>10. \A i \in 1 .. m : ids2[i].level = ids[i].level /\ ids2[i].arena = ids[i].arena
  BY <1>2, <1>3, <1>6, <1>8
<1>11. TablesNested(s2.level, s2.identifiers)
  <2>1. ids2 # << >>
    BY <1>3, <1>8, EmptySeq
  <2>2. \A i, j \in DOMAIN ids2 : i < j => ids2[i].level < ids2[j].level
    BY <1>2, <1>3, <1>8, <1>10 DEF TablesNested
  <2>3. ids2[Len(ids2)].level <= s.level
    BY <1>1, <1>6, <1>8
  <2>4. ids2[1].level = GLOBAL /\ ids2[1].arena = "PERM"
    BY <1>2, <1>3, <1>10 DEF TablesNested
  <2> QED
    BY <1>1, <1>9, <2>1, <2>2, <2>3, <2>4 DEF TablesNested
<1>12. AllListed(s2.syms, s2.identifiers, s2.externals)
  <2>1. /\ s.externals \in Table /\ s.externals.level = GLOBAL /\ Listed(s.syms, s.externals)
        /\ ToSet(ids[1].bucket) \cap ToSet(s.externals.bucket) = {}
    BY <1>2, SoundTables DEF Sound, AllListed, old
  <2>2. Listed(g, s.externals) /\ n \notin ToSet(s.externals.bucket)
    BY <1>6, <2>1
  <2>3. \A i \in 1 .. m : Listed(g, ids2[i])
    <3>1. \A i \in 1 .. m : ids[i] \in Table /\ Listed(s.syms, ids[i])
      BY <1>2, <1>3, ElementOfSeq DEF m
    <3> QED
      BY <1>6, <1>8, <3>1
  <2>4. ToSet(ids2[1].bucket) \cap ToSet(s.externals.bucket) = {}
    <3>1. CASE m = 1
      BY <1>3, <1>6, <1>8, <2>1, <2>2, <3>1
    <3>2. CASE m # 1
      BY <1>3, <1>8, <2>1, <3>2
    <3> QED
      BY <3>1, <3>2
  <2> QED
    BY <1>8, <1>9, <2>1, <2>2, <2>3, <2>4 DEF AllListed
<1>13. Sound(s2) /\ Kept(s, s2)
  BY <1>7, <1>9, <1>11, <1>12 DEF Sound, Kept
<1> QED
  BY <1>5, <1>7, <1>9, <1>13 DEF Adds, s2, n

\* A symbol may be followed by another one.
LEMMA UpChanged ==
    ASSUME NEW f, SymbolsSound(f), NEW q \in DOMAIN f, NEW v \in DOMAIN f \cup {NULL},
           f[q].scope = GLOBAL /\ v # NULL => f[v].scope = GLOBAL,
           NEW g, g = FollowedBy(f, q, v)
    PROVE  Refollowed(f, g, q, v)
<1> DEFINE y == [f[q] EXCEPT !.up = v]
<1>1. f \in [DOMAIN f -> Symbol] /\ DOMAIN f \subseteq Nat \ {NULL} /\ IsFiniteSet(DOMAIN f)
  BY InMemory DEF SymbolsSound
<1>2. f[q] \in Symbol /\ v \in Nat
  BY <1>1 DEF NULL
<1>3. /\ y \in Symbol /\ y.scope = f[q].scope /\ y.arena = f[q].arena
      /\ y.up = v /\ y.alias = f[q].alias
  BY <1>2 DEF Symbol
<1>4. g = [f EXCEPT ![q] = y]
  BY DEF FollowedBy
<1> HIDE DEF y
<1>5. /\ DOMAIN g = DOMAIN f /\ g[q] = y /\ \A p \in DOMAIN f : p # q => g[p] = f[p]
      /\ g \in [DOMAIN f -> Symbol]
  BY <1>1, <1>3, <1>4
<1>6. g \in Memory
  BY <1>1, <1>5, InMemory
<1>7. ASSUME NEW p \in DOMAIN f
      PROVE  /\ g[p].scope = f[p].scope /\ g[p].arena = f[p].arena /\ g[p].alias = f[p].alias
             /\ g[p].up = IF p = q THEN v ELSE f[p].up
  BY <1>3, <1>5
<1>8. SymbolsSound(g)
  <2>1. \A p \in DOMAIN f :
           /\ g[p].up \in DOMAIN f \cup {NULL}
           /\ g[p].scope = GLOBAL /\ g[p].up # NULL => g[g[p].up].scope = GLOBAL
    BY <1>7 DEF SymbolsSound
  <2> QED
    BY <1>1, <1>5, <1>6, <1>7, <2>1 DEF SymbolsSound
<1> QED
  BY <1>5, <1>7, <1>8 DEF Refollowed

\* A symbol moves from the externals to the globals.
LEMMA Relocated ==
    ASSUME NEW s, Sound(s), NEW name, Find(s, s.externals, name) # NULL
    PROVE  /\ Sound(relocate(s, name)) /\ relocate(s, name).level = s.level
           /\ DOMAIN relocate(s, name).syms = DOMAIN s.syms
           /\ \A p \in DOMAIN s.syms : relocate(s, name).syms[p].scope = s.syms[p].scope
<1> DEFINE p == Find(s, s.externals, name)
           f == s.syms
           ids == s.identifiers
           ext == s.externals
           b == ext.bucket
           n == Len(b)
           chain == Chain(s, ext.all, GLOBAL)
           i == CHOOSE k \in DOMAIN chain : chain[k] = p
           unlinked == IF i = 1 THEN [s EXCEPT !.externals.all = s.syms[p].up]
                       ELSE [s EXCEPT !.syms[chain[i-1]].up = s.syms[p].up]
           head == ids[1].all
           f1 == IF i = 1 THEN f ELSE [f EXCEPT ![b[i-1]].up = f[p].up]
           all1 == IF i = 1 THEN f[p].up ELSE ext.all
           g == [f1 EXCEPT ![p].up = head]
           ext2 == [ext EXCEPT !.bucket = Without(b, p), !.all = all1]
           new == Linked(ids[1], p)
           ids2 == [ids EXCEPT ![1] = new]
           s2 == relocate(s, name)
<1>1. /\ s \in State /\ f \in Memory /\ SymbolsSound(f) /\ ids \in Seq(Table) /\ ext \in Table
      /\ ext.level = GLOBAL /\ Listed(f, ext) /\ TablesNested(s.level, ids)
      /\ \A k \in DOMAIN ids : Listed(f, ids[k]) /\ ids[k] \in Table
      /\ 1 \in DOMAIN ids /\ ids[1].level = GLOBAL /\ ids[1].arena = "PERM"
      /\ \A k \in DOMAIN ids : k # 1 => ids[k].level > GLOBAL
      /\ ToSet(ids[1].bucket) \cap ToSet(b) = {} /\ GLOBAL \in Nat
  BY SoundTables DEF Sound, State, AllListed, TablesNested, GLOBAL
<1>2. p \in ToSet(b) /\ p \in DOMAIN f /\ f[p].scope = GLOBAL
  BY FindSound
<1>3. /\ n \in Nat /\ DOMAIN b = 1 .. n /\ \A k \in 1 .. n : b[k] \in DOMAIN f /\ b[k] \in ToSet(b)
      /\ \A k, l \in 1 .. n : b[k] = b[l] => k = l
      /\ \A k \in 1 .. n : f[b[k]].scope = GLOBAL
  <2>1. b \in Seq(DOMAIN f)
    BY <1>1 DEF Listed
  <2>2. n \in Nat /\ DOMAIN b = 1 .. n /\ \A k \in 1 .. n : b[k] \in DOMAIN f
    BY <2>1, LenProperties, ElementOfSeq
  <2> HIDE DEF n, b, f
  <2> QED
    BY <1>1, <2>2 DEF Listed, ToSet, b
<1>4. chain = b
  <2> HIDE DEF chain
  <2>1. SymbolsSound(s.syms) /\ s.externals \in Table /\ Listed(s.syms, s.externals)
    BY <1>1
  <2>2. Chain(s, s.externals.all, s.externals.level) = s.externals.bucket
    BY <2>1, ChainOfTable
  <2> QED
    BY <1>1, <2>2 DEF chain
<1>5. i \in 1 .. n /\ b[i] = p
  <2>1. \E k \in DOMAIN b : b[k] = p
    BY <1>2 DEF ToSet
  <2> HIDE DEF chain, b, p, n
  <2>2. \E k \in DOMAIN chain : chain[k] = p
    BY <1>4, <2>1
  <2> QED
    BY <1>3, <1>4, <2>2
<1>6. i # 1 => i - 1 \in 1 .. n /\ b[i-1] \in DOMAIN f /\ b[i-1] # p
  <2> HIDE DEF i, n, b, p, f
  <2>1. i # 1 => i - 1 \in 1 .. n /\ i - 1 # i
    BY <1>3, <1>5
  <2> QED
    BY <1>3, <1>5, <2>1
<1>7. /\ f[p].up \in DOMAIN f \cup {NULL} /\ head \in DOMAIN f \cup {NULL}
      /\ f[p].up # NULL => f[f[p].up].scope = GLOBAL
      /\ head # NULL => f[head].scope = GLOBAL
  <2>1. f[p].up \in DOMAIN f \cup {NULL} /\ (f[p].up # NULL => f[f[p].up].scope = GLOBAL)
    BY <1>1, <1>2 DEF SymbolsSound
  <2>2. head \in DOMAIN f \cup {NULL} /\ (head # NULL => f[head].scope = GLOBAL)
    <3>1. ids[1].level = GLOBAL /\ Listed(f, ids[1]) /\ ids[1] \in Table /\ SymbolsSound(f)
      BY <1>1
    <3> HIDE DEF f, ids
    <3> QED
      BY <3>1, GlobalHead
  <2> QED
    BY <2>1, <2>2
<1>8. /\ f[p].up \in Nat /\ head \in Nat /\ all1 \in Nat
  <2>1. f[p].up \in Nat /\ head \in Nat
    BY <1>1, <1>7, InMemory DEF NULL
  <2>2. ext.all \in Nat
    BY <1>1 DEF Table
  <2> QED
    BY <2>1, <2>2
\* The new symbols.
<1>9. /\ SymbolsSound(f1) /\ DOMAIN f1 = DOMAIN f
      /\ \A q \in DOMAIN f : /\ f1[q].scope = f[q].scope
                             /\ f1[q].up = IF i # 1 /\ q = b[i-1] THEN f[p].up ELSE f[q].up
  <2>1. CASE i = 1
    BY <1>1, <2>1
  <2>2. CASE i # 1
    <3> DEFINE q == b[i-1]
               v == f[p].up
    <3>1. f1 = FollowedBy(f, q, v) /\ q \in DOMAIN f /\ v \in DOMAIN f \cup {NULL}
          /\ (v # NULL => f[v].scope = GLOBAL)
      BY <1>6, <1>7, <2>2 DEF FollowedBy
    <3> HIDE DEF q, v, f1, f, i
    <3>2. /\ SymbolsSound(f1) /\ DOMAIN f1 = DOMAIN f /\ f1[q].up = v
          /\ \A r \in DOMAIN f : f1[r].scope = f[r].scope /\ (r # q => f1[r].up = f[r].up)
      <4>1. SymbolsSound(f)
        BY <1>1
      <4>2. Refollowed(f, f1, q, v)
        BY <3>1, <4>1, UpChanged
      <4> QED
        BY <4>2 DEF Refollowed
    <3>3. \A r \in DOMAIN f : f1[r].up = IF r = q THEN v ELSE f[r].up
      BY <3>2
    <3> QED
      BY <2>2, <3>2, <3>3 DEF q, v
  <2> QED
    BY <2>1, <2>2
<1> HIDE DEF f1
<1>10. /\ SymbolsSound(g) /\ DOMAIN g = DOMAIN f /\ g[p].up = head
       /\ \A q \in DOMAIN f : g[q].scope = f1[q].scope /\ (q # p => g[q].up = f1[q].up)
  <2>1. /\ p \in DOMAIN f1 /\ head \in DOMAIN f1 \cup {NULL} /\ SymbolsSound(f1)
        /\ head # NULL => f1[head].scope = GLOBAL
    BY <1>2, <1>7, <1>9
  <2>0. g = FollowedBy(f1, p, head)
    BY DEF FollowedBy
  <2> HIDE DEF f, head, p, g
  <2>2. /\ SymbolsSound(g) /\ DOMAIN g = DOMAIN f1 /\ g[p].up = head
        /\ \A q \in DOMAIN f1 : g[q].scope = f1[q].scope /\ (q # p => g[q].up = f1[q].up)
    <3>1. Refollowed(f1, g, p, head)
      BY <2>0, <2>1, UpChanged
    <3> QED
      BY <3>1 DEF Refollowed
  <2> QED
    BY <1>9, <2>2
<1>11. /\ ext2 \in Table /\ ext2.level = GLOBAL /\ ext2.bucket = Without(b, p) /\ ext2.all = all1
  <2>1. Without(b, p) \in Seq(Nat)
    <3>1. b \in Seq(Nat) /\ i \in DOMAIN b /\ \A k, l \in DOMAIN b : b[k] = b[l] => k = l
      BY <1>1, <1>3, <1>5 DEF Table
    <3> HIDE DEF b, i, p
    <3>2. Without(b, b[i]) \in Seq(Nat)
      BY <3>1, WithoutIs
    <3> QED
      BY <1>5, <3>2
  <2> DEFINE c == Without(b, p)
  <2> HIDE DEF c, all1, ext
  <2>2. ext2 = [ext EXCEPT !.bucket = c, !.all = all1]
    BY DEF c
  <2>3. c \in Seq(Nat)
    BY <2>1 DEF c
  <2> HIDE DEF ext2
  <2>4. /\ ext2 \in Table /\ ext2.level = ext.level /\ ext2.bucket = c /\ ext2.all = all1
    BY <1>1, <1>8, <2>2, <2>3 DEF Table
  <2> QED
    BY <1>1, <2>4 DEF c
\* The state.
<1>12. /\ Listed(g, ext2) /\ ToSet(ext2.bucket) = ToSet(b) \ {p}
       /\ Listed(g, new) /\ new \in Table /\ new.level = GLOBAL /\ new.arena = "PERM"
       /\ ToSet(new.bucket) = ToSet(ids[1].bucket) \cup {p}
       /\ \A k \in DOMAIN ids : k # 1 => Listed(g, ids[k])
  <2>1. \A level : Below(f, level) \subseteq Below(g, level)
    <3> HIDE DEF g, f
    <3> QED
      BY <1>9, <1>10 DEF Below
  <2>2. Listed(g, ext2) /\ ToSet(ext2.bucket) = ToSet(b) \ {p}
    <3>1. \A q \in ToSet(ext.bucket) : g[q].scope = f[q].scope
      <4>1. ToSet(ext.bucket) \subseteq DOMAIN f
        BY <1>1, BucketInMemory
      <4> HIDE DEF g, f
      <4> QED
        BY <1>9, <1>10, <4>1
    <3>2. ASSUME NEW k \in DOMAIN ext.bucket, k # i
          PROVE  g[ext.bucket[k]].up = IF k = i - 1 THEN f[p].up ELSE f[ext.bucket[k]].up
      <4>1. b[k] \in DOMAIN f /\ b[k] # p /\ k \in 1 .. n
        <5> HIDE DEF i, p, f
        <5> QED
          BY <1>3, <1>5, <3>2
      <4>2. g[b[k]].up = f1[b[k]].up
        <5> HIDE DEF g, f, p
        <5> QED
          BY <1>10, <4>1
      <4>3. f1[b[k]].up = IF i # 1 /\ b[k] = b[i-1] THEN f[p].up ELSE f[b[k]].up
        BY <1>9, <4>1
      <4>4. (i # 1 /\ b[k] = b[i-1]) <=> k = i - 1
        <5> HIDE DEF i, p, f, b, n
        <5>1. i \in Nat /\ k \in Nat /\ k >= 1
          BY <1>3, <1>5, <4>1
        <5> QED
          BY <1>3, <1>6, <4>1, <5>1
      <4> QED
        BY <4>2, <4>3, <4>4
    <3>3. /\ i \in DOMAIN ext.bucket /\ p = ext.bucket[i] /\ ext2.level = ext.level
          /\ DOMAIN f \subseteq DOMAIN g /\ Below(f, ext.level) \subseteq Below(g, ext.level)
          /\ ext2.bucket = Without(ext.bucket, p) /\ ext2.all = all1 /\ ext2 \in Table
          /\ Listed(f, ext) /\ ext \in Table
      BY <1>1, <1>3, <1>5, <1>10, <1>11, <2>1
    <3> HIDE DEF g, f, i, p, ext2, ext
    <3>4. Bypassed(f, g, ext, i)
      BY <3>1, <3>2, <3>3 DEF Bypassed
    <3>5. Listed(g, ext2) /\ ToSet(ext2.bucket) = ToSet(ext.bucket) \ {p}
      <4>1. Loses(f, ext, i, ext2)
        BY <3>3 DEF Loses, all1
      <4>2. Listed(g, ext2) /\ Forgets(ext, i, ext2)
        <5>1. Listed(f, ext) /\ ext \in Table /\ ext2 \in Table /\ i \in DOMAIN ext.bucket
          BY <3>3
        <5> QED
          BY <3>4, <4>1, <5>1, ListedWithout
      <4> QED
        BY <3>3, <4>2 DEF Forgets
    <3> QED
      BY <3>5 DEF b
  <2>3. ASSUME NEW k \in DOMAIN ids PROVE Agree(f, g, ids[k]) /\ p \notin ToSet(ids[k].bucket)
    <3>1. ToSet(ids[k].bucket) \subseteq DOMAIN f /\ \A q \in ToSet(ids[k].bucket) : f[q].scope = ids[k].level
      BY <1>1, BucketInMemory
    <3>2. ToSet(ids[k].bucket) \cap ToSet(b) = {}
      <4>1. CASE k = 1
        BY <1>1, <4>1
      <4>2. CASE k # 1
        <5>1. ids[k].level # GLOBAL
          <6>1. ids[k].level > GLOBAL /\ ids[k].level \in Nat
            BY <1>1, <4>2 DEF Table
          <6> QED
            BY <1>1, <6>1
        <5>2. \A q \in ToSet(b) : f[q].scope = GLOBAL
          BY <1>1, BucketInMemory
        <5> QED
          BY <3>1, <5>1, <5>2
      <4> QED
        BY <4>1, <4>2
    <3>3. p \notin ToSet(ids[k].bucket)
      BY <1>2, <3>2
    <3>4. \A q \in ToSet(ids[k].bucket) : g[q].scope = f[q].scope /\ g[q].up = f[q].up
      <4> SUFFICES ASSUME NEW q \in ToSet(ids[k].bucket) PROVE g[q].scope = f[q].scope /\ g[q].up = f[q].up
        OBVIOUS
      <4>1. q \in DOMAIN f /\ q # p /\ q \notin ToSet(b)
        BY <3>1, <3>2, <3>3
      <4>2. i # 1 => q # b[i-1]
        BY <1>3, <1>6, <4>1
      <4> HIDE DEF g, f, p, i
      <4> QED
        BY <1>9, <1>10, <4>1, <4>2
    <3> HIDE DEF g, f
    <3> QED
      BY <1>10, <2>1, <3>1, <3>3, <3>4 DEF Agree
  <2>4. ASSUME NEW k \in DOMAIN ids PROVE Listed(g, ids[k])
    <3>1. Listed(f, ids[k]) /\ ids[k] \in Table /\ Agree(f, g, ids[k])
      BY <1>1, <2>3
    <3> HIDE DEF g, f, ids
    <3> QED
      BY <3>1, ListedKept
  <2>5. /\ Listed(g, new) /\ new \in Table /\ new.level = ids[1].level /\ new.arena = ids[1].arena
        /\ ToSet(new.bucket) = ToSet(ids[1].bucket) \cup {p}
    <3> DEFINE tp == ids[1]
    <3>1. /\ Listed(f, tp) /\ tp \in Table /\ p \in DOMAIN g /\ p \in Nat
          /\ DOMAIN f \subseteq Nat /\ DOMAIN g \subseteq Nat
      BY <1>1, <1>2, <1>10, InMemory
    <3>2. p \notin ToSet(tp.bucket) /\ Agree(f, g, tp)
      BY <1>1, <2>3
    <3>3. g[p].scope = tp.level /\ g[p].up = tp.all
      <4> HIDE DEF g, f, p
      <4> QED
        BY <1>1, <1>2, <1>9, <1>10
    <3> HIDE DEF g, f, p, tp
    <3>4. /\ Listed(g, Linked(tp, p)) /\ Linked(tp, p) \in Table
          /\ Linked(tp, p).level = tp.level /\ Linked(tp, p).arena = tp.arena
          /\ ToSet(Linked(tp, p).bucket) = ToSet(tp.bucket) \cup {p}
      BY <3>1, <3>2, <3>3, ListedLinked
    <3> QED
      BY <3>4 DEF tp
  <2> HIDE DEF g, new, ext2, p
  <2> QED
    BY <1>1, <2>2, <2>4, <2>5
<1> HIDE DEF new
<1>13. /\ ids2 \in Seq(Table) /\ TablesNested(s.level, ids2)
       /\ DOMAIN ids2 = DOMAIN ids /\ ids2[1] = new
       /\ \A k \in DOMAIN ids : k # 1 => ids2[k] = ids[k]
  <2>1. /\ new \in Table /\ new.level = GLOBAL /\ new.arena = "PERM"
        /\ ids \in Seq(Table) /\ TablesNested(s.level, ids)
    BY <1>1, <1>12
  <2> HIDE DEF ids
  <2> QED
    BY <2>1, OutermostReplaced
<1> USE DEF new
\* The state.
<1>14. /\ s2 \in State /\ s2.level = s.level /\ s2.syms = g
       /\ s2.identifiers = ids2 /\ s2.externals = ext2
  <2> DEFINE u == unlinked
  <2>1. u \in State /\ u.level = s.level /\ u.identifiers = ids /\ u.syms = f1
        /\ u.externals.bucket = b /\ u.externals = [ext EXCEPT !.all = all1]
    <3>1. CASE i = 1
      <4> DEFINE e == [ext EXCEPT !.all = all1]
      <4>1. u = [s EXCEPT !.externals = e]
        BY <3>1
      <4>2. e \in Table /\ e.bucket = b
        BY <1>1, <1>8 DEF Table
      <4>3. f1 = f
        BY <3>1 DEF f1
      <4> HIDE DEF e, u, f1
      <4>4. u \in State /\ u.level = s.level /\ u.identifiers = ids /\ u.syms = f /\ u.externals = e
        BY <1>1, <4>1, <4>2 DEF State
      <4> QED
        BY <4>2, <4>3, <4>4 DEF e
    <3>2. CASE i # 1
      <4>1. u = [s EXCEPT !.syms = f1]
        <5> HIDE DEF chain, i
        <5>1. u = [s EXCEPT !.syms[b[i-1]].up = f[p].up]
          BY <1>4, <3>2
        <5> QED
          BY <3>2, <5>1 DEF f1
      <4>2. f1 \in Memory
        BY <1>9 DEF SymbolsSound
      <4>3. [ext EXCEPT !.all = all1] = ext
        BY <1>1, <3>2 DEF Table
      <4> HIDE DEF u, f1, all1
      <4> QED
        BY <1>1, <4>1, <4>2, <4>3 DEF State
    <3> QED
      BY <3>1, <3>2
  <2>2. s2 = [u EXCEPT !.externals.bucket = Without(@, p), !.syms[p].up = head,
                       !.identifiers[1] = Linked(@, p)]
    BY DEF relocate
  <2> HIDE DEF u, s2
  <2>3. s2 = [u EXCEPT !.externals = [u.externals EXCEPT !.bucket = Without(u.externals.bucket, p)],
                       !.syms = [u.syms EXCEPT ![p].up = head],
                       !.identifiers = [u.identifiers EXCEPT ![1] = Linked(u.identifiers[1], p)]]
    BY <2>2
  <2>4. [u.syms EXCEPT ![p].up = head] = g
    BY <2>1
  <2>5. [u.externals EXCEPT !.bucket = Without(u.externals.bucket, p)] = ext2
    BY <2>1
  <2>6. [u.identifiers EXCEPT ![1] = Linked(u.identifiers[1], p)] = ids2
    BY <2>1
  <2> HIDE DEF g, ext2, ids2
  <2>7. s2 = [u EXCEPT !.externals = ext2, !.syms = g, !.identifiers = ids2]
    BY <2>3, <2>4, <2>5, <2>6
  <2>8. g \in Memory
    BY <1>10 DEF SymbolsSound
  <2>9. ids2 \in Seq(Table)
    BY <1>13 DEF ids2
  <2> QED
    BY <1>11, <2>1, <2>7, <2>8, <2>9 DEF State
<1>15. TablesNested(s2.level, s2.identifiers)
  BY <1>13, <1>14
<1>16. AllListed(s2.syms, s2.identifiers, s2.externals)
  <2>1. \A k \in DOMAIN ids2 : Listed(g, ids2[k])
    BY <1>12, <1>13
  <2>2. Listed(g, ext2) /\ ToSet(ids2[1].bucket) \cap ToSet(ext2.bucket) = {}
    BY <1>1, <1>12, <1>13
  <2> HIDE DEF g, ids2, ext2, s2
  <2> QED
    BY <1>11, <1>14, <2>1, <2>2 DEF AllListed
<1>17. Sound(s2)
  <2> HIDE DEF g, ids2, ext2, s2
  <2> QED
    BY <1>10, <1>14, <1>15, <1>16 DEF Sound
<1>18. \A q \in DOMAIN f : s2.syms[q].scope = f[q].scope
  <2> HIDE DEF g, s2, f
  <2> QED
    BY <1>9, <1>10, <1>14
<1> HIDE DEF g, s2
<1> QED
  BY <1>10, <1>14, <1>17, <1>18 DEF s2

\* The arena FUNC is emptied when only globals and externals are listed.
LEMMA Deallocated ==
    ASSUME NEW s, Sound(s), s.level = GLOBAL
    PROVE  /\ Sound(deallocate(s)) /\ Kept(s, deallocate(s)) /\ deallocate(s).level = GLOBAL
           /\ Purged(s, deallocate(s))
           /\ \A p \in DOMAIN s.syms : s.syms[p].scope = GLOBAL => p \in DOMAIN deallocate(s).syms
<1> DEFINE f == s.syms
           ids == s.identifiers
           ext == s.externals
           D == {m \in DOMAIN f : f[m].arena = "PERM" /\ f[m].scope = GLOBAL}
           g == [n \in D |-> f[n]]
           s2 == deallocate(s)
<1>1. /\ s \in State /\ SymbolsSound(f) /\ ids \in Seq(Table) /\ ext \in Table
      /\ ext.level = GLOBAL /\ Listed(f, ext)
      /\ 1 \in DOMAIN ids /\ DOMAIN ids = 1 .. 1 /\ Len(ids) = 1
      /\ ids[1] \in Table /\ ids[1].level = GLOBAL /\ ids[1].arena = "PERM" /\ Listed(f, ids[1])
      /\ ToSet(ids[1].bucket) \cap ToSet(ext.bucket) = {}
  BY SoundTables DEF Sound, State, AllListed, TablesNested
<1>2. /\ \A p \in DOMAIN f : p \in D <=> f[p].scope = GLOBAL
      /\ D \subseteq DOMAIN f /\ f \in [DOMAIN f -> Symbol] /\ DOMAIN f \subseteq Nat \ {NULL}
  BY <1>1, InMemory DEF SymbolsSound
<1>3. DOMAIN g = D /\ g \in [D -> Symbol] /\ \A p \in D : g[p] = f[p] /\ f[p].scope = GLOBAL
  BY <1>2
<1> HIDE DEF D, g
<1>4. SymbolsSound(g)
  <2>1. IsFiniteSet(D)
    BY <1>1, <1>2, FS_Subset DEF SymbolsSound
  <2>2. g \in Memory
    BY <1>2, <1>3, InMemory
  <2>3. ASSUME NEW p \in D
        PROVE  /\ g[p].scope >= GLOBAL
               /\ g[p].scope = GLOBAL => g[p].arena = "PERM"
               /\ g[p].up \in D \cup {NULL}
               /\ g[p].scope = GLOBAL /\ g[p].up # NULL => g[g[p].up].scope = GLOBAL
               /\ \/ g[p].alias = NULL
                  \/ g[p].alias \in D /\ g[g[p].alias].scope = GLOBAL
    <3>1. p \in DOMAIN f /\ f[p].scope = GLOBAL /\ g[p] = f[p]
      BY <1>2, <1>3
    <3>2. /\ f[p].scope >= GLOBAL /\ f[p].arena = "PERM"
          /\ f[p].up = NULL \/ (f[p].up \in DOMAIN f /\ f[f[p].up].scope = GLOBAL)
          /\ f[p].alias = NULL \/ (f[p].alias \in DOMAIN f /\ f[f[p].alias].scope = GLOBAL)
      BY <1>1, <3>1 DEF SymbolsSound
    <3> HIDE DEF f
    <3> QED
      BY <1>2, <1>3, <3>1, <3>2
  <2> QED
    BY <1>3, <2>1, <2>2, <2>3 DEF SymbolsSound
<1>5. ASSUME NEW tp \in Table, tp.level = GLOBAL, Listed(f, tp) PROVE Listed(g, tp)
  <2>1. ToSet(tp.bucket) \subseteq DOMAIN f /\ \A p \in ToSet(tp.bucket) : f[p].scope = GLOBAL
    BY <1>5, BucketInMemory
  <2>2. ToSet(tp.bucket) \subseteq D /\ \A p \in ToSet(tp.bucket) : g[p] = f[p]
    BY <1>2, <1>3, <2>1
  <2>3. Below(f, tp.level) = {NULL}
    <3>1. \A p \in DOMAIN f : f[p].scope \in Nat /\ f[p].scope >= GLOBAL
      BY <1>1, <1>2 DEF SymbolsSound, Symbol
    <3>2. \A p \in DOMAIN f : ~(f[p].scope < GLOBAL)
      BY <3>1 DEF GLOBAL
    <3> QED
      BY <1>5, <3>2 DEF Below
  <2>4. Below(f, tp.level) \subseteq Below(g, tp.level)
    BY <2>3 DEF Below
  <2>5. Agree(f, g, tp)
    BY <1>3, <2>2, <2>4 DEF Agree
  <2> HIDE DEF f
  <2> QED
    BY <1>5, <2>5, ListedKept
<1>6. /\ s2 \in State /\ s2.level = GLOBAL /\ s2.syms = g
      /\ s2.identifiers = ids /\ s2.externals = ext
  <2> DEFINE ids2 == [i \in DOMAIN ids |-> IF ids[i].arena = "FUNC"
                                            THEN [ids[i] EXCEPT !.arena = "freed"] ELSE ids[i]]
  <2>1. ids2 = ids
    <3>1. ids2 = [i \in 1 .. 1 |-> ids[i]]
      BY <1>1
    <3>2. ids \in [1 .. 1 -> Table]
      <4>1. ids \in [1 .. Len(ids) -> Table]
        BY <1>1, LenProperties
      <4> QED
        BY <1>1, <4>1
    <3> QED
      BY <3>1, <3>2
  <2>2. s2 = [s EXCEPT !.syms = g, !.identifiers = ids2]
    BY DEF deallocate, g, D
  <2>3. g \in Memory
    BY <1>4 DEF SymbolsSound
  <2> HIDE DEF s2, ids2
  <2> QED
    BY <1>1, <2>1, <2>2, <2>3 DEF State
<1> HIDE DEF s2
<1>7. AllListed(s2.syms, s2.identifiers, s2.externals)
  <2>1. \A i \in DOMAIN ids : i = 1
    BY <1>1
  <2>2. Listed(g, ids[1]) /\ Listed(g, ext)
    BY <1>1, <1>5
  <2> HIDE DEF ids, ext
  <2> QED
    BY <1>1, <1>6, <2>1, <2>2 DEF AllListed
<1>8. TablesNested(s2.level, s2.identifiers)
  BY <1>6 DEF Sound
<1>9. Sound(s2) /\ Kept(s, s2)
  BY <1>2, <1>3, <1>4, <1>6, <1>7, <1>8 DEF Sound, Kept
<1>10. Purged(s, s2)
  BY <1>2, <1>3, <1>6 DEF Purged, Outermost
<1> QED
  BY <1>2, <1>3, <1>6, <1>9, <1>10 DEF s2

---------------------------------------------------------------------------
(* The declarations *)

\* Such changes one after the other, and what counts as one.
LEMMA LeavesAll ==
    ASSUME NEW s, NEW s2, NEW s3
    PROVE  /\ Sound(s) => Leaves(s, s)
           /\ Sound(s) /\ Same(s, s2) => Leaves(s, s2)
           /\ Leaves(s, s2) /\ Leaves(s2, s3) => Leaves(s, s3)
           /\ \A n, p : Adds(s, s2, n, p) => Leaves(s, s2)
<1>1. Sound(s) => Leaves(s, s)
  BY DEF Leaves, Kept
<1>2. Sound(s) /\ Same(s, s2) => Leaves(s, s2)
  <2> SUFFICES ASSUME Sound(s), Same(s, s2) PROVE Leaves(s, s2)
    OBVIOUS
  <2>1. Sound(s2) /\ Kept(s, s2)
    BY SameSound
  <2> QED
    BY <2>1 DEF Leaves, Same
<1>3. Leaves(s, s2) /\ Leaves(s2, s3) => Leaves(s, s3)
  BY DEF Leaves, Kept
<1>4. \A n, p : Adds(s, s2, n, p) => Leaves(s, s2)
  BY DEF Adds, Leaves
<1> QED
  BY <1>1, <1>2, <1>3, <1>4

\* A new symbol has the fields it is made with.
LEMMA NewSymbolIs ==
    ASSUME NEW name \in Name, NEW scope \in Nat,
           NEW sclass \in {"AUTO", "STATIC", "EXTERN", "TYPEDEF"},
           NEW kind \in {"object", "function", "type"}, NEW arena \in {"PERM", "FUNC"},
           NEW p, p = NewSymbol(name, scope, sclass, kind, arena)
    PROVE  /\ p \in Symbol /\ p.scope = scope /\ p.sclass = sclass /\ p.arena = arena
           /\ p.alias = NULL
BY DEF NewSymbol, Symbol, NULL

\* An extern declaration in a block, with the symbol q outside or a new one.
LEMMA Aliased ==
    ASSUME NEW s, Sound(s), NEW id \in Name, NEW kind \in {"object", "function"},
           NEW q, q = NULL \/ Outermost(s, q)
    PROVE  Leaves(s, dclextern(s, id, kind, q))
<1> DEFINE p == Fresh(s)
           x == NewSymbol(id, s.level, "EXTERN", kind, "PERM")
           y == NewSymbol(id, GLOBAL, "EXTERN", kind, "PERM")
           local == install(s, x)
           outer == IF q # NULL THEN local ELSE installExternal(local, y)
           a == IF q # NULL THEN q ELSE Fresh(local)
<1>1. s.level \in Nat /\ GLOBAL \in Nat
  BY SoundTables DEF GLOBAL
<1>2. /\ x \in Symbol /\ x.scope = s.level /\ x.arena = "PERM" /\ x.alias = NULL
      /\ y \in Symbol /\ y.scope = GLOBAL /\ y.arena = "PERM" /\ y.alias = NULL
  <2> HIDE DEF x, y
  <2> QED
    BY <1>1, NewSymbolIs DEF x, y
<1> HIDE DEF x, y
<1>3. Adds(s, local, p, x)
  BY <1>2, Installed
<1> HIDE DEF local
<1>4. Sound(local) /\ Leaves(s, local) /\ Kept(s, local)
  BY <1>3, LeavesAll DEF Adds
<1>5. Leaves(local, outer) /\ Outermost(outer, a)
  <2>1. CASE q # NULL
    <3>1. q \in DOMAIN local.syms /\ local.syms[q].scope = GLOBAL
      BY <1>4, <2>1 DEF Kept, Outermost
    <3> QED
      BY <1>4, <2>1, <3>1, LeavesAll DEF Outermost
  <2>2. CASE q = NULL
    <3>1. Adds(local, installExternal(local, y), Fresh(local), y)
      BY <1>2, <1>4, ExternalInstalled
    <3> QED
      BY <1>2, <2>2, <3>1, LeavesAll DEF Adds, Outermost
  <2> QED
    BY <2>1, <2>2
<1> HIDE DEF outer, a
<1>6. Sound(outer)
  BY <1>5 DEF Leaves
<1>7. Same(outer, [outer EXCEPT !.syms[p].alias = a])
  BY <1>5, <1>6, Marked
<1>8. Leaves(outer, [outer EXCEPT !.syms[p].alias = a])
  BY <1>6, <1>7, LeavesAll
<1>9. dclextern(s, id, kind, q) = [outer EXCEPT !.syms[p].alias = a]
  BY DEF dclextern, outer, local, a, x, y
<1> QED
  BY <1>4, <1>5, <1>8, <1>9, LeavesAll

\* Marks move nothing.
LEMMA SameOutermost ==
    ASSUME NEW s, NEW s2, Same(s, s2), NEW q
    PROVE  Outermost(s, q) <=> Outermost(s2, q)
BY DEF Same, Outermost

\* A definition is printed.
LEMMA Initialised ==
    ASSUME NEW s, Sound(s), NEW p, Outermost(s, p)
    PROVE  Leaves(s, initglobal(s, p)) /\ Outermost(initglobal(s, p), p)
<1> DEFINE d == defglobal(s, p)
           x == IF d.syms[p].sclass = "EXTERN" THEN "AUTO" ELSE d.syms[p].sclass
           s2 == [d EXCEPT !.syms[p].sclass = x]
<1>1. Same(s, d)
  BY Marked
<1> HIDE DEF d
<1>2. Sound(d) /\ Outermost(d, p) /\ Leaves(s, d)
  BY <1>1, SameSound, SameOutermost, LeavesAll
<1>3. x \in {"AUTO", "STATIC", "EXTERN", "TYPEDEF"}
  BY <1>2, SoundTables DEF Outermost, Symbol
<1> HIDE DEF x
<1>4. Same(d, s2)
  BY <1>2, <1>3, Marked
<1>5. s2 = initglobal(s, p)
  BY DEF initglobal, d, x
<1> HIDE DEF s2
<1>6. Leaves(d, s2) /\ Outermost(s2, p)
  BY <1>2, <1>4, LeavesAll, SameOutermost
<1> QED
  BY <1>2, <1>5, <1>6, LeavesAll

\* A declaration at file scope yields a symbol outside blocks.
LEMMA DeclaredGlobal ==
    ASSUME NEW s, Sound(s), NEW id \in Name, NEW sclass \in {"AUTO", "STATIC", "EXTERN"},
           NEW kind \in {"object", "function"}, NEW init \in BOOLEAN,
           NEW d, d = dclglobal(s, id, sclass, kind, init)
    PROVE  Leaves(s, d.s) /\ Outermost(d.s, d.p)
<1> DEFINE p == lookup(s, id)
           known == p # NULL /\ s.syms[p].scope = GLOBAL
           q == Find(s, s.externals, id)
           r == IF known THEN p ELSE IF q # NULL THEN q ELSE Fresh(s)
           old == IF s.syms[p].sclass = "EXTERN" THEN sclass ELSE s.syms[p].sclass
           x == NewSymbol(id, GLOBAL, sclass, kind, "PERM")
           placed == IF known THEN [s EXCEPT !.syms[p].sclass = old]
                     ELSE IF q # NULL THEN [relocate(s, id) EXCEPT !.syms[q].sclass = sclass]
                     ELSE installGlobal(s, x)
           typed == [placed EXCEPT !.syms[r].kind = kind]
<1>1. d.s = (IF init THEN initglobal(typed, r) ELSE typed) /\ d.p = r
  BY DEF dclglobal
<1>2. Leaves(s, placed) /\ Outermost(placed, r)
  <2>1. CASE known
    <3>1. Outermost(s, p)
      BY <2>1, LookupSound DEF Outermost
    <3>2. old \in {"AUTO", "STATIC", "EXTERN", "TYPEDEF"}
      BY <3>1, SoundTables DEF Outermost, Symbol
    <3> HIDE DEF old, p
    <3>3. Same(s, [s EXCEPT !.syms[p].sclass = old])
      BY <3>2, Marked
    <3> QED
      BY <2>1, <3>1, <3>3, LeavesAll, SameOutermost
  <2>2. CASE ~known /\ q # NULL
    <3> DEFINE u == relocate(s, id)
    <3>1. Outermost(s, q)
      BY <2>2, FindSound DEF Outermost
    <3>2. /\ Sound(u) /\ u.level = s.level /\ DOMAIN u.syms = DOMAIN s.syms
          /\ \A k \in DOMAIN s.syms : u.syms[k].scope = s.syms[k].scope
      BY <2>2, Relocated
    <3> HIDE DEF u, q, known
    <3>3. Leaves(s, u) /\ Outermost(u, q)
      BY <3>1, <3>2 DEF Leaves, Kept, Outermost
    <3>4. Same(u, [u EXCEPT !.syms[q].sclass = sclass])
      BY <3>2, Marked
    <3>5. placed = [u EXCEPT !.syms[q].sclass = sclass] /\ r = q
      BY <2>2 DEF u
    <3> HIDE DEF placed, r
    <3>6. Leaves(u, placed) /\ Outermost(placed, q)
      BY <3>2, <3>3, <3>4, <3>5, LeavesAll, SameOutermost
    <3> QED
      BY <3>3, <3>5, <3>6, LeavesAll
  <2>3. CASE ~known /\ q = NULL
    <3>1. /\ x \in Symbol /\ x.scope = GLOBAL /\ x.arena = "PERM" /\ x.alias = NULL
      <4>1. GLOBAL \in Nat
        BY DEF GLOBAL
      <4> HIDE DEF x
      <4> QED
        BY <4>1, NewSymbolIs DEF x
    <3> HIDE DEF x, q, known
    <3>2. Adds(s, installGlobal(s, x), Fresh(s), x)
      BY <3>1, GlobalInstalled
    <3>3. placed = installGlobal(s, x) /\ r = Fresh(s)
      BY <2>3
    <3> HIDE DEF placed, r
    <3> QED
      BY <3>1, <3>2, <3>3, LeavesAll DEF Adds, Outermost
  <2> QED
    BY <2>1, <2>2, <2>3
<1> HIDE DEF placed, r
<1>3. Sound(placed)
  BY <1>2 DEF Leaves
<1>4. Same(placed, typed)
  BY <1>3, Marked
<1> HIDE DEF typed
<1>5. Leaves(placed, typed) /\ Sound(typed) /\ Outermost(typed, r)
  BY <1>2, <1>3, <1>4, LeavesAll, SameOutermost, SameSound
<1>6. Leaves(typed, initglobal(typed, r)) /\ Outermost(initglobal(typed, r), r)
  BY <1>5, Initialised
<1> QED
  BY <1>1, <1>2, <1>5, <1>6, LeavesAll

\* Parameters.
LEMMA ParametersDeclared ==
    ASSUME NEW s, Sound(s), s.level > GLOBAL, NEW params,
           params = << >> \/ params[1] \in Name
    PROVE  Leaves(s, parameters(s, params))
<1>1. CASE params = << >>
  BY <1>1, LeavesAll DEF parameters
<1>2. CASE params # << >>
  <2> DEFINE id == params[1]
             p == NewSymbol(id, s.level, "AUTO", "object", "FUNC")
  <2>1. s.level \in Nat /\ s.level # GLOBAL
    BY SoundTables DEF GLOBAL
  <2>2. id \in Name
    BY <1>2
  <2> HIDE DEF id
  <2>3. p \in Symbol /\ p.scope = s.level /\ p.alias = NULL
    <3> HIDE DEF p
    <3> QED
      BY <2>1, <2>2, NewSymbolIs DEF p
  <2> HIDE DEF p
  <2>4. Adds(s, install(s, p), Fresh(s), p)
    BY <2>1, <2>3, Installed
  <2>5. parameters(s, params) = install(s, p)
    BY <1>2 DEF parameters, dclparam, p, id
  <2> QED
    BY <2>4, <2>5, LeavesAll
<1> QED
  BY <1>1, <1>2

\* A declarator opens and closes the scope of its parameters.
LEMMA PrototypeRead ==
    ASSUME NEW s, Sound(s), NEW params, params = << >> \/ params[1] \in Name
    PROVE  Leaves(s, prototype(s, params))
<1> DEFINE once == enterscope(s)
           twice == enterscope(once)
           opened == IF s.level + 1 > PARAM THEN twice ELSE once
           args == parameters(opened, params)
           one == exitscope(args)
           two == exitscope(one)
<1>1. s.level \in Nat /\ s.level >= GLOBAL
  BY SoundTables DEF Sound, TablesNested
<1>2. Sound(once) /\ once.level = s.level + 1 /\ once.syms = s.syms
  BY ScopeEntered
<1> HIDE DEF once
<1>3. Sound(twice) /\ twice.level = s.level + 2 /\ twice.syms = s.syms
  <2>1. Sound(twice) /\ twice.level = once.level + 1 /\ twice.syms = once.syms
    BY <1>2, ScopeEntered
  <2> HIDE DEF twice
  <2> QED
    BY <1>1, <1>2, <2>1
<1> HIDE DEF twice
<1>4. /\ Sound(opened) /\ opened.syms = s.syms /\ opened.level \in Nat /\ opened.level > GLOBAL
      /\ opened.level = IF s.level + 1 > PARAM THEN s.level + 2 ELSE s.level + 1
  BY <1>1, <1>2, <1>3 DEF GLOBAL
<1> HIDE DEF opened
<1>5. Leaves(opened, args)
  BY <1>4, ParametersDeclared
<1> HIDE DEF args
<1>6. Sound(args) /\ Kept(s, args) /\ args.level = opened.level
  BY <1>4, <1>5 DEF Leaves, Kept
<1>7. Sound(one) /\ one.level = args.level - 1 /\ one.syms = args.syms
  BY <1>4, <1>6, ScopeLeft
<1> HIDE DEF one
<1>8. args.level > PARAM => Sound(two) /\ two.level = args.level - 2 /\ two.syms = args.syms
  <2> SUFFICES ASSUME args.level > PARAM PROVE Sound(two) /\ two.level = args.level - 2 /\ two.syms = args.syms
    OBVIOUS
  <2>1. one.level > GLOBAL
    BY <1>4, <1>6, <1>7 DEF PARAM, GLOBAL
  <2>2. Sound(two) /\ two.level = one.level - 1 /\ two.syms = one.syms
    BY <1>7, <2>1, ScopeLeft
  <2> HIDE DEF two
  <2> QED
    BY <1>4, <1>6, <1>7, <2>2
<1> HIDE DEF two
<1>9. prototype(s, params) = IF args.level > PARAM THEN two ELSE one
  BY DEF prototype, two, one, args, opened, twice, once
<1>10. args.level > PARAM <=> s.level + 1 > PARAM
  BY <1>1, <1>4, <1>6 DEF PARAM, GLOBAL
<1>11. CASE s.level + 1 > PARAM
  <2>1. two.level = s.level
    BY <1>1, <1>4, <1>6, <1>8, <1>10, <1>11
  <2> QED
    BY <1>6, <1>8, <1>9, <1>10, <1>11, <2>1 DEF Leaves, Kept
<1>12. CASE ~(s.level + 1 > PARAM)
  <2>1. one.level = s.level
    BY <1>1, <1>4, <1>6, <1>7, <1>12
  <2> QED
    BY <1>6, <1>7, <1>9, <1>10, <1>12, <2>1 DEF Leaves, Kept
<1> QED
  BY <1>11, <1>12

\* A declaration in a block.
LEMMA DeclaredLocal ==
    ASSUME NEW s, Sound(s), s.level > GLOBAL, NEW id \in Name,
           NEW sclass \in {"AUTO", "STATIC", "EXTERN"}, NEW kind \in {"object", "function"}
    PROVE  Leaves(s, dcllocal(s, id, sclass, kind).s)
<1> DEFINE q == Outside(s, id)
           arena == IF sclass = "STATIC" THEN "PERM" ELSE "FUNC"
           x == NewSymbol(id, s.level, sclass, kind, arena)
<1>1. dcllocal(s, id, sclass, kind).s =
         IF sclass = "EXTERN" THEN dclextern(s, id, kind, q) ELSE install(s, x)
  BY DEF dcllocal
<1>2. Leaves(s, dclextern(s, id, kind, q))
  <2>1. 1 \in DOMAIN s.identifiers /\ s.identifiers[1].level = GLOBAL
    BY SoundTables DEF Sound, TablesNested
  <2>2. q = NULL \/ Outermost(s, q)
    BY <2>1, FindSound DEF Outside, Outermost
  <2> HIDE DEF q
  <2> QED
    BY <2>2, Aliased
<1>3. Leaves(s, install(s, x))
  <2>1. s.level \in Nat /\ s.level # GLOBAL
    BY SoundTables DEF GLOBAL
  <2>2. x \in Symbol /\ x.scope = s.level /\ x.alias = NULL
    <3>1. arena \in {"PERM", "FUNC"}
      OBVIOUS
    <3> HIDE DEF x, arena
    <3> QED
      BY <2>1, <3>1, NewSymbolIs DEF x
  <2> HIDE DEF x
  <2>3. Adds(s, install(s, x), Fresh(s), x)
    BY <2>1, <2>2, Installed
  <2> QED
    BY <2>3, LeavesAll
<1> QED
  BY <1>1, <1>2, <1>3

\* A use changes a mark.
LEMMA UsedSame ==
    ASSUME NEW s, Sound(s), NEW p
    PROVE  Same(s, Used(s, p))
<1> DEFINE q == IF s.syms[p].scope > PARAM /\ s.syms[p].sclass = "EXTERN" THEN s.syms[p].alias ELSE p
           x == s.syms[q].scope = GLOBAL /\ s.syms[q].sclass # "TYPEDEF"
<1>1. x \in BOOLEAN
  BY Zenon
<1>2. Used(s, p) = [s EXCEPT !.syms[q].ref = x]
  BY Zenon DEF Used
<1> HIDE DEF x, q
<1>3. \A y \in BOOLEAN : Same(s, [s EXCEPT !.syms[q].ref = y])
  BY Marked
<1> QED
  BY <1>1, <1>2, <1>3, Zenon

\* The marks of the end of the file.
LEMMA AllMarked ==
    ASSUME NEW s, Sound(s), NEW g, DOMAIN g = DOMAIN s.syms, g = [p \in DOMAIN g |-> g[p]],
           \A p \in DOMAIN s.syms :
              /\ g[p] \in Symbol /\ g[p].scope = s.syms[p].scope /\ g[p].arena = s.syms[p].arena
              /\ g[p].up = s.syms[p].up /\ g[p].alias = s.syms[p].alias
    PROVE  Same(s, [s EXCEPT !.syms = g])
<1> DEFINE s2 == [s EXCEPT !.syms = g]
<1>1. s \in State /\ DOMAIN s.syms \subseteq Nat \ {NULL}
  BY SoundTables DEF Sound
<1>2. g \in Memory
  BY <1>1, InMemory
<1>3. /\ s2 \in State /\ s2.syms = g /\ s2.level = s.level
      /\ s2.identifiers = s.identifiers /\ s2.externals = s.externals
  BY <1>1, <1>2 DEF State
<1> HIDE DEF s2
<1>4. Same(s, s2)
  BY <1>3 DEF Same
<1> QED
  BY <1>4 DEF s2

\* doextern only marks symbols.
LEMMA ExternalsImported ==
    ASSUME NEW s, Sound(s)
    PROVE  Same(s, doextern(s))
<1> DEFINE f == s.syms
           Is == ToSet(Chain(s, s.externals.all, GLOBAL))
           g == [p \in DOMAIN f |-> IF p \in Is THEN [f[p] EXCEPT !.imported = TRUE] ELSE f[p]]
<1>1. doextern(s) = [s EXCEPT !.syms = g]
  BY DEF doextern
<1> HIDE DEF Is
<1>2. \A p \in DOMAIN f :
         /\ g[p] \in Symbol /\ g[p].scope = f[p].scope /\ g[p].arena = f[p].arena
         /\ g[p].up = f[p].up /\ g[p].alias = f[p].alias
  <2> SUFFICES ASSUME NEW p \in DOMAIN f
               PROVE  /\ g[p] \in Symbol /\ g[p].scope = f[p].scope /\ g[p].arena = f[p].arena
                      /\ g[p].up = f[p].up /\ g[p].alias = f[p].alias
    OBVIOUS
  <2>1. f[p] \in Symbol
    BY SoundTables
  <2>2. /\ [f[p] EXCEPT !.imported = TRUE] \in Symbol
        /\ [f[p] EXCEPT !.imported = TRUE].scope = f[p].scope
        /\ [f[p] EXCEPT !.imported = TRUE].arena = f[p].arena
        /\ [f[p] EXCEPT !.imported = TRUE].up = f[p].up
        /\ [f[p] EXCEPT !.imported = TRUE].alias = f[p].alias
    BY <2>1 DEF Symbol
  <2> QED
    BY <2>1, <2>2
<1>3. DOMAIN g = DOMAIN f /\ g = [p \in DOMAIN g |-> g[p]]
  OBVIOUS
<1> HIDE DEF g
<1> QED
  BY <1>1, <1>2, <1>3, AllMarked

\* doglobal only marks symbols.
LEMMA GlobalsFinished ==
    ASSUME NEW s, Sound(s)
    PROVE  Same(s, doglobal(s))
<1> DEFINE f == s.syms
           Is == ToSet(foreach(s, GLOBAL))
           printed(p) == defglobal(s, p).syms[p]
           marked(p) == [f[p] EXCEPT !.imported = TRUE]
           g == [p \in DOMAIN f |-> IF p \notin Is THEN f[p]
                                    ELSE IF Imported(f[p]) THEN marked(p)
                                    ELSE IF Tentative(f[p]) THEN printed(p) ELSE f[p]]
           Like(x, y) == /\ x \in Symbol /\ x.scope = y.scope /\ x.arena = y.arena
                         /\ x.up = y.up /\ x.alias = y.alias
<1>1. doglobal(s) = [s EXCEPT !.syms = g]
  BY DEF doglobal
<1> HIDE DEF Is
<1>2. ASSUME NEW p \in DOMAIN f PROVE Like(g[p], f[p])
  <2>1. Like(f[p], f[p])
    BY SoundTables
  <2>2. Like(marked(p), f[p])
    BY <2>1 DEF Symbol
  <2>3. Like(printed(p), f[p])
    <3> DEFINE e == f[p].exported \/ f[p].sclass # "STATIC"
               d == f[p].emitted + 1
               y == [f[p] EXCEPT !.emitted = d, !.defined = TRUE, !.exported = e]
    <3>1. e \in BOOLEAN
      BY Zenon
    <3>2. d \in Nat
      BY <2>1 DEF Symbol
    <3>3. defglobal(s, p) = [s EXCEPT !.syms[p] = y]
      BY Zenon DEF defglobal
    <3> HIDE DEF d, e
    <3>4. Like(y, f[p])
      BY <2>1, <3>1, <3>2 DEF Symbol
    <3> HIDE DEF y, Like
    <3>5. printed(p) = y
      <4>1. s \in State
        BY DEF Sound
      <4> QED
        BY <3>3, <4>1 DEF State
    <3> QED
      BY <3>4, <3>5
  <2> HIDE DEF Like, printed, marked
  <2> QED
    BY <2>1, <2>2, <2>3
<1>3. DOMAIN g = DOMAIN f /\ g = [p \in DOMAIN g |-> g[p]]
  OBVIOUS
<1> HIDE DEF g
<1> QED
  BY <1>1, <1>2, <1>3, AllMarked

---------------------------------------------------------------------------
(* The theorems *)

\* An empty table at file scope.
LEMMA StartSound == Sound(Start.st)
<1> DEFINE s == Start.st
           tp == [level |-> GLOBAL, bucket |-> << >>, all |-> NULL, arena |-> "PERM"]
<1>1. s = [level |-> GLOBAL, syms |-> << >>, identifiers |-> <<tp>>, externals |-> tp]
  BY DEF Start
<1>2. tp \in Table /\ tp.level = GLOBAL /\ tp.bucket = << >> /\ tp.all = NULL /\ tp.arena = "PERM"
  BY DEF Table, GLOBAL, NULL
<1> HIDE DEF tp
<1>3. << >> \in Memory /\ DOMAIN << >> = {} /\ IsFiniteSet({})
  <2> DEFINE none == << >>
  <2>1. none \in Seq(Symbol) /\ Len(none) = 0
    OBVIOUS
  <2> HIDE DEF none
  <2>2. none \in [1 .. 0 -> Symbol] /\ DOMAIN none = 1 .. 0
    BY <2>1, LenProperties
  <2>3. 1 .. 0 = {}
    OBVIOUS
  <2>4. none \in Memory /\ DOMAIN none = {}
    BY <2>2, <2>3, InMemory
  <2> QED
    BY <2>4, FS_EmptySet DEF none
<1>4. /\ s \in State /\ s.level = GLOBAL /\ s.syms = << >> /\ s.identifiers = <<tp>>
      /\ s.externals = tp
  BY <1>1, <1>2, <1>3 DEF State, GLOBAL
<1> HIDE DEF s
<1>5. SymbolsSound(s.syms)
  BY <1>3, <1>4 DEF SymbolsSound
<1>6. TablesNested(s.level, s.identifiers)
  <2>1. <<tp>> # << >> /\ Len(<<tp>>) = 1 /\ <<tp>>[1] = tp /\ DOMAIN <<tp>> = 1 .. 1
    OBVIOUS
  <2> QED
    BY <1>2, <1>4, <2>1 DEF TablesNested, GLOBAL
<1>7. Listed(s.syms, tp)
  <2>1. << >> \in Seq(DOMAIN s.syms) /\ DOMAIN << >> = {}
    BY <1>3
  <2>2. NULL \in Below(s.syms, tp.level)
    BY DEF Below
  <2>3. tp.all = At(tp.bucket, NULL, 1)
    BY <1>2, <2>1 DEF At
  <2> QED
    BY <1>2, <2>1, <2>2, <2>3 DEF Listed
<1>8. AllListed(s.syms, s.identifiers, s.externals)
  <2>1. <<tp>>[1] = tp /\ \A i \in DOMAIN <<tp>> : <<tp>>[i] = tp
    OBVIOUS
  <2>2. ToSet(tp.bucket) = {}
    BY <1>2, <1>3 DEF ToSet
  <2> QED
    BY <1>2, <1>4, <1>7, <2>1, <2>2 DEF AllListed
<1>9. Sound(s)
  BY <1>4, <1>5, <1>6, <1>8 DEF Sound
<1> QED
  BY <1>9 DEF s

\* The names of a source file.
LEMMA NamesOfUnit ==
    ASSUME unit \in Unit
    PROVE  /\ unit.names \subseteq Name
           /\ \A params \in Params : params = << >> \/ params[1] \in Name
<1>1. unit.names \subseteq Name
  BY ScopesAssumption DEF IsUnit
<1> QED
  BY <1>1 DEF Params

\* What is read ahead is in memory, and stays there when the arena is emptied.
LEMMA Advanced ==
    ASSUME unit \in Unit, unit' = unit, NEW s, Sound(s), NEW file, gettok(s, file),
           cfunc' = NULL \/ Outermost(s, cfunc')
    PROVE  /\ st' = s => TablesInvariant'
           /\ s.level = GLOBAL /\ st' = deallocate(s) => TablesInvariant'
<1>1. t' \in Name \cup {"none"}
  BY NamesOfUnit DEF gettok
<1>2. /\ tsym' \in DOMAIN s.syms \cup {NULL}
      /\ s.level = GLOBAL => tsym' = NULL \/ Outermost(s, tsym')
  BY LookupSound DEF gettok, Outermost
<1>3. ASSUME st' = s PROVE TablesInvariant'
  BY <1>1, <1>2, <1>3 DEF TablesInvariant
<1>4. ASSUME s.level = GLOBAL, st' = deallocate(s) PROVE TablesInvariant'
  <2>1. Sound(st') /\ Kept(s, st')
    BY <1>4, Deallocated
  <2>2. \A p : Outermost(s, p) => Outermost(st', p)
    BY <2>1 DEF Kept, Outermost
  <2> QED
    BY <1>1, <1>2, <1>4, <2>1, <2>2 DEF TablesInvariant, Outermost
<1> QED
  BY <1>3, <1>4

\* The current function is still there.
LEMMA Remembered ==
    ASSUME NEW s, NEW s2, Leaves(s, s2), NEW p, p = NULL \/ Outermost(s, p)
    PROVE  p = NULL \/ Outermost(s2, p)
BY DEF Leaves, Kept, Outermost

\* After an error.
LEMMA Rejected ==
    ASSUME unit \in Unit, NEW item, Reject(item)
    PROVE  TablesInvariant'
<1>1. unit' = unit /\ st' = Start.st /\ cfunc' = NULL /\ t' = "none" /\ tsym' = NULL
  BY DEF Reject, Becomes, Start
<1> QED
  BY <1>1, StartSound DEF TablesInvariant

\* Every step preserves the invariant.
LEMMA GlobalDeclStep ==
    ASSUME TablesInvariant, NEW id \in unit.names, NEW sclass \in {"AUTO", "STATIC", "EXTERN"},
           NEW kind \in {"object", "function"}, NEW init \in BOOLEAN,
           NEW params, params = << >> \/ params[1] \in Name,
           GlobalDecl(id, sclass, kind, init, params)
    PROVE  TablesInvariant'
<1> DEFINE p == prototype(st, params)
           d == dclglobal(p, id, sclass, kind, init)
<1>1. /\ Sound(st) /\ unit \in Unit /\ id \in Name /\ st.level = GLOBAL
      /\ cfunc = NULL \/ Outermost(st, cfunc)
  BY NamesOfUnit DEF TablesInvariant, GlobalDecl, Between
<1>2. Leaves(st, p)
  BY <1>1, PrototypeRead
<1> HIDE DEF p
<1>3. Sound(p) /\ Leaves(p, d.s)
  <2>1. Sound(p)
    BY <1>2 DEF Leaves
  <2> QED
    BY <1>1, <2>1, DeclaredGlobal
<1>4. \/ Reject(<<"linked", id, kind, init>>)
      \/ gettok(d.s, TRUE) /\ st' = deallocate(d.s) /\ cfunc' = cfunc /\ unit' = unit
  BY DEF GlobalDecl, Becomes, d, p
<1> HIDE DEF d
<1>5. CASE Reject(<<"linked", id, kind, init>>)
  BY <1>1, <1>5, Rejected
<1>6. CASE gettok(d.s, TRUE) /\ st' = deallocate(d.s) /\ cfunc' = cfunc /\ unit' = unit
  <2>1. Leaves(st, d.s)
    BY <1>2, <1>3, LeavesAll
  <2>2. cfunc = NULL \/ Outermost(d.s, cfunc)
    BY <1>1, <2>1, Remembered
  <2>3. Sound(d.s) /\ d.s.level = GLOBAL
    BY <1>1, <2>1 DEF Leaves
  <2> QED
    BY <1>1, <1>6, <2>2, <2>3, Advanced
<1> QED
  BY <1>4, <1>5, <1>6

\* A typedef.
LEMMA TypedefStep ==
    ASSUME TablesInvariant, NEW id \in unit.names, Typedef(id)
    PROVE  TablesInvariant'
<1> DEFINE arena == IF st.level < LOCAL_ THEN "PERM" ELSE "FUNC"
           x == NewSymbol(id, st.level, "TYPEDEF", "type", arena)
           s == install(st, x)
<1>1. /\ Sound(st) /\ unit \in Unit /\ id \in Name /\ st.level \in Nat
      /\ cfunc = NULL \/ Outermost(st, cfunc)
  BY NamesOfUnit, SoundTables DEF TablesInvariant
<1>2. x \in Symbol /\ x.scope = st.level /\ x.alias = NULL /\ x.arena = arena
  <2>1. arena \in {"PERM", "FUNC"}
    OBVIOUS
  <2> HIDE DEF arena, x
  <2> QED
    BY <1>1, <2>1, NewSymbolIs DEF x
<1>3. x.scope = GLOBAL => x.arena = "PERM"
  BY <1>2 DEF GLOBAL, LOCAL_
<1> HIDE DEF x
<1>4. Adds(st, s, Fresh(st), x)
  BY <1>1, <1>2, <1>3, Installed
<1>5. Leaves(st, s)
  BY <1>4, LeavesAll
<1>6. \/ Reject(<<"own", id, "type">>)
      \/ /\ gettok(s, st.level = GLOBAL) /\ cfunc' = cfunc /\ unit' = unit
         /\ st' = IF st.level = GLOBAL THEN deallocate(s) ELSE s
  BY DEF Typedef, Becomes, s, x
<1> HIDE DEF s
<1>7. CASE Reject(<<"own", id, "type">>)
  BY <1>1, <1>7, Rejected
<1>8. CASE /\ gettok(s, st.level = GLOBAL) /\ cfunc' = cfunc /\ unit' = unit
           /\ st' = IF st.level = GLOBAL THEN deallocate(s) ELSE s
  <2>1. cfunc = NULL \/ Outermost(s, cfunc)
    BY <1>1, <1>5, Remembered
  <2>2. Sound(s) /\ s.level = st.level
    BY <1>5 DEF Leaves
  <2> QED
    BY <1>1, <1>8, <2>1, <2>2, Advanced
<1> QED
  BY <1>6, <1>7, <1>8

\* The head of a function.
LEMMA FunctionBeginStep ==
    ASSUME TablesInvariant, NEW f \in unit.names, NEW sclass \in {"AUTO", "STATIC", "EXTERN"},
           NEW params, params = << >> \/ params[1] \in Name, NEW oldstyle \in BOOLEAN,
           FunctionBegin(f, sclass, params, oldstyle)
    PROVE  TablesInvariant'
<1> DEFINE inner == enterscope(st)
           listed == parameters(inner, params)
           left == exitscope(listed)
           again == enterscope(left)
           old == parameters(again, params)
           s == IF oldstyle THEN old ELSE listed
           d == dclglobal(s, f, sclass, "function", FALSE)
           marked == [d.s EXCEPT !.syms[d.p].defined = TRUE]
           body == enterscope(marked)
<1>1. /\ Sound(st) /\ unit \in Unit /\ f \in Name /\ st.level = GLOBAL /\ GLOBAL \in Nat
  BY NamesOfUnit DEF TablesInvariant, FunctionBegin, Between, GLOBAL
<1>2. /\ Sound(inner) /\ inner.level > GLOBAL /\ inner.level = GLOBAL + 1
  BY <1>1, ScopeEntered DEF GLOBAL
<1> HIDE DEF inner
<1>3. Leaves(inner, listed)
  BY <1>2, ParametersDeclared
<1>4. Sound(listed) /\ listed.level = GLOBAL + 1 /\ listed.level > GLOBAL
  BY <1>2, <1>3 DEF Leaves
<1> HIDE DEF listed
<1>5. Sound(left) /\ left.level = GLOBAL
  <2>1. Sound(left) /\ left.level = listed.level - 1
    BY <1>4, ScopeLeft
  <2> HIDE DEF left
  <2> QED
    BY <1>4, <2>1 DEF GLOBAL
<1> HIDE DEF left
<1>6. Sound(again) /\ again.level > GLOBAL
  <2>1. Sound(again) /\ again.level = left.level + 1
    BY <1>5, ScopeEntered
  <2> HIDE DEF again
  <2> QED
    BY <1>5, <2>1 DEF GLOBAL
<1> HIDE DEF again
<1>7. Sound(old)
  <2>1. Leaves(again, old)
    BY <1>6, ParametersDeclared
  <2> HIDE DEF old
  <2> QED
    BY <2>1 DEF Leaves
<1> HIDE DEF old
<1>8. Sound(s)
  BY <1>4, <1>7
<1>9. \/ Reject(<<"function", f>>)
      \/ gettok(body, FALSE) /\ st' = body /\ cfunc' = d.p /\ unit' = unit
  BY DEF FunctionBegin, Becomes, body, marked, d, s, old, again, left, listed, inner
<1> HIDE DEF s
<1>10. Sound(d.s) /\ Outermost(d.s, d.p)
  <2>1. Leaves(s, d.s) /\ Outermost(d.s, d.p)
    BY <1>1, <1>8, DeclaredGlobal
  <2> QED
    BY <2>1 DEF Leaves
<1> HIDE DEF d
<1>11. Same(d.s, marked)
  BY <1>10, Marked
<1> HIDE DEF marked
<1>12. Sound(marked) /\ Outermost(marked, d.p)
  BY <1>10, <1>11, SameSound, SameOutermost
<1>13. Sound(body) /\ Outermost(body, d.p)
  <2>1. Sound(body) /\ body.syms = marked.syms
    BY <1>12, ScopeEntered
  <2> QED
    BY <1>12, <2>1 DEF Outermost
<1> HIDE DEF body
<1> QED
  BY <1>1, <1>9, <1>13, Advanced, Rejected

\* The end of a function.
LEMMA FunctionEndStep ==
    ASSUME TablesInvariant, FunctionEnd
    PROVE  TablesInvariant'
<1> DEFINE body == exitscope(st)
           printed == IF cfunc = NULL THEN body ELSE defglobal(body, cfunc)
           s == exitscope(printed)
<1>1. Sound(st) /\ unit \in Unit /\ st.level = LOCAL_
  BY DEF TablesInvariant, FunctionEnd
<1>2. Sound(body) /\ body.level = PARAM
  <2>1. st.level > GLOBAL
    BY <1>1 DEF GLOBAL, LOCAL_
  <2>2. Sound(body) /\ body.level = st.level - 1
    BY <1>1, <2>1, ScopeLeft
  <2> HIDE DEF body
  <2> QED
    BY <1>1, <2>2 DEF PARAM, LOCAL_
<1>3. /\ gettok(s, TRUE) /\ st' = deallocate(s) /\ cfunc' = NULL /\ unit' = unit
  BY DEF FunctionEnd, Becomes, s, printed, body
<1> HIDE DEF body
<1>4. Sound(printed) /\ printed.level = PARAM
  <2>1. Same(body, defglobal(body, cfunc))
    BY <1>2, Marked
  <2>2. Sound(defglobal(body, cfunc)) /\ defglobal(body, cfunc).level = body.level
    BY <1>2, <2>1, SameSound DEF Same
  <2> QED
    BY <1>2, <2>2
<1> HIDE DEF printed
<1>5. Sound(s) /\ s.level = GLOBAL
  <2>1. printed.level > GLOBAL
    BY <1>4 DEF GLOBAL, PARAM
  <2>2. Sound(s) /\ s.level = printed.level - 1
    BY <1>4, <2>1, ScopeLeft
  <2> HIDE DEF s
  <2> QED
    BY <1>4, <2>2 DEF PARAM, GLOBAL
<1> HIDE DEF s
<1> QED
  BY <1>1, <1>3, <1>5, Advanced

\* The other steps leave the tables in order, and name the next token.
LEMMA TablesStep ==
    TablesInvariant /\ [Next]_vars => TablesInvariant'
<1> SUFFICES ASSUME TablesInvariant, [Next]_vars PROVE TablesInvariant'
  OBVIOUS
<1>1. /\ Sound(st) /\ unit \in Unit /\ unit.names \subseteq Name
      /\ cfunc = NULL \/ Outermost(st, cfunc)
      /\ \A params \in Params : params = << >> \/ params[1] \in Name
  BY NamesOfUnit DEF TablesInvariant
<1>2. ASSUME NEW s, Leaves(st, s), NEW file, gettok(s, file), st' = s, cfunc' = cfunc, unit' = unit
      PROVE  TablesInvariant'
  <2>1. cfunc = NULL \/ Outermost(s, cfunc)
    BY <1>1, <1>2, Remembered
  <2>2. Sound(s)
    BY <1>2 DEF Leaves
  <2> QED
    BY <1>1, <1>2, <2>1, <2>2, Advanced
<1>3. ASSUME NEW id \in unit.names, NEW sclass \in {"AUTO", "STATIC", "EXTERN"},
             NEW kind \in {"object", "function"}, NEW params,
             params = << >> \/ params[1] \in Name, LocalDecl(id, sclass, kind, params)
      PROVE  TablesInvariant'
  <2> DEFINE p == prototype(st, params)
             s == IF kind = "function" THEN p ELSE st
             d == dcllocal(s, id, sclass, kind)
  <2>1. st.level > GLOBAL
    BY <1>3 DEF LocalDecl, Inside
  <2>2. Leaves(st, p)
    BY <1>1, <1>3, PrototypeRead
  <2>3. \/ \E item : Reject(item)
        \/ gettok(d.s, FALSE) /\ st' = d.s /\ cfunc' = cfunc /\ unit' = unit
    <3>1. LocalDecl(id, sclass, kind, params)
      BY <1>3
    <3> QED
      BY <3>1 DEF LocalDecl, Becomes
  <2> HIDE DEF p
  <2>4. Leaves(st, s)
    BY <1>1, <2>2, LeavesAll
  <2> HIDE DEF s
  <2>5. Leaves(s, d.s)
    <3>1. Sound(s) /\ s.level > GLOBAL
      BY <2>1, <2>4 DEF Leaves
    <3> QED
      BY <1>1, <3>1, DeclaredLocal
  <2> HIDE DEF d
  <2>6. Leaves(st, d.s)
    BY <2>4, <2>5, LeavesAll
  <2> QED
    BY <1>1, <1>2, <2>3, <2>6, Rejected
<1>4. ASSUME NEW params \in Params, OtherFunctionBegin(params) PROVE TablesInvariant'
  <2> DEFINE inner == enterscope(st)
             listed == parameters(inner, params)
             s == enterscope(listed)
  <2>1. gettok(st', FALSE) /\ st' = s /\ cfunc' = cfunc /\ unit' = unit
    BY <1>4 DEF OtherFunctionBegin, Becomes
  <2>2. Sound(inner) /\ inner.level > GLOBAL /\ inner.syms = st.syms
    <3>1. Sound(inner) /\ inner.level = st.level + 1 /\ inner.syms = st.syms
      BY <1>1, ScopeEntered
    <3>2. st.level = GLOBAL
      BY <1>4 DEF OtherFunctionBegin, Between
    <3> HIDE DEF inner
    <3> QED
      BY <3>1, <3>2 DEF GLOBAL
  <2> HIDE DEF inner
  <2>3. Leaves(inner, listed)
    BY <1>1, <2>2, ParametersDeclared
  <2> HIDE DEF listed
  <2>4. Sound(s) /\ s.syms = listed.syms
    <3>1. Sound(listed)
      BY <2>3 DEF Leaves
    <3> QED
      BY <3>1, ScopeEntered
  <2> HIDE DEF s
  <2>5. cfunc = NULL \/ Outermost(s, cfunc)
    <3>1. cfunc = NULL \/ Outermost(listed, cfunc)
      BY <1>1, <2>2, <2>3, Remembered DEF Outermost
    <3> QED
      BY <2>4, <3>1 DEF Outermost
  <2> QED
    BY <1>1, <2>1, <2>4, <2>5, Advanced
<1>5. ASSUME BlockBegin PROVE TablesInvariant'
  <2> DEFINE s == enterscope(st)
  <2>1. gettok(st', FALSE) /\ st' = s /\ cfunc' = cfunc /\ unit' = unit
    BY <1>5 DEF BlockBegin, Becomes
  <2>2. Sound(s) /\ s.syms = st.syms
    BY <1>1, ScopeEntered
  <2> HIDE DEF s
  <2>3. cfunc = NULL \/ Outermost(s, cfunc)
    BY <1>1, <2>2 DEF Outermost
  <2> QED
    BY <1>1, <2>1, <2>2, <2>3, Advanced
<1>6. ASSUME BlockEnd PROVE TablesInvariant'
  <2> DEFINE s == exitscope(st)
  <2>1. gettok(st', FALSE) /\ st' = s /\ cfunc' = cfunc /\ unit' = unit /\ st.level > GLOBAL
    BY <1>6 DEF BlockEnd, Becomes, Inside
  <2>2. Sound(s) /\ s.syms = st.syms
    BY <1>1, <2>1, ScopeLeft
  <2> HIDE DEF s
  <2>3. cfunc = NULL \/ Outermost(s, cfunc)
    BY <1>1, <2>2 DEF Outermost
  <2> QED
    BY <1>1, <2>1, <2>2, <2>3, Advanced
<1>7. ASSUME Use PROVE TablesInvariant'
  <2> DEFINE s == Used(st, tsym)
  <2>1. gettok(st', st.level = GLOBAL) /\ st' = s /\ cfunc' = cfunc /\ unit' = unit
    BY <1>7 DEF Use, Becomes
  <2>2. Leaves(st, s)
    BY <1>1, UsedSame, LeavesAll
  <2> HIDE DEF s
  <2> QED
    BY <1>2, <2>1, <2>2
<1>8. ASSUME CallUndeclared PROVE TablesInvariant'
  <2> DEFINE q == Find(st, st.externals, t)
             d == dclextern(st, t, "function", q)
             s == Used(d, Fresh(st))
  <2>1. gettok(st', FALSE) /\ st' = s /\ cfunc' = cfunc /\ unit' = unit /\ t # "none"
    BY <1>8 DEF CallUndeclared, Becomes
  <2>2. t \in Name
    BY <2>1 DEF TablesInvariant
  <2>3. q = NULL \/ Outermost(st, q)
    BY <1>1, FindSound DEF Outermost
  <2> HIDE DEF q
  <2>4. Leaves(st, d)
    BY <1>1, <2>2, <2>3, Aliased
  <2> HIDE DEF d
  <2>5. Leaves(d, s)
    <3>1. Sound(d)
      BY <2>4 DEF Leaves
    <3> QED
      BY <3>1, UsedSame, LeavesAll
  <2> HIDE DEF s
  <2> QED
    BY <1>2, <2>1, <2>4, <2>5, LeavesAll
<1>9. ASSUME finalize PROVE TablesInvariant'
  <2> DEFINE e == doextern(st)
             s == doglobal(e)
  <2>1. st' = s /\ cfunc' = cfunc /\ unit' = unit /\ t' = t /\ tsym' = tsym
    BY <1>9 DEF finalize, Becomes
  <2>2. Same(st, e) /\ Sound(e)
    BY <1>1, ExternalsImported, SameSound
  <2> HIDE DEF e
  <2>3. Same(e, s) /\ Sound(s)
    BY <2>2, GlobalsFinished, SameSound
  <2> HIDE DEF s
  <2>4. cfunc = NULL \/ Outermost(s, cfunc)
    BY <1>1, <2>2, <2>3, SameOutermost
  <2>5. tsym \in DOMAIN s.syms \cup {NULL}
    BY <2>2, <2>3 DEF TablesInvariant, Same
  <2> QED
    BY <1>1, <2>1, <2>3, <2>4, <2>5 DEF TablesInvariant
<1>10. ASSUME UNCHANGED vars PROVE TablesInvariant'
  BY <1>10 DEF vars, TablesInvariant
<1>11. ASSUME UseUndeclared PROVE TablesInvariant'
  BY <1>1, <1>11, Rejected DEF UseUndeclared
<1>12. CASE UNCHANGED vars
  BY <1>10, <1>12
<1>13. CASE Next
  <2>1. CASE \E id \in unit.names, sclass \in {"AUTO", "STATIC", "EXTERN"} :
                \/ /\ ~unit.functions
                   /\ \/ \E init \in BOOLEAN : GlobalDecl(id, sclass, "object", init, << >>)
                      \/ LocalDecl(id, sclass, "object", << >>)
                \/ \E params \in Params : GlobalDecl(id, sclass, "function", FALSE, params)
                \/ \E params \in Params, oldstyle \in BOOLEAN :
                      FunctionBegin(id, sclass, params, oldstyle)
    <3> PICK id \in unit.names, sclass \in {"AUTO", "STATIC", "EXTERN"} :
           \/ \E init \in BOOLEAN : GlobalDecl(id, sclass, "object", init, << >>)
           \/ LocalDecl(id, sclass, "object", << >>)
           \/ \E params \in Params : GlobalDecl(id, sclass, "function", FALSE, params)
           \/ \E params \in Params, oldstyle \in BOOLEAN :
                 FunctionBegin(id, sclass, params, oldstyle)
      BY <2>1, Zenon
    <3>1. CASE \E init \in BOOLEAN : GlobalDecl(id, sclass, "object", init, << >>)
      BY <3>1, GlobalDeclStep
    <3>2. CASE LocalDecl(id, sclass, "object", << >>)
      BY <1>3, <3>2
    <3>3. CASE \E params \in Params : GlobalDecl(id, sclass, "function", FALSE, params)
      BY <1>1, <3>3, GlobalDeclStep
    <3>4. CASE \E params \in Params, oldstyle \in BOOLEAN :
                  FunctionBegin(id, sclass, params, oldstyle)
      BY <1>1, <3>4, FunctionBeginStep
    <3> QED
      BY <3>1, <3>2, <3>3, <3>4
  <2>2. CASE \E id \in unit.names, params \in Params : LocalDecl(id, "EXTERN", "function", params)
    BY <1>1, <1>3, <2>2
  <2>3. CASE \E id \in unit.names : Typedef(id)
    BY <2>3, TypedefStep
  <2>4. CASE \E params \in Params : OtherFunctionBegin(params)
    BY <1>4, <2>4
  <2>5. CASE FunctionEnd
    BY <2>5, FunctionEndStep
  <2>6. CASE Stopped
    BY <1>10, <2>6 DEF Stopped
  <2> QED
    BY <1>5, <1>6, <1>7, <1>8, <1>9, <1>11, <1>13, <2>1, <2>2, <2>3, <2>4, <2>5, <2>6 DEF Next
<1> QED
  BY <1>12, <1>13

\* The tables are in order at first.
LEMMA TablesInit == Init => TablesInvariant
<1> SUFFICES ASSUME Init PROVE TablesInvariant
  OBVIOUS
<1>1. unit \in Unit /\ st = Start.st /\ cfunc = NULL /\ t = "none" /\ tsym = NULL
  BY DEF Init, Start
<1> QED
  BY <1>1, StartSound DEF TablesInvariant

\* The tables in order are what foreach and doextern expect.
LEMMA InvariantIsSound == TablesInvariant => TablesSound
<1> SUFFICES ASSUME TablesInvariant PROVE TablesSound
  OBVIOUS
<1>1. /\ Sound(st) /\ SymbolsSound(st.syms) /\ st.externals \in Table
      /\ st.externals.level = GLOBAL /\ Listed(st.syms, st.externals)
      /\ \A i \in DOMAIN st.identifiers :
            st.identifiers[i] \in Table /\ Listed(st.syms, st.identifiers[i])
  BY SoundTables DEF TablesInvariant, Sound, AllListed
<1>2. ForeachExact
  <2>1. \A i \in DOMAIN st.identifiers :
           Chain(st, st.identifiers[i].all, st.identifiers[i].level) = st.identifiers[i].bucket
    BY <1>1, ChainOfTable
  <2>2. Chain(st, st.externals.all, GLOBAL) = st.externals.bucket
    <3>1. Chain(st, st.externals.all, st.externals.level) = st.externals.bucket
      BY <1>1, ChainOfTable
    <3> QED
      BY <1>1, <3>1
  <2> QED
    BY <2>1, <2>2 DEF ForeachExact
<1>3. NothingFreedReached
  <2>1. \A i \in DOMAIN st.identifiers :
           /\ st.identifiers[i].arena # "freed"
           /\ ToSet(st.identifiers[i].bucket) \subseteq DOMAIN st.syms
    <3>1. \A tp \in Table : tp.arena # "freed"
      BY DEF Table
    <3> QED
      BY <1>1, <3>1, BucketInMemory
  <2>2. ToSet(st.externals.bucket) \subseteq DOMAIN st.syms
    BY <1>1, BucketInMemory
  <2>3. \A p \in DOMAIN st.syms : st.syms[p].alias \in DOMAIN st.syms \cup {NULL}
    BY <1>1 DEF SymbolsSound
  <2>4. tsym \in DOMAIN st.syms \cup {NULL} /\ cfunc \in DOMAIN st.syms \cup {NULL}
    BY DEF TablesInvariant, Outermost
  <2>5. {tsym, cfunc} \cup {st.syms[p].alias : p \in DOMAIN st.syms} \subseteq DOMAIN st.syms \cup {NULL}
    BY <2>3, <2>4
  <2> QED
    BY <2>1, <2>2, <2>5 DEF NothingFreedReached
<1> QED
  BY <1>2, <1>3 DEF TablesSound

\* The tables nest, each list of symbols runs through the hash chain of its table and
\* ends outside its level, and no symbol is both a global and an external, in every
\* state of the compiler: install, relocate, the ends of scopes and deallocate(FUNC)
\* keep the pointers of sym.c in order.
THEOREM TablesInvariantHolds == Spec => []TablesInvariant
<1>1. Init => TablesInvariant
  BY TablesInit
<1>2. TablesInvariant /\ [Next]_vars => TablesInvariant'
  BY TablesStep
<1> QED
  BY <1>1, <1>2, PTL DEF Spec

\* foreach and doextern meet each symbol of their table once, whatever was moved between
\* the tables, and nobody reaches what deallocate(FUNC) has freed: no table, list, alias,
\* current function or token read ahead.
THEOREM TablesSoundHolds == Spec => []TablesSound
<1>1. TablesInvariant => TablesSound
  BY InvariantIsSound
<1> QED
  BY <1>1, TablesInvariantHolds, PTL

---------------------------------------------------------------------------
(* What the tables say *)

\* A level has the chain of its table.
LEMMA BucketIs ==
    ASSUME NEW s, Sound(s), NEW l
    PROVE  /\ \A i \in DOMAIN s.identifiers :
                 s.identifiers[i].level = l => Bucket(s, l) = s.identifiers[i].bucket
           /\ (\A i \in DOMAIN s.identifiers : s.identifiers[i].level # l) => Bucket(s, l) = << >>
           /\ Bucket(s, l) \in Seq(DOMAIN s.syms)
           /\ \A q \in ToSet(Bucket(s, l)) : q \in DOMAIN s.syms /\ s.syms[q].scope = l
<1> DEFINE ids == s.identifiers
           k == CHOOSE j \in Tables(s, l) : TRUE
<1>1. /\ DOMAIN ids = 1 .. Len(ids) /\ Len(ids) \in Nat
      /\ \A i \in DOMAIN ids : ids[i].level \in Nat /\ Listed(s.syms, ids[i])
      /\ \A i, j \in DOMAIN ids : i < j => ids[i].level < ids[j].level
  BY SoundTables DEF Sound, TablesNested
<1>2. \A i, j \in DOMAIN ids : ids[i].level = ids[j].level => i = j
  <2> TAKE i \in DOMAIN ids, j \in DOMAIN ids
  <2>1. i \in Nat /\ j \in Nat
    BY <1>1
  <2>2. i = j \/ i < j \/ j < i
    BY <2>1
  <2> QED
    BY <1>1, <2>2
<1>3. ASSUME NEW i \in DOMAIN ids, ids[i].level = l PROVE Bucket(s, l) = ids[i].bucket
  <2>1. i \in Tables(s, l)
    BY <1>3 DEF Tables
  <2>2. k \in Tables(s, l)
    BY <2>1
  <2> HIDE DEF k
  <2>3. k = i
    BY <1>2, <1>3, <2>2 DEF Tables
  <2>4. Bucket(s, l) = ids[k].bucket
    BY <2>1 DEF Bucket, k
  <2> QED
    BY <2>3, <2>4
<1>4. ASSUME \A i \in DOMAIN ids : ids[i].level # l PROVE Bucket(s, l) = << >>
  <2>1. Tables(s, l) = {}
    BY <1>4 DEF Tables
  <2> QED
    BY <2>1 DEF Bucket
<1>5. CASE \E i \in DOMAIN ids : ids[i].level = l
  <2> PICK i \in DOMAIN ids : ids[i].level = l
    BY <1>5
  <2>1. Bucket(s, l) = ids[i].bucket
    BY <1>3
  <2>2. ids[i].bucket \in Seq(DOMAIN s.syms)
    BY <1>1 DEF Listed
  <2>3. ToSet(ids[i].bucket) \subseteq DOMAIN s.syms /\ \A q \in ToSet(ids[i].bucket) : s.syms[q].scope = l
    BY <1>1, BucketInMemory
  <2> QED
    BY <1>3, <2>1, <2>2, <2>3
<1>6. CASE ~ \E i \in DOMAIN ids : ids[i].level = l
  <2>1. Bucket(s, l) = << >>
    BY <1>4, <1>6
  <2>2. << >> \in Seq(DOMAIN s.syms) /\ ToSet(<< >>) = {}
    BY DEF ToSet
  <2> QED
    BY <1>6, <2>1, <2>2
<1> QED
  BY <1>5, <1>6

\* It is found, or what was found before.
LEMMA FirstPut ==
    ASSUME NEW s, NEW T, NEW b \in Seq(T), NEW p, NEW n
    PROVE  FoundAfter(s, p, b, n, First(s, Before(p, b), n))
<1> DEFINE m == Len(b)
           c == Before(p, b)
           Is(d) == {i \in DOMAIN d : s.syms[d[i]].name = n}
           least(d) == CHOOSE i \in Is(d) : \A j \in Is(d) : i <= j
<1>1. m \in Nat /\ DOMAIN b = 1 .. m
  BY LenProperties
<1>2. /\ DOMAIN c = 1 .. (m + 1) /\ c[1] = p
      /\ \A i \in 1 .. m : c[i + 1] = b[i]
  BY DEF Before
<1> HIDE DEF m, c
<1>3. ASSUME NEW d PROVE First(s, d, n) = IF Is(d) = {} THEN NULL ELSE d[least(d)]
  BY DEF First, Find
<1>4. ASSUME NEW d, NEW i \in Is(d), \A j \in Is(d) : i <= j, Is(d) \subseteq Nat
      PROVE  First(s, d, n) = d[i]
  <2>1. least(d) \in Is(d) /\ \A j \in Is(d) : least(d) <= j
    <3> HIDE DEF Is
    <3> QED
      BY <1>4
  <2> HIDE DEF Is, least
  <2>2. least(d) = i
    BY <1>4, <2>1
  <2> QED
    BY <1>3, <1>4, <2>2
<1>5. Is(c) \subseteq Nat /\ Is(b) \subseteq Nat
  BY <1>1, <1>2
<1>6. CASE s.syms[p].name = n
  <2>1. 1 \in Is(c) /\ \A j \in Is(c) : 1 <= j
    BY <1>1, <1>2, <1>6
  <2> HIDE DEF Is
  <2> QED
    BY <1>2, <1>4, <1>5, <1>6, <2>1 DEF FoundAfter, c
<1>7. CASE s.syms[p].name # n /\ Is(b) = {}
  <2>1. ASSUME NEW i \in Is(c) PROVE FALSE
    <3>1. i \in 1 .. (m + 1) /\ s.syms[c[i]].name = n
      BY <1>2
    <3>2. i # 1
      BY <1>2, <1>7, <3>1
    <3>3. i - 1 \in 1 .. m /\ i - 1 + 1 = i
      BY <1>1, <3>1, <3>2
    <3>4. c[i] = b[i - 1]
      BY <1>2, <3>3
    <3>5. i - 1 \in Is(b)
      BY <1>1, <3>1, <3>3, <3>4
    <3> QED
      BY <1>7, <3>5
  <2>2. Is(c) = {}
    BY <2>1
  <2> HIDE DEF Is
  <2> QED
    BY <1>3, <1>7, <2>2 DEF FoundAfter, c
<1>8. CASE s.syms[p].name # n /\ Is(b) # {}
  <2>1. PICK i \in Is(b) : \A j \in Is(b) : i <= j
    <3> HIDE DEF Is
    <3> QED
      BY <1>5, <1>8, LeastNumber
  <2>2. i \in 1 .. m /\ i + 1 \in 1 .. (m + 1) /\ c[i + 1] = b[i]
    BY <1>1, <1>2
  <2>3. i + 1 \in Is(c)
    BY <1>2, <2>2
  <2>4. ASSUME NEW j \in Is(c) PROVE i + 1 <= j
    <3>1. j \in 1 .. (m + 1) /\ s.syms[c[j]].name = n
      BY <1>2
    <3>2. j # 1
      BY <1>2, <1>8, <3>1
    <3>3. j - 1 \in 1 .. m /\ j - 1 + 1 = j
      BY <1>1, <3>1, <3>2
    <3>4. c[j] = b[j - 1]
      BY <1>2, <3>3
    <3>5. j - 1 \in Is(b)
      BY <1>1, <3>1, <3>3, <3>4
    <3>6. i <= j - 1
      BY <2>1, <3>5
    <3> QED
      BY <2>2, <3>1, <3>6
  <2> HIDE DEF Is
  <2>5. First(s, c, n) = c[i + 1] /\ First(s, b, n) = b[i]
    BY <1>4, <1>5, <2>1, <2>3, <2>4
  <2> QED
    BY <1>8, <2>2, <2>5 DEF FoundAfter, c
<1> QED
  BY <1>6, <1>7, <1>8 DEF FoundAfter, c

\* The same names, the same find.
LEMMA FirstSame ==
    ASSUME NEW s, NEW s2, NEW b, SameNames(s, s2, b), NEW n
    PROVE  First(s2, b, n) = First(s, b, n)
<1> DEFINE Is(r) == {i \in DOMAIN b : r.syms[b[i]].name = n}
           least(r) == CHOOSE i \in Is(r) : \A j \in Is(r) : i <= j
<1>1. Is(s2) = Is(s)
  BY DEF ToSet, SameNames
<1>2. ASSUME NEW r PROVE First(r, b, n) = IF Is(r) = {} THEN NULL ELSE b[least(r)]
  BY DEF First, Find
<1>3. First(s, b, n) = (IF Is(s) = {} THEN NULL ELSE b[least(s)])
      /\ First(s2, b, n) = IF Is(s2) = {} THEN NULL ELSE b[least(s2)]
  <2> HIDE DEF Is, least
  <2> QED
    BY <1>2
<1>4. least(s2) = least(s)
  <2> HIDE DEF Is
  <2> QED
    BY <1>1
<1> HIDE DEF Is, least
<1> QED
  BY <1>1, <1>3, <1>4

\* What is found is in the chain.
LEMMA FirstIn ==
    ASSUME NEW s, NEW T, NEW b \in Seq(T), NEW n
    PROVE  First(s, b, n) = NULL \/ (First(s, b, n) \in ToSet(b) /\ s.syms[First(s, b, n)].name = n)
<1> DEFINE Is == {i \in DOMAIN b : s.syms[b[i]].name = n}
           least == CHOOSE i \in Is : \A j \in Is : i <= j
<1>1. First(s, b, n) = IF Is = {} THEN NULL ELSE b[least]
  BY DEF First, Find
<1>2. Is \subseteq Nat
  BY LenProperties
<1>3. CASE Is = {}
  <2> HIDE DEF Is
  <2> QED
    BY <1>1, <1>3
<1>4. CASE Is # {}
  <2>1. \E i \in Is : \A j \in Is : i <= j
    <3> HIDE DEF Is
    <3> QED
      BY <1>2, <1>4, LeastNumber
  <2>2. least \in Is
    <3> HIDE DEF Is
    <3> QED
      BY <2>1
  <2> HIDE DEF least
  <2>3. First(s, b, n) = b[least]
    BY <1>1, <1>4
  <2> QED
    BY <2>2, <2>3 DEF ToSet
<1> QED
  BY <1>3, <1>4

\* The same chains of symbols that say the same give the same view.
LEMMA ViewSame ==
    ASSUME NEW s, Sound(s), NEW s2,
           \A l \in Nat : Bucket(s2, l) = Bucket(s, l),
           \A q \in DOMAIN s.syms : Alike(s, s2, q)
    PROVE  View(s2) = View(s)
<1>1. ASSUME NEW l \in Nat, NEW n \in Name
      PROVE  /\ Named(s2, l, n) = Named(s, l, n)
             /\ Named(s, l, n) # NULL => Entity(s2, Named(s, l, n)) = Entity(s, Named(s, l, n))
  <2>1. Bucket(s, l) \in Seq(DOMAIN s.syms) /\ \A q \in ToSet(Bucket(s, l)) : q \in DOMAIN s.syms
    BY BucketIs
  <2>2. Named(s2, l, n) = Named(s, l, n)
    <3>1. SameNames(s, s2, Bucket(s, l))
      BY <2>1 DEF Alike, SameNames
    <3>2. First(s2, Bucket(s, l), n) = First(s, Bucket(s, l), n)
      BY <3>1, FirstSame
    <3> QED
      BY <3>2 DEF Named
  <2>3. Named(s, l, n) # NULL => Named(s, l, n) \in DOMAIN s.syms
    BY <2>1, FirstIn DEF Named
  <2> QED
    BY <2>2, <2>3 DEF Alike
<1> QED
  BY <1>1 DEF View

\* So the view has one meaning more.
LEMMA ViewPut ==
    ASSUME NEW s, Sound(s), NEW s2, NEW level \in Nat, NEW p, p # NULL, Pushed(s, s2, level, p)
    PROVE  View(s2) = Put(View(s), level, s2.syms[p].name, Entity(s2, p))
<1> DEFINE name == s2.syms[p].name
           e == Entity(s2, p)
<1>1. ASSUME NEW l \in Nat, NEW n \in Name
      PROVE  /\ Named(s2, l, n) = IF l = level /\ n = name THEN p ELSE Named(s, l, n)
             /\ Named(s, l, n) # NULL => Entity(s2, Named(s, l, n)) = Entity(s, Named(s, l, n))
  <2> DEFINE b == Bucket(s, l)
             c == Before(p, b)
  <2>1. b \in Seq(DOMAIN s.syms)
    BY BucketIs
  <2>2. First(s2, b, n) = Named(s, l, n)
    <3>1. SameNames(s, s2, b)
      BY DEF Alike, Pushed, SameNames
    <3> HIDE DEF b
    <3>2. First(s2, b, n) = First(s, b, n)
      BY <3>1, FirstSame
    <3> QED
      BY <3>2 DEF Named, b
  <2>3. Named(s, l, n) # NULL => Named(s, l, n) \in ToSet(Bucket(s, l))
    BY <2>1, FirstIn DEF Named
  <2>4. First(s2, c, n) = IF name = n THEN p ELSE Named(s, l, n)
    <3>1. c = Before(p, b)
      OBVIOUS
    <3> HIDE DEF b, c
    <3>2. FoundAfter(s2, p, b, n, First(s2, c, n))
      BY <2>1, <3>1, FirstPut
    <3> QED
      BY <2>2, <3>2 DEF FoundAfter
  <2>5. Named(s2, l, n) = IF l = level /\ n = name THEN p ELSE Named(s, l, n)
    BY <2>2, <2>4 DEF Named, Pushed
  <2> QED
    BY <2>3, <2>5 DEF Alike, Pushed
<1> HIDE DEF name, e
<1> DEFINE of(l, n) == IF Named(s, l, n) = NULL THEN Meaningless ELSE Entity(s, Named(s, l, n))
           of2(l, n) == IF Named(s2, l, n) = NULL THEN Meaningless ELSE Entity(s2, Named(s2, l, n))
<1>2. \A l \in Nat, n \in Name : of2(l, n) = IF l = level /\ n = name THEN e ELSE of(l, n)
  BY <1>1 DEF e
<1>3. View(s) = [l \in Nat |-> [n \in Name |-> of(l, n)]]
  BY DEF View
<1>4. View(s2) = [l \in Nat |-> [n \in Name |-> of2(l, n)]]
  BY DEF View
<1> HIDE DEF of, of2
<1>5. View(s2) = Put(View(s), level, name, e)
  <2>1. View(s)[level] = [n \in Name |-> of(level, n)]
    BY <1>3
  <2>2. [View(s)[level] EXCEPT ![name] = e] = [n \in Name |-> of2(level, n)]
    BY <1>2, <2>1
  <2>3. [View(s) EXCEPT ![level] = [n \in Name |-> of2(level, n)]]
           = [l \in Nat |-> [n \in Name |-> of2(l, n)]]
    <3>1. \A l \in Nat : l # level => View(s)[l] = [n \in Name |-> of2(l, n)]
      BY <1>2, <1>3
    <3>2. DOMAIN View(s) = Nat
      BY <1>3
    <3>3. View(s) = [l \in Nat |-> View(s)[l]]
      BY <1>3
    <3> QED
      BY <3>1, <3>2, <3>3
  <2> QED
    BY <1>4, <2>2, <2>3 DEF Put
<1> QED
  BY <1>5 DEF name, e

---------------------------------------------------------------------------
(* What the operations make the tables say *)

\* What install puts in memory is a new symbol.
LEMMA NewIs ==
    ASSUME NEW s, Sound(s), NEW p \in Symbol, NEW s2, NEW x,
           s2.syms = With(s.syms, Fresh(s), [p EXCEPT !.up = x])
    PROVE  IsNew(s, s2, Fresh(s), p)
<1> DEFINE n == Fresh(s)
           y == [p EXCEPT !.up = x]
<1>1. n \notin DOMAIN s.syms /\ n # NULL
  BY FreshIsFree DEF Sound
<1>2. /\ y.name = p.name /\ y.scope = p.scope /\ y.sclass = p.sclass
      /\ y.kind = p.kind /\ y.defined = p.defined
  BY DEF Symbol
<1> HIDE DEF n, y
<1>3. /\ DOMAIN s2.syms = DOMAIN s.syms \cup {n} /\ s2.syms[n] = y
      /\ \A q \in DOMAIN s.syms : s2.syms[q] = s.syms[q]
  <2>1. s2.syms = With(s.syms, n, y)
    BY DEF n, y
  <2> QED
    BY <1>1, <2>1 DEF With
<1> QED
  BY <1>1, <1>2, <1>3 DEF IsNew, n

\* The others say what they said.
LEMMA NewAlike ==
    ASSUME NEW s, NEW s2, NEW n, NEW p, IsNew(s, s2, n, p)
    PROVE  \A q \in DOMAIN s.syms : Alike(s, s2, q)
BY DEF IsNew, Alike, Entity

\* A symbol that is not in memory is in no table.
LEMMA NewUnlisted ==
    ASSUME NEW s, Sound(s), NEW n, n \notin DOMAIN s.syms
    PROVE  Unlisted(s, n)
<1>1. ASSUME NEW l \in Nat PROVE n \notin ToSet(Bucket(s, l))
  <2>1. \A q \in ToSet(Bucket(s, l)) : q \in DOMAIN s.syms
    BY BucketIs
  <2> QED
    BY <2>1
<1> QED
  BY <1>1 DEF Unlisted

\* So the symbol is in front of the chain of its level.
LEMMA BucketsPushed ==
    ASSUME NEW s, Sound(s), NEW s2, Sound(s2), NEW level \in Nat, NEW n,
           TablesPushed(s, s2, level, n), Unlisted(s, n),
           \A q \in DOMAIN s.syms \ {n} : Alike(s, s2, q)
    PROVE  Pushed(s, s2, level, n)
<1>1. ASSUME NEW l \in Nat
      PROVE  /\ Bucket(s2, l) = IF l = level THEN Before(n, Bucket(s, l)) ELSE Bucket(s, l)
             /\ \A q \in ToSet(Bucket(s, l)) : Alike(s, s2, q)
  <2>1. \A q \in ToSet(Bucket(s, l)) : q \in DOMAIN s.syms \ {n}
    <3>1. n \notin ToSet(Bucket(s, l))
      BY DEF Unlisted
    <3>2. \A q \in ToSet(Bucket(s, l)) : q \in DOMAIN s.syms
      BY BucketIs
    <3> QED
      BY <3>1, <3>2
  <2>2. CASE l = level
    <3>1. PICK j \in DOMAIN s2.identifiers : /\ s2.identifiers[j].level = level
                                            /\ s2.identifiers[j].bucket = Before(n, Bucket(s, level))
      BY DEF TablesPushed
    <3>2. Bucket(s2, l) = s2.identifiers[j].bucket
      BY <2>2, <3>1, BucketIs
    <3> QED
      BY <2>1, <2>2, <3>1, <3>2
  <2>3. CASE l # level /\ \E i \in DOMAIN s.identifiers : s.identifiers[i].level = l
    <3>1. PICK i \in DOMAIN s.identifiers : s.identifiers[i].level = l
      BY <2>3
    <3>2. PICK j \in DOMAIN s2.identifiers : /\ s2.identifiers[j].level = s.identifiers[i].level
                                            /\ s2.identifiers[j].bucket = s.identifiers[i].bucket
      BY <2>3, <3>1 DEF TablesPushed
    <3>3. Bucket(s, l) = s.identifiers[i].bucket
      BY <3>1, BucketIs
    <3>4. Bucket(s2, l) = s2.identifiers[j].bucket
      BY <3>1, <3>2, BucketIs
    <3> QED
      BY <2>1, <2>3, <3>2, <3>3, <3>4
  <2>4. CASE l # level /\ \A i \in DOMAIN s.identifiers : s.identifiers[i].level # l
    <3>1. \A j \in DOMAIN s2.identifiers : s2.identifiers[j].level # l
      BY <2>4 DEF TablesPushed
    <3>2. Bucket(s, l) = << >>
      BY <2>4, BucketIs
    <3>3. Bucket(s2, l) = << >>
      BY <3>1, BucketIs
    <3> QED
      BY <2>1, <2>4, <3>2, <3>3
  <2> QED
    BY <2>2, <2>3, <2>4
<1> QED
  BY <1>1 DEF Pushed

\* It says what it was made with.
LEMMA NewSays ==
    ASSUME NEW s, NEW s2, NEW n, NEW p, IsNew(s, s2, n, p)
    PROVE  Entity(s2, n) = Says(p)
BY DEF IsNew, Entity, Says

\* A declaration in the current scope puts its meaning in the view.
LEMMA InstallShown ==
    ASSUME NEW s, Sound(s), NEW p \in Symbol, p.scope = s.level, p.alias = NULL,
           p.scope = GLOBAL => p.arena = "PERM",
           NEW s2, s2 = install(s, p)
    PROVE  IsNew(s, s2, Fresh(s), p) /\ View(s2) = Put(View(s), s.level, p.name, Says(p))
<1> DEFINE n == Fresh(s)
           old == s.identifiers
           m == Len(old)
           ids2 == s2.identifiers
<1>1. /\ s \in State /\ s.level \in Nat /\ old \in Seq(Table) /\ m \in Nat \ {0}
      /\ DOMAIN old = 1 .. m /\ Last(old) = old[m] /\ old[m].level <= s.level
      /\ \A i \in 1 .. m : old[i].level \in Nat
      /\ \A i \in 1 .. m : i # m => old[i].level < old[m].level
  BY SoundTables DEF Sound, State, TablesNested, Last
<1>2. Sound(s2)
  BY Installed DEF Adds
<1>3. PICK x : s2.syms = With(s.syms, n, [p EXCEPT !.up = x])
  BY <1>1 DEF install, State
<1>4. IsNew(s, s2, n, p)
  BY <1>3, NewIs
<1>5. TablesPushed(s, s2, s.level, n)
  <2> DEFINE ids == IF Last(old).level < p.scope THEN Append(old, NewTable(s, p.scope)) ELSE old
             tp == Last(ids)
             new == Linked(tp, n)
  <2>1. ids2 = Append(Front(ids), new)
    BY <1>1 DEF install, State
  <2>2. new.level = tp.level /\ new.bucket = Before(n, tp.bucket)
    BY DEF Linked, Before
  <2> HIDE DEF new
  <2>3. CASE Last(old).level < p.scope
    <3> DEFINE made == NewTable(s, p.scope)
    <3>1. ids = Append(old, made)
      BY <2>3
    <3>2. made.level = s.level /\ made.bucket = << >>
      BY DEF NewTable
    <3> HIDE DEF made, ids
    <3>3. /\ Len(ids) = m + 1 /\ DOMAIN ids = 1 .. (m + 1) /\ ids[m + 1] = made
          /\ \A i \in 1 .. m : ids[i] = old[i]
      BY <1>1, <3>1
    <3>4. tp = made
      BY <3>3 DEF Last
    <3>5. ids \in Seq(Table \cup {made})
      <4>1. ids \in [1 .. (m + 1) -> Table \cup {made}]
        <5>1. \A i \in 1 .. (m + 1) : i \in 1 .. m \/ i = m + 1
          BY <1>1
        <5>2. \A i \in 1 .. (m + 1) : ids[i] \in Table \cup {made}
          BY <1>1, <3>3, <5>1, ElementOfSeq
        <5>3. ids = [i \in 1 .. (m + 1) |-> ids[i]]
          BY <1>1, <3>1, <3>3
        <5> QED
          BY <5>2, <5>3
      <4> QED
        BY <1>1, <4>1
    <3>6. /\ DOMAIN ids2 = 1 .. (m + 1) /\ ids2[m + 1] = new /\ m + 1 \in 1 .. (m + 1)
          /\ \A i \in 1 .. (m + 1) : i # m + 1 => ids2[i] = ids[i]
      <4>1. m + 1 # 0
        BY <1>1
      <4> HIDE DEF ids2, m
      <4> QED
        BY <2>1, <3>3, <3>5, <4>1, LastReplaced
    <3>7. \A i \in 1 .. m : old[i].level # s.level /\ i # m + 1 /\ i \in 1 .. (m + 1) /\ ids2[i] = old[i]
      <4> TAKE i \in 1 .. m
      <4>1. i # m + 1 /\ i \in 1 .. (m + 1)
        BY <1>1
      <4>2. old[i].level < s.level
        BY <1>1, <2>3
      <4> HIDE DEF ids2
      <4> QED
        BY <1>1, <3>3, <3>6, <4>1, <4>2
    <3>8. Bucket(s, s.level) = << >>
      <4>1. \A i \in DOMAIN old : old[i].level # s.level
        BY <1>1, <3>7
      <4> QED
        BY <1>1, <4>1, BucketIs
    <3>9. \A i \in 1 .. (m + 1) : i = m + 1 \/ i \in 1 .. m
      BY <1>1
    <3>10. new.level = s.level /\ new.bucket = Before(n, Bucket(s, s.level))
      BY <2>2, <3>2, <3>4, <3>8
    <3> HIDE DEF n, new
    <3> DEFINE b == Before(n, Bucket(s, s.level))
    <3>11. \E j \in DOMAIN ids2 : ids2[j].level = s.level /\ ids2[j].bucket = b
      BY <3>6, <3>10
    <3> HIDE DEF ids2, b
    <3>12. \A i \in DOMAIN old : old[i].level # s.level =>
             \E j \in DOMAIN ids2 : ids2[j].level = old[i].level /\ ids2[j].bucket = old[i].bucket
      BY <1>1, <3>6, <3>7
    <3>13. \A j \in DOMAIN ids2 : ids2[j].level # s.level =>
             \E i \in DOMAIN old : old[i].level = ids2[j].level
      BY <1>1, <3>6, <3>7, <3>9, <3>10
    <3> QED
      BY <3>11, <3>12, <3>13 DEF TablesPushed, ids2, b
  <2>4. CASE ~(Last(old).level < p.scope)
    <3>1. ids = old /\ tp = old[m]
      BY <1>1, <2>4
    <3>2. old[m].level = s.level /\ m \in DOMAIN old
      BY <1>1, <2>4
    <3>3. Bucket(s, s.level) = old[m].bucket
      BY <1>1, <3>2, BucketIs
    <3>4. /\ DOMAIN ids2 = 1 .. m /\ ids2[m] = new /\ m \in 1 .. m
          /\ \A i \in 1 .. m : i # m => ids2[i] = old[i]
      <4>1. ids2 = Append(Front(old), new) /\ m # 0
        BY <1>1, <2>1, <3>1
      <4>2. old \in Seq(Table) /\ m = Len(old)
        BY <1>1
      <4> HIDE DEF ids2, m, old, new
      <4> QED
        BY <4>1, <4>2, LastReplaced
    <3>5. new.level = s.level /\ new.bucket = Before(n, Bucket(s, s.level))
      BY <2>2, <3>1, <3>2, <3>3
    <3> HIDE DEF n, new
    <3> DEFINE b == Before(n, Bucket(s, s.level))
    <3>6. \E j \in DOMAIN ids2 : ids2[j].level = s.level /\ ids2[j].bucket = b
      BY <3>4, <3>5
    <3>7. \A i \in 1 .. m : old[i].level # s.level => i # m
      BY <3>2
    <3> HIDE DEF ids2, b
    <3>8. \A i \in DOMAIN old : old[i].level # s.level =>
             \E j \in DOMAIN ids2 : ids2[j].level = old[i].level /\ ids2[j].bucket = old[i].bucket
      BY <1>1, <3>4, <3>7
    <3>9. \A j \in DOMAIN ids2 : ids2[j].level # s.level =>
             \E i \in DOMAIN old : old[i].level = ids2[j].level
      BY <1>1, <3>4, <3>5
    <3> QED
      BY <3>6, <3>8, <3>9 DEF TablesPushed, ids2, b
  <2> QED
    BY <2>3, <2>4
<1>6. Pushed(s, s2, s.level, n)
  <2>1. Unlisted(s, n) /\ \A q \in DOMAIN s.syms \ {n} : Alike(s, s2, q)
    BY <1>4, NewAlike, NewUnlisted DEF IsNew
  <2> HIDE DEF n
  <2> QED
    BY <1>1, <1>2, <1>5, <2>1, BucketsPushed
<1>7. View(s2) = Put(View(s), s.level, s2.syms[n].name, Entity(s2, n))
  BY <1>1, <1>4, <1>6, ViewPut DEF IsNew
<1> QED
  BY <1>4, <1>7, NewSays, SMTT(40) DEF IsNew, n

\* The outermost table gets a symbol in front.
LEMMA OutermostPushed ==
    ASSUME NEW s, Sound(s), NEW n, NEW s2,
           s2.identifiers = [s.identifiers EXCEPT ![1] = Linked(s.identifiers[1], n)]
    PROVE  TablesPushed(s, s2, GLOBAL, n)
<1> DEFINE old == s.identifiers
           ids2 == s2.identifiers
           new == Linked(old[1], n)
           b == Before(n, Bucket(s, GLOBAL))
<1>1. /\ DOMAIN old = 1 .. Len(old) /\ Len(old) \in Nat \ {0}
      /\ 1 \in DOMAIN old /\ old[1].level = GLOBAL
  BY SoundTables DEF Sound, TablesNested
<1>2. Bucket(s, GLOBAL) = old[1].bucket
  BY <1>1, BucketIs
<1>3. new.level = GLOBAL /\ new.bucket = b
  BY <1>1, <1>2 DEF Linked, Before
<1>4. DOMAIN ids2 = DOMAIN old /\ ids2[1] = new /\ \A i \in DOMAIN old : i # 1 => ids2[i] = old[i]
  BY <1>1
<1> HIDE DEF new, b
<1>5. \E j \in DOMAIN ids2 : ids2[j].level = GLOBAL /\ ids2[j].bucket = b
  BY <1>1, <1>3, <1>4
<1> HIDE DEF ids2
<1>6. \A i \in DOMAIN old : old[i].level # GLOBAL =>
         \E j \in DOMAIN ids2 : ids2[j].level = old[i].level /\ ids2[j].bucket = old[i].bucket
  BY <1>1, <1>4
<1>7. \A j \in DOMAIN ids2 : ids2[j].level # GLOBAL => \E i \in DOMAIN old : old[i].level = ids2[j].level
  BY <1>1, <1>3, <1>4
<1> QED
  BY <1>5, <1>6, <1>7 DEF TablesPushed, ids2, b

\* A declaration at file scope, from wherever it is made.
LEMMA InstallGlobalShown ==
    ASSUME NEW s, Sound(s), NEW p \in Symbol, p.scope = GLOBAL, p.arena = "PERM", p.alias = NULL,
           NEW s2, s2 = installGlobal(s, p)
    PROVE  IsNew(s, s2, Fresh(s), p) /\ View(s2) = Put(View(s), GLOBAL, p.name, Says(p))
<1> DEFINE n == Fresh(s)
<1>1. Sound(s2)
  BY GlobalInstalled DEF Adds
<1>2. s2.syms = With(s.syms, n, [p EXCEPT !.up = s.identifiers[1].all])
      /\ s2.identifiers = [s.identifiers EXCEPT ![1] = Linked(s.identifiers[1], n)]
  BY DEF installGlobal, Sound, State
<1>3. IsNew(s, s2, n, p)
  BY <1>2, NewIs
<1>4. TablesPushed(s, s2, GLOBAL, n)
  BY <1>2, OutermostPushed
<1>5. Pushed(s, s2, GLOBAL, n)
  <2>1. Unlisted(s, n) /\ \A q \in DOMAIN s.syms \ {n} : Alike(s, s2, q)
    BY <1>3, NewAlike, NewUnlisted DEF IsNew
  <2>2. GLOBAL \in Nat
    BY DEF GLOBAL
  <2> HIDE DEF n
  <2> QED
    BY <1>1, <1>4, <2>1, <2>2, BucketsPushed
<1>6. View(s2) = Put(View(s), GLOBAL, s2.syms[n].name, Entity(s2, n))
  <2>1. n # NULL /\ GLOBAL \in Nat
    BY <1>3 DEF IsNew, GLOBAL
  <2> HIDE DEF n
  <2> QED
    BY <1>5, <2>1, ViewPut
<1> QED
  BY <1>3, <1>6, NewSays DEF IsNew, n

\* What goes to the externals is not visible.
LEMMA InstallExternalShown ==
    ASSUME NEW s, Sound(s), NEW p \in Symbol, p.scope = GLOBAL, p.arena = "PERM", p.alias = NULL,
           NEW s2, s2 = installExternal(s, p)
    PROVE  IsNew(s, s2, Fresh(s), p) /\ View(s2) = View(s)
<1> DEFINE n == Fresh(s)
<1>1. Sound(s2)
  BY ExternalInstalled DEF Adds
<1>2. s2.syms = With(s.syms, n, [p EXCEPT !.up = s.externals.all]) /\ s2.identifiers = s.identifiers
  BY DEF installExternal, Sound, State
<1>3. IsNew(s, s2, n, p)
  BY <1>2, NewIs
<1>4. \A l \in Nat : Bucket(s2, l) = Bucket(s, l)
  BY <1>2 DEF Bucket, Tables
<1>5. View(s2) = View(s)
  BY <1>3, <1>4, NewAlike, ViewSame
<1> QED
  BY <1>3, <1>5

---------------------------------------------------------------------------
(* Symbols that change without a change of what the tables say *)

\* New symbols, marks and scopes leave the names of the others.
LEMMA RemainsAll ==
    ASSUME NEW s, NEW s2, NEW s3
    PROVE  /\ s2.syms = s.syms => Remains(s, s2)
           /\ \A n, p : IsNew(s, s2, n, p) => Remains(s, s2)
           /\ \A N : Restated(s, s2, N) => Remains(s, s2)
           /\ Remains(s, s2) /\ Remains(s2, s3) => Remains(s, s3)
BY DEF Remains, IsNew, Restated, Agrees

\* A symbol that means the same says the same.
LEMMA AgreesAlike ==
    ASSUME NEW s, NEW s2, NEW N, NEW q, Agrees(s.syms[q], s2.syms[q], N)
    PROVE  Alike(s, s2, q)
BY DEF Agrees, Alike, Entity

\* Then the view is the same, and what is marked as defined is known.
LEMMA RestatedMeans ==
    ASSUME NEW s, Sound(s), NEW s2, NEW N, Restated(s, s2, N)
    PROVE  View(s2) = View(s) /\ \A D : Meant(s, D) => Meant(s2, D \cup N)
<1>1. \A q \in DOMAIN s.syms : Alike(s, s2, q)
  BY AgreesAlike DEF Restated
<1>2. \A l \in Nat : Bucket(s2, l) = Bucket(s, l)
  BY DEF Restated, Bucket, Tables
<1>3. View(s2) = View(s)
  BY <1>1, <1>2, ViewSame
<1>4. ASSUME NEW D, Meant(s, D) PROVE Meant(s2, D \cup N)
  <2>1. ASSUME NEW q \in DOMAIN s2.syms
        PROVE  /\ s2.syms[q].sclass = "TYPEDEF" <=> s2.syms[q].kind = "type"
               /\ s2.syms[q].defined => s2.syms[q].name \in D \cup N
    <3>1. q \in DOMAIN s.syms /\ Agrees(s.syms[q], s2.syms[q], N)
      BY DEF Restated
    <3>2. s.syms[q].sclass = "TYPEDEF" <=> s.syms[q].kind = "type"
      BY <1>4, <3>1 DEF Meant
    <3>3. s.syms[q].defined => s.syms[q].name \in D
      BY <1>4, <3>1 DEF Meant
    <3> QED
      BY <3>1, <3>2, <3>3 DEF Agrees
  <2> QED
    BY <2>1 DEF Meant
<1> QED
  BY <1>3, <1>4

\* Two such changes.
LEMMA RestatedTwice ==
    ASSUME NEW s, NEW s2, NEW s3, NEW N, NEW M, Restated(s, s2, N), Restated(s2, s3, M)
    PROVE  Restated(s, s3, N \cup M)
<1>1. ASSUME NEW q \in DOMAIN s.syms PROVE Agrees(s.syms[q], s3.syms[q], N \cup M)
  <2>1. Agrees(s.syms[q], s2.syms[q], N) /\ Agrees(s2.syms[q], s3.syms[q], M)
    BY DEF Restated
  <2> QED
    BY <2>1 DEF Agrees
<1> QED
  BY <1>1 DEF Restated

\* One symbol is written.
LEMMA RestatedOne ==
    ASSUME NEW s, NEW s2, NEW p, NEW y, NEW N, s2.identifiers = s.identifiers,
           s2.syms = [s.syms EXCEPT ![p] = y],
           p \in DOMAIN s.syms => Agrees(s.syms[p], y, N)
    PROVE  Restated(s, s2, N)
<1>1. ASSUME NEW q \in DOMAIN s.syms PROVE Agrees(s.syms[q], s2.syms[q], N)
  <2>1. CASE q = p
    <3>1. s2.syms[q] = y
      BY <2>1
    <3> QED
      BY <2>1, <3>1
  <2>2. CASE q # p
    <3>1. s2.syms[q] = s.syms[q]
      BY <2>2
    <3> QED
      BY <3>1 DEF Agrees
  <2> QED
    BY <2>1, <2>2
<1> QED
  BY <1>1 DEF Restated

\* The changes of one symbol that the declarations make.
LEMMA MarkedShown ==
    ASSUME NEW s, Sound(s), NEW p, p \in DOMAIN s.syms
    PROVE  /\ \A x : s.syms[p].scope = GLOBAL /\ s.syms[p].sclass # "TYPEDEF" /\ x # "TYPEDEF" =>
                 Restated(s, [s EXCEPT !.syms[p].sclass = x], {})
           /\ \A x : x = s.syms[p].kind => Restated(s, [s EXCEPT !.syms[p].kind = x], {})
           /\ Restated(s, [s EXCEPT !.syms[p].defined = TRUE], {s.syms[p].name})
           /\ \A x : Restated(s, [s EXCEPT !.syms[p].ref = x], {})
           /\ \A x : Restated(s, [s EXCEPT !.syms[p].alias = x], {})
           /\ Restated(s, defglobal(s, p), {s.syms[p].name})
<1> DEFINE z == s.syms[p]
<1>0. z \in Symbol
  <2>1. s.syms \in Memory
    BY DEF Sound, State
  <2> QED
    BY <2>1, InMemory
<1>1. ASSUME NEW x, z.scope = GLOBAL, z.sclass # "TYPEDEF", x # "TYPEDEF",
             NEW s2, s2 = [s EXCEPT !.syms[p].sclass = x]
      PROVE  Restated(s, s2, {})
  <2> DEFINE y == [z EXCEPT !.sclass = x]
  <2>1. s2.identifiers = s.identifiers /\ s2.syms = [s.syms EXCEPT ![p] = y]
    BY <1>1 DEF Sound, State
  <2>2. Agrees(z, y, {})
    BY <1>0, <1>1 DEF Agrees, Symbol
  <2> HIDE DEF y
  <2> QED
    BY <2>1, <2>2, RestatedOne
<1>2. ASSUME NEW x, x = z.kind, NEW s2, s2 = [s EXCEPT !.syms[p].kind = x]
      PROVE  Restated(s, s2, {})
  <2> DEFINE y == [z EXCEPT !.kind = x]
  <2>1. s2.identifiers = s.identifiers /\ s2.syms = [s.syms EXCEPT ![p] = y]
    BY <1>2 DEF Sound, State
  <2>2. Agrees(z, y, {})
    BY <1>0, <1>2 DEF Agrees, Symbol
  <2> HIDE DEF y
  <2> QED
    BY <2>1, <2>2, RestatedOne
<1>3. ASSUME NEW s2, s2 = [s EXCEPT !.syms[p].defined = TRUE]
      PROVE  Restated(s, s2, {z.name})
  <2> DEFINE y == [z EXCEPT !.defined = TRUE]
  <2>1. s2.identifiers = s.identifiers /\ s2.syms = [s.syms EXCEPT ![p] = y]
    BY <1>3 DEF Sound, State
  <2>2. Agrees(z, y, {z.name})
    BY <1>0 DEF Agrees, Symbol
  <2> HIDE DEF y
  <2> QED
    BY <2>1, <2>2, RestatedOne
<1>4. ASSUME NEW x, NEW s2, s2 = [s EXCEPT !.syms[p].ref = x]
      PROVE  Restated(s, s2, {})
  <2> DEFINE y == [z EXCEPT !.ref = x]
  <2>1. s2.identifiers = s.identifiers /\ s2.syms = [s.syms EXCEPT ![p] = y]
    BY <1>4 DEF Sound, State
  <2>2. Agrees(z, y, {})
    BY <1>0 DEF Agrees, Symbol
  <2> HIDE DEF y
  <2> QED
    BY <2>1, <2>2, RestatedOne
<1>5. ASSUME NEW x, NEW s2, s2 = [s EXCEPT !.syms[p].alias = x]
      PROVE  Restated(s, s2, {})
  <2> DEFINE y == [z EXCEPT !.alias = x]
  <2>1. s2.identifiers = s.identifiers /\ s2.syms = [s.syms EXCEPT ![p] = y]
    BY <1>5 DEF Sound, State
  <2>2. Agrees(z, y, {})
    BY <1>0 DEF Agrees, Symbol
  <2> HIDE DEF y
  <2> QED
    BY <2>1, <2>2, RestatedOne
<1>6. ASSUME NEW s2, s2 = defglobal(s, p) PROVE Restated(s, s2, {z.name})
  <2> DEFINE y == [z EXCEPT !.emitted = @ + 1, !.defined = TRUE,
                            !.exported = @ \/ z.sclass # "STATIC"]
  <2>1. s2.identifiers = s.identifiers /\ s2.syms = [s.syms EXCEPT ![p] = y]
    BY <1>6 DEF Sound, State, defglobal
  <2>2. Agrees(z, y, {z.name})
    BY <1>0 DEF Agrees, Symbol
  <2> HIDE DEF y
  <2> QED
    BY <2>1, <2>2, RestatedOne
<1> HIDE DEF z
<1> QED
  BY <1>1, <1>2, <1>3, <1>4, <1>5, <1>6 DEF z

\* A definition is printed.
LEMMA InitShown ==
    ASSUME NEW s, Sound(s), NEW p, Outermost(s, p), s.syms[p].sclass # "TYPEDEF",
           NEW s2, s2 = initglobal(s, p)
    PROVE  Restated(s, s2, {s.syms[p].name})
<1> DEFINE d == defglobal(s, p)
           x == IF d.syms[p].sclass = "EXTERN" THEN "AUTO" ELSE d.syms[p].sclass
           N == {s.syms[p].name}
<1>1. Restated(s, d, N) /\ p \in DOMAIN s.syms
  BY MarkedShown DEF Outermost
<1>2. Same(s, d)
  BY Marked
<1> HIDE DEF d
<1>3. Sound(d) /\ Outermost(d, p)
  BY <1>2, SameSound, SameOutermost
<1>4. d.syms[p].sclass # "TYPEDEF"
  BY <1>1 DEF Restated, Agrees
<1>5. Restated(d, [d EXCEPT !.syms[p].sclass = x], {})
  <2>1. x # "TYPEDEF"
    BY <1>4
  <2> HIDE DEF x
  <2> QED
    BY <1>3, <1>4, <2>1, MarkedShown DEF Outermost
<1>6. s2 = [d EXCEPT !.syms[p].sclass = x]
  BY DEF initglobal, d, x
<1> HIDE DEF x
<1>7. Restated(s, s2, N \cup {})
  BY <1>1, <1>5, <1>6, RestatedTwice
<1> QED
  BY <1>7

---------------------------------------------------------------------------
(* What a name means *)

\* A symbol means something, of its kind.
LEMMA EntityMeans ==
    ASSUME NEW s, Sound(s), NEW p \in DOMAIN s.syms
    PROVE  /\ Entity(s, p).kind = s.syms[p].kind /\ Entity(s, p) # Meaningless
           /\ s.syms[p].kind \in {"object", "function", "type"}
<1>1. s.syms[p] \in Symbol
  <2>1. s.syms \in Memory
    BY DEF Sound, State
  <2> QED
    BY <2>1, InMemory
<1>2. s.syms[p].kind \in {"object", "function", "type"}
  BY <1>1 DEF Symbol
<1>3. Entity(s, p).kind = s.syms[p].kind
  BY DEF Entity
<1>4. Meaningless.kind = "none"
  BY DEF Meaningless
<1> QED
  BY <1>2, <1>3, <1>4

\* A level says what its table says.
LEMMA NamedMeans ==
    ASSUME NEW s, Sound(s), NEW l \in Nat, NEW n \in Name
    PROVE  SaysOf(s, l, n)
<1> DEFINE b == Bucket(s, l)
           p == Named(s, l, n)
<1>1. b \in Seq(DOMAIN s.syms) /\ \A q \in ToSet(b) : q \in DOMAIN s.syms /\ s.syms[q].scope = l
  BY BucketIs
<1>2. p = NULL \/ (p \in ToSet(b) /\ s.syms[p].name = n)
  <2> HIDE DEF b
  <2>1. First(s, b, n) = NULL \/ (First(s, b, n) \in ToSet(b) /\ s.syms[First(s, b, n)].name = n)
    BY <1>1, FirstIn
  <2> QED
    BY <2>1 DEF Named, b
<1>3. View(s)[l][n] = IF p = NULL THEN Meaningless ELSE Entity(s, p)
  BY DEF View
<1> HIDE DEF p, b
<1>4. /\ p = NULL => View(s)[l][n] = Meaningless
      /\ p # NULL => /\ p \in DOMAIN s.syms /\ s.syms[p].name = n /\ s.syms[p].scope = l
                     /\ View(s)[l][n] = Entity(s, p)
  BY <1>1, <1>2, <1>3
<1> QED
  BY <1>4 DEF SaysOf, p

\* A level without a table says nothing.
LEMMA NoTable ==
    ASSUME NEW s, Sound(s), NEW l \in Nat, NEW n \in Name,
           \A i \in DOMAIN s.identifiers : s.identifiers[i].level # l
    PROVE  Named(s, l, n) = NULL /\ View(s)[l][n] = Meaningless
<1>1. Bucket(s, l) = << >>
  BY BucketIs
<1>2. {i \in DOMAIN << >> : s.syms[<< >>[i]].name = n} = {}
  OBVIOUS
<1>3. Named(s, l, n) = NULL
  BY <1>1, <1>2 DEF Named, First, Find
<1> QED
  BY <1>3, NamedMeans DEF SaysOf

\* Nothing is said above the current level.
LEMMA OutsideLevels ==
    ASSUME NEW s, Sound(s), NEW l \in Nat, l > s.level \/ l < GLOBAL, NEW n \in Name
    PROVE  View(s)[l][n] = Meaningless
<1>1. \A i \in DOMAIN s.identifiers : s.identifiers[i].level <= s.level /\ s.identifiers[i].level >= GLOBAL
  <2> TAKE i \in DOMAIN s.identifiers
  <2> DEFINE m == Len(s.identifiers)
             lev(j) == s.identifiers[j].level
  <2>1. /\ s.level \in Nat /\ m \in Nat /\ m # 0 /\ DOMAIN s.identifiers = 1 .. m
        /\ \A j \in 1 .. m : lev(j) \in Nat /\ (j # 1 => lev(j) > GLOBAL)
        /\ lev(1) = GLOBAL
    BY SoundTables DEF Sound, TablesNested
  <2>2. lev(m) <= s.level /\ \A j, k \in 1 .. m : j < k => lev(j) < lev(k)
    BY <2>1 DEF Sound, TablesNested
  <2>3. i = m \/ i < m
    BY <2>1
  <2> HIDE DEF m, lev
  <2>4. lev(i) <= s.level
    BY <2>1, <2>2, <2>3
  <2>5. lev(i) >= GLOBAL
    BY <2>1 DEF GLOBAL
  <2> QED
    BY <2>4, <2>5 DEF lev
<1>2. \A i \in DOMAIN s.identifiers : s.identifiers[i].level # l
  <2>1. s.level \in Nat /\ GLOBAL \in Nat /\ \A i \in DOMAIN s.identifiers : s.identifiers[i].level \in Nat
    BY SoundTables DEF GLOBAL
  <2> QED
    BY <1>1, <2>1
<1> QED
  BY <1>2, NoTable

\* Find looks at the chain only.
LEMMA FindIsFirst ==
    ASSUME NEW s, NEW tp, NEW n
    PROVE  Find(s, tp, n) = First(s, tp.bucket, n)
<1> DEFINE b == tp.bucket
           r == [bucket |-> b]
<1>1. r.bucket = b
  OBVIOUS
<1> HIDE DEF r
<1>2. Find(s, r, n) = Find(s, tp, n)
  BY <1>1 DEF Find
<1> QED
  BY <1>2 DEF First, r

\* lookup does so.
LEMMA LookupMeans ==
    ASSUME NEW s, Sound(s), NEW n \in Name
    PROVE  Finds(s, n, lookup(s, n))
<1> DEFINE ids == s.identifiers
           found(i) == Find(s, ids[i], n)
           is == {i \in DOMAIN ids : found(i) # NULL}
           k == CHOOSE i \in is : \A j \in is : j <= i
           p == lookup(s, n)
<1>1. /\ DOMAIN ids = 1 .. Len(ids) /\ Len(ids) \in Nat /\ s.level \in Nat
      /\ \A i \in DOMAIN ids : ids[i].level \in Nat
      /\ \A i, j \in DOMAIN ids : i < j => ids[i].level < ids[j].level
  BY SoundTables DEF Sound, TablesNested
<1>2. \A i \in DOMAIN ids : found(i) = Named(s, ids[i].level, n)
  <2> TAKE i \in DOMAIN ids
  <2>1. Bucket(s, ids[i].level) = ids[i].bucket
    BY <1>1, BucketIs
  <2>2. Find(s, ids[i], n) = First(s, ids[i].bucket, n)
    BY FindIsFirst
  <2> QED
    BY <2>1, <2>2 DEF Named
<1>3. p = IF is = {} THEN NULL ELSE found(k)
  BY DEF lookup
<1>4. \A l \in Nat : View(s)[l][n] # Meaningless => \E i \in is : ids[i].level = l
  <2> TAKE l \in Nat
  <2> HAVE View(s)[l][n] # Meaningless
  <2>1. PICK i \in DOMAIN ids : ids[i].level = l
    BY NoTable
  <2>2. Named(s, l, n) # NULL
    BY NamedMeans DEF SaysOf
  <2> HIDE DEF found
  <2> QED
    BY <1>2, <2>1, <2>2
<1>5. CASE is = {}
  <2>1. p = NULL /\ \A l \in Nat : View(s)[l][n] = Meaningless
    BY <1>3, <1>4, <1>5
  <2> QED
    BY <2>1 DEF Finds
<1>6. CASE is # {}
  <2>1. k \in is /\ \A j \in is : j <= k
    <3>1. is \subseteq 1 .. Len(ids)
      BY <1>1
    <3> HIDE DEF is
    <3>2. \E i \in is : \A j \in is : j <= i
      BY <1>1, <1>6, <3>1, GreatestIndex
    <3> QED
      BY <3>2
  <2>2. p = found(k) /\ p # NULL /\ k \in DOMAIN ids
    BY <1>3, <1>6, <2>1
  <2> DEFINE l0 == ids[k].level
  <2>3. p = Named(s, l0, n) /\ l0 \in Nat
    BY <1>1, <1>2, <2>2
  <2>4. p \in DOMAIN s.syms /\ s.syms[p].name = n /\ s.syms[p].scope = l0 /\ View(s)[l0][n] = Entity(s, p)
    <3> HIDE DEF l0, p
    <3> QED
      BY <2>2, <2>3, NamedMeans DEF SaysOf
  <2>5. Entity(s, p) # Meaningless
    BY <2>4, EntityMeans
  <2>6. GLOBAL <= l0 /\ l0 <= s.level
    <3>1. ~(l0 > s.level) /\ ~(l0 < GLOBAL)
      <4> HIDE DEF l0, p
      <4> QED
        BY <2>3, <2>4, <2>5, OutsideLevels
    <3>2. GLOBAL \in Nat
      BY DEF GLOBAL
    <3> QED
      BY <1>1, <2>3, <3>1, <3>2
  <2>7. ASSUME NEW l \in Nat, l > l0 PROVE View(s)[l][n] = Meaningless
    <3> SUFFICES ASSUME View(s)[l][n] # Meaningless PROVE FALSE
      OBVIOUS
    <3>1. PICK i \in is : ids[i].level = l
      BY <1>4
    <3>2. i \in DOMAIN ids /\ i <= k
      BY <2>1, <3>1
    <3>3. i = k \/ i < k
      BY <1>1, <2>2, <3>2
    <3>4. ids[i].level <= l0
      <4>1. ids[i].level = l0 \/ ids[i].level < l0
        BY <1>1, <2>2, <3>2, <3>3
      <4>2. ids[i].level \in Nat
        BY <1>1, <3>2
      <4> HIDE DEF l0
      <4> QED
        BY <2>3, <4>1, <4>2
    <3> QED
      BY <2>3, <2>7, <3>1, <3>4
  <2> HIDE DEF p, l0
  <2> QED
    BY <2>2, <2>3, <2>4, <2>5, <2>6, <2>7 DEF Finds, p
<1> QED
  BY <1>5, <1>6

---------------------------------------------------------------------------
(* Declarations at file scope *)

\* A symbol gets another successor.
LEMMA UpMarks ==
    ASSUME NEW D, NEW f \in [D -> Symbol], NEW q, NEW v \in Nat, NEW g, g = [f EXCEPT ![q].up = v]
    PROVE  AllMarks(D, f, g)
<1>1. ASSUME NEW x \in D
      PROVE  /\ g[x] \in Symbol /\ g[x].name = f[x].name /\ g[x].scope = f[x].scope
             /\ SameMarks(f[x], g[x])
  <2>1. f[x] \in Symbol
    OBVIOUS
  <2>2. CASE x = q
    <3> DEFINE y == [f[x] EXCEPT !.up = v]
    <3>1. g[x] = y
      BY <2>2
    <3>2. y \in Symbol /\ y.name = f[x].name /\ y.scope = f[x].scope /\ SameMarks(f[x], y)
      BY <2>1 DEF Symbol, SameMarks
    <3> QED
      BY <3>1, <3>2
  <2>3. CASE x # q
    BY <2>1, <2>3 DEF SameMarks
  <2> QED
    BY <2>2, <2>3
<1> QED
  BY <1>1 DEF AllMarks

\* The field up is not read by anybody who looks up a name.
LEMMA UpAgrees ==
    ASSUME NEW D, NEW f \in [D -> Symbol], NEW q, NEW v \in Nat, NEW g, g = [f EXCEPT ![q].up = v]
    PROVE  AllAgree(D, f, g)
<1>1. AllMarks(D, f, g)
  BY UpMarks
<1> QED
  BY <1>1 DEF AllMarks, AllAgree, SameMarks, Agrees

\* It is what relocate writes.
LEMMA RelocateMoves ==
    ASSUME NEW s, Sound(s), NEW name, NEW u, u = relocate(s, name)
    PROVE  Moves(s, u, Find(s, s.externals, name))
<1> DEFINE q == Find(s, s.externals, name)
           f == s.syms
           ids == s.identifiers
           ext == s.externals
           chain == Chain(s, ext.all, GLOBAL)
           i == CHOOSE k \in DOMAIN chain : chain[k] = q
           v == f[q].up
           f1 == IF i = 1 THEN f ELSE [f EXCEPT ![chain[i-1]].up = v]
           w == IF i = 1 THEN [s EXCEPT !.externals.all = v]
                ELSE [s EXCEPT !.syms[chain[i-1]].up = v]
<1>1. DOMAIN s = {"level", "syms", "identifiers", "externals"}
  BY DEF Sound, State
<1>2. DOMAIN ext = {"level", "bucket", "all", "arena"}
  BY SoundTables DEF Table
<1>3. /\ w.identifiers = ids /\ w.syms = f1 /\ DOMAIN w = {"level", "syms", "identifiers", "externals"}
      /\ w.externals.bucket = ext.bucket /\ DOMAIN w.externals = {"level", "bucket", "all", "arena"}
  <2>1. CASE i = 1
    <3> DEFINE e == [ext EXCEPT !.all = v]
    <3>1. w = [s EXCEPT !.externals = e] /\ f1 = f
      BY <2>1
    <3>2. e.bucket = ext.bucket /\ DOMAIN e = {"level", "bucket", "all", "arena"}
      BY <1>2
    <3> HIDE DEF e, w, f1
    <3> QED
      BY <1>1, <3>1, <3>2
  <2>2. CASE i # 1
    <3>1. w = [s EXCEPT !.syms = f1]
      BY <2>2
    <3> HIDE DEF w, f1
    <3> QED
      BY <1>1, <1>2, <3>1
  <2> QED
    BY <2>1, <2>2
<1>4. u = [w EXCEPT !.externals.bucket = Without(@, q), !.syms[q].up = ids[1].all,
                    !.identifiers[1] = Linked(@, q)]
  BY DEF relocate
<1> HIDE DEF w, q
<1> DEFINE x == [w.externals EXCEPT !.bucket = Without(w.externals.bucket, q)]
           g == [w.syms EXCEPT ![q].up = ids[1].all]
           ids2 == [w.identifiers EXCEPT ![1] = Linked(w.identifiers[1], q)]
<1>5. u = [w EXCEPT !.externals = x, !.syms = g, !.identifiers = ids2]
  BY <1>4
<1>6. x.bucket = Without(ext.bucket, q)
  BY <1>3
<1>7. ids2 = [ids EXCEPT ![1] = Linked(ids[1], q)] /\ g = [f1 EXCEPT ![q].up = ids[1].all]
  BY <1>3
<1> HIDE DEF x, g, ids2
<1>8. u.externals = x /\ u.syms = g /\ u.identifiers = ids2
  BY <1>3, <1>5
<1>9. f1 = f \/ \E c : f1 = [f EXCEPT ![c].up = v]
  OBVIOUS
<1> HIDE DEF f1
<1>10. Moves(s, u, q)
  BY <1>6, <1>7, <1>8, <1>9 DEF Moves
<1> QED
  BY <1>10 DEF q

\* relocate moves a symbol.
LEMMA RelocateShown ==
    ASSUME NEW s, Sound(s), NEW name, Find(s, s.externals, name) # NULL,
           NEW u, u = relocate(s, name)
    PROVE  Moved(s, u, name, Find(s, s.externals, name))
<1> DEFINE q == Find(s, s.externals, name)
           f == s.syms
           D == DOMAIN f
           ids == s.identifiers
           ext == s.externals
<1>1. /\ q \in ToSet(ext.bucket) /\ q \in D /\ f[q].scope = GLOBAL
  BY FindSound
<1>2. s.syms[q].name = name
  <2> DEFINE b == ext.bucket
  <2>1. q = First(s, b, name)
    BY FindIsFirst
  <2>2. b \in Seq(D)
    BY DEF Sound, AllListed, Listed
  <2> HIDE DEF b, D
  <2>3. First(s, b, name) = NULL \/ (First(s, b, name) \in ToSet(b) /\ s.syms[First(s, b, name)].name = name)
    BY <2>2, FirstIn
  <2> QED
    BY <2>1, <2>3
<1>3. f \in [D -> Symbol] /\ f[q].up \in Nat /\ ids[1].all \in Nat
  <2>1. f \in Memory
    BY DEF Sound, State
  <2>2. f \in [D -> Symbol]
    BY <2>1, InMemory
  <2>3. f[q].up \in Nat
    BY <1>1, <2>2 DEF Symbol
  <2>4. ids[1] \in Table
    BY SoundTables DEF Sound, TablesNested
  <2> QED
    BY <2>2, <2>3, <2>4 DEF Table
<1>4. Moves(s, u, q)
  BY RelocateMoves
<1>5. PICK f1 : /\ f1 = f \/ \E c : f1 = [f EXCEPT ![c].up = f[q].up]
                /\ u.syms = [f1 EXCEPT ![q].up = ids[1].all]
  BY <1>4 DEF Moves
<1>6. AllAgree(D, f, f1)
  <2> HIDE DEF D
  <2>1. CASE f1 = f
    <3> HIDE DEF f
    <3> QED
      BY <1>3, <2>1 DEF Agrees, AllAgree
  <2>2. ASSUME NEW c, f1 = [f EXCEPT ![c].up = f[q].up] PROVE AllAgree(D, f, f1)
    <3> DEFINE v == f[q].up
    <3>1. f1 = [f EXCEPT ![c].up = v] /\ v \in Nat
      BY <1>3, <2>2
    <3> HIDE DEF f, v
    <3> QED
      BY <1>3, <3>1, UpAgrees
  <2> QED
    BY <1>5, <2>1, <2>2
<1>7. AllAgree(D, f1, u.syms)
  <2>1. f1 \in [D -> Symbol]
    BY <1>6 DEF AllAgree
  <2> HIDE DEF D, f, ids
  <2> QED
    BY <1>3, <1>5, <2>1, UpAgrees
<1>8. DOMAIN u.syms = D /\ \A x \in D : Agrees(f[x], u.syms[x], {})
  BY <1>6, <1>7 DEF Agrees, AllAgree
<1>9. Unlisted(s, q)
  <2>1. ASSUME NEW l \in Nat, q \in ToSet(Bucket(s, l)) PROVE FALSE
    <3>1. l = GLOBAL
      BY <1>1, <2>1, BucketIs
    <3>2. Bucket(s, GLOBAL) = ids[1].bucket
      BY BucketIs, SoundTables DEF Sound, TablesNested
    <3>3. ToSet(ids[1].bucket) \cap ToSet(ext.bucket) = {}
      BY DEF Sound, AllListed
    <3> QED
      BY <1>1, <2>1, <3>1, <3>2, <3>3
  <2> QED
    BY <2>1 DEF Unlisted
<1> QED
  BY <1>1, <1>2, <1>4, <1>8, <1>9 DEF Moved, Moves

\* A new symbol is not defined.
LEMMA MeantNew ==
    ASSUME NEW s, NEW s2, NEW n, NEW p, NEW D, IsNew(s, s2, n, p), Meant(s, D),
           p.sclass = "TYPEDEF" <=> p.kind = "type", ~p.defined
    PROVE  Meant(s2, D)
<1>1. ASSUME NEW q \in DOMAIN s2.syms
      PROVE  /\ s2.syms[q].sclass = "TYPEDEF" <=> s2.syms[q].kind = "type"
             /\ s2.syms[q].defined => s2.syms[q].name \in D
  <2>1. CASE q = n
    BY <2>1 DEF IsNew
  <2>2. CASE q \in DOMAIN s.syms
    BY <2>2 DEF IsNew, Meant
  <2> QED
    BY <2>1, <2>2 DEF IsNew
<1> QED
  BY <1>1 DEF Meant

\* What is there already.
LEMMA PutSame ==
    ASSUME NEW s, NEW l \in Nat, NEW n \in Name, NEW e, View(s)[l][n] = e
    PROVE  Put(View(s), l, n, e) = View(s)
<1> DEFINE v == View(s)
<1>1. /\ v = [k \in Nat |-> v[k]]
      /\ v[l] = [m \in Name |-> v[l][m]]
  BY DEF View
<1> HIDE DEF v
<1>2. [v[l] EXCEPT ![n] = e] = v[l]
  BY <1>1 DEF v
<1>3. [v EXCEPT ![l] = v[l]] = v
  BY <1>1
<1> QED
  BY <1>2, <1>3 DEF Put, v

\* A symbol outside blocks that is no type has linkage.
LEMMA GlobalEntity ==
    ASSUME NEW s, NEW p, s.syms[p].scope = GLOBAL, s.syms[p].sclass # "TYPEDEF"
    PROVE  Entity(s, p) = Global(s.syms[p].kind)
BY DEF Entity, Global

\* An uninitialised declaration of what is known.
LEMMA KnownTyped ==
    ASSUME NEW s, Sound(s), NEW id \in Name, NEW sclass \in {"AUTO", "STATIC", "EXTERN"},
           NEW kind \in {"object", "function"}, NEW D, Meant(s, D), NEW p, p = lookup(s, id),
           p # NULL, s.syms[p].scope = GLOBAL, s.syms[p].kind = kind,
           NEW placed, placed = Reclassed(s, p, sclass),
           NEW typed, typed = Kinded(placed, p, kind)
    PROVE  Declares(s, typed, p, id, kind, D)
<1> DEFINE x == IF s.syms[p].sclass = "EXTERN" THEN sclass ELSE s.syms[p].sclass
<1>1. /\ p \in DOMAIN s.syms /\ s.syms[p].name = id
      /\ View(s)[GLOBAL][id] = Entity(s, p)
  BY LookupMeans DEF Finds
<1>2. s.syms[p].sclass # "TYPEDEF"
  BY <1>1 DEF Meant
<1>3. View(s)[GLOBAL][id] = Global(kind)
  BY <1>1, <1>2, GlobalEntity
<1>4. x # "TYPEDEF" /\ placed = [s EXCEPT !.syms[p].sclass = x]
  BY <1>2 DEF Reclassed
<1>5. x \in {"AUTO", "STATIC", "EXTERN", "TYPEDEF"}
  BY <1>1, SoundTables DEF Symbol
<1> HIDE DEF x
<1>6. Restated(s, placed, {}) /\ Same(s, placed)
  <2>1. s.syms[p].scope = GLOBAL /\ s.syms[p].sclass # "TYPEDEF" /\ x # "TYPEDEF" =>
           Restated(s, [s EXCEPT !.syms[p].sclass = x], {})
    BY <1>1, MarkedShown
  <2>2. Same(s, [s EXCEPT !.syms[p].sclass = x])
    BY <1>5, Marked
  <2> QED
    BY <1>2, <1>4, <2>1, <2>2
<1>7. Sound(placed)
  BY <1>6, SameSound
<1>8. p \in DOMAIN placed.syms /\ placed.syms[p].kind = kind
  BY <1>1, <1>6 DEF Restated, Agrees
<1>9. Restated(placed, typed, {})
  <2>1. kind = placed.syms[p].kind => Restated(placed, [placed EXCEPT !.syms[p].kind = kind], {})
    BY <1>7, <1>8, MarkedShown
  <2> QED
    BY <1>8, <2>1 DEF Kinded
<1>10. Restated(s, typed, {} \cup {})
  BY <1>6, <1>9, RestatedTwice
<1>11. View(typed) = View(s) /\ Meant(typed, D)
  <2>1. {} \cup {} = {} /\ D \cup {} = D
    OBVIOUS
  <2>2. Restated(s, typed, {})
    BY <1>10, <2>1
  <2>3. View(typed) = View(s) /\ \A E : Meant(s, E) => Meant(typed, E \cup {})
    BY <2>2, RestatedMeans
  <2> QED
    BY <2>1, <2>3
<1>12. Put(View(s), GLOBAL, id, Global(kind)) = View(s)
  <2>1. GLOBAL \in Nat
    BY DEF GLOBAL
  <2> QED
    BY <1>3, <2>1, PutSame
<1>13. typed.syms[p].name = id /\ typed.syms[p].kind = kind
  BY <1>1, <1>10 DEF Restated, Agrees
<1> QED
  BY <1>11, <1>12, <1>13 DEF Declares

\* A symbol with another storage class and kind.
LEMMA Retyped ==
    ASSUME NEW r \in Symbol, NEW sclass, NEW kind
    PROVE  Retype(r, [[r EXCEPT !.sclass = sclass] EXCEPT !.kind = kind], sclass, kind)
BY DEF Symbol, Retype

\* A moved symbol with its new type.
LEMMA MovedTyped ==
    ASSUME NEW s, Sound(s), NEW u, NEW s2, Sound(s2), NEW id \in Name,
           NEW sclass \in {"AUTO", "STATIC", "EXTERN"}, NEW kind \in {"object", "function"},
           NEW q, q # NULL, Moved(s, u, id, q), RetypedIn(u, s2, q, sclass, kind),
           NEW D, Meant(s, D)
    PROVE  Declares(s, s2, q, id, kind, D)
<1>1. /\ q \in DOMAIN s.syms /\ s.syms[q].name = id /\ s.syms[q].scope = GLOBAL /\ Unlisted(s, q)
      /\ DOMAIN u.syms = DOMAIN s.syms /\ Agrees(s.syms[q], u.syms[q], {})
  BY DEF Moved
<1>2. /\ s2.syms[q].name = id /\ s2.syms[q].kind = kind /\ s2.syms[q].sclass = sclass
      /\ s2.syms[q].scope = GLOBAL /\ (s2.syms[q].defined => s.syms[q].defined)
  BY <1>1 DEF RetypedIn, Retype, Agrees
<1>3. \A x \in DOMAIN s.syms \ {q} : Agrees(s.syms[x], s2.syms[x], {})
  BY DEF Moved, RetypedIn
<1>4. TablesPushed(s, s2, GLOBAL, q)
  BY OutermostPushed DEF Moved, RetypedIn
<1>5. Pushed(s, s2, GLOBAL, q)
  <2>1. \A x \in DOMAIN s.syms \ {q} : Alike(s, s2, x)
    BY <1>3, AgreesAlike
  <2>2. GLOBAL \in Nat
    BY DEF GLOBAL
  <2> QED
    BY <1>1, <1>4, <2>1, <2>2, BucketsPushed
<1>6. View(s2) = Put(View(s), GLOBAL, s2.syms[q].name, Entity(s2, q))
  <2>1. GLOBAL \in Nat
    BY DEF GLOBAL
  <2> QED
    BY <1>5, <2>1, ViewPut
<1>7. Entity(s2, q) = Global(kind)
  <2>1. s2.syms[q].scope = GLOBAL /\ s2.syms[q].sclass # "TYPEDEF"
    BY <1>2
  <2>2. Entity(s2, q) = Global(s2.syms[q].kind)
    BY <2>1, GlobalEntity
  <2> QED
    BY <1>2, <2>2
<1>8. Meant(s2, D)
  <2>1. ASSUME NEW x \in DOMAIN s2.syms
        PROVE  /\ s2.syms[x].sclass = "TYPEDEF" <=> s2.syms[x].kind = "type"
               /\ s2.syms[x].defined => s2.syms[x].name \in D
    <3>1. x \in DOMAIN s.syms
      BY <1>1 DEF RetypedIn
    <3>2. s.syms[x].sclass = "TYPEDEF" <=> s.syms[x].kind = "type"
      BY <3>1 DEF Meant
    <3>3. s.syms[x].defined => s.syms[x].name \in D
      BY <3>1 DEF Meant
    <3>4. CASE x = q
      BY <1>1, <1>2, <3>3, <3>4
    <3>5. CASE x # q
      <4>1. Agrees(s.syms[x], s2.syms[x], {})
        BY <1>3, <3>1, <3>5
      <4> QED
        BY <3>2, <3>3, <4>1 DEF Agrees
    <3> QED
      BY <3>4, <3>5
  <2> QED
    BY <2>1 DEF Meant
<1> QED
  BY <1>2, <1>6, <1>7, <1>8 DEF Declares

\* What a block has introduced becomes a global.
LEMMA ExternalTyped ==
    ASSUME NEW s, Sound(s), NEW id \in Name, NEW sclass \in {"AUTO", "STATIC", "EXTERN"},
           NEW kind \in {"object", "function"}, NEW D, Meant(s, D),
           NEW q, q = Find(s, s.externals, id), q # NULL,
           NEW placed, placed = Classed(relocate(s, id), q, sclass),
           NEW typed, typed = Kinded(placed, q, kind)
    PROVE  Declares(s, typed, q, id, kind, D)
<1> DEFINE u == relocate(s, id)
<1>1. Moved(s, u, id, q)
  BY RelocateShown
<1>2. Sound(u)
  BY Relocated
<1> HIDE DEF u
<1>3. Same(u, placed)
  BY <1>2, Marked DEF u, Classed
<1>4. Sound(placed)
  BY <1>2, <1>3, SameSound
<1>5. Same(placed, typed)
  BY <1>4, Marked DEF Kinded
<1>6. Sound(typed)
  BY <1>4, <1>5, SameSound
<1>7. q \in DOMAIN u.syms /\ u.syms[q] \in Symbol
  <2>1. u.syms \in Memory
    BY <1>2 DEF Sound, State
  <2>2. q \in DOMAIN u.syms
    BY <1>1 DEF Moved
  <2> QED
    BY <2>1, <2>2, InMemory
<1>8. /\ typed.identifiers = u.identifiers /\ DOMAIN typed.syms = DOMAIN u.syms
      /\ typed.syms[q] = [[u.syms[q] EXCEPT !.sclass = sclass] EXCEPT !.kind = kind]
      /\ \A x \in DOMAIN u.syms : x # q => typed.syms[x] = u.syms[x]
  <2>1. DOMAIN u = {"level", "syms", "identifiers", "externals"}
    BY <1>2 DEF Sound, State
  <2>2. /\ placed.identifiers = u.identifiers /\ DOMAIN placed.syms = DOMAIN u.syms
        /\ placed.syms[q] = [u.syms[q] EXCEPT !.sclass = sclass]
        /\ \A x \in DOMAIN u.syms : x # q => placed.syms[x] = u.syms[x]
        /\ DOMAIN placed = DOMAIN u
    BY <1>7, <2>1 DEF u, Classed
  <2> QED
    BY <1>7, <2>1, <2>2 DEF Kinded
<1>9. RetypedIn(u, typed, q, sclass, kind)
  <2> DEFINE r == u.syms[q]
  <2>1. r \in Symbol
    BY <1>7
  <2> HIDE DEF r
  <2>2. Retype(r, [[r EXCEPT !.sclass = sclass] EXCEPT !.kind = kind], sclass, kind)
    BY <2>1, Retyped
  <2>3. typed.syms[q] = [[r EXCEPT !.sclass = sclass] EXCEPT !.kind = kind]
    BY <1>8 DEF r
  <2>4. Retype(r, typed.syms[q], sclass, kind)
    BY <2>2, <2>3
  <2> QED
    BY <1>8, <2>4 DEF RetypedIn, r
<1> QED
  BY <1>1, <1>6, <1>9, MovedTyped

\* A new global.
LEMMA AnewTyped ==
    ASSUME NEW s, Sound(s), NEW id \in Name, NEW sclass \in {"AUTO", "STATIC", "EXTERN"},
           NEW kind \in {"object", "function"}, NEW D, Meant(s, D),
           NEW placed, placed = installGlobal(s, NewSymbol(id, GLOBAL, sclass, kind, "PERM")),
           NEW typed, typed = [placed EXCEPT !.syms[Fresh(s)].kind = kind]
    PROVE  Declares(s, typed, Fresh(s), id, kind, D)
<1> DEFINE x == NewSymbol(id, GLOBAL, sclass, kind, "PERM")
           n == Fresh(s)
<1>1. /\ x \in Symbol /\ x.scope = GLOBAL /\ x.arena = "PERM" /\ x.alias = NULL
      /\ x.name = id /\ x.kind = kind /\ x.sclass = sclass /\ ~x.defined
  <2>1. GLOBAL \in Nat
    BY DEF GLOBAL
  <2>2. x.name = id /\ x.kind = kind /\ x.sclass = sclass /\ ~x.defined
    BY DEF NewSymbol
  <2> HIDE DEF x
  <2> QED
    BY <2>1, <2>2, NewSymbolIs DEF x
<1> HIDE DEF x, n
<1>2. IsNew(s, placed, n, x) /\ View(placed) = Put(View(s), GLOBAL, id, Says(x))
  <2>1. placed = installGlobal(s, x)
    BY DEF x
  <2> QED
    BY <1>1, <2>1, InstallGlobalShown DEF n
<1>3. Says(x) = Global(kind)
  BY <1>1 DEF Says, Entity, Global
<1>4. Sound(placed)
  BY <1>1, GlobalInstalled DEF x, Adds
<1>5. Meant(placed, D)
  BY <1>1, <1>2, MeantNew
<1>6. Restated(placed, typed, {})
  <2>1. n \in DOMAIN placed.syms /\ placed.syms[n].kind = kind
    BY <1>1, <1>2 DEF IsNew
  <2>2. typed = [placed EXCEPT !.syms[n].kind = kind]
    BY DEF n
  <2>3. kind = placed.syms[n].kind => Restated(placed, [placed EXCEPT !.syms[n].kind = kind], {})
    BY <1>4, <2>1, MarkedShown
  <2> QED
    BY <2>1, <2>2, <2>3
<1>7. View(typed) = View(placed) /\ Meant(typed, D)
  <2>1. View(typed) = View(placed) /\ \A E : Meant(placed, E) => Meant(typed, E \cup {})
    BY <1>4, <1>6, RestatedMeans
  <2>2. D \cup {} = D
    OBVIOUS
  <2> QED
    BY <1>5, <2>1, <2>2
<1>8. typed.syms[n].name = id /\ typed.syms[n].kind = kind
  BY <1>1, <1>2, <1>6 DEF IsNew, Restated, Agrees
<1> QED
  BY <1>2, <1>3, <1>7, <1>8 DEF Declares, n

\* A declaration at file scope that is no error declares the name with linkage.
LEMMA UninitialisedShown ==
    ASSUME NEW s, Sound(s), NEW id \in Name, NEW sclass \in {"AUTO", "STATIC", "EXTERN"},
           NEW kind \in {"object", "function"}, NEW D, Meant(s, D),
           NEW d, d = dclglobal(s, id, sclass, kind, FALSE), ~d.error
    PROVE  Declares(s, d.s, d.p, id, kind, D)
<1> DEFINE p == lookup(s, id)
           known == p # NULL /\ s.syms[p].scope = GLOBAL
           q == Find(s, s.externals, id)
<1>1. CASE known
  <2> DEFINE placed == Reclassed(s, p, sclass)
             typed == Kinded(placed, p, kind)
  <2>1. d.s = typed /\ d.p = p /\ s.syms[p].kind = kind
    BY <1>1 DEF dclglobal, Reclassed, Kinded
  <2>2. p # NULL /\ s.syms[p].scope = GLOBAL /\ p = lookup(s, id)
    BY <1>1
  <2> HIDE DEF p
  <2>3. Declares(s, typed, p, id, kind, D)
    BY <2>1, <2>2, KnownTyped
  <2> QED
    BY <2>1, <2>3
<1>2. CASE ~known /\ q # NULL
  <2> DEFINE placed == Classed(relocate(s, id), q, sclass)
             typed == Kinded(placed, q, kind)
  <2>1. d.s = typed /\ d.p = q
    BY <1>2 DEF dclglobal, Classed, Kinded
  <2>2. q # NULL /\ q = Find(s, s.externals, id)
    BY <1>2
  <2> HIDE DEF q, known, p
  <2>3. Declares(s, typed, q, id, kind, D)
    BY <2>2, ExternalTyped
  <2> QED
    BY <2>1, <2>3
<1>3. CASE ~known /\ q = NULL
  <2> DEFINE placed == installGlobal(s, NewSymbol(id, GLOBAL, sclass, kind, "PERM"))
             typed == [placed EXCEPT !.syms[Fresh(s)].kind = kind]
  <2>1. d.s = typed /\ d.p = Fresh(s)
    BY <1>3 DEF dclglobal
  <2> HIDE DEF q, known, p
  <2>2. Declares(s, typed, Fresh(s), id, kind, D)
    BY AnewTyped
  <2> QED
    BY <2>1, <2>2
<1> QED
  BY <1>1, <1>2, <1>3

\* With an initializer the name is defined, too.
LEMMA DclglobalShown ==
    ASSUME NEW s, Sound(s), NEW id \in Name, NEW sclass \in {"AUTO", "STATIC", "EXTERN"},
           NEW kind \in {"object", "function"}, NEW init \in BOOLEAN, NEW D, Meant(s, D),
           NEW d, d = dclglobal(s, id, sclass, kind, init), ~d.error
    PROVE  Declares(s, d.s, d.p, id, kind, D \cup Defined(init, id))
<1> DEFINE e == dclglobal(s, id, sclass, kind, FALSE)
<1>1. ~e.error /\ e.p = d.p /\ d.s = IF init THEN initglobal(e.s, e.p) ELSE e.s
  <2>1. ~e.error
    BY DEF dclglobal
  <2>2. e.p = d.p
    BY DEF dclglobal
  <2>3. d.s = IF init THEN initglobal(e.s, e.p) ELSE e.s
    <3> DEFINE p == lookup(s, id)
               known == p # NULL /\ s.syms[p].scope = GLOBAL
               q == Find(s, s.externals, id)
               r == IF known THEN p ELSE IF q # NULL THEN q ELSE Fresh(s)
               placed == IF known THEN [s EXCEPT !.syms[p].sclass = IF @ = "EXTERN" THEN sclass ELSE @]
                         ELSE IF q # NULL THEN [relocate(s, id) EXCEPT !.syms[q].sclass = sclass]
                         ELSE installGlobal(s, NewSymbol(id, GLOBAL, sclass, kind, "PERM"))
               typed == [placed EXCEPT !.syms[r].kind = kind]
    <3>1. d.s = (IF init THEN initglobal(typed, r) ELSE typed)
      BY DEF dclglobal
    <3>2. e.s = typed /\ e.p = r
      BY DEF dclglobal
    <3> HIDE DEF typed, r, e
    <3> QED
      BY <3>1, <3>2
  <2> HIDE DEF e
  <2> QED
    BY <2>1, <2>2, <2>3
<1>2. Leaves(s, e.s) /\ Outermost(e.s, e.p)
  BY DeclaredGlobal
<1> HIDE DEF e
<1>3. Declares(s, e.s, e.p, id, kind, D)
  BY <1>1, UninitialisedShown DEF e
<1>4. CASE ~init
  <2>1. d.s = e.s /\ D \cup Defined(init, id) = D
    BY <1>1, <1>4 DEF Defined
  <2> QED
    BY <1>1, <1>3, <2>1
<1>5. CASE init
  <2> DEFINE u == e.s
             r == e.p
  <2>1. /\ u.syms[r].name = id /\ u.syms[r].kind = kind /\ Meant(u, D)
        /\ View(u) = Put(View(s), GLOBAL, id, Global(kind))
    BY <1>3 DEF Declares
  <2>2. Sound(u) /\ Outermost(u, r) /\ r \in DOMAIN u.syms
    BY <1>2 DEF Leaves, Outermost
  <2>3. u.syms[r].sclass # "TYPEDEF"
    BY <2>1, <2>2 DEF Meant
  <2>4. d.s = initglobal(u, r) /\ d.p = r
    BY <1>1, <1>5
  <2> HIDE DEF u, r
  <2>5. Restated(u, d.s, {id})
    BY <2>1, <2>2, <2>3, <2>4, InitShown
  <2>6. View(d.s) = View(u) /\ Meant(d.s, D \cup {id})
    BY <2>1, <2>2, <2>5, RestatedMeans
  <2>7. d.s.syms[r].name = id /\ d.s.syms[r].kind = kind
    BY <2>1, <2>2, <2>5 DEF Restated, Agrees
  <2> QED
    BY <1>5, <2>1, <2>4, <2>6, <2>7 DEF Declares, Defined
<1> QED
  BY <1>4, <1>5

\* What is refused at file scope is an error of the declaration.
LEMMA DclglobalError ==
    ASSUME NEW s, Sound(s), NEW id \in Name, NEW sclass, NEW kind \in {"object", "function"},
           NEW init \in BOOLEAN, NEW D, Meant(s, D),
           NEW d, d = dclglobal(s, id, sclass, kind, init), d.error
    PROVE  \/ View(s)[GLOBAL][id] # Meaningless /\ View(s)[GLOBAL][id] # Global(kind)
           \/ init /\ kind = "object" /\ id \in D
<1> DEFINE p == lookup(s, id)
<1>1. /\ p # NULL /\ s.syms[p].scope = GLOBAL
      /\ \/ s.syms[p].kind # kind
         \/ kind # "function" /\ s.syms[p].defined /\ init
  BY DEF dclglobal
<1>2. Finds(s, id, p)
  BY LookupMeans
<1> HIDE DEF p
<1>3. /\ p \in DOMAIN s.syms /\ s.syms[p].name = id
      /\ View(s)[GLOBAL][id] = Entity(s, p) /\ Entity(s, p) # Meaningless
  BY <1>1, <1>2 DEF Finds
<1>4. CASE s.syms[p].kind # kind
  <2>1. Entity(s, p).kind # Global(kind).kind
    BY <1>3, <1>4, EntityMeans DEF Global
  <2> QED
    BY <1>3, <2>1
<1>5. CASE kind # "function" /\ s.syms[p].defined /\ init
  BY <1>3, <1>5 DEF Meant
<1> QED
  BY <1>1, <1>4, <1>5

---------------------------------------------------------------------------
(* Scopes, parameters and prototypes *)

\* The same symbols mean the same.
LEMMA MeantSame ==
    ASSUME NEW s, NEW s2, s2.syms = s.syms, NEW D, Meant(s, D)
    PROVE  Meant(s2, D)
BY DEF Meant

\* A scope is entered without a table.
LEMMA EnterShown ==
    ASSUME NEW s, Sound(s)
    PROVE  View(enterscope(s)) = View(s) /\ enterscope(s).syms = s.syms
<1> DEFINE s2 == enterscope(s)
<1>1. s2.identifiers = s.identifiers /\ s2.syms = s.syms
  BY DEF enterscope, Sound, State
<1> HIDE DEF s2
<1>2. \A l \in Nat : Bucket(s2, l) = Bucket(s, l)
  BY <1>1 DEF Bucket, Tables
<1>3. \A q \in DOMAIN s.syms : Alike(s, s2, q)
  BY <1>1 DEF Alike, Entity
<1>4. View(s2) = View(s)
  BY <1>2, <1>3, ViewSame
<1> QED
  BY <1>1, <1>4 DEF s2

\* A scope is left with its table, if it has one.
LEMMA ExitShown ==
    ASSUME NEW s, Sound(s), s.level > GLOBAL
    PROVE  View(exitscope(s)) = Erased(View(s), s.level) /\ exitscope(s).syms = s.syms
<1> DEFINE s2 == exitscope(s)
<1>1. Sound(s2) /\ s2.level = s.level - 1 /\ s2.syms = s.syms /\ Dropped(s, s2)
  BY ScopeLeft
<1> HIDE DEF s2
<1>2. s.level \in Nat /\ s.level > s2.level
  BY <1>1, SoundTables
<1>3. ASSUME NEW l \in Nat, l # s.level PROVE View(s2)[l] = View(s)[l]
  <2>1. Bucket(s2, l) = Bucket(s, l)
    <3>1. CASE \E i \in DOMAIN s.identifiers : s.identifiers[i].level = l
      <4> PICK i \in DOMAIN s.identifiers : s.identifiers[i].level = l
        BY <3>1
      <4>1. i \in DOMAIN s2.identifiers /\ s2.identifiers[i] = s.identifiers[i]
        BY <1>1, <1>3 DEF Dropped
      <4>2. Bucket(s, l) = s.identifiers[i].bucket
        BY BucketIs
      <4>3. Bucket(s2, l) = s2.identifiers[i].bucket
        BY <1>1, <4>1, BucketIs
      <4> QED
        BY <4>1, <4>2, <4>3
    <3>2. CASE \A i \in DOMAIN s.identifiers : s.identifiers[i].level # l
      <4>1. \A i \in DOMAIN s2.identifiers : s2.identifiers[i].level # l
        BY <1>1, <3>2 DEF Dropped
      <4>2. Bucket(s, l) = << >>
        BY <3>2, BucketIs
      <4>3. Bucket(s2, l) = << >>
        BY <1>1, <4>1, BucketIs
      <4> QED
        BY <4>2, <4>3
    <3> QED
      BY <3>1, <3>2
  <2>2. ASSUME NEW n \in Name PROVE View(s2)[l][n] = View(s)[l][n]
    <3>1. First(s2, Bucket(s, l), n) = First(s, Bucket(s, l), n)
      <4>1. SameNames(s, s2, Bucket(s, l))
        BY <1>1 DEF SameNames
      <4> QED
        BY <4>1, FirstSame
    <3>2. Named(s2, l, n) = Named(s, l, n)
      BY <2>1, <3>1 DEF Named
    <3>3. \A q : Entity(s2, q) = Entity(s, q)
      BY <1>1 DEF Entity
    <3> QED
      BY <3>2, <3>3 DEF View
  <2>3. /\ View(s2)[l] = [n \in Name |-> View(s2)[l][n]]
        /\ View(s)[l] = [n \in Name |-> View(s)[l][n]]
    BY DEF View
  <2> QED
    BY <2>2, <2>3
<1>4. View(s2)[s.level] = NothingThere
  <2>1. \A n \in Name : View(s2)[s.level][n] = Meaningless
    BY <1>1, <1>2, OutsideLevels
  <2>2. View(s2)[s.level] = [n \in Name |-> View(s2)[s.level][n]]
    BY <1>2 DEF View
  <2> QED
    BY <2>1, <2>2 DEF NothingThere
<1>5. View(s2) = Erased(View(s), s.level)
  <2> DEFINE v == View(s)
             w == View(s2)
  <2>1. v = [l \in Nat |-> v[l]] /\ w = [l \in Nat |-> w[l]]
    BY DEF View
  <2> HIDE DEF v, w
  <2> QED
    BY <1>2, <1>3, <1>4, <2>1 DEF Erased, v, w
<1> QED
  BY <1>1, <1>5 DEF s2

\* What is put in a scope and forgotten at its end.
LEMMA PutErased ==
    ASSUME NEW s, Sound(s), NEW l \in Nat, l > s.level
    PROVE  /\ Erased(View(s), l) = View(s)
           /\ \A n, e : Erased(Put(View(s), l, n, e), l) = View(s)
<1> DEFINE v == View(s)
<1>1. v = [k \in Nat |-> v[k]]
  BY DEF View
<1>2. v[l] = NothingThere
  <2>1. \A n \in Name : v[l][n] = Meaningless
    BY OutsideLevels
  <2>2. v[l] = [n \in Name |-> v[l][n]]
    BY DEF View
  <2> HIDE DEF v
  <2> QED
    BY <2>1, <2>2 DEF NothingThere
<1> HIDE DEF v
<1>3. Erased(v, l) = v
  BY <1>1, <1>2 DEF Erased
<1>4. ASSUME NEW n, NEW e PROVE Erased(Put(v, l, n, e), l) = v
  <2> DEFINE x == [v[l] EXCEPT ![n] = e]
  <2> HIDE DEF x
  <2>1. Put(v, l, n, e) = [v EXCEPT ![l] = x]
    BY DEF Put, x
  <2>2. Erased([v EXCEPT ![l] = x], l) = v
    BY <1>1, <1>2 DEF Erased
  <2> QED
    BY <2>1, <2>2
<1> QED
  BY <1>3, <1>4 DEF v

\* A parameter list puts its name in the view.
LEMMA ParametersShown ==
    ASSUME NEW s, Sound(s), s.level > GLOBAL, NEW params, params = << >> \/ params[1] \in Name
    PROVE  /\ View(parameters(s, params)) = WithParams(View(s), s.level, params)
           /\ \A D : Meant(s, D) => Meant(parameters(s, params), D)
           /\ Remains(s, parameters(s, params))
<1>1. CASE params = << >>
  BY <1>1, RemainsAll DEF parameters, WithParams
<1>2. CASE params # << >>
  <2> DEFINE p == NewSymbol(params[1], s.level, "AUTO", "object", "FUNC")
             s2 == install(s, p)
  <2>1. params[1] \in Name /\ s.level \in Nat /\ s.level # GLOBAL
    BY <1>2, SoundTables DEF GLOBAL
  <2>2. /\ p.name = params[1] /\ p.kind = "object" /\ p.sclass = "AUTO" /\ p.scope = s.level
        /\ ~p.defined
    BY DEF NewSymbol
  <2> HIDE DEF p
  <2>3. p \in Symbol /\ p.alias = NULL
    BY <2>1, NewSymbolIs DEF p
  <2>4. parameters(s, params) = s2
    BY <1>2 DEF parameters, dclparam, p
  <2> HIDE DEF s2
  <2>5. IsNew(s, s2, Fresh(s), p) /\ View(s2) = Put(View(s), s.level, p.name, Says(p))
    BY <2>1, <2>2, <2>3, InstallShown DEF s2
  <2>6. Says(p) = LocalOf("object", s.level)
    BY <2>1, <2>2 DEF Says, Entity, LocalOf
  <2>7. \A D : Meant(s, D) => Meant(s2, D)
    BY <2>2, <2>5, MeantNew
  <2>8. Remains(s, s2)
    BY <2>5, RemainsAll
  <2> QED
    BY <1>2, <2>2, <2>4, <2>5, <2>6, <2>7, <2>8 DEF WithParams
<1> QED
  BY <1>1, <1>2

\* A declarator with parameters leaves no trace.
LEMMA PrototypeShown ==
    ASSUME NEW s, Sound(s), NEW params, params = << >> \/ params[1] \in Name
    PROVE  /\ View(prototype(s, params)) = View(s)
           /\ \A D : Meant(s, D) => Meant(prototype(s, params), D)
           /\ Remains(s, prototype(s, params))
<1> DEFINE once == enterscope(s)
           twice == enterscope(once)
           opened == IF s.level + 1 > PARAM THEN twice ELSE once
           args == parameters(opened, params)
           one == exitscope(args)
           two == exitscope(one)
<1>1. s.level \in Nat /\ s.level >= GLOBAL
  BY SoundTables DEF Sound, TablesNested
<1>2. Sound(once) /\ once.level = s.level + 1 /\ once.syms = s.syms /\ View(once) = View(s)
  BY ScopeEntered, EnterShown
<1> HIDE DEF once
<1>3. Sound(twice) /\ twice.level = s.level + 2 /\ twice.syms = s.syms /\ View(twice) = View(s)
  <2>1. Sound(twice) /\ twice.level = once.level + 1 /\ twice.syms = once.syms /\ View(twice) = View(once)
    BY <1>2, ScopeEntered, EnterShown
  <2> HIDE DEF twice
  <2> QED
    BY <1>1, <1>2, <2>1
<1> HIDE DEF twice
<1>4. /\ Sound(opened) /\ opened.syms = s.syms /\ opened.level \in Nat /\ opened.level > s.level
      /\ opened.level > GLOBAL
      /\ opened.level = IF s.level + 1 > PARAM THEN s.level + 2 ELSE s.level + 1
      /\ View(opened) = View(s)
  BY <1>1, <1>2, <1>3 DEF GLOBAL
<1> HIDE DEF opened
<1>5. /\ Leaves(opened, args)
      /\ View(args) = WithParams(View(opened), opened.level, params)
      /\ \A D : Meant(opened, D) => Meant(args, D)
      /\ Remains(opened, args)
  BY <1>4, ParametersDeclared, ParametersShown
<1> HIDE DEF args
<1>6. /\ Sound(args) /\ args.level = opened.level
      /\ Erased(View(args), opened.level) = View(s)
  <2>1. /\ Erased(View(s), opened.level) = View(s)
        /\ \A n, e : Erased(Put(View(s), opened.level, n, e), opened.level) = View(s)
    BY <1>4, PutErased
  <2> QED
    BY <1>4, <1>5, <2>1 DEF Leaves, WithParams
<1>7. Sound(one) /\ one.level = args.level - 1 /\ one.syms = args.syms /\ View(one) = View(s)
  BY <1>4, <1>6, ScopeLeft, ExitShown
<1> HIDE DEF one
<1>8. opened.level - 1 > s.level => two.syms = one.syms /\ View(two) = View(s)
  <2> SUFFICES ASSUME opened.level - 1 > s.level
               PROVE  two.syms = one.syms /\ View(two) = View(s)
    OBVIOUS
  <2>1. one.level \in Nat /\ one.level > s.level /\ one.level > GLOBAL
    BY <1>1, <1>4, <1>6, <1>7 DEF GLOBAL
  <2>2. two.syms = one.syms /\ View(two) = Erased(View(one), one.level)
    BY <1>7, <2>1, ExitShown
  <2>3. Erased(View(s), one.level) = View(s)
    BY <2>1, PutErased
  <2> QED
    BY <1>7, <2>2, <2>3
<1> HIDE DEF two
<1>9. args.level > PARAM <=> opened.level - 1 > s.level
  BY <1>1, <1>4, <1>6 DEF GLOBAL, PARAM
<1>10. prototype(s, params) = IF args.level > PARAM THEN two ELSE one
  BY DEF prototype, two, one, args, opened, twice, once
<1>11. /\ \A D : Meant(s, D) => Meant(args, D)
       /\ Remains(s, args)
  BY <1>4, <1>5, MeantSame DEF Remains
<1>12. prototype(s, params).syms = args.syms /\ View(prototype(s, params)) = View(s)
  BY <1>7, <1>8, <1>9, <1>10
<1> QED
  BY <1>11, <1>12, MeantSame DEF Remains

\* A change of nothing that is said.
LEMMA RestatedSame ==
    ASSUME NEW s, Sound(s), NEW s2, Restated(s, s2, {})
    PROVE  /\ View(s2) = View(s) /\ Remains(s, s2)
           /\ \A D : Meant(s, D) => Meant(s2, D)
<1>1. View(s2) = View(s) /\ \A D : Meant(s, D) => Meant(s2, D \cup {})
  BY RestatedMeans
<1>2. \A D : D \cup {} = D
  OBVIOUS
<1>3. Remains(s, s2)
  BY RemainsAll
<1> QED
  BY <1>1, <1>2, <1>3

\* A use changes a mark.
LEMMA UsedShown ==
    ASSUME NEW s, Sound(s), NEW p
    PROVE  /\ View(Used(s, p)) = View(s) /\ Remains(s, Used(s, p))
           /\ \A D : Meant(s, D) => Meant(Used(s, p), D)
<1> DEFINE q == IF s.syms[p].scope > PARAM /\ s.syms[p].sclass = "EXTERN" THEN s.syms[p].alias ELSE p
           x == s.syms[q].scope = GLOBAL /\ s.syms[q].sclass # "TYPEDEF"
           y == [s.syms[q] EXCEPT !.ref = x]
           s2 == Used(s, p)
<1>1. s2 = [s EXCEPT !.syms[q].ref = x]
  BY DEF Used
<1> HIDE DEF q, x, s2
<1>2. s2.identifiers = s.identifiers /\ s2.syms = [s.syms EXCEPT ![q] = y]
  BY <1>1 DEF Sound, State
<1>3. q \in DOMAIN s.syms => s.syms[q] \in Symbol
  BY SoundTables
<1>4. q \in DOMAIN s.syms => Agrees(s.syms[q], y, {})
  BY <1>3 DEF Agrees, Symbol
<1> HIDE DEF y
<1>5. Restated(s, s2, {})
  BY <1>2, <1>4, RestatedOne
<1> QED
  BY <1>5, RestatedSame DEF s2

\* An extern declaration in a block gives the name linkage there.
LEMMA DclexternShown ==
    ASSUME NEW s, Sound(s), NEW id \in Name, NEW kind \in {"object", "function"},
           NEW q, q = NULL \/ Outermost(s, q), NEW s2, s2 = dclextern(s, id, kind, q)
    PROVE  /\ Sound(s2) /\ View(s2) = Put(View(s), s.level, id, Global(kind))
           /\ Entity(s2, Fresh(s)) = Global(kind)
           /\ \A D : Meant(s, D) => Meant(s2, D)
           /\ Remains(s, s2)
<1> DEFINE p == Fresh(s)
           x == NewSymbol(id, s.level, "EXTERN", kind, "PERM")
           y == NewSymbol(id, GLOBAL, "EXTERN", kind, "PERM")
           local == install(s, x)
           outer == IF q # NULL THEN local ELSE installExternal(local, y)
           a == IF q # NULL THEN q ELSE Fresh(local)
<1>1. s.level \in Nat /\ GLOBAL \in Nat
  BY SoundTables DEF GLOBAL
<1>2. /\ x.name = id /\ x.kind = kind /\ x.sclass = "EXTERN" /\ ~x.defined
      /\ y.name = id /\ y.kind = kind /\ y.sclass = "EXTERN" /\ ~y.defined
  BY DEF NewSymbol
<1> HIDE DEF x, y
<1>3. /\ x \in Symbol /\ x.scope = s.level /\ x.arena = "PERM" /\ x.alias = NULL
      /\ y \in Symbol /\ y.scope = GLOBAL /\ y.arena = "PERM" /\ y.alias = NULL
  BY <1>1, NewSymbolIs DEF x, y
<1> HIDE DEF p
<1>4. IsNew(s, local, p, x) /\ View(local) = Put(View(s), s.level, id, Says(x))
  BY <1>2, <1>3, InstallShown DEF p
<1>5. Adds(s, local, p, x)
  BY <1>3, Installed DEF p
<1> HIDE DEF local
<1>6. Sound(local) /\ \A D : Meant(s, D) => Meant(local, D)
  <2>1. \A D : Meant(s, D) => Meant(local, D)
    BY <1>2, <1>4, MeantNew
  <2> QED
    BY <1>5, <2>1 DEF Adds
<1>7. Says(x) = Global(kind)
  BY <1>2 DEF Says, Entity, Global
<1>8. /\ Sound(outer) /\ View(outer) = View(local) /\ Alike(local, outer, p)
      /\ p \in DOMAIN outer.syms /\ Remains(local, outer)
      /\ \A D : Meant(local, D) => Meant(outer, D)
  <2>1. CASE q # NULL
    BY <1>4, <1>6, <2>1, RemainsAll DEF Alike, IsNew
  <2>2. CASE q = NULL
    <3> DEFINE ext == installExternal(local, y)
    <3>1. IsNew(local, ext, Fresh(local), y) /\ View(ext) = View(local)
      BY <1>3, <1>6, InstallExternalShown
    <3>2. Adds(local, ext, Fresh(local), y)
      BY <1>3, <1>6, ExternalInstalled
    <3> HIDE DEF ext
    <3>3. \A D : Meant(local, D) => Meant(ext, D)
      BY <1>2, <3>1, MeantNew
    <3>4. p \in DOMAIN local.syms /\ Alike(local, ext, p)
      BY <1>4, <3>1, NewAlike DEF IsNew
    <3>5. outer = ext
      BY <2>2 DEF ext
    <3>6. Remains(local, ext)
      BY <3>1, RemainsAll
    <3> HIDE DEF outer
    <3> QED
      BY <3>1, <3>2, <3>3, <3>4, <3>5, <3>6 DEF Adds
  <2> QED
    BY <2>1, <2>2
<1> HIDE DEF outer, a
<1>9. s2 = [outer EXCEPT !.syms[p].alias = a]
  BY DEF dclextern, outer, local, a, x, y, p
<1>10. Restated(outer, s2, {})
  <2>1. \A v : Restated(outer, [outer EXCEPT !.syms[p].alias = v], {})
    BY <1>8, MarkedShown
  <2> QED
    BY <1>9, <2>1
<1>11. View(s2) = View(outer) /\ Remains(outer, s2) /\ \A D : Meant(outer, D) => Meant(s2, D)
  BY <1>8, <1>10, RestatedSame
<1>12. Entity(s2, p) = Global(kind)
  <2>1. Alike(outer, s2, p)
    BY <1>8, <1>10, AgreesAlike DEF Restated
  <2>2. Entity(local, p) = Global(kind)
    BY <1>4, <1>7, NewSays
  <2> QED
    BY <1>8, <2>1, <2>2 DEF Alike
<1>13. Sound(s2)
  BY Aliased DEF Leaves
<1>14. Remains(s, s2)
  BY <1>4, <1>8, <1>11, RemainsAll
<1> QED
  BY <1>4, <1>6, <1>7, <1>8, <1>11, <1>12, <1>13, <1>14 DEF p

\* It puts its meaning in the view.
LEMMA DcllocalShown ==
    ASSUME NEW s, Sound(s), s.level > GLOBAL, NEW id \in Name,
           NEW sclass \in {"AUTO", "STATIC", "EXTERN"}, NEW kind \in {"object", "function"},
           NEW s2, s2 = dcllocal(s, id, sclass, kind).s
    PROVE  /\ View(s2) = Put(View(s), s.level, id, LocalEntity(sclass, kind, s.level))
           /\ \A D : Meant(s, D) => Meant(s2, D)
           /\ Remains(s, s2)
<1>1. CASE sclass = "EXTERN"
  <2> DEFINE q == Outside(s, id)
  <2>1. q = NULL \/ Outermost(s, q)
    <3>1. 1 \in DOMAIN s.identifiers /\ s.identifiers[1].level = GLOBAL
      BY SoundTables DEF Sound, TablesNested
    <3> QED
      BY <3>1, FindSound DEF Outside, Outermost
  <2>2. s2 = dclextern(s, id, kind, q)
    BY <1>1 DEF dcllocal
  <2> HIDE DEF q
  <2> QED
    BY <1>1, <2>1, <2>2, DclexternShown DEF LocalEntity
<1>2. CASE sclass # "EXTERN"
  <2> DEFINE arena == IF sclass = "STATIC" THEN "PERM" ELSE "FUNC"
             x == NewSymbol(id, s.level, sclass, kind, arena)
  <2>1. s2 = install(s, x)
    BY <1>2 DEF dcllocal
  <2>2. s.level \in Nat /\ s.level # GLOBAL /\ arena \in {"PERM", "FUNC"}
    BY SoundTables DEF GLOBAL
  <2>3. x.name = id /\ x.kind = kind /\ x.sclass = sclass /\ x.scope = s.level /\ ~x.defined
    BY DEF NewSymbol
  <2> HIDE DEF x, arena
  <2>4. x \in Symbol /\ x.alias = NULL
    BY <2>2, NewSymbolIs DEF x
  <2>5. IsNew(s, s2, Fresh(s), x) /\ View(s2) = Put(View(s), s.level, x.name, Says(x))
    BY <2>1, <2>2, <2>3, <2>4, InstallShown
  <2>6. Says(x) = LocalOf(kind, s.level)
    BY <1>2, <2>2, <2>3 DEF Says, Entity, LocalOf
  <2>7. \A D : Meant(s, D) => Meant(s2, D)
    BY <2>3, <2>5, MeantNew
  <2>8. Remains(s, s2)
    BY <2>5, RemainsAll
  <2> QED
    BY <1>2, <2>3, <2>5, <2>6, <2>7, <2>8 DEF LocalEntity
<1> QED
  BY <1>1, <1>2

---------------------------------------------------------------------------
(* The open scopes *)

\* What a table says.
LEMMA TableMeans ==
    ASSUME NEW s, Sound(s), NEW j \in DOMAIN s.identifiers, NEW n \in Name,
           NEW p, p = Find(s, s.identifiers[j], n)
    PROVE  /\ s.identifiers[j].level \in Nat
           /\ View(s)[s.identifiers[j].level][n] = IF p = NULL THEN Meaningless ELSE Entity(s, p)
           /\ p # NULL => Entity(s, p) # Meaningless
<1> DEFINE l == s.identifiers[j].level
<1>1. l \in Nat
  BY SoundTables
<1>2. Bucket(s, l) = s.identifiers[j].bucket
  BY BucketIs
<1>3. p = Named(s, l, n)
  BY <1>2, FindIsFirst DEF Named
<1>4. p # NULL => p \in DOMAIN s.syms
  BY FindSound
<1> HIDE DEF l
<1>5. View(s)[l][n] = IF p = NULL THEN Meaningless ELSE Entity(s, p)
  BY <1>1, <1>3 DEF View
<1>6. p # NULL => Entity(s, p) # Meaningless
  BY <1>4, EntityMeans
<1> QED
  BY <1>1, <1>5, <1>6 DEF l

\* The innermost of them is what the scope says.
LEMMA KnowingMeans ==
    ASSUME NEW s, Sound(s), NEW i \in Nat \ {0}, NEW n \in Name, NEW js, js = Knowing(s, i, n)
    PROVE  Within(View(s), i)[n] =
              IF js = {} THEN Meaningless
              ELSE Entity(s, Find(s, s.identifiers[CHOOSE j \in js : \A k \in js : k <= j], n))
<1> DEFINE ids == s.identifiers
           v == View(s)
           m == Within(v, i)[n]
<1>1. /\ DOMAIN ids = 1 .. Len(ids) /\ Len(ids) \in Nat
      /\ \A j \in DOMAIN ids : ids[j].level \in Nat /\ ids[j].level >= GLOBAL
      /\ \A j, k \in DOMAIN ids : j < k => ids[j].level < ids[k].level
  <2>1. /\ DOMAIN ids = 1 .. Len(ids) /\ Len(ids) \in Nat \ {0} /\ ids[1].level = GLOBAL
        /\ \A j \in DOMAIN ids : ids[j].level \in Nat
        /\ \A j \in DOMAIN ids : j # 1 => ids[j].level > GLOBAL
        /\ \A j, k \in DOMAIN ids : j < k => ids[j].level < ids[k].level
    BY SoundTables DEF Sound, TablesNested
  <2> HIDE DEF ids
  <2>2. \A j \in DOMAIN ids : ids[j].level >= GLOBAL
    BY <2>1 DEF GLOBAL
  <2> QED
    BY <2>1, <2>2
<1>2. \A j \in DOMAIN ids :
         LET p == Find(s, ids[j], n)
         IN  /\ v[ids[j].level][n] = IF p = NULL THEN Meaningless ELSE Entity(s, p)
             /\ p # NULL => Entity(s, p) # Meaningless
  BY TableMeans
<1>3. \A l \in Nat : (\A j \in DOMAIN ids : ids[j].level # l) => v[l][n] = Meaningless
  BY NoTable
<1>4. m = IF i = 1 THEN v[GLOBAL][n]
          ELSE IF i = 2 THEN IF v[LOCAL_][n] # Meaningless THEN v[LOCAL_][n] ELSE v[PARAM][n]
          ELSE v[i + 3][n]
  BY DEF Within
<1> HIDE DEF v, m
<1>5. CASE js = {}
  <2>1. \A l \in Nat : l >= GLOBAL /\ Index(l) = i => v[l][n] = Meaningless
    <3> SUFFICES ASSUME NEW l \in Nat, l >= GLOBAL, Index(l) = i
                 PROVE  v[l][n] = Meaningless
      OBVIOUS
    <3>1. ASSUME NEW j \in DOMAIN ids, ids[j].level = l
          PROVE  v[l][n] = Meaningless
      BY <1>2, <1>5, <3>1 DEF Knowing
    <3> QED
      BY <1>3, <3>1
  <2>2. /\ i = 1 => Index(GLOBAL) = i
        /\ i = 2 => Index(PARAM) = i /\ Index(LOCAL_) = i
        /\ i # 1 /\ i # 2 => i + 3 \in Nat /\ i + 3 >= GLOBAL /\ Index(i + 3) = i
    BY DEF Index, GLOBAL, PARAM, LOCAL_
  <2>3. /\ GLOBAL \in Nat /\ PARAM \in Nat /\ LOCAL_ \in Nat
        /\ GLOBAL >= GLOBAL /\ PARAM >= GLOBAL /\ LOCAL_ >= GLOBAL
    BY DEF GLOBAL, PARAM, LOCAL_
  <2>4. /\ i = 1 => v[GLOBAL][n] = Meaningless
        /\ i = 2 => v[PARAM][n] = Meaningless /\ v[LOCAL_][n] = Meaningless
        /\ i # 1 /\ i # 2 => v[i + 3][n] = Meaningless
    BY <2>1, <2>2, <2>3
  <2> QED
    BY <1>4, <1>5, <2>4 DEF m, v
<1>6. CASE js # {}
  <2> DEFINE j == CHOOSE x \in js : \A k \in js : k <= x
             l == ids[j].level
             p == Find(s, ids[j], n)
  <2>1. \E x \in js : \A k \in js : k <= x
    BY <1>1, <1>6, GreatestIndex DEF Knowing
  <2>2. j \in js /\ \A k \in js : k <= j
    BY <2>1
  <2> HIDE DEF j
  <2>3. j \in DOMAIN ids /\ Index(l) = i /\ p # NULL /\ l \in Nat /\ l >= GLOBAL
    BY <1>1, <2>2 DEF Knowing
  <2>4. v[l][n] = Entity(s, p) /\ Entity(s, p) # Meaningless
    BY <1>2, <2>3
  <2>5. ASSUME l = PARAM PROVE v[LOCAL_][n] = Meaningless
    <3>1. ASSUME NEW k \in DOMAIN ids, ids[k].level = LOCAL_, Find(s, ids[k], n) # NULL
          PROVE  FALSE
      <4>1. k \in js
        <5>1. Index(LOCAL_) = i
          BY <2>3, <2>5 DEF Index, PARAM, LOCAL_, GLOBAL
        <5> QED
          BY <3>1, <5>1 DEF Knowing
      <4>2. k <= j /\ k \in Nat /\ j \in Nat
        BY <1>1, <2>2, <2>3, <4>1
      <4>3. k < j \/ k = j
        BY <4>2
      <4>4. ids[k].level <= l
        BY <1>1, <2>3, <4>3
      <4> QED
        BY <2>5, <3>1, <4>4 DEF LOCAL_, PARAM
    <3>2. LOCAL_ \in Nat
      BY DEF LOCAL_
    <3>3. CASE \A k \in DOMAIN ids : ids[k].level # LOCAL_
      BY <1>3, <3>2, <3>3
    <3>4. CASE \E k \in DOMAIN ids : ids[k].level = LOCAL_
      BY <1>2, <3>1, <3>4
    <3> QED
      BY <3>3, <3>4
  <2>6. /\ i = 1 => l = GLOBAL
        /\ i = 2 => l = PARAM \/ l = LOCAL_
        /\ i # 1 /\ i # 2 => l = i + 3
    BY <2>3 DEF Index, GLOBAL, PARAM, LOCAL_
  <2>7. m = Entity(s, p)
    <3> HIDE DEF l, p
    <3>1. CASE i = 1
      BY <1>4, <2>4, <2>6, <3>1
    <3>2. CASE i = 2
      <4>1. i # 1 /\ PARAM # LOCAL_
        BY <3>2 DEF PARAM, LOCAL_
      <4>2. CASE l = PARAM
        BY <1>4, <2>4, <2>5, <3>2, <4>1, <4>2
      <4>3. CASE l = LOCAL_
        BY <1>4, <2>4, <3>2, <4>1, <4>3
      <4> QED
        BY <2>6, <3>2, <4>2, <4>3
    <3>3. CASE i # 1 /\ i # 2
      BY <1>4, <2>4, <2>6, <3>3
    <3> QED
      BY <3>1, <3>2, <3>3
  <2> QED
    BY <1>6, <2>7 DEF m, v, j, p
<1> QED
  BY <1>5, <1>6

\* The history variable is the view.
LEMMA ScopesAreOpen ==
    ASSUME NEW s, Sound(s)
    PROVE  ScopesOf(s) = Open(View(s), s.level)
<1> DEFINE of(i, n) == LET js == Knowing(s, i, n)
                       IN  IF js = {} THEN Meaningless
                           ELSE Entity(s, Find(s, s.identifiers[CHOOSE j \in js : \A k \in js : k <= j], n))
<1>1. ScopesOf(s) = [i \in 1 .. Index(s.level) |-> [n \in Name |-> of(i, n)]]
  BY DEF ScopesOf, Knowing
<1>2. \A i \in 1 .. Index(s.level), n \in Name : of(i, n) = Within(View(s), i)[n]
  <2> SUFFICES ASSUME NEW i \in 1 .. Index(s.level), NEW n \in Name
               PROVE  of(i, n) = Within(View(s), i)[n]
    OBVIOUS
  <2>1. i \in Nat \ {0}
    <3>1. s.level \in Nat /\ s.level >= GLOBAL
      BY SoundTables DEF Sound, TablesNested
    <3>2. Index(s.level) \in Nat
      BY <3>1 DEF Index, GLOBAL, LOCAL_
    <3> QED
      BY <3>2
  <2> QED
    BY <2>1, KnowingMeans
<1> HIDE DEF of
<1>3. \A i \in 1 .. Index(s.level) : [n \in Name |-> of(i, n)] = Within(View(s), i)
  <2> SUFFICES ASSUME NEW i \in 1 .. Index(s.level)
               PROVE  [n \in Name |-> of(i, n)] = Within(View(s), i)
    OBVIOUS
  <2>1. Within(View(s), i) = [n \in Name |-> Within(View(s), i)[n]]
    BY DEF Within
  <2>2. \A n \in Name : of(i, n) = Within(View(s), i)[n]
    BY <1>2
  <2> QED
    BY <2>1, <2>2
<1> QED
  BY <1>1, <1>3 DEF Open

\* Views are over levels and names.
LEMMA ViewIs ==
    ASSUME NEW s
    PROVE  IsView(View(s))
BY DEF View, IsView

\* The open scopes are as many as the level says.
LEMMA OpenIs ==
    ASSUME NEW v, NEW level, Level(level)
    PROVE  /\ Index(level) \in Nat \ {0} /\ Open(v, level) \in Seq({Within(v, i) : i \in Nat})
           /\ Len(Open(v, level)) = Index(level) /\ DOMAIN Open(v, level) = 1 .. Index(level)
           /\ \A i \in 1 .. Index(level) : Open(v, level)[i] = Within(v, i)
<1> DEFINE k == Index(level)
           f == Open(v, level)
           S == {Within(v, i) : i \in Nat}
<1>1. k \in Nat \ {0}
  BY DEF Level, Index, GLOBAL, LOCAL_
<1> HIDE DEF k
<1>2. f = [i \in 1 .. k |-> Within(v, i)]
  BY DEF Open, k
<1> HIDE DEF f
<1>3. DOMAIN f = 1 .. k /\ \A i \in 1 .. k : f[i] = Within(v, i)
  BY <1>2
<1>4. \A i \in 1 .. k : Within(v, i) \in S
  BY <1>1
<1> HIDE DEF S
<1>5. f \in Seq(S)
  BY <1>1, <1>2, <1>4
<1>6. Len(f) = k
  BY <1>1, <1>3, <1>5
<1> QED
  BY <1>1, <1>3, <1>5, <1>6 DEF k, f, S

\* A view with a meaning more, at a level and a name.
LEMMA PutAt ==
    ASSUME NEW v, IsView(v), NEW l \in Nat, NEW n, NEW e
    PROVE  /\ IsView(Put(v, l, n, e))
           /\ \A k \in Nat, m \in Name :
                 Put(v, l, n, e)[k][m] = IF k = l /\ m = n THEN e ELSE v[k][m]
<1> DEFINE w == v[l]
           x == [w EXCEPT ![n] = e]
<1>1. DOMAIN w = Name /\ DOMAIN x = Name /\ \A m \in Name : x[m] = IF m = n THEN e ELSE w[m]
  BY DEF IsView
<1>2. Put(v, l, n, e) = [v EXCEPT ![l] = x]
  BY DEF Put
<1>3. DOMAIN v = Nat /\ \A k \in Nat : DOMAIN v[k] = Name
  BY DEF IsView
<1> HIDE DEF x
<1>4. /\ DOMAIN Put(v, l, n, e) = Nat
      /\ \A k \in Nat : Put(v, l, n, e)[k] = IF k = l THEN x ELSE v[k]
  BY <1>2, <1>3
<1> QED
  BY <1>1, <1>3, <1>4 DEF IsView

\* A view without a level, at a level and a name.
LEMMA ErasedAt ==
    ASSUME NEW v, IsView(v), NEW l \in Nat
    PROVE  /\ IsView(Erased(v, l))
           /\ \A k \in Nat, m \in Name : Erased(v, l)[k][m] = IF k = l THEN Meaningless ELSE v[k][m]
<1>1. DOMAIN NothingThere = Name /\ \A m \in Name : NothingThere[m] = Meaningless
  BY DEF NothingThere
<1>2. DOMAIN v = Nat /\ \A k \in Nat : DOMAIN v[k] = Name
  BY DEF IsView
<1>3. /\ DOMAIN Erased(v, l) = Nat
      /\ \A k \in Nat : Erased(v, l)[k] = IF k = l THEN NothingThere ELSE v[k]
  BY <1>2 DEF Erased
<1> QED
  BY <1>1, <1>2, <1>3 DEF IsView

\* A scope, name by name.
LEMMA WithinIs ==
    ASSUME NEW v, NEW i
    PROVE  Within(v, i) = [n \in Name |-> WithinAt(v, i, n)]
BY DEF Within, WithinAt

\* A meaning put at the current level is the one of the innermost scope.
LEMMA WithinPut ==
    ASSUME NEW v, IsView(v), NEW level, Level(level), NEW n \in Name, NEW e, e # Meaningless,
           NEW i \in Nat \ {0}, NEW m \in Name
    PROVE  WithinAt(Put(v, level, n, e), i, m) =
              IF i = Index(level) /\ m = n THEN e ELSE WithinAt(v, i, m)
<1> DEFINE u == Put(v, level, n, e)
<1>1. \A k \in Nat : u[k][m] = IF k = level /\ m = n THEN e ELSE v[k][m]
  BY PutAt DEF Level
<1> HIDE DEF u
<1>2. /\ u[GLOBAL][m] = IF GLOBAL = level /\ m = n THEN e ELSE v[GLOBAL][m]
      /\ u[PARAM][m] = IF PARAM = level /\ m = n THEN e ELSE v[PARAM][m]
      /\ u[LOCAL_][m] = IF LOCAL_ = level /\ m = n THEN e ELSE v[LOCAL_][m]
      /\ u[i + 3][m] = IF i + 3 = level /\ m = n THEN e ELSE v[i + 3][m]
  BY <1>1 DEF GLOBAL, PARAM, LOCAL_
<1>3. /\ level # PARAM
      /\ i = 1 => (GLOBAL = level <=> i = Index(level))
      /\ i = 2 => (LOCAL_ = level <=> i = Index(level))
      /\ i # 1 /\ i # 2 => (i + 3 = level <=> i = Index(level))
  BY DEF Level, Index, GLOBAL, PARAM, LOCAL_
<1>4. WithinAt(u, i, m) = IF i = Index(level) /\ m = n THEN e ELSE WithinAt(v, i, m)
  <2>1. CASE i = 1
    BY <1>2, <1>3, <2>1 DEF WithinAt
  <2>2. CASE i = 2
    <3>1. i # 1
      BY <2>2
    <3>2. /\ WithinAt(u, i, m) = IF u[LOCAL_][m] # Meaningless THEN u[LOCAL_][m] ELSE u[PARAM][m]
          /\ WithinAt(v, i, m) = IF v[LOCAL_][m] # Meaningless THEN v[LOCAL_][m] ELSE v[PARAM][m]
      BY <2>2, <3>1 DEF WithinAt
    <3>3. u[PARAM][m] = v[PARAM][m]
      BY <1>2, <1>3
    <3>4. u[LOCAL_][m] = IF i = Index(level) /\ m = n THEN e ELSE v[LOCAL_][m]
      BY <1>2, <1>3, <2>2
    <3> QED
      BY <3>2, <3>3, <3>4
  <2>3. CASE i # 1 /\ i # 2
    BY <1>2, <1>3, <2>3 DEF WithinAt
  <2> QED
    BY <2>1, <2>2, <2>3
<1> QED
  BY <1>4 DEF u

\* So a declaration puts it in the last of the open scopes.
LEMMA OpenPut ==
    ASSUME NEW v, IsView(v), NEW level, Level(level), NEW n \in Name, NEW e, e # Meaningless
    PROVE  Open(Put(v, level, n, e), level) = DeclaredIn(Open(v, level), n, e)
<1> DEFINE u == Put(v, level, n, e)
           k == Index(level)
           f == Open(v, level)
           g == Open(u, level)
           h == [f[k] EXCEPT ![n] = e]
<1>1. /\ k \in Nat \ {0} /\ Len(f) = k /\ DOMAIN f = 1 .. k /\ DOMAIN g = 1 .. k
      /\ \A i \in 1 .. k : f[i] = Within(v, i) /\ g[i] = Within(u, i)
  BY OpenIs
<1>2. \A i \in 1 .. k, m \in Name : WithinAt(u, i, m) = IF i = k /\ m = n THEN e ELSE WithinAt(v, i, m)
  <2>1. \A i \in 1 .. k : i \in Nat \ {0}
    BY <1>1
  <2> QED
    BY <2>1, WithinPut
<1> HIDE DEF u, k
<1>3. /\ \A i : Within(u, i) = [m \in Name |-> WithinAt(u, i, m)]
      /\ \A i : Within(v, i) = [m \in Name |-> WithinAt(v, i, m)]
  BY WithinIs
<1>4. \A i \in 1 .. k : i # k => g[i] = f[i]
  <2> SUFFICES ASSUME NEW i \in 1 .. k, i # k
               PROVE  Within(u, i) = Within(v, i)
    BY <1>1
  <2>1. \A m \in Name : WithinAt(u, i, m) = WithinAt(v, i, m)
    BY <1>2
  <2> QED
    BY <1>3, <2>1
<1>5. g[k] = h
  <2>1. k \in 1 .. k
    BY <1>1
  <2>2. f[k] = [m \in Name |-> WithinAt(v, k, m)] /\ g[k] = [m \in Name |-> WithinAt(u, k, m)]
    BY <1>1, <1>3, <2>1
  <2>3. \A m \in Name : WithinAt(u, k, m) = IF m = n THEN e ELSE WithinAt(v, k, m)
    BY <1>2, <2>1
  <2> HIDE DEF f, g
  <2>4. h = [m \in Name |-> IF m = n THEN e ELSE WithinAt(v, k, m)]
    BY <2>2
  <2> QED
    BY <2>2, <2>3, <2>4
<1> HIDE DEF h
<1>6. g = [i \in 1 .. k |-> g[i]] /\ f = [i \in 1 .. k |-> f[i]]
  BY <1>1 DEF Open, k
<1> HIDE DEF f, g
<1>7. g = [f EXCEPT ![k] = h]
  BY <1>1, <1>4, <1>5, <1>6
<1> QED
  BY <1>1, <1>7 DEF DeclaredIn, f, g, h, u

\* Views that agree on the open scopes.
LEMMA OpenAlike ==
    ASSUME NEW u, NEW v, NEW level, Level(level),
           \A i \in 1 .. Index(level), n \in Name : WithinAt(u, i, n) = WithinAt(v, i, n)
    PROVE  Open(u, level) = Open(v, level)
<1>1. \A i \in 1 .. Index(level) : Within(u, i) = Within(v, i)
  <2> SUFFICES ASSUME NEW i \in 1 .. Index(level)
               PROVE  Within(u, i) = Within(v, i)
    OBVIOUS
  <2>1. \A n \in Name : WithinAt(u, i, n) = WithinAt(v, i, n)
    OBVIOUS
  <2>2. /\ Within(u, i) = [n \in Name |-> WithinAt(u, i, n)]
        /\ Within(v, i) = [n \in Name |-> WithinAt(v, i, n)]
    BY WithinIs
  <2> QED
    BY <2>1, <2>2
<1> QED
  BY <1>1 DEF Open

\* One scope more.
LEMMA OpenNext ==
    ASSUME NEW v, NEW l, Level(l), NEW m, Level(m), Index(m) = Index(l) + 1
    PROVE  /\ Open(v, m) = Append(Open(v, l), Within(v, Index(m)))
           /\ Front(Open(v, m)) = Open(v, l)
<1> DEFINE k == Index(l)
           f == Open(v, l)
           g == Open(v, m)
           S == {Within(v, i) : i \in Nat}
           x == Within(v, k + 1)
<1>1. /\ k \in Nat \ {0} /\ f \in Seq(S) /\ Len(f) = k
      /\ \A i \in 1 .. k : f[i] = Within(v, i)
  BY OpenIs
<1>2. /\ g \in Seq(S) /\ Len(g) = k + 1 /\ \A i \in 1 .. (k + 1) : g[i] = Within(v, i)
  BY OpenIs
<1>3. x \in S
  BY <1>1
<1> HIDE DEF k, S, f, g, x
<1>4. g[k + 1] = x /\ \A i \in 1 .. k : g[i] = f[i]
  BY <1>1, <1>2 DEF x
<1>5. g = Append(f, x)
  <2> DEFINE h == Append(f, x)
  <2>1. h \in Seq(S) /\ Len(h) = k + 1 /\ \A i \in 1 .. (k + 1) : h[i] = g[i]
    BY <1>1, <1>2, <1>3, <1>4
  <2> HIDE DEF h
  <2>2. h = g
    BY <1>1, <1>2, <2>1
  <2> QED
    BY <2>2 DEF h
<1>6. Front(g) = f
  <2>1. Front(g) = SubSeq(g, 1, k)
    BY <1>1, <1>2 DEF Front
  <2>2. SubSeq(g, 1, k) \in Seq(S) /\ Len(SubSeq(g, 1, k)) = k
        /\ \A i \in 1 .. k : SubSeq(g, 1, k)[i] = g[i]
    BY <1>1, <1>2
  <2> QED
    BY <1>1, <1>4, <2>1, <2>2
<1> QED
  BY <1>5, <1>6 DEF f, g, x, k

\* A block begins, and ends.
LEMMA OpenEnter ==
    ASSUME NEW v, NEW level, Level(level), level > GLOBAL,
           \A n \in Name : v[level + 1][n] = Meaningless
    PROVE  Open(v, level + 1) = Append(Open(v, level), NothingThere)
<1>1. /\ Level(level + 1) /\ Index(level + 1) = Index(level) + 1
      /\ Index(level + 1) # 1 /\ Index(level + 1) # 2 /\ Index(level + 1) + 3 = level + 1
  BY DEF Level, Index, GLOBAL, LOCAL_
<1>2. Open(v, level + 1) = Append(Open(v, level), Within(v, Index(level + 1)))
  BY <1>1, OpenNext
<1>3. Within(v, Index(level + 1)) = NothingThere
  <2>1. \A n \in Name : WithinAt(v, Index(level + 1), n) = Meaningless
    BY <1>1 DEF WithinAt
  <2>2. Within(v, Index(level + 1)) = [n \in Name |-> WithinAt(v, Index(level + 1), n)]
    BY WithinIs
  <2> QED
    BY <2>1, <2>2 DEF NothingThere
<1> QED
  BY <1>2, <1>3

\* A block ends, and its scope with it.
LEMMA OpenExit ==
    ASSUME NEW v, IsView(v), NEW level, Level(level), level > LOCAL_
    PROVE  Open(Erased(v, level), level - 1) = Front(Open(v, level))
<1> DEFINE u == Erased(v, level)
<1>1. /\ level \in Nat /\ level - 1 \in Nat /\ Level(level - 1)
      /\ Index(level) = Index(level - 1) + 1 /\ Index(level - 1) = level - 4
      /\ Index(level - 1) \in Nat
  BY DEF Level, Index, GLOBAL, LOCAL_
<1>2. \A k \in Nat, n \in Name : u[k][n] = IF k = level THEN Meaningless ELSE v[k][n]
  BY <1>1, ErasedAt
<1> HIDE DEF u
<1>3. ASSUME NEW i \in 1 .. Index(level - 1), NEW n \in Name
      PROVE  WithinAt(u, i, n) = WithinAt(v, i, n)
  <2>1. i \in Nat /\ i + 3 \in Nat /\ i + 3 # level /\ GLOBAL # level /\ PARAM # level /\ LOCAL_ # level
    BY <1>1 DEF GLOBAL, PARAM, LOCAL_
  <2>2. GLOBAL \in Nat /\ PARAM \in Nat /\ LOCAL_ \in Nat
    BY DEF GLOBAL, PARAM, LOCAL_
  <2>3. u[GLOBAL][n] = v[GLOBAL][n] /\ u[PARAM][n] = v[PARAM][n] /\ u[LOCAL_][n] = v[LOCAL_][n]
        /\ u[i + 3][n] = v[i + 3][n]
    BY <1>2, <2>1, <2>2
  <2> QED
    BY <2>3 DEF WithinAt
<1>4. Open(u, level - 1) = Open(v, level - 1)
  BY <1>1, <1>3, OpenAlike
<1>5. Front(Open(v, level)) = Open(v, level - 1)
  BY <1>1, OpenNext
<1> QED
  BY <1>4, <1>5 DEF u

\* What the file scope says.
LEMMA OpenFile ==
    ASSUME NEW u, NEW v, \A n \in Name : u[GLOBAL][n] = v[GLOBAL][n]
    PROVE  Open(u, GLOBAL) = Open(v, GLOBAL)
<1>1. Level(GLOBAL) /\ Index(GLOBAL) = 1
  BY DEF Level, Index, GLOBAL
<1>2. \A i \in 1 .. Index(GLOBAL), n \in Name : WithinAt(u, i, n) = WithinAt(v, i, n)
  BY <1>1 DEF WithinAt
<1> QED
  BY <1>1, <1>2, OpenAlike

\* The parameters, at a level and a name.
LEMMA WithParamsAt ==
    ASSUME NEW v, IsView(v), NEW params, IsParams(params)
    PROVE  /\ IsView(WithParams(v, PARAM, params))
           /\ \A k \in Nat, n \in Name : WithParams(v, PARAM, params)[k][n] =
                 IF k = PARAM /\ n \in ToSet(params) THEN LocalOf("object", PARAM) ELSE v[k][n]
<1>1. CASE params = << >>
  <2>1. ToSet(params) = {}
    BY <1>1 DEF ToSet
  <2> QED
    BY <1>1, <2>1 DEF WithParams
<1>2. ASSUME NEW x \in Name, params = <<x>>
      PROVE  /\ IsView(WithParams(v, PARAM, params))
             /\ \A k \in Nat, n \in Name : WithParams(v, PARAM, params)[k][n] =
                   IF k = PARAM /\ n \in ToSet(params) THEN LocalOf("object", PARAM) ELSE v[k][n]
  <2>1. ToSet(params) = {x} /\ params # << >> /\ params[1] = x
    BY <1>2 DEF ToSet
  <2>2. WithParams(v, PARAM, params) = Put(v, PARAM, x, LocalOf("object", PARAM))
    BY <2>1 DEF WithParams
  <2>3. PARAM \in Nat
    BY DEF PARAM
  <2> QED
    BY <2>1, <2>2, <2>3, PutAt
<1> QED
  BY <1>1, <1>2 DEF IsParams

\* The { of a function opens the scope of its parameters and its body.
LEMMA OpenBody ==
    ASSUME NEW v, NEW params, \A n \in Name : v[LOCAL_][n] = Meaningless,
           \A n \in Name : v[PARAM][n] =
               IF n \in ToSet(params) THEN LocalOf("object", PARAM) ELSE Meaningless
    PROVE  Open(v, LOCAL_) = Append(Open(v, GLOBAL), ParametersOf(params))
<1>1. Level(GLOBAL) /\ Level(LOCAL_) /\ Index(GLOBAL) = 1 /\ Index(LOCAL_) = 2
  BY DEF Level, Index, GLOBAL, LOCAL_
<1>2. Open(v, LOCAL_) = Append(Open(v, GLOBAL), Within(v, 2))
  BY <1>1, OpenNext
<1>3. Within(v, 2) = ParametersOf(params)
  <2>1. \A n \in Name : WithinAt(v, 2, n) =
           IF n \in ToSet(params) THEN LocalOf("object", PARAM) ELSE Meaningless
    BY DEF WithinAt
  <2>2. Within(v, 2) = [n \in Name |-> WithinAt(v, 2, n)]
    BY WithinIs
  <2> QED
    BY <2>1, <2>2 DEF ParametersOf
<1> QED
  BY <1>2, <1>3

\* Its } closes it.
LEMMA OpenBodyEnd ==
    ASSUME NEW v, IsView(v)
    PROVE  Open(Erased(Erased(v, LOCAL_), PARAM), GLOBAL) = Front(Open(v, LOCAL_))
<1> DEFINE u == Erased(v, LOCAL_)
           w == Erased(u, PARAM)
<1>1. GLOBAL \in Nat /\ PARAM \in Nat /\ LOCAL_ \in Nat /\ GLOBAL # PARAM /\ GLOBAL # LOCAL_
  BY DEF GLOBAL, PARAM, LOCAL_
<1>2. IsView(u) /\ \A n \in Name : u[GLOBAL][n] = v[GLOBAL][n]
  BY <1>1, ErasedAt
<1> HIDE DEF u
<1>3. \A n \in Name : w[GLOBAL][n] = u[GLOBAL][n]
  BY <1>1, <1>2, ErasedAt
<1> HIDE DEF w
<1>4. Open(w, GLOBAL) = Open(v, GLOBAL)
  BY <1>2, <1>3, OpenFile
<1>5. Level(GLOBAL) /\ Level(LOCAL_) /\ Index(LOCAL_) = Index(GLOBAL) + 1
  BY DEF Level, Index, GLOBAL, LOCAL_
<1>6. Front(Open(v, LOCAL_)) = Open(v, GLOBAL)
  BY <1>5, OpenNext
<1> QED
  BY <1>4, <1>6 DEF u, w

\* A level and its scope.
LEMMA LevelWithin ==
    ASSUME NEW v, NEW n, NEW l \in Nat, l >= GLOBAL, v[l][n] # Meaningless,
           \A k \in Nat : k > l => v[k][n] = Meaningless
    PROVE  /\ Index(l) \in Nat \ {0} /\ WithinAt(v, Index(l), n) = v[l][n]
           /\ \A i \in Nat : i > Index(l) => WithinAt(v, i, n) = Meaningless
<1>1. GLOBAL \in Nat /\ PARAM \in Nat /\ LOCAL_ \in Nat
  BY DEF GLOBAL, PARAM, LOCAL_
<1>2. CASE l = GLOBAL
  <2>1. Index(l) = 1 /\ PARAM > l /\ LOCAL_ > l
    BY <1>2 DEF Index, GLOBAL, PARAM, LOCAL_
  <2>2. \A i \in Nat : i > 1 => i # 1 /\ i + 3 \in Nat /\ i + 3 > l
    BY <1>2 DEF GLOBAL
  <2>3. v[PARAM][n] = Meaningless /\ v[LOCAL_][n] = Meaningless
        /\ \A i \in Nat : i > 1 => v[i + 3][n] = Meaningless
    BY <1>1, <2>1, <2>2
  <2>4. \A i \in Nat : i > Index(l) => WithinAt(v, i, n) = Meaningless
    BY <2>1, <2>2, <2>3 DEF WithinAt
  <2> QED
    BY <1>2, <2>1, <2>4 DEF WithinAt
<1>3. CASE l # GLOBAL
  <2>1. /\ Index(l) \in Nat /\ Index(l) # 0 /\ Index(l) # 1
        /\ Index(l) = 2 => l = PARAM \/ l = LOCAL_
        /\ Index(l) # 2 => Index(l) + 3 = l
        /\ LOCAL_ > PARAM /\ PARAM # LOCAL_
    BY <1>3 DEF Index, GLOBAL, PARAM, LOCAL_
  <2>2. \A i \in Nat : i > Index(l) => i # 1 /\ i # 2 /\ i + 3 \in Nat /\ i + 3 > l
    BY <1>3 DEF Index, GLOBAL, LOCAL_
  <2>3. \A i \in Nat : i > Index(l) => v[i + 3][n] = Meaningless
    BY <2>2
  <2>4. \A i \in Nat : i > Index(l) => WithinAt(v, i, n) = Meaningless
    BY <2>2, <2>3 DEF WithinAt
  <2>5. l = PARAM => v[LOCAL_][n] = Meaningless
    BY <1>1, <2>1
  <2>6. WithinAt(v, Index(l), n) = v[l][n]
    <3>1. CASE Index(l) = 2
      BY <2>1, <2>5, <3>1 DEF WithinAt
    <3>2. CASE Index(l) # 2
      BY <2>1, <3>2 DEF WithinAt
    <3> QED
      BY <3>1, <3>2
  <2> QED
    BY <2>1, <2>4, <2>6
<1> QED
  BY <1>2, <1>3

\* The innermost scope that says something of n is the one of the symbol that is found.
LEMMA SeenIs ==
    ASSUME NEW s, Sound(s), Level(s.level), NEW n \in Name
    PROVE  Seen(Open(View(s), s.level), n) =
              IF lookup(s, n) = NULL THEN Meaningless ELSE Entity(s, lookup(s, n))
<1> DEFINE v == View(s)
           sc == Open(v, s.level)
           p == lookup(s, n)
           show == Showing(sc, n)
<1>1. /\ Index(s.level) \in Nat \ {0} /\ DOMAIN sc = 1 .. Index(s.level)
      /\ \A i \in 1 .. Index(s.level) : sc[i][n] = WithinAt(v, i, n)
  <2>1. /\ Index(s.level) \in Nat \ {0} /\ DOMAIN sc = 1 .. Index(s.level)
        /\ \A i \in 1 .. Index(s.level) : sc[i] = Within(v, i)
    BY OpenIs
  <2> HIDE DEF sc, v
  <2>2. \A i : Within(v, i)[n] = WithinAt(v, i, n)
    BY WithinIs
  <2> QED
    BY <2>1, <2>2
<1>2. Finds(s, n, p)
  BY LookupMeans
<1> HIDE DEF v, sc, p, show
<1>3. CASE p = NULL
  <2>1. \A l \in Nat : v[l][n] = Meaningless
    BY <1>2, <1>3 DEF Finds, v
  <2>2. \A i \in 1 .. Index(s.level) : WithinAt(v, i, n) = Meaningless
    <3>1. \A i \in 1 .. Index(s.level) : i + 3 \in Nat
      BY <1>1
    <3>2. GLOBAL \in Nat /\ PARAM \in Nat /\ LOCAL_ \in Nat
      BY DEF GLOBAL, PARAM, LOCAL_
    <3> QED
      BY <2>1, <3>1, <3>2 DEF WithinAt
  <2>3. show = {}
    BY <1>1, <2>2 DEF show, Showing
  <2> QED
    BY <1>3, <2>3 DEF Seen, show, sc, v, p
<1>4. CASE p # NULL
  <2> DEFINE l == s.syms[p].scope
             k == Index(l)
  <2>1. /\ l \in Nat /\ l >= GLOBAL /\ l <= s.level
        /\ v[l][n] = Entity(s, p) /\ Entity(s, p) # Meaningless
        /\ \A m \in Nat : m > l => v[m][n] = Meaningless
    <3>1. /\ l \in Nat /\ GLOBAL <= l /\ l <= s.level
          /\ v[l][n] = Entity(s, p) /\ Entity(s, p) # Meaningless
          /\ \A m \in Nat : m > l => v[m][n] = Meaningless
      BY <1>2, <1>4 DEF Finds, v
    <3> HIDE DEF l
    <3> QED
      BY <3>1 DEF GLOBAL
  <2> HIDE DEF l
  <2>2. /\ k \in Nat \ {0} /\ WithinAt(v, k, n) = Entity(s, p)
        /\ \A i \in Nat : i > k => WithinAt(v, i, n) = Meaningless
    BY <2>1, LevelWithin
  <2>3. k <= Index(s.level)
    BY <2>1 DEF Level, Index, GLOBAL, LOCAL_
  <2> HIDE DEF k
  <2>4. k \in 1 .. Index(s.level)
    BY <1>1, <2>2, <2>3
  <2>5. sc[k][n] = Entity(s, p) /\ k \in show
    BY <1>1, <2>1, <2>2, <2>4 DEF show, Showing
  <2>6. \A i \in show : i \in Nat /\ i <= k
    <3> SUFFICES ASSUME NEW i \in show
                 PROVE  i \in Nat /\ i <= k
      OBVIOUS
    <3>1. i \in 1 .. Index(s.level) /\ WithinAt(v, i, n) # Meaningless
      BY <1>1 DEF show, Showing
    <3>2. i \in Nat /\ ~(i > k)
      BY <1>1, <2>2, <3>1
    <3> QED
      BY <2>2, <3>2
  <2>7. (CHOOSE i \in show : \A j \in show : j <= i) = k
    <3> DEFINE m == CHOOSE i \in show : \A j \in show : j <= i
    <3>1. \E i \in show : \A j \in show : j <= i
      BY <2>5, <2>6
    <3>2. m \in show /\ \A j \in show : j <= m
      BY <3>1
    <3> HIDE DEF m
    <3>3. m <= k /\ k <= m /\ m \in Nat
      BY <2>5, <2>6, <3>2
    <3> QED
      BY <2>2, <3>3 DEF m
  <2>8. Seen(sc, n) = sc[k][n]
    BY <2>5, <2>7 DEF Seen, show
  <2> QED
    BY <1>4, <2>5, <2>8 DEF sc, v, p
<1> QED
  BY <1>3, <1>4

\* What the innermost scope says of a name.
LEMMA LastIs ==
    ASSUME NEW v, NEW level, Level(level), NEW n \in Name
    PROVE  Last(Open(v, level))[n] = WithinAt(v, Index(level), n)
<1>1. /\ Index(level) \in Nat \ {0} /\ Len(Open(v, level)) = Index(level)
      /\ \A i \in 1 .. Index(level) : Open(v, level)[i] = Within(v, i)
  BY OpenIs
<1>2. Last(Open(v, level)) = Within(v, Index(level))
  BY <1>1 DEF Last
<1> QED
  BY <1>2, WithinIs

---------------------------------------------------------------------------
(* The end of a declaration, and of the file *)

\* The symbols in the tables are as they were.
LEMMA ViewKept ==
    ASSUME NEW s, Sound(s), NEW s2,
           \A l \in Nat : Bucket(s2, l) = Bucket(s, l),
           \A l \in Nat : \A q \in ToSet(Bucket(s, l)) : Alike(s, s2, q)
    PROVE  View(s2) = View(s)
<1>1. ASSUME NEW l \in Nat, NEW n \in Name
      PROVE  /\ Named(s2, l, n) = Named(s, l, n)
             /\ Named(s, l, n) # NULL => Entity(s2, Named(s, l, n)) = Entity(s, Named(s, l, n))
  <2>1. Bucket(s, l) \in Seq(DOMAIN s.syms)
    BY BucketIs
  <2>2. Named(s2, l, n) = Named(s, l, n)
    <3>1. SameNames(s, s2, Bucket(s, l))
      BY DEF Alike, SameNames
    <3>2. First(s2, Bucket(s, l), n) = First(s, Bucket(s, l), n)
      BY <3>1, FirstSame
    <3> QED
      BY <3>2 DEF Named
  <2>3. Named(s, l, n) # NULL => Named(s, l, n) \in ToSet(Bucket(s, l))
    BY <2>1, FirstIn DEF Named
  <2> QED
    BY <2>2, <2>3 DEF Alike
<1> QED
  BY <1>1 DEF View

\* The arena FUNC is emptied at file scope, and nothing that is said goes with it.
LEMMA DeallocateShown ==
    ASSUME NEW s, Sound(s), s.level = GLOBAL, NEW s2, s2 = deallocate(s)
    PROVE  /\ View(s2) = View(s)
           /\ \A D : Meant(s, D) => Meant(s2, D)
           /\ \A n : lookup(s2, n) = lookup(s, n)
           /\ \A p : Outermost(s, p) => s2.syms[p] = s.syms[p]
<1>1. /\ s2.identifiers = s.identifiers
      /\ \A p : p \in DOMAIN s2.syms <=> Outermost(s, p)
      /\ \A p \in DOMAIN s2.syms : s2.syms[p] = s.syms[p]
  BY Deallocated DEF Purged
<1>2. \A i \in DOMAIN s.identifiers : \A q \in ToSet(s.identifiers[i].bucket) :
         s2.syms[q] = s.syms[q]
  <2> SUFFICES ASSUME NEW i \in DOMAIN s.identifiers, NEW q \in ToSet(s.identifiers[i].bucket)
               PROVE  s2.syms[q] = s.syms[q]
    OBVIOUS
  <2>1. i = 1 /\ Listed(s.syms, s.identifiers[i])
    BY SoundTables
  <2>2. s.identifiers[i].level = GLOBAL
    BY <2>1 DEF Sound, TablesNested
  <2>3. q \in DOMAIN s.syms /\ s.syms[q].scope = GLOBAL
    BY <2>1, <2>2, BucketInMemory
  <2> QED
    BY <1>1, <2>3 DEF Outermost
<1>3. \A l \in Nat : Bucket(s2, l) = Bucket(s, l)
  BY <1>1 DEF Bucket, Tables
<1>4. \A l \in Nat : \A q \in ToSet(Bucket(s, l)) : s2.syms[q] = s.syms[q]
  <2> SUFFICES ASSUME NEW l \in Nat, NEW q \in ToSet(Bucket(s, l))
               PROVE  s2.syms[q] = s.syms[q]
    OBVIOUS
  <2>1. CASE \E i \in DOMAIN s.identifiers : s.identifiers[i].level = l
    BY <1>2, <2>1, BucketIs
  <2>2. CASE \A i \in DOMAIN s.identifiers : s.identifiers[i].level # l
    BY <2>2, BucketIs DEF ToSet
  <2> QED
    BY <2>1, <2>2
<1>5. View(s2) = View(s)
  <2>1. \A l \in Nat : \A q \in ToSet(Bucket(s, l)) : Alike(s, s2, q)
    BY <1>4 DEF Alike, Entity
  <2> QED
    BY <1>3, <2>1, ViewKept
<1>6. \A D : Meant(s, D) => Meant(s2, D)
  BY <1>1 DEF Meant, Outermost
<1>7. ASSUME NEW n PROVE lookup(s2, n) = lookup(s, n)
  <2>1. \A i \in DOMAIN s.identifiers : Find(s2, s.identifiers[i], n) = Find(s, s.identifiers[i], n)
    <3> SUFFICES ASSUME NEW i \in DOMAIN s.identifiers
                 PROVE  First(s2, s.identifiers[i].bucket, n) = First(s, s.identifiers[i].bucket, n)
      BY FindIsFirst
    <3>1. SameNames(s, s2, s.identifiers[i].bucket)
      BY <1>2 DEF SameNames
    <3> QED
      BY <3>1, FirstSame
  <2> DEFINE is(r) == {i \in DOMAIN s.identifiers : Find(r, s.identifiers[i], n) # NULL}
             i0(r) == CHOOSE i \in is(r) : \A j \in is(r) : j <= i
  <2>2. is(s2) = is(s)
    BY <2>1
  <2>3. /\ lookup(s2, n) = IF is(s2) = {} THEN NULL ELSE Find(s2, s.identifiers[i0(s2)], n)
        /\ lookup(s, n) = IF is(s) = {} THEN NULL ELSE Find(s, s.identifiers[i0(s)], n)
    BY <1>1 DEF lookup
  <2>4. i0(s2) = i0(s)
    <3> HIDE DEF is
    <3> QED
      BY <2>2
  <2>5. is(s) # {} => i0(s) \in DOMAIN s.identifiers
    <3>1. is(s) \subseteq 1 .. Len(s.identifiers) /\ Len(s.identifiers) \in Nat
          /\ is(s) \subseteq DOMAIN s.identifiers
      BY SoundTables
    <3> HIDE DEF is
    <3>2. is(s) # {} => \E i \in is(s) : \A j \in is(s) : j <= i
      BY <3>1, GreatestIndex
    <3>3. is(s) # {} => i0(s) \in is(s)
      BY <3>2
    <3> HIDE DEF i0
    <3> QED
      BY <3>1, <3>3
  <2> HIDE DEF is, i0
  <2> QED
    BY <2>1, <2>2, <2>3, <2>4, <2>5
<1>8. \A p : Outermost(s, p) => s2.syms[p] = s.syms[p]
  BY <1>1
<1> QED
  BY <1>5, <1>6, <1>7, <1>8

\* The marks at the end of the file change nothing that is said.
LEMMA FinishedShown ==
    ASSUME NEW s, Sound(s)
    PROVE  View(doglobal(doextern(s))) = View(s)
<1> DEFINE e == doextern(s)
           g == doglobal(e)
<1>1. Sound(e) /\ View(e) = View(s)
  <2>1. Same(s, e)
    BY ExternalsImported
  <2>2. \A p \in DOMAIN s.syms : Agrees(s.syms[p], e.syms[p], Name)
    <3> SUFFICES ASSUME NEW p \in DOMAIN s.syms
                 PROVE  Agrees(s.syms[p], e.syms[p], Name)
      OBVIOUS
    <3>1. s.syms[p] \in Symbol
      BY SoundTables
    <3>2. e.syms = [q \in DOMAIN s.syms |->
                      IF q \in ToSet(Chain(s, s.externals.all, GLOBAL))
                      THEN [s.syms[q] EXCEPT !.imported = TRUE] ELSE s.syms[q]]
      BY DEF doextern, Sound, State
    <3>3. e.syms[p] = [s.syms[p] EXCEPT !.imported = TRUE] \/ e.syms[p] = s.syms[p]
      BY <3>2
    <3> HIDE DEF e
    <3> QED
      BY <3>1, <3>3 DEF Agrees, Symbol
  <2> HIDE DEF e
  <2>3. Restated(s, e, Name)
    BY <2>1, <2>2 DEF Same, Restated
  <2> QED
    BY <2>1, <2>3, SameSound, RestatedMeans
<1> HIDE DEF e
<1>2. Same(e, g)
  BY <1>1, GlobalsFinished
<1>3. \A p \in DOMAIN e.syms : Agrees(e.syms[p], g.syms[p], Name)
  <2> SUFFICES ASSUME NEW p \in DOMAIN e.syms
               PROVE  Agrees(e.syms[p], g.syms[p], Name)
    OBVIOUS
  <2>1. e.syms[p] \in Symbol
    BY <1>1, SoundTables
  <2>2. g.syms = [q \in DOMAIN e.syms |->
                    IF q \notin ToSet(foreach(e, GLOBAL)) THEN e.syms[q]
                    ELSE IF Imported(e.syms[q]) THEN [e.syms[q] EXCEPT !.imported = TRUE]
                    ELSE IF Tentative(e.syms[q]) THEN defglobal(e, q).syms[q] ELSE e.syms[q]]
    BY <1>1 DEF doglobal, Sound, State
  <2> DEFINE y == [e.syms[p] EXCEPT !.emitted = @ + 1, !.defined = TRUE,
                                    !.exported = @ \/ e.syms[p].sclass # "STATIC"]
  <2>3. defglobal(e, p).syms[p] = y
    BY <1>1 DEF defglobal, Sound, State
  <2> HIDE DEF y
  <2>4. \/ g.syms[p] = e.syms[p] \/ g.syms[p] = [e.syms[p] EXCEPT !.imported = TRUE]
        \/ g.syms[p] = y
    BY <2>2, <2>3
  <2>5. Agrees(e.syms[p], y, Name)
    BY <2>1 DEF Agrees, Symbol, y
  <2> HIDE DEF g
  <2> QED
    BY <2>1, <2>4, <2>5 DEF Agrees, Symbol
<1> HIDE DEF g
<1>4. Restated(e, g, Name)
  BY <1>2, <1>3 DEF Same, Restated
<1>5. View(g) = View(e)
  BY <1>1, <1>4, RestatedMeans
<1> QED
  BY <1>1, <1>5 DEF e, g

\* A typedef names a type in the current scope.
LEMMA TypedefShown ==
    ASSUME NEW s, Sound(s), Level(s.level), NEW id \in Name,
           NEW s2, s2 = install(s, NewSymbol(id, s.level, "TYPEDEF", "type",
                                             IF s.level < LOCAL_ THEN "PERM" ELSE "FUNC"))
    PROVE  /\ Leaves(s, s2) /\ View(s2) = Put(View(s), s.level, id, LocalOf("type", s.level))
           /\ \A D : Meant(s, D) => Meant(s2, D)
           /\ Remains(s, s2)
<1> DEFINE arena == IF s.level < LOCAL_ THEN "PERM" ELSE "FUNC"
           x == NewSymbol(id, s.level, "TYPEDEF", "type", arena)
<1>1. s.level \in Nat /\ arena \in {"PERM", "FUNC"} /\ (s.level = GLOBAL => arena = "PERM")
  BY DEF Level, GLOBAL, LOCAL_
<1>2. x.name = id /\ x.kind = "type" /\ x.sclass = "TYPEDEF" /\ x.scope = s.level /\ ~x.defined
      /\ x.arena = arena
  BY DEF NewSymbol
<1>3. s2 = install(s, x)
  OBVIOUS
<1> HIDE DEF x, arena
<1>4. x \in Symbol /\ x.alias = NULL
  BY <1>1, NewSymbolIs DEF x
<1>5. IsNew(s, s2, Fresh(s), x) /\ View(s2) = Put(View(s), s.level, x.name, Says(x))
  BY <1>1, <1>2, <1>3, <1>4, InstallShown
<1>6. Adds(s, s2, Fresh(s), x)
  BY <1>1, <1>2, <1>3, <1>4, Installed
<1>7. Says(x) = LocalOf("type", s.level)
  BY <1>2 DEF Says, Entity, LocalOf
<1>8. \A D : Meant(s, D) => Meant(s2, D)
  BY <1>2, <1>5, MeantNew
<1>9. Remains(s, s2)
  BY <1>5, RemainsAll
<1> QED
  BY <1>2, <1>5, <1>6, <1>7, <1>8, <1>9, LeavesAll

---------------------------------------------------------------------------
(* The steps, in the terms of BlockScopes *)

\* A token behind a declaration.
LEMMA TokenRead ==
    ASSUME unit \in Unit, unit' = unit, NEW s, Sound(s), NEW file, gettok(s, file),
           \A n : lookup(st', n) = lookup(s, n), st'.level = GLOBAL => file
    PROVE  TokenFound'
<1>1. PICK n \in unit.names \cup {"none"} :
         /\ n # "none" /\ file => Find(s, s.identifiers[1], n) # NULL
         /\ t' = n /\ tsym' = IF n = "none" THEN NULL ELSE lookup(s, n)
  BY DEF gettok
<1>2. ASSUME n # "none", file PROVE lookup(s, n) # NULL
  <2>1. n \in Name
    BY <1>2, NamesOfUnit
  <2>2. 1 \in DOMAIN s.identifiers
    BY SoundTables
  <2>3. s.identifiers[1].level \in Nat /\ View(s)[s.identifiers[1].level][n] # Meaningless
    BY <1>1, <1>2, <2>1, <2>2, TableMeans
  <2>4. Finds(s, n, lookup(s, n))
    BY <2>1, LookupMeans
  <2> QED
    BY <2>3, <2>4 DEF Finds
<1> QED
  BY <1>1, <1>2 DEF TokenFound

\* The history variable follows the tables.
LEMMA BecomesOpen ==
    ASSUME NEW s, Sound(s), Becomes(s)
    PROVE  st' = s /\ scopes' = Open(View(s), s.level)
BY ScopesAreOpen DEF Becomes

\* The operators of BlockScopes on the open scopes are those above.
LEMMA Terms ==
    ASSUME ScopesInvariant
    PROVE  /\ Len(scopes) = Index(st.level)
           /\ \A n \in Name : C!Visible(n) = IF lookup(st, n) = NULL THEN Meaningless
                                             ELSE Entity(st, lookup(st, n))
           /\ \A n \in Name : Last(scopes)[n] = WithinAt(View(st), Index(st.level), n)
           /\ \A n, e : C!Declared(n, e) = DeclaredIn(scopes, n, e)
           /\ \A n, e : C!Conflict(n, e) <=> Clash(n, e)
           /\ \A k : C!Linked(k) = Global(k)
           /\ \A k : C!Own(k, Len(scopes)) = LocalOf(k, st.level)
           /\ C!Undeclared = Meaningless
           /\ C!Front(scopes) = Front(scopes)
<1>1. Sound(st) /\ Level(st.level) /\ scopes = Open(View(st), st.level)
  BY DEF ScopesInvariant, TablesInvariant
<1>2. Len(scopes) = Index(st.level) /\ \A n \in Name : Last(scopes)[n] = WithinAt(View(st), Index(st.level), n)
  <2>1. Len(Open(View(st), st.level)) = Index(st.level)
    BY <1>1, OpenIs
  <2>2. \A n \in Name : Last(Open(View(st), st.level))[n] = WithinAt(View(st), Index(st.level), n)
    BY <1>1, LastIs
  <2> QED
    BY <1>1, <2>1, <2>2
<1>3. \A n \in Name : Seen(scopes, n) = IF lookup(st, n) = NULL THEN Meaningless
                                        ELSE Entity(st, lookup(st, n))
  BY <1>1, SeenIs
<1>4. C!Undeclared = Meaningless
  BY DEF C!Undeclared, Meaningless
<1>5. \A n : C!Visible(n) = Seen(scopes, n)
  BY <1>4 DEF C!Visible, C!Declaring, Seen, Showing
<1>6. \A n, e : C!Declared(n, e) = DeclaredIn(scopes, n, e)
  BY DEF C!Declared, DeclaredIn
<1>7. \A n, e : C!Conflict(n, e) <=> Clash(n, e)
  <2> SUFFICES ASSUME NEW n, NEW e
               PROVE  C!Conflict(n, e) <=> Clash(n, e)
    OBVIOUS
  <2> DEFINE old == Last(scopes)[n]
  <2>1. C!Conflict(n, e) <=> old # Meaningless /\ ~(old = e /\ e.scope = 0)
    BY <1>4 DEF C!Conflict, C!Last, Last
  <2> QED
    BY <2>1 DEF Clash
<1>8. /\ \A k : C!Linked(k) = Global(k)
      /\ \A k : C!Own(k, Len(scopes)) = LocalOf(k, st.level)
  BY <1>2 DEF C!Linked, C!Own, Global, LocalOf
<1>9. C!Front(scopes) = Front(scopes)
  BY DEF C!Front, Front
<1> QED
  BY <1>2, <1>3, <1>4, <1>5, <1>6, <1>7, <1>8, <1>9

\* After an error.
LEMMA RejectedShown ==
    ASSUME TablesInvariant', NEW item, Reject(item), NEW error, error
    PROVE  ScopesInvariant' /\ C!Refuse(item, error)
<1>1. Start.st.level = GLOBAL
  BY DEF Start
<1>2. /\ st' = Start.st /\ scopes' = ScopesOf(st') /\ phase' = "rejected" /\ refused' = item
  BY DEF Reject, Becomes
<1>3. Sound(st')
  BY DEF TablesInvariant
<1>4. scopes' = Open(View(st'), st'.level)
  BY <1>2, <1>3, ScopesAreOpen
<1>5. Level(st'.level)
  BY <1>1, <1>2 DEF Level, GLOBAL
<1> QED
  BY <1>2, <1>4, <1>5 DEF ScopesInvariant, C!Refuse

\* A declaration at file scope.
LEMMA GlobalDeclShown ==
    ASSUME ScopesInvariant, TablesInvariant', NEW id \in unit.names,
           NEW sclass \in {"AUTO", "STATIC", "EXTERN"}, NEW kind \in {"object", "function"},
           NEW init \in BOOLEAN, NEW params, params = << >> \/ params[1] \in Name,
           GlobalDecl(id, sclass, kind, init, params)
    PROVE  ScopesInvariant' /\ C!DeclareLinked(id, kind, sclass, init)
<1> DEFINE p0 == prototype(st, params)
           d == dclglobal(p0, id, sclass, kind, init)
           D == definitions \cup Defined(init, id)
<1>1. /\ unit \in Unit /\ Sound(st) /\ st.level = GLOBAL /\ phase = "open" /\ id \in Name
      /\ Level(st.level) /\ scopes = Open(View(st), GLOBAL) /\ MarksMeant
  BY NamesOfUnit DEF ScopesInvariant, TablesInvariant, GlobalDecl, Between
<1>2. /\ d.error \/ ~d.error
      /\ d.error => Reject(<<"linked", id, kind, init>>)
      /\ ~d.error => /\ gettok(d.s, TRUE) /\ Becomes(deallocate(d.s))
                     /\ linkage' = C!LinkageAfter(id, sclass, kind)
                     /\ definitions' = IF init THEN definitions \cup {id} ELSE definitions
                     /\ designated' = Meaningless
                     /\ UNCHANGED <<unit, cfunc, phase, refused>>
  BY DEF GlobalDecl
<1>3. Leaves(st, p0) /\ View(p0) = View(st) /\ Meant(p0, definitions)
  BY <1>1, PrototypeRead, PrototypeShown DEF MarksMeant
<1> HIDE DEF p0
<1>4. Sound(p0) /\ p0.level = GLOBAL
  BY <1>1, <1>3 DEF Leaves
<1>5. Leaves(p0, d.s)
  BY <1>1, <1>4, DeclaredGlobal
<1>6. Len(scopes) = 1 /\ Index(GLOBAL) = 1
  BY <1>1, Terms DEF Index, GLOBAL
<1>7. CASE d.error
  <2>1. \/ View(st)[GLOBAL][id] # Meaningless /\ View(st)[GLOBAL][id] # Global(kind)
        \/ init /\ kind = "object" /\ id \in definitions
    <3> DEFINE e == dclglobal(p0, id, sclass, kind, init)
    <3>1. e.error
      BY <1>7
    <3> HIDE DEF e
    <3> QED
      BY <1>1, <1>3, <1>4, <3>1, DclglobalError DEF e
  <2> HIDE DEF d
  <2>2. Last(scopes)[id] = View(st)[GLOBAL][id]
    BY <1>1, <1>6, Terms DEF WithinAt
  <2>3. Clash(id, Global(kind)) \/ (init /\ id \in definitions)
    BY <2>1, <2>2 DEF Clash
  <2>4. C!Conflict(id, C!Linked(kind)) \/ (init /\ id \in definitions)
    BY <2>3, Terms
  <2>5. /\ ScopesInvariant'
        /\ C!Refuse(<<"linked", id, kind, init>>,
                    C!Conflict(id, C!Linked(kind)) \/ (init /\ id \in definitions))
    BY <1>2, <1>7, <2>4, RejectedShown
  <2> QED
    BY <1>6, <2>5 DEF C!DeclareLinked
<1>8. CASE ~d.error
  <2> DEFINE s == deallocate(d.s)
  <2>1. Declares(p0, d.s, d.p, id, kind, D)
    <3> DEFINE e == dclglobal(p0, id, sclass, kind, init)
    <3>1. ~e.error
      BY <1>8
    <3> HIDE DEF e
    <3> QED
      BY <1>1, <1>3, <1>4, <3>1, DclglobalShown DEF e
  <2> HIDE DEF d, D
  <2>2. Sound(d.s) /\ d.s.level = GLOBAL
    BY <1>4, <1>5 DEF Leaves
  <2>3. /\ Sound(s) /\ s.level = GLOBAL /\ View(s) = View(d.s)
        /\ Meant(d.s, D) => Meant(s, D)
        /\ \A n : lookup(s, n) = lookup(d.s, n)
    BY <2>2, Deallocated, DeallocateShown
  <2> HIDE DEF s
  <2>4. View(s) = Put(View(st), GLOBAL, id, Global(kind)) /\ Meant(s, D)
    BY <1>3, <2>1, <2>3 DEF Declares
  <2>5. st' = s /\ scopes' = Open(View(s), GLOBAL)
    BY <1>2, <1>8, <2>3, BecomesOpen DEF s
  <2>6. definitions' = D /\ definitions' = IF init THEN definitions \cup {id} ELSE definitions
    BY <1>2, <1>8 DEF D, Defined
  <2>7. scopes' = DeclaredIn(scopes, id, Global(kind))
    <3>1. Global(kind) # Meaningless
      BY DEF Global, Meaningless
    <3> QED
      BY <1>1, <2>4, <2>5, <3>1, OpenPut, ViewIs
  <2>8. TokenFound'
    BY <1>1, <1>2, <1>8, <2>2, <2>3, <2>5, TokenRead
  <2>9. MarksMeant'
    BY <1>1, <1>2, <1>8, <2>4, <2>5, <2>6 DEF MarksMeant
  <2>10. ScopesInvariant'
    BY <1>1, <2>3, <2>5, <2>8, <2>9 DEF ScopesInvariant
  <2>11. scopes' = C!Declared(id, C!Linked(kind)) /\ C!Undeclared = Meaningless
    BY <2>7, Terms
  <2>12. C!DeclareLinked(id, kind, sclass, init)
    BY <1>2, <1>6, <1>8, <2>6, <2>11 DEF C!DeclareLinked, C!Read, C!Meant
  <2> QED
    BY <2>10, <2>12
<1> QED
  BY <1>2, <1>7, <1>8

\* It keeps the invariant.
LEMMA ContinuesShown ==
    ASSUME ScopesInvariant, TablesInvariant', phase = "open", NEW s, Continues(s),
           NEW u, Sound(u), NEW file, gettok(u, file), \A n : lookup(s, n) = lookup(u, n),
           s.level = GLOBAL => file
    PROVE  ScopesInvariant' /\ scopes' = Open(View(s), s.level)
<1>1. st' = s /\ scopes' = Open(View(s), s.level)
  BY BecomesOpen DEF Continues
<1>2. unit \in Unit /\ unit' = unit /\ MarksMeant /\ (cfunc = NULL \/ Outermost(st, cfunc))
  BY DEF ScopesInvariant, TablesInvariant, Continues
<1>3. TokenFound'
  BY <1>1, <1>2, TokenRead
<1>4. cfunc # NULL => s.syms[cfunc].name = st.syms[cfunc].name
  BY <1>2 DEF Continues, Remains, Outermost, MarksMeant
<1>5. MarksMeant'
  BY <1>1, <1>2, <1>4 DEF Continues, MarksMeant
<1> QED
  BY <1>1, <1>3, <1>5 DEF ScopesInvariant, Continues

\* A typedef.
LEMMA TypedefShows ==
    ASSUME ScopesInvariant, TablesInvariant', NEW id \in unit.names, Typedef(id)
    PROVE  ScopesInvariant' /\ C!DeclareOwn(id, "type")
<1> DEFINE p == lookup(st, id)
           error == p # NULL /\ st.syms[p].scope = st.level
           s == install(st, NewSymbol(id, st.level, "TYPEDEF", "type",
                                      IF st.level < LOCAL_ THEN "PERM" ELSE "FUNC"))
           u == IF st.level = GLOBAL THEN deallocate(s) ELSE s
           e == LocalOf("type", st.level)
<1>1. /\ unit \in Unit /\ Sound(st) /\ phase = "open" /\ id \in Name /\ IsView(View(st))
      /\ Level(st.level) /\ scopes = Open(View(st), st.level) /\ MarksMeant
  BY NamesOfUnit, ViewIs DEF ScopesInvariant, TablesInvariant, Typedef
<1>2. \/ error /\ Reject(<<"own", id, "type">>)
      \/ /\ ~error /\ gettok(s, st.level = GLOBAL) /\ Becomes(u)
         /\ designated' = Meaningless
         /\ UNCHANGED <<unit, cfunc, phase, linkage, definitions, refused, ownNamed>>
  BY DEF Typedef
<1>3. e # Meaningless /\ e.scope # 0
  BY <1>1 DEF LocalOf, Meaningless, Level, Index, GLOBAL, LOCAL_
<1>4. CASE error /\ Reject(<<"own", id, "type">>)
  <2>1. Finds(st, id, p)
    BY <1>1, LookupMeans
  <2>2. /\ View(st)[st.level][id] # Meaningless
        /\ \A k \in Nat : k > st.level => View(st)[k][id] = Meaningless
    BY <1>4, <2>1 DEF Finds
  <2>3. WithinAt(View(st), Index(st.level), id) # Meaningless
    <3>1. st.level \in Nat /\ st.level >= GLOBAL
      BY <1>1 DEF Level, GLOBAL, LOCAL_
    <3> QED
      BY <2>2, <3>1, LevelWithin
  <2> HIDE DEF e
  <2>4. Clash(id, e)
    BY <1>1, <1>3, <2>3, Terms DEF Clash
  <2>5. C!Conflict(id, C!Own("type", Len(scopes)))
    BY <2>4, Terms DEF e
  <2>6. /\ ScopesInvariant'
        /\ C!Refuse(<<"own", id, "type">>, C!Conflict(id, C!Own("type", Len(scopes))))
    BY <1>4, <2>5, RejectedShown
  <2> QED
    BY <2>6 DEF C!DeclareOwn
<1>5. CASE /\ ~error /\ gettok(s, st.level = GLOBAL) /\ Becomes(u)
           /\ designated' = Meaningless
           /\ UNCHANGED <<unit, cfunc, phase, linkage, definitions, refused, ownNamed>>
  <2>1. /\ Leaves(st, s) /\ View(s) = Put(View(st), st.level, id, e)
        /\ \A D : Meant(st, D) => Meant(s, D)
        /\ Remains(st, s)
    BY <1>1, TypedefShown
  <2> HIDE DEF s, e
  <2>2. Sound(s) /\ s.level = st.level
    BY <2>1 DEF Leaves
  <2>3. /\ Sound(u) /\ u.level = st.level /\ View(u) = View(s)
        /\ \A D : Meant(s, D) => Meant(u, D)
        /\ \A n : lookup(u, n) = lookup(s, n)
        /\ st.level = GLOBAL \/ Remains(st, u)
    <3>1. CASE st.level = GLOBAL
      BY <2>2, <3>1, Deallocated, DeallocateShown
    <3>2. CASE st.level # GLOBAL
      BY <2>1, <2>2, <3>2
    <3> QED
      BY <3>1, <3>2
  <2> HIDE DEF u
  <2>4. Continues(u)
    BY <1>1, <1>5, <2>1, <2>3 DEF Continues
  <2>5. ScopesInvariant' /\ scopes' = Open(View(u), u.level)
    BY <1>1, <1>5, <2>2, <2>3, <2>4, ContinuesShown
  <2>6. scopes' = DeclaredIn(scopes, id, e)
    BY <1>1, <1>3, <2>1, <2>3, <2>5, OpenPut
  <2>7. scopes' = C!Declared(id, C!Own("type", Len(scopes))) /\ C!Undeclared = Meaningless
    BY <2>6, Terms DEF e
  <2>8. C!DeclareOwn(id, "type")
    BY <1>5, <2>7 DEF C!DeclareOwn, C!Read, C!Meant
  <2> QED
    BY <2>5, <2>8
<1> QED
  BY <1>2, <1>4, <1>5

\* A block begins.
LEMMA BlockBeginShown ==
    ASSUME ScopesInvariant, TablesInvariant', BlockBegin
    PROVE  ScopesInvariant' /\ C!OpenBlock
<1> DEFINE s == enterscope(st)
<1>1. /\ unit \in Unit /\ Sound(st) /\ phase = "open" /\ st.level > GLOBAL
      /\ Level(st.level) /\ scopes = Open(View(st), st.level)
  BY DEF ScopesInvariant, TablesInvariant, BlockBegin, Inside
<1>2. /\ Becomes(s) /\ gettok(st', FALSE) /\ designated' = Meaningless
      /\ UNCHANGED <<unit, cfunc, phase, linkage, definitions, refused, ownNamed>>
  BY DEF BlockBegin
<1>3. Sound(s) /\ s.level = st.level + 1 /\ s.syms = st.syms /\ View(s) = View(st)
  BY <1>1, ScopeEntered, EnterShown
<1> HIDE DEF s
<1>4. Level(s.level) /\ s.level # GLOBAL
  BY <1>1, <1>3 DEF Level, GLOBAL, LOCAL_
<1>5. Continues(s)
  BY <1>2, <1>3, <1>4, MeantSame, RemainsAll DEF Continues
<1>6. st' = s
  BY <1>2 DEF Becomes
<1>7. ScopesInvariant' /\ scopes' = Open(View(s), s.level)
  BY <1>1, <1>2, <1>3, <1>4, <1>5, <1>6, ContinuesShown
<1>8. \A n \in Name : View(st)[st.level + 1][n] = Meaningless
  <2>1. st.level + 1 \in Nat /\ st.level + 1 > st.level
    BY <1>1 DEF Level
  <2> QED
    BY <1>1, <2>1, OutsideLevels
<1>9. scopes' = Append(scopes, NothingThere)
  BY <1>1, <1>3, <1>7, <1>8, OpenEnter
<1>10. Len(scopes) > 1
  <2>1. Index(st.level) > 1
    BY <1>1 DEF Level, Index, GLOBAL, LOCAL_
  <2> QED
    BY <2>1, Terms
<1>11. C!Undeclared = Meaningless /\ C!NoNames = NothingThere
  BY Terms DEF C!NoNames, NothingThere
<1> QED
  BY <1>2, <1>7, <1>9, <1>10, <1>11 DEF C!OpenBlock, C!Read, C!Meant

\* A block ends.
LEMMA BlockEndShown ==
    ASSUME ScopesInvariant, TablesInvariant', BlockEnd
    PROVE  ScopesInvariant' /\ C!Close
<1> DEFINE s == exitscope(st)
<1>1. /\ unit \in Unit /\ Sound(st) /\ phase = "open" /\ st.level > GLOBAL /\ st.level > LOCAL_
      /\ Level(st.level) /\ scopes = Open(View(st), st.level) /\ IsView(View(st))
  BY ViewIs DEF ScopesInvariant, TablesInvariant, BlockEnd, Inside
<1>2. /\ Becomes(s) /\ gettok(st', FALSE) /\ designated' = Meaningless
      /\ UNCHANGED <<unit, cfunc, phase, linkage, definitions, refused, ownNamed>>
  BY DEF BlockEnd
<1>3. /\ Sound(s) /\ s.level = st.level - 1 /\ s.syms = st.syms
      /\ View(s) = Erased(View(st), st.level)
  BY <1>1, ScopeLeft, ExitShown
<1> HIDE DEF s
<1>4. Level(s.level) /\ s.level # GLOBAL
  BY <1>1, <1>3 DEF Level, GLOBAL, LOCAL_
<1>5. Continues(s)
  BY <1>2, <1>3, <1>4, MeantSame, RemainsAll DEF Continues
<1>6. st' = s
  BY <1>2 DEF Becomes
<1>7. ScopesInvariant' /\ scopes' = Open(View(s), s.level)
  BY <1>1, <1>2, <1>3, <1>4, <1>5, <1>6, ContinuesShown
<1>8. scopes' = Front(scopes)
  BY <1>1, <1>3, <1>7, OpenExit
<1>9. Len(scopes) > 1
  <2>1. Index(st.level) > 1
    BY <1>1 DEF Level, Index, GLOBAL, LOCAL_
  <2> QED
    BY <2>1, Terms
<1>10. C!Undeclared = Meaningless /\ C!Front(scopes) = Front(scopes)
  BY Terms
<1> QED
  BY <1>2, <1>7, <1>8, <1>9, <1>10 DEF C!Close, C!Read, C!Meant

\* A function ends.
LEMMA FunctionEndShown ==
    ASSUME ScopesInvariant, TablesInvariant', FunctionEnd
    PROVE  ScopesInvariant' /\ C!Close
<1> DEFINE body == exitscope(st)
           marked == IF cfunc = NULL THEN body ELSE defglobal(body, cfunc)
           u == exitscope(marked)
           s == deallocate(u)
<1>1. /\ unit \in Unit /\ Sound(st) /\ phase = "open" /\ st.level > GLOBAL /\ st.level = LOCAL_
      /\ Level(st.level) /\ scopes = Open(View(st), LOCAL_) /\ IsView(View(st))
      /\ MarksMeant /\ (cfunc = NULL \/ Outermost(st, cfunc))
  BY ViewIs DEF ScopesInvariant, TablesInvariant, FunctionEnd, Inside
<1>2. /\ gettok(u, TRUE) /\ Becomes(s) /\ cfunc' = NULL /\ designated' = Meaningless
      /\ UNCHANGED <<unit, phase, linkage, definitions, refused, ownNamed>>
  BY DEF FunctionEnd
<1>3. /\ Sound(body) /\ body.level = PARAM /\ body.syms = st.syms
      /\ View(body) = Erased(View(st), LOCAL_)
  <2>1. /\ Sound(body) /\ body.level = st.level - 1 /\ body.syms = st.syms
        /\ View(body) = Erased(View(st), st.level)
    BY <1>1, ScopeLeft, ExitShown
  <2> HIDE DEF body
  <2> QED
    BY <1>1, <2>1 DEF PARAM, LOCAL_
<1> HIDE DEF body
<1>4. /\ Sound(marked) /\ marked.level = PARAM /\ View(marked) = View(body)
      /\ Meant(marked, definitions)
  <2>1. Meant(body, definitions)
    BY <1>1, <1>3, MeantSame DEF MarksMeant
  <2>2. CASE cfunc = NULL
    BY <1>3, <2>1, <2>2
  <2>3. CASE cfunc # NULL
    <3> DEFINE g == defglobal(body, cfunc)
               N == {body.syms[cfunc].name}
    <3>1. cfunc \in DOMAIN body.syms /\ body.syms[cfunc].name \in definitions
      BY <1>1, <1>3, <2>3 DEF Outermost, MarksMeant
    <3>2. Same(body, g)
      BY <1>3, Marked
    <3>3. Restated(body, g, N)
      BY <1>3, <3>1, MarkedShown
    <3> HIDE DEF g, N
    <3>4. View(g) = View(body) /\ Meant(g, definitions \cup N)
      BY <1>3, <2>1, <3>3, RestatedMeans
    <3>5. definitions \cup N = definitions
      BY <3>1 DEF N
    <3>6. Sound(g) /\ g.level = body.level
      BY <1>3, <3>2, SameSound DEF Same
    <3>7. marked = g
      BY <2>3 DEF g
    <3> HIDE DEF marked
    <3> QED
      BY <1>3, <3>4, <3>5, <3>6, <3>7
  <2> QED
    BY <2>2, <2>3
<1> HIDE DEF marked
<1>5. /\ Sound(u) /\ u.level = GLOBAL /\ View(u) = Erased(View(marked), PARAM)
      /\ Meant(u, definitions)
  <2>1. marked.level > GLOBAL
    BY <1>4 DEF PARAM, GLOBAL
  <2>2. /\ Sound(u) /\ u.level = marked.level - 1 /\ View(u) = Erased(View(marked), marked.level)
        /\ u.syms = marked.syms
    BY <1>4, <2>1, ScopeLeft, ExitShown
  <2> HIDE DEF u
  <2> QED
    BY <1>4, <2>2, MeantSame DEF PARAM, GLOBAL
<1> HIDE DEF u
<1>6. /\ Sound(s) /\ s.level = GLOBAL /\ View(s) = View(u) /\ Meant(s, definitions)
      /\ \A n : lookup(s, n) = lookup(u, n)
  BY <1>5, Deallocated, DeallocateShown
<1> HIDE DEF s
<1>7. st' = s /\ scopes' = Open(View(s), GLOBAL)
  BY <1>2, <1>6, BecomesOpen
<1>8. scopes' = Front(scopes)
  BY <1>1, <1>3, <1>4, <1>5, <1>6, <1>7, OpenBodyEnd
<1>9. TokenFound'
  BY <1>1, <1>2, <1>5, <1>6, <1>7, TokenRead
<1>10. MarksMeant'
  BY <1>2, <1>6, <1>7 DEF MarksMeant
<1>11. Level(GLOBAL)
  BY DEF Level, GLOBAL
<1>12. ScopesInvariant'
  BY <1>6, <1>7, <1>9, <1>10, <1>11 DEF ScopesInvariant
<1>13. Len(scopes) > 1
  <2>1. Index(st.level) > 1
    BY <1>1 DEF Level, Index, GLOBAL, LOCAL_
  <2> QED
    BY <2>1, Terms
<1>14. C!Undeclared = Meaningless /\ C!Front(scopes) = Front(scopes)
  BY Terms
<1> QED
  BY <1>2, <1>8, <1>12, <1>13, <1>14 DEF C!Close, C!Read, C!Meant

\* The parameters are in the view, and nothing else has changed.
LEMMA HeadShown ==
    ASSUME NEW s, Sound(s), s.level = GLOBAL, NEW params, params = << >> \/ params[1] \in Name
    PROVE  /\ HeadOf(s, params, parameters(enterscope(s), params))
           /\ HeadOf(s, params,
                     parameters(enterscope(exitscope(parameters(enterscope(s), params))), params))
<1> DEFINE opened == enterscope(s)
           listed == parameters(opened, params)
           closed == exitscope(listed)
           again == enterscope(closed)
           old == parameters(again, params)
<1>1. /\ Sound(opened) /\ opened.level = PARAM /\ opened.syms = s.syms /\ View(opened) = View(s)
  <2>1. Sound(opened) /\ opened.level = s.level + 1 /\ opened.syms = s.syms /\ View(opened) = View(s)
    BY ScopeEntered, EnterShown
  <2> HIDE DEF opened
  <2> QED
    BY <2>1 DEF GLOBAL, PARAM
<1>2. PARAM > GLOBAL /\ PARAM \in Nat /\ PARAM - 1 = GLOBAL /\ GLOBAL + 1 = PARAM
  BY DEF GLOBAL, PARAM
<1> HIDE DEF opened
<1>3. /\ Leaves(opened, listed) /\ View(listed) = WithParams(View(s), PARAM, params)
      /\ \A D : Meant(s, D) => Meant(listed, D)
      /\ Remains(s, listed)
  BY <1>1, <1>2, ParametersDeclared, ParametersShown, MeantSame DEF Remains
<1> HIDE DEF listed
<1>4. Sound(listed) /\ listed.level = PARAM
  BY <1>1, <1>3 DEF Leaves
<1>5. /\ Sound(closed) /\ closed.level = GLOBAL /\ closed.syms = listed.syms
      /\ View(closed) = View(s)
  <2>1. /\ Sound(closed) /\ closed.level = listed.level - 1 /\ closed.syms = listed.syms
        /\ View(closed) = Erased(View(listed), PARAM)
    BY <1>2, <1>4, ScopeLeft, ExitShown
  <2>2. /\ Erased(View(s), PARAM) = View(s)
        /\ \A n, e : Erased(Put(View(s), PARAM, n, e), PARAM) = View(s)
    BY <1>2, PutErased
  <2> HIDE DEF closed
  <2> QED
    BY <1>2, <1>3, <1>4, <2>1, <2>2 DEF WithParams
<1> HIDE DEF closed
<1>6. /\ Sound(again) /\ again.level = PARAM /\ again.syms = listed.syms /\ View(again) = View(s)
  <2>1. Sound(again) /\ again.level = closed.level + 1 /\ again.syms = closed.syms
        /\ View(again) = View(closed)
    BY <1>5, ScopeEntered, EnterShown
  <2> HIDE DEF again
  <2> QED
    BY <1>2, <1>5, <2>1
<1> HIDE DEF again
<1>7. /\ Leaves(again, old) /\ View(old) = WithParams(View(s), PARAM, params)
      /\ \A D : Meant(listed, D) => Meant(old, D)
      /\ Remains(listed, old)
  BY <1>2, <1>6, ParametersDeclared, ParametersShown, MeantSame DEF Remains
<1> HIDE DEF old
<1>8. Leaves(opened, old) /\ Remains(s, old) /\ old.level = PARAM
  BY <1>1, <1>3, <1>6, <1>7, RemainsAll DEF Leaves, Kept
<1>9. HeadOf(s, params, old)
  BY <1>3, <1>7, <1>8 DEF HeadOf, opened
<1>10. HeadOf(s, params, listed)
  BY <1>3, <1>4 DEF HeadOf, opened
<1> QED
  BY <1>9, <1>10 DEF old, again, closed, listed, opened

\* The scopes at the { of a function.
LEMMA BodyOpen ==
    ASSUME NEW s, Sound(s), s.level = GLOBAL, NEW params, IsParams(params),
           NEW v, v = WithParams(View(s), PARAM, params)
    PROVE  /\ IsView(v) /\ Open(v, LOCAL_) = Append(Open(View(s), GLOBAL), ParametersOf(params))
           /\ \A n \in Name : \A e : Open(Put(v, GLOBAL, n, e), LOCAL_) =
                 Append(Open(Put(View(s), GLOBAL, n, e), GLOBAL), ParametersOf(params))
<1>1. /\ GLOBAL \in Nat /\ PARAM \in Nat /\ LOCAL_ \in Nat /\ PARAM > GLOBAL /\ LOCAL_ > GLOBAL
      /\ PARAM # GLOBAL /\ LOCAL_ # GLOBAL /\ PARAM # LOCAL_
  BY DEF GLOBAL, PARAM, LOCAL_
<1>2. IsView(View(s))
  BY ViewIs
<1>3. \A n \in Name : View(s)[PARAM][n] = Meaningless /\ View(s)[LOCAL_][n] = Meaningless
  BY <1>1, OutsideLevels
<1>4. /\ IsView(v)
      /\ \A k \in Nat, n \in Name : v[k][n] =
            IF k = PARAM /\ n \in ToSet(params) THEN LocalOf("object", PARAM) ELSE View(s)[k][n]
  BY <1>2, WithParamsAt
<1>5. /\ \A n \in Name : v[GLOBAL][n] = View(s)[GLOBAL][n]
      /\ \A n \in Name : v[LOCAL_][n] = Meaningless
      /\ \A n \in Name : v[PARAM][n] =
            IF n \in ToSet(params) THEN LocalOf("object", PARAM) ELSE Meaningless
  BY <1>1, <1>3, <1>4
<1>6. Open(v, LOCAL_) = Append(Open(View(s), GLOBAL), ParametersOf(params))
  <2>1. Open(v, LOCAL_) = Append(Open(v, GLOBAL), ParametersOf(params))
    BY <1>5, OpenBody
  <2>2. Open(v, GLOBAL) = Open(View(s), GLOBAL)
    BY <1>5, OpenFile
  <2> QED
    BY <2>1, <2>2
<1>7. ASSUME NEW m \in Name, NEW e
      PROVE  Open(Put(v, GLOBAL, m, e), LOCAL_) =
                Append(Open(Put(View(s), GLOBAL, m, e), GLOBAL), ParametersOf(params))
  <2> DEFINE u == Put(v, GLOBAL, m, e)
             w == Put(View(s), GLOBAL, m, e)
  <2>1. /\ \A k \in Nat, n \in Name : u[k][n] = IF k = GLOBAL /\ n = m THEN e ELSE v[k][n]
        /\ \A k \in Nat, n \in Name : w[k][n] = IF k = GLOBAL /\ n = m THEN e ELSE View(s)[k][n]
    BY <1>1, <1>2, <1>4, PutAt
  <2> HIDE DEF u, w
  <2>2. /\ \A n \in Name : u[GLOBAL][n] = w[GLOBAL][n]
        /\ \A n \in Name : u[LOCAL_][n] = Meaningless
        /\ \A n \in Name : u[PARAM][n] =
              IF n \in ToSet(params) THEN LocalOf("object", PARAM) ELSE Meaningless
    BY <1>1, <1>5, <2>1
  <2>3. Open(u, LOCAL_) = Append(Open(w, GLOBAL), ParametersOf(params))
    <3>1. Open(u, LOCAL_) = Append(Open(u, GLOBAL), ParametersOf(params))
      BY <2>2, OpenBody
    <3>2. Open(u, GLOBAL) = Open(w, GLOBAL)
      BY <2>2, OpenFile
    <3> QED
      BY <3>1, <3>2
  <2> QED
    BY <2>3 DEF u, w
<1> QED
  BY <1>4, <1>6, <1>7

\* The parameters, in the terms of BlockScopes.
LEMMA ParametersMatch ==
    ASSUME NEW params
    PROVE  C!Parameters(ToSet(params)) = ParametersOf(params)
<1>1. LocalOf("object", PARAM) = C!Own("object", 2) /\ C!Undeclared = Meaningless
  BY DEF LocalOf, C!Own, C!Undeclared, Meaningless, Index, GLOBAL, PARAM, LOCAL_
<1> QED
  BY <1>1 DEF C!Parameters, ParametersOf

\* The parameter lists of a source file.
LEMMA ParamsAre ==
    ASSUME unit \in Unit, NEW params \in Params
    PROVE  /\ IsParams(params) /\ (params = << >> \/ params[1] \in Name)
           /\ ToSet(params) \in SUBSET Name
<1>1. params = << >> \/ \E n \in Name : params = <<n>>
  BY NamesOfUnit DEF Params
<1>2. ASSUME NEW n \in Name, params = <<n>>
      PROVE  params[1] \in Name /\ ToSet(params) \in SUBSET Name
  BY <1>2 DEF ToSet
<1>3. CASE params = << >>
  BY <1>3 DEF IsParams, ToSet
<1> QED
  BY <1>1, <1>2, <1>3 DEF IsParams

\* A function that nobody declares otherwise begins.
LEMMA OtherFunctionShown ==
    ASSUME ScopesInvariant, TablesInvariant', NEW params \in Params, OtherFunctionBegin(params)
    PROVE  ScopesInvariant' /\ C!DefineOther(ToSet(params))
<1> DEFINE h == parameters(enterscope(st), params)
           s == enterscope(h)
<1>1. /\ unit \in Unit /\ Sound(st) /\ phase = "open" /\ st.level = GLOBAL
      /\ Level(st.level) /\ scopes = Open(View(st), GLOBAL)
  BY DEF ScopesInvariant, TablesInvariant, OtherFunctionBegin, Between
<1>2. /\ Becomes(s) /\ gettok(st', FALSE) /\ designated' = Meaningless
      /\ UNCHANGED <<unit, cfunc, phase, linkage, definitions, refused, ownNamed>>
  BY DEF OtherFunctionBegin
<1>3. HeadOf(st, params, h)
  BY <1>1, ParamsAre, HeadShown
<1> HIDE DEF h
<1>4. Sound(h)
  BY <1>3 DEF HeadOf, Leaves
<1>5. /\ Sound(s) /\ s.level = LOCAL_ /\ s.syms = h.syms
      /\ View(s) = WithParams(View(st), PARAM, params)
  <2>1. Sound(s) /\ s.level = h.level + 1 /\ s.syms = h.syms /\ View(s) = View(h)
    BY <1>4, ScopeEntered, EnterShown
  <2> HIDE DEF s
  <2> QED
    BY <1>3, <2>1 DEF HeadOf, PARAM, LOCAL_
<1> HIDE DEF s
<1>6. Level(s.level) /\ s.level # GLOBAL
  BY <1>5 DEF Level, GLOBAL, LOCAL_
<1>7. Meant(st, definitions) => Meant(s, definitions)
  <2>1. Meant(st, definitions) => Meant(h, definitions)
    BY <1>3 DEF HeadOf
  <2> QED
    BY <1>5, <2>1, MeantSame
<1>8. Continues(s)
  BY <1>1, <1>2, <1>5, <1>6, <1>7 DEF Continues
<1>9. st' = s
  BY <1>2 DEF Becomes
<1>10. ScopesInvariant' /\ scopes' = Open(View(s), s.level)
  BY <1>1, <1>2, <1>5, <1>6, <1>8, <1>9, ContinuesShown
<1>11. scopes' = Append(scopes, ParametersOf(params))
  BY <1>1, <1>5, <1>10, BodyOpen, ParamsAre
<1>12. Len(scopes) = 1
  BY <1>1, Terms DEF Index, GLOBAL
<1>13. C!Undeclared = Meaningless
  BY Terms
<1> QED
  BY <1>2, <1>10, <1>11, <1>12, <1>13, ParametersMatch DEF C!DefineOther, C!Read, C!Meant

\* The symbol of a function that is defined is marked.
LEMMA DefinedShown ==
    ASSUME NEW s, Sound(s), NEW f, NEW p, Outermost(s, p), s.syms[p].name = f,
           NEW D, Meant(s, D), NEW s2, s2 = [s EXCEPT !.syms[p].defined = TRUE]
    PROVE  /\ Sound(s2) /\ s2.level = s.level /\ View(s2) = View(s) /\ Meant(s2, D \cup {f})
           /\ s2.syms[p].name = f
<1>1. Same(s, s2)
  BY Marked
<1>2. Restated(s, s2, {f})
  <2>1. Restated(s, [s EXCEPT !.syms[p].defined = TRUE], {s.syms[p].name})
    BY MarkedShown DEF Outermost
  <2> QED
    BY <2>1
<1>3. View(s2) = View(s) /\ Meant(s2, D \cup {f})
  BY <1>2, RestatedMeans
<1>4. s2.syms[p].name = f
  BY <1>2 DEF Restated, Agrees, Outermost
<1> QED
  BY <1>1, <1>3, <1>4, SameSound DEF Same

\* A function begins.
LEMMA FunctionBeginShown ==
    ASSUME ScopesInvariant, TablesInvariant', NEW f \in unit.names,
           NEW sclass \in {"AUTO", "STATIC", "EXTERN"}, NEW params \in Params,
           NEW oldstyle \in BOOLEAN, FunctionBegin(f, sclass, params, oldstyle)
    PROVE  ScopesInvariant' /\ C!Define(f, sclass, ToSet(params))
<1> DEFINE listed == parameters(enterscope(st), params)
           s == IF oldstyle THEN parameters(enterscope(exitscope(listed)), params) ELSE listed
           p == lookup(s, f)
           d == dclglobal(s, f, sclass, "function", FALSE)
           error == d.error \/ (p # NULL /\ s.syms[p].kind = "function" /\ s.syms[p].defined)
           marked == [d.s EXCEPT !.syms[d.p].defined = TRUE]
           body == enterscope(marked)
           e == Global("function")
<1>1. /\ unit \in Unit /\ Sound(st) /\ phase = "open" /\ st.level = GLOBAL /\ f \in Name
      /\ Level(st.level) /\ scopes = Open(View(st), GLOBAL) /\ MarksMeant
  BY NamesOfUnit DEF ScopesInvariant, TablesInvariant, FunctionBegin, Between
<1>2. \/ error /\ Reject(<<"function", f>>)
      \/ /\ ~error /\ gettok(body, FALSE) /\ Becomes(body) /\ cfunc' = d.p
         /\ linkage' = C!LinkageAfter(f, sclass, "function")
         /\ definitions' = definitions \cup {f}
         /\ designated' = Meaningless
         /\ UNCHANGED <<unit, phase, refused>>
  BY DEF FunctionBegin
<1>3. HeadOf(st, params, s)
  <2>1. /\ HeadOf(st, params, listed)
        /\ HeadOf(st, params, parameters(enterscope(exitscope(listed)), params))
    BY <1>1, ParamsAre, HeadShown
  <2> QED
    BY <2>1
<1> HIDE DEF listed, s
<1>4. /\ Sound(s) /\ s.level = PARAM /\ View(s) = WithParams(View(st), PARAM, params)
      /\ Meant(s, definitions)
  BY <1>1, <1>3 DEF HeadOf, Leaves, MarksMeant
<1>5. View(s)[GLOBAL][f] = View(st)[GLOBAL][f]
  <2>1. GLOBAL \in Nat /\ GLOBAL # PARAM
    BY DEF GLOBAL, PARAM
  <2>2. \A k \in Nat, n \in Name : WithParams(View(st), PARAM, params)[k][n] =
           IF k = PARAM /\ n \in ToSet(params) THEN LocalOf("object", PARAM) ELSE View(st)[k][n]
    BY <1>1, ViewIs, WithParamsAt, ParamsAre
  <2> QED
    BY <1>1, <1>4, <2>1, <2>2
<1>6. Len(scopes) = 1 /\ Index(GLOBAL) = 1
  BY <1>1, Terms DEF Index, GLOBAL
<1>7. CASE error /\ Reject(<<"function", f>>)
  <2>1. d.error => Clash(f, e)
    <3> SUFFICES ASSUME d.error PROVE Clash(f, e)
      OBVIOUS
    <3>1. View(s)[GLOBAL][f] # Meaningless /\ View(s)[GLOBAL][f] # Global("function")
      <4> DEFINE x == dclglobal(s, f, sclass, "function", FALSE)
      <4>1. x.error
        OBVIOUS
      <4> HIDE DEF x
      <4> QED
        BY <1>1, <1>4, <4>1, DclglobalError DEF x
    <3>2. Last(scopes)[f] = View(st)[GLOBAL][f]
      BY <1>1, <1>6, Terms DEF WithinAt
    <3> QED
      BY <1>5, <3>1, <3>2 DEF Clash
  <2>2. p # NULL /\ s.syms[p].defined => f \in definitions
    <3>1. Finds(s, f, p)
      BY <1>1, <1>4, LookupMeans
    <3> QED
      BY <1>4, <3>1 DEF Finds, Meant
  <2> HIDE DEF d, p, e
  <2>3. Clash(f, e) \/ f \in definitions
    BY <1>7, <2>1, <2>2
  <2>4. C!Conflict(f, C!Linked("function")) \/ f \in definitions
    BY <2>3, Terms DEF e
  <2>5. /\ ScopesInvariant'
        /\ C!Refuse(<<"function", f>>, C!Conflict(f, C!Linked("function")) \/ f \in definitions)
    BY <1>7, <2>4, RejectedShown
  <2> QED
    BY <1>6, <2>5 DEF C!Define
<1>8. CASE /\ ~error /\ gettok(body, FALSE) /\ Becomes(body) /\ cfunc' = d.p
           /\ linkage' = C!LinkageAfter(f, sclass, "function")
           /\ definitions' = definitions \cup {f}
           /\ designated' = Meaningless
           /\ UNCHANGED <<unit, phase, refused>>
  <2>1. Declares(s, d.s, d.p, f, "function", definitions \cup Defined(FALSE, f))
    <3> DEFINE x == dclglobal(s, f, sclass, "function", FALSE)
    <3>1. ~x.error
      BY <1>8
    <3> HIDE DEF x
    <3> QED
      BY <1>1, <1>4, <3>1, DclglobalShown DEF x
  <2>2. Leaves(s, d.s) /\ Outermost(d.s, d.p)
    BY <1>1, <1>4, DeclaredGlobal
  <2> HIDE DEF d, e
  <2>3. /\ Sound(d.s) /\ d.s.level = PARAM /\ d.s.syms[d.p].name = f
        /\ View(d.s) = Put(View(s), GLOBAL, f, e) /\ Meant(d.s, definitions)
    <3>1. definitions \cup Defined(FALSE, f) = definitions
      BY DEF Defined
    <3> QED
      BY <1>4, <2>1, <2>2, <3>1 DEF Leaves, Declares, e
  <2>4. /\ Sound(marked) /\ marked.level = PARAM /\ View(marked) = View(d.s)
        /\ Meant(marked, definitions \cup {f}) /\ marked.syms[d.p].name = f
    BY <2>2, <2>3, DefinedShown, SMTT(40)
  <2> HIDE DEF marked
  <2>5. /\ Sound(body) /\ body.level = LOCAL_ /\ View(body) = View(marked)
        /\ body.syms = marked.syms
    <3>1. Sound(body) /\ body.level = marked.level + 1 /\ View(body) = View(marked)
          /\ body.syms = marked.syms
      BY <2>4, ScopeEntered, EnterShown
    <3> HIDE DEF body
    <3> QED
      BY <2>4, <3>1 DEF PARAM, LOCAL_
  <2> HIDE DEF body
  <2>6. st' = body /\ scopes' = Open(View(body), LOCAL_)
    BY <1>8, <2>5, BecomesOpen
  <2>7. e # Meaningless
    BY DEF e, Global, Meaningless
  <2>8. scopes' = Append(DeclaredIn(scopes, f, e), ParametersOf(params))
    <3>1. Open(Put(View(s), GLOBAL, f, e), LOCAL_) =
             Append(Open(Put(View(st), GLOBAL, f, e), GLOBAL), ParametersOf(params))
      BY <1>1, <1>4, BodyOpen, ParamsAre
    <3>2. Open(Put(View(st), GLOBAL, f, e), GLOBAL) = DeclaredIn(scopes, f, e)
      BY <1>1, <2>7, OpenPut, ViewIs
    <3> QED
      BY <2>3, <2>4, <2>5, <2>6, <3>1, <3>2
  <2>9. Level(LOCAL_) /\ LOCAL_ # GLOBAL
    BY DEF Level, GLOBAL, LOCAL_
  <2>10. TokenFound'
    BY <1>1, <1>8, <2>5, <2>6, <2>9, TokenRead
  <2>11. MarksMeant'
    <3>1. Meant(body, definitions \cup {f})
      BY <2>4, <2>5, MeantSame
    <3> QED
      BY <1>8, <2>4, <2>5, <2>6, <2>9, <3>1 DEF MarksMeant
  <2>12. ScopesInvariant'
    BY <2>5, <2>6, <2>9, <2>10, <2>11 DEF ScopesInvariant
  <2>13. /\ scopes' = Append(C!Declared(f, C!Linked("function")), C!Parameters(ToSet(params)))
         /\ C!Undeclared = Meaningless
    BY <2>8, Terms, ParametersMatch DEF e
  <2>14. C!Define(f, sclass, ToSet(params))
    BY <1>6, <1>8, <2>13 DEF C!Define, C!Read, C!Meant
  <2> QED
    BY <2>12, <2>14
<1> QED
  BY <1>2, <1>7, <1>8

\* What is refused in a block is an error of the declaration.
LEMMA DcllocalError ==
    ASSUME NEW s, Sound(s), Level(s.level), s.level > GLOBAL, NEW id \in Name, NEW sclass, NEW kind,
           dcllocal(s, id, sclass, kind).error,
           NEW old, old = WithinAt(View(s), Index(s.level), id),
           NEW e, e = LocalEntity(sclass, kind, s.level)
    PROVE  old # Meaningless /\ ~(old = e /\ e.scope = 0)
<1> DEFINE q == lookup(s, id)
           l == s.syms[q].scope
<1>1. /\ q # NULL /\ (l >= s.level \/ (l = PARAM /\ s.level = LOCAL_))
      /\ ~(sclass = "EXTERN" /\ s.syms[q].sclass = "EXTERN" /\ s.syms[q].kind = kind)
  BY DEF dcllocal
<1>2. Finds(s, id, q)
  BY LookupMeans
<1> HIDE DEF q
<1>3. /\ l \in Nat /\ GLOBAL <= l /\ l <= s.level
      /\ View(s)[l][id] = Entity(s, q) /\ Entity(s, q) # Meaningless
      /\ \A k \in Nat : k > l => View(s)[k][id] = Meaningless
  BY <1>1, <1>2 DEF Finds
<1>4. Entity(s, q) = [kind |-> s.syms[q].kind,
                      scope |-> IF \/ s.syms[q].sclass = "EXTERN"
                                   \/ l = GLOBAL /\ s.syms[q].sclass # "TYPEDEF"
                                THEN 0 ELSE Index(l)]
  BY DEF Entity
<1> HIDE DEF l
<1>5. l >= GLOBAL /\ l # GLOBAL /\ Index(l) = Index(s.level) /\ Index(s.level) # 0
  BY <1>1, <1>3 DEF Level, Index, GLOBAL, PARAM, LOCAL_
<1>6. old = Entity(s, q)
  BY <1>3, <1>5, LevelWithin
<1>7. ASSUME old = e, e.scope = 0 PROVE FALSE
  <2>1. CASE sclass = "EXTERN"
    BY <1>1, <1>4, <1>5, <1>6, <1>7, <2>1 DEF LocalEntity, Global
  <2>2. CASE sclass # "EXTERN"
    BY <1>5, <1>7, <2>2 DEF LocalEntity, LocalOf
  <2> QED
    BY <2>1, <2>2
<1> QED
  BY <1>3, <1>6, <1>7

\* A declaration in a block.
LEMMA LocalDeclShown ==
    ASSUME ScopesInvariant, TablesInvariant', NEW id \in unit.names,
           NEW sclass \in {"AUTO", "STATIC", "EXTERN"}, NEW kind \in {"object", "function"},
           sclass = "EXTERN" \/ kind = "object",
           NEW params, params = << >> \/ params[1] \in Name,
           LocalDecl(id, sclass, kind, params)
    PROVE  /\ ScopesInvariant'
           /\ IF sclass = "EXTERN" THEN C!DeclareLinked(id, kind, sclass, FALSE)
              ELSE C!DeclareOwn(id, kind)
<1> DEFINE s == IF kind = "function" THEN prototype(st, params) ELSE st
           d == dcllocal(s, id, sclass, kind)
           item == IF sclass = "EXTERN" THEN <<"linked", id, kind, FALSE>> ELSE <<"own", id, kind>>
           e == LocalEntity(sclass, kind, st.level)
           u == d.s
<1>1. /\ unit \in Unit /\ Sound(st) /\ phase = "open" /\ st.level > GLOBAL /\ id \in Name
      /\ Level(st.level) /\ scopes = Open(View(st), st.level) /\ MarksMeant
  BY NamesOfUnit DEF ScopesInvariant, TablesInvariant, LocalDecl, Inside
<1>2. \/ d.error /\ Reject(item)
      \/ /\ ~d.error /\ gettok(u, FALSE) /\ Becomes(u)
         /\ linkage' = IF sclass = "EXTERN" THEN C!LinkageAfter(id, sclass, kind) ELSE linkage
         /\ designated' = Meaningless
         /\ UNCHANGED <<unit, cfunc, phase, definitions, refused, ownNamed>>
  BY DEF LocalDecl
<1>3. /\ Leaves(st, s) /\ View(s) = View(st) /\ Remains(st, s)
      /\ \A D : Meant(st, D) => Meant(s, D)
  BY <1>1, PrototypeRead, PrototypeShown, LeavesAll, RemainsAll
<1> HIDE DEF s
<1>4. Sound(s) /\ s.level = st.level
  BY <1>3 DEF Leaves
<1>5. Len(scopes) > 1
  <2>1. Index(st.level) > 1
    BY <1>1 DEF Level, Index, GLOBAL, LOCAL_
  <2> QED
    BY <2>1, Terms
<1>6. e = IF sclass = "EXTERN" THEN C!Linked(kind) ELSE C!Own(kind, Len(scopes))
  BY Terms DEF LocalEntity
<1>7. CASE d.error /\ Reject(item)
  <2> DEFINE old == WithinAt(View(s), Index(s.level), id)
  <2>1. old # Meaningless /\ ~(old = e /\ e.scope = 0)
    <3>1. e = LocalEntity(sclass, kind, s.level)
      BY <1>4
    <3> HIDE DEF e, old
    <3> QED
      BY <1>1, <1>4, <1>7, <3>1, DcllocalError DEF old
  <2>2. Last(scopes)[id] = old
    BY <1>1, <1>3, <1>4, Terms
  <2> HIDE DEF e, old, item
  <2>3. Clash(id, e)
    BY <2>1, <2>2 DEF Clash
  <2>4. C!Conflict(id, e)
    BY <2>3, Terms
  <2>5. CASE sclass = "EXTERN"
    <3>1. C!Conflict(id, C!Linked(kind)) \/ (FALSE /\ id \in definitions)
      BY <1>6, <2>4, <2>5
    <3>2. Reject(<<"linked", id, kind, FALSE>>)
      BY <1>7, <2>5 DEF item
    <3>3. /\ ScopesInvariant'
          /\ C!Refuse(<<"linked", id, kind, FALSE>>,
                      C!Conflict(id, C!Linked(kind)) \/ (FALSE /\ id \in definitions))
      BY <3>1, <3>2, RejectedShown
    <3> QED
      BY <2>5, <3>3 DEF C!DeclareLinked
  <2>6. CASE sclass # "EXTERN"
    <3>1. C!Conflict(id, C!Own(kind, Len(scopes)))
      BY <1>6, <2>4, <2>6
    <3>2. Reject(<<"own", id, kind>>)
      BY <1>7, <2>6 DEF item
    <3>3. /\ ScopesInvariant'
          /\ C!Refuse(<<"own", id, kind>>, C!Conflict(id, C!Own(kind, Len(scopes))))
      BY <3>1, <3>2, RejectedShown
    <3> QED
      BY <1>5, <2>6, <3>3 DEF C!DeclareOwn
  <2> QED
    BY <2>5, <2>6
<1>8. CASE /\ ~d.error /\ gettok(u, FALSE) /\ Becomes(u)
           /\ linkage' = IF sclass = "EXTERN" THEN C!LinkageAfter(id, sclass, kind) ELSE linkage
           /\ designated' = Meaningless
           /\ UNCHANGED <<unit, cfunc, phase, definitions, refused, ownNamed>>
  <2>1. Leaves(s, u)
    BY <1>1, <1>4, DeclaredLocal
  <2>2. /\ View(u) = Put(View(s), s.level, id, LocalEntity(sclass, kind, s.level))
        /\ \A D : Meant(s, D) => Meant(u, D)
        /\ Remains(s, u)
    BY <1>1, <1>4, DcllocalShown
  <2> HIDE DEF d, u
  <2>3. Sound(u) /\ u.level = st.level /\ View(u) = Put(View(st), st.level, id, e)
    BY <1>3, <1>4, <2>1, <2>2 DEF Leaves
  <2>4. Continues(u)
    <3>1. Remains(st, u)
      BY <1>3, <2>2, RemainsAll
    <3> QED
      BY <1>1, <1>3, <1>8, <2>2, <2>3, <3>1 DEF Continues
  <2>5. ScopesInvariant' /\ scopes' = Open(View(u), u.level)
    <3>1. u.level # GLOBAL
      BY <1>1, <2>3 DEF Level, GLOBAL
    <3> QED
      BY <1>1, <1>8, <2>3, <2>4, <3>1, ContinuesShown
  <2>6. e # Meaningless
    BY <1>1 DEF LocalEntity, LocalOf, Global, Meaningless
  <2> HIDE DEF e
  <2>7. scopes' = DeclaredIn(scopes, id, e)
    BY <1>1, <2>3, <2>5, <2>6, OpenPut, ViewIs
  <2>8. scopes' = C!Declared(id, e) /\ C!Undeclared = Meaningless
    BY <2>7, Terms
  <2>9. CASE sclass = "EXTERN"
    <3>1. C!DeclareLinked(id, kind, sclass, FALSE)
      BY <1>6, <1>8, <2>8, <2>9 DEF C!DeclareLinked, C!Read, C!Meant
    <3> QED
      BY <2>5, <2>9, <3>1
  <2>10. CASE sclass # "EXTERN"
    <3>1. C!DeclareOwn(id, kind)
      BY <1>5, <1>6, <1>8, <2>8, <2>10 DEF C!DeclareOwn, C!Read, C!Meant
    <3> QED
      BY <2>5, <2>10, <3>1
  <2> QED
    BY <2>9, <2>10
<1> QED
  BY <1>2, <1>7, <1>8

\* An identifier that is declared.
LEMMA UseShown ==
    ASSUME ScopesInvariant, TablesInvariant', Use
    PROVE  ScopesInvariant' /\ C!Use(t) /\ t \in Name
<1> DEFINE s == Used(st, tsym)
<1>1. /\ unit \in Unit /\ Sound(st) /\ phase = "open" /\ t # "none" /\ tsym # NULL
      /\ Level(st.level) /\ scopes = Open(View(st), st.level) /\ TokenFound
  BY DEF ScopesInvariant, TablesInvariant, Use
<1>2. /\ Becomes(s) /\ designated' = Entity(st, tsym) /\ gettok(st', st.level = GLOBAL)
      /\ UNCHANGED <<unit, cfunc, phase, linkage, definitions, refused, ownNamed>>
  BY DEF Use
<1>3. Sound(s) /\ s.level = st.level /\ View(s) = View(st) /\ Remains(st, s)
      /\ \A D : Meant(st, D) => Meant(s, D)
  BY <1>1, UsedSame, SameSound, UsedShown DEF Same
<1> HIDE DEF s
<1>4. Continues(s)
  BY <1>1, <1>2, <1>3 DEF Continues
<1>5. st' = s
  BY <1>2 DEF Becomes
<1>6. ScopesInvariant' /\ scopes' = Open(View(s), s.level)
  BY <1>1, <1>2, <1>3, <1>4, <1>5, ContinuesShown
<1>7. scopes' = scopes
  BY <1>1, <1>3, <1>6
<1>8. t \in Name /\ tsym = lookup(st, t)
  BY <1>1, NamesOfUnit DEF TokenFound
<1>9. C!Visible(t) = Entity(st, tsym)
  BY <1>1, <1>8, Terms
<1>10. Entity(st, tsym) # C!Undeclared
  <2>1. Finds(st, t, tsym)
    BY <1>1, <1>8, LookupMeans
  <2> QED
    BY <1>1, <2>1, Terms DEF Finds
<1> QED
  BY <1>2, <1>6, <1>7, <1>8, <1>9, <1>10 DEF C!Use, C!Read, C!Meant

\* An identifier that is not.
LEMMA UseUndeclaredShown ==
    ASSUME ScopesInvariant, TablesInvariant', UseUndeclared
    PROVE  ScopesInvariant' /\ C!Use(t) /\ t \in Name
<1>1. unit \in Unit /\ t # "none" /\ tsym = NULL /\ TokenFound /\ Reject(<<"use", t>>)
  BY DEF ScopesInvariant, TablesInvariant, UseUndeclared
<1>2. t \in Name /\ lookup(st, t) = NULL
  BY <1>1, NamesOfUnit DEF TokenFound
<1>3. C!Visible(t) = C!Undeclared
  BY <1>2, Terms
<1>4. ScopesInvariant' /\ C!Refuse(<<"use", t>>, C!Visible(t) = C!Undeclared)
  BY <1>1, <1>3, RejectedShown
<1> QED
  BY <1>2, <1>4 DEF C!Use

\* A call declares a function.
LEMMA CallUndeclaredShown ==
    ASSUME ScopesInvariant, TablesInvariant', CallUndeclared
    PROVE  ScopesInvariant' /\ C!CallUndeclared(t) /\ t \in Name
<1> DEFINE p == Fresh(st)
           q == Find(st, st.externals, t)
           s == dclextern(st, t, "function", q)
           u == Used(s, p)
           e == Global("function")
<1>1. /\ unit \in Unit /\ Sound(st) /\ phase = "open" /\ t # "none" /\ tsym = NULL
      /\ Level(st.level) /\ scopes = Open(View(st), st.level) /\ TokenFound
  BY DEF ScopesInvariant, TablesInvariant, CallUndeclared
<1>2. /\ Becomes(u) /\ designated' = Entity(s, p)
      /\ linkage' = C!LinkageAfter(t, "EXTERN", "function")
      /\ gettok(st', FALSE)
      /\ UNCHANGED <<unit, cfunc, phase, definitions, refused, ownNamed>>
  BY DEF CallUndeclared
<1>3. t \in Name /\ lookup(st, t) = NULL /\ st.level # GLOBAL
  BY <1>1, NamesOfUnit DEF TokenFound
<1>4. q = NULL \/ Outermost(st, q)
  BY <1>1, FindSound DEF Outermost
<1> HIDE DEF q
<1>5. /\ Sound(s) /\ View(s) = Put(View(st), st.level, t, e)
      /\ Entity(s, p) = e
      /\ \A D : Meant(st, D) => Meant(s, D)
      /\ Remains(st, s)
  BY <1>1, <1>3, <1>4, DclexternShown
<1>6. s.level = st.level
  BY <1>1, <1>3, <1>4, Aliased DEF Leaves
<1> HIDE DEF s, p
<1>7. Sound(u) /\ u.level = s.level /\ View(u) = View(s) /\ Remains(s, u)
      /\ \A D : Meant(s, D) => Meant(u, D)
  BY <1>5, UsedSame, SameSound, UsedShown DEF Same
<1> HIDE DEF u
<1>8. Continues(u)
  <2>1. Remains(st, u)
    BY <1>5, <1>7, RemainsAll
  <2> QED
    BY <1>1, <1>2, <1>3, <1>5, <1>6, <1>7, <2>1 DEF Continues
<1>9. st' = u
  BY <1>2 DEF Becomes
<1>10. ScopesInvariant' /\ scopes' = Open(View(u), u.level)
  BY <1>1, <1>2, <1>3, <1>6, <1>7, <1>8, <1>9, ContinuesShown
<1>11. e # Meaningless
  BY DEF Global, Meaningless
<1> HIDE DEF e
<1>12. scopes' = DeclaredIn(scopes, t, e)
  BY <1>1, <1>3, <1>5, <1>6, <1>7, <1>10, <1>11, OpenPut, ViewIs
<1>13. /\ scopes' = C!Declared(t, C!Linked("function")) /\ C!Linked("function") = e
       /\ C!Visible(t) = C!Undeclared
  BY <1>3, <1>12, Terms DEF e
<1>14. Len(scopes) > 1
  <2>1. Index(st.level) > 1
    BY <1>1, <1>3 DEF Level, Index, GLOBAL, LOCAL_
  <2> QED
    BY <2>1, Terms
<1> QED
  BY <1>2, <1>3, <1>5, <1>10, <1>13, <1>14 DEF C!CallUndeclared, C!Read, C!Meant

\* The end of the file.
LEMMA FinalizeShown ==
    ASSUME ScopesInvariant, TablesInvariant', finalize
    PROVE  ScopesInvariant' /\ C!End
<1> DEFINE s == doglobal(doextern(st))
<1>1. /\ Sound(st) /\ Level(st.level) /\ scopes = Open(View(st), st.level) /\ st.level = GLOBAL
  BY DEF ScopesInvariant, TablesInvariant, finalize, Between
<1>2. /\ Becomes(s) /\ phase' \in {"ended", "failed"} /\ designated' = Meaningless
      /\ UNCHANGED <<unit, cfunc, t, tsym, linkage, definitions, refused, ownNamed>>
  BY DEF finalize
<1>3. Sound(s) /\ s.level = st.level
  <2>1. Sound(doextern(st)) /\ doextern(st).level = st.level
    BY <1>1, ExternalsImported, SameSound DEF Same
  <2> HIDE DEF s
  <2>2. Same(doextern(st), s)
    BY <2>1, GlobalsFinished DEF s
  <2> QED
    BY <2>1, <2>2, SameSound DEF Same
<1>4. View(s) = View(st)
  BY <1>1, FinishedShown
<1> HIDE DEF s
<1>5. st' = s /\ scopes' = scopes
  BY <1>1, <1>2, <1>3, <1>4, BecomesOpen
<1>6. ScopesInvariant'
  BY <1>1, <1>2, <1>3, <1>4, <1>5 DEF ScopesInvariant
<1>7. Len(scopes) = 1 /\ C!Undeclared = Meaningless
  BY <1>1, Terms DEF Index, GLOBAL
<1> QED
  BY <1>2, <1>5, <1>6, <1>7 DEF C!End, C!Meant

---------------------------------------------------------------------------
(* The refinement *)

\* The tables start with nothing declared.
LEMMA ScopesInit == Init => ScopesInvariant /\ C!Init
<1> SUFFICES ASSUME Init PROVE ScopesInvariant /\ C!Init
  OBVIOUS
<1>1. /\ TablesInvariant /\ st = Start.st /\ scopes = ScopesOf(st) /\ cfunc = NULL
      /\ t = "none" /\ tsym = NULL
      /\ linkage = [n \in Name |-> "none"] /\ definitions = {} /\ designated = Meaningless
      /\ refused = << >> /\ phase = "open"
  BY TablesInit DEF Init, Start
<1>2. /\ st.level = GLOBAL /\ DOMAIN st.syms = {} /\ st.identifiers[1].bucket = << >>
      /\ st.identifiers[1].level = GLOBAL /\ 1 \in DOMAIN st.identifiers
  BY <1>1 DEF Start
<1>3. Sound(st) /\ Level(GLOBAL) /\ Index(GLOBAL) = 1
  BY <1>1 DEF TablesInvariant, Level, Index, GLOBAL
<1>4. scopes = Open(View(st), GLOBAL)
  BY <1>1, <1>2, <1>3, ScopesAreOpen
<1>5. Meant(st, definitions)
  BY <1>2 DEF Meant
<1>6. ScopesInvariant
  BY <1>1, <1>2, <1>3, <1>4, <1>5 DEF ScopesInvariant, TokenFound, MarksMeant
<1>7. \A n \in Name : View(st)[GLOBAL][n] = Meaningless
  <2> SUFFICES ASSUME NEW n \in Name PROVE View(st)[GLOBAL][n] = Meaningless
    OBVIOUS
  <2> DEFINE p == Find(st, st.identifiers[1], n)
  <2>1. st.identifiers[1].bucket \in Seq(Nat) /\ ToSet(st.identifiers[1].bucket) = {}
    BY <1>2 DEF ToSet
  <2>2. p = NULL
    BY <2>1, FindInTable
  <2> HIDE DEF p
  <2>3. View(st)[st.identifiers[1].level][n] = IF p = NULL THEN Meaningless ELSE Entity(st, p)
    BY <1>2, <1>3, TableMeans DEF p
  <2> QED
    BY <1>2, <2>2, <2>3
<1>8. C!Undeclared = Meaningless /\ C!NoNames = NothingThere
  BY <1>6, Terms DEF C!NoNames, NothingThere
<1>9. scopes = <<NothingThere>>
  <2>1. Within(View(st), 1) = NothingThere
    <3>1. \A n \in Name : WithinAt(View(st), 1, n) = Meaningless
      BY <1>7 DEF WithinAt
    <3>2. Within(View(st), 1) = [n \in Name |-> WithinAt(View(st), 1, n)]
      BY WithinIs
    <3> QED
      BY <3>1, <3>2 DEF NothingThere
  <2>2. scopes = [i \in 1 .. 1 |-> Within(View(st), i)]
    BY <1>3, <1>4 DEF Open
  <2> QED
    BY <2>1, <2>2
<1>10. C!Init
  BY <1>1, <1>8, <1>9 DEF C!Init
<1> QED
  BY <1>6, <1>10

\* Every step of the tables is a step of the scopes.
LEMMA ScopesStep ==
    ASSUME ScopesInvariant, [Next]_vars
    PROVE  ScopesInvariant' /\ [C!Next]_(C!absvars)
<1>1. TablesInvariant' /\ unit \in Unit
  BY TablesStep DEF ScopesInvariant, TablesInvariant
<1>2. ASSUME NEW id \in unit.names, NEW sclass \in {"AUTO", "STATIC", "EXTERN"},
             NEW kind \in {"object", "function"}, NEW init \in BOOLEAN,
             NEW params, params = << >> \/ params[1] \in Name,
             GlobalDecl(id, sclass, kind, init, params)
      PROVE  ScopesInvariant' /\ C!Next
  <2>1. ScopesInvariant' /\ C!DeclareLinked(id, kind, sclass, init)
    BY <1>1, <1>2, GlobalDeclShown
  <2>2. phase = "open" /\ id \in Name
    BY <1>1, <1>2, NamesOfUnit DEF GlobalDecl, Between
  <2> QED
    BY <2>1, <2>2 DEF C!Next
<1>3. ASSUME NEW id \in unit.names, NEW sclass \in {"AUTO", "STATIC", "EXTERN"},
             NEW kind \in {"object", "function"}, sclass = "EXTERN" \/ kind = "object",
             NEW params, params = << >> \/ params[1] \in Name,
             LocalDecl(id, sclass, kind, params)
      PROVE  ScopesInvariant' /\ C!Next
  <2>1. /\ ScopesInvariant'
        /\ IF sclass = "EXTERN" THEN C!DeclareLinked(id, kind, sclass, FALSE)
           ELSE C!DeclareOwn(id, kind)
    BY <1>1, <1>3, LocalDeclShown
  <2>2. phase = "open" /\ id \in Name /\ kind \in C!Kind /\ FALSE \in BOOLEAN
    BY <1>1, <1>3, NamesOfUnit DEF LocalDecl, Inside, C!Kind
  <2> QED
    BY <2>1, <2>2 DEF C!Next
<1>4. ASSUME NEW id \in unit.names, NEW sclass \in {"AUTO", "STATIC", "EXTERN"},
             NEW params \in Params, NEW oldstyle \in BOOLEAN,
             FunctionBegin(id, sclass, params, oldstyle)
      PROVE  ScopesInvariant' /\ C!Next
  <2>1. ScopesInvariant' /\ C!Define(id, sclass, ToSet(params))
    BY <1>1, <1>4, FunctionBeginShown
  <2>2. phase = "open" /\ id \in Name /\ ToSet(params) \in SUBSET Name
    BY <1>1, <1>4, NamesOfUnit, ParamsAre DEF FunctionBegin, Between
  <2> QED
    BY <2>1, <2>2 DEF C!Next
<1>5. ASSUME NEW id \in unit.names, Typedef(id)
      PROVE  ScopesInvariant' /\ C!Next
  <2>1. ScopesInvariant' /\ C!DeclareOwn(id, "type")
    BY <1>1, <1>5, TypedefShows
  <2>2. phase = "open" /\ id \in Name /\ "type" \in C!Kind
    BY <1>1, <1>5, NamesOfUnit DEF Typedef, C!Kind
  <2> QED
    BY <2>1, <2>2 DEF C!Next
<1>6. ASSUME NEW params \in Params, OtherFunctionBegin(params)
      PROVE  ScopesInvariant' /\ C!Next
  <2>1. ScopesInvariant' /\ C!DefineOther(ToSet(params))
    BY <1>1, <1>6, OtherFunctionShown
  <2>2. phase = "open" /\ ToSet(params) \in SUBSET Name
    BY <1>1, <1>6, ParamsAre DEF OtherFunctionBegin, Between
  <2> QED
    BY <2>1, <2>2 DEF C!Next
<1>7. ASSUME BlockBegin \/ BlockEnd \/ FunctionEnd \/ finalize
      PROVE  ScopesInvariant' /\ C!Next
  <2>1. ScopesInvariant' /\ (C!OpenBlock \/ C!Close \/ C!End)
    BY <1>1, <1>7, BlockBeginShown, BlockEndShown, FunctionEndShown, FinalizeShown
  <2>2. phase = "open"
    BY <1>7 DEF BlockBegin, BlockEnd, FunctionEnd, finalize, Inside, Between
  <2> QED
    BY <2>1, <2>2 DEF C!Next
<1>8. ASSUME Use \/ UseUndeclared \/ CallUndeclared
      PROVE  ScopesInvariant' /\ C!Next
  <2>1. ScopesInvariant' /\ t \in Name /\ (C!Use(t) \/ C!CallUndeclared(t))
    BY <1>1, <1>8, UseShown, UseUndeclaredShown, CallUndeclaredShown
  <2>2. phase = "open"
    BY <1>8 DEF Use, UseUndeclared, CallUndeclared
  <2> QED
    BY <2>1, <2>2 DEF C!Next
<1>9. ASSUME Stopped \/ UNCHANGED vars
      PROVE  ScopesInvariant' /\ UNCHANGED C!absvars
  <2>1. UNCHANGED vars
    BY <1>9 DEF Stopped
  <2>2. UNCHANGED C!absvars
    BY <2>1 DEF vars, C!absvars
  <2>3. ScopesInvariant'
    BY <1>1, <2>1 DEF vars, ScopesInvariant, TokenFound, MarksMeant
  <2> QED
    BY <2>2, <2>3
<1>10. CASE \E id \in unit.names, sclass \in {"AUTO", "STATIC", "EXTERN"} :
               \/ /\ ~unit.functions
                  /\ \/ \E init \in BOOLEAN : GlobalDecl(id, sclass, "object", init, << >>)
                     \/ LocalDecl(id, sclass, "object", << >>)
               \/ \E params \in Params : GlobalDecl(id, sclass, "function", FALSE, params)
               \/ \E params \in Params, oldstyle \in BOOLEAN : FunctionBegin(id, sclass, params, oldstyle)
  <2>1. PICK id \in unit.names, sclass \in {"AUTO", "STATIC", "EXTERN"} :
           \/ \E init \in BOOLEAN : GlobalDecl(id, sclass, "object", init, << >>)
           \/ LocalDecl(id, sclass, "object", << >>)
           \/ \E params \in Params : GlobalDecl(id, sclass, "function", FALSE, params)
           \/ \E params \in Params, oldstyle \in BOOLEAN : FunctionBegin(id, sclass, params, oldstyle)
    BY <1>10
  <2>2. \A params \in Params : params = << >> \/ params[1] \in Name
    BY <1>1, ParamsAre
  <2>3. ScopesInvariant' /\ C!Next
    <3>1. CASE \E init \in BOOLEAN : GlobalDecl(id, sclass, "object", init, << >>)
      BY <1>2, <3>1
    <3>2. CASE LocalDecl(id, sclass, "object", << >>)
      BY <1>3, <3>2
    <3>3. CASE \E params \in Params : GlobalDecl(id, sclass, "function", FALSE, params)
      BY <1>2, <2>2, <3>3
    <3>4. CASE \E params \in Params, oldstyle \in BOOLEAN : FunctionBegin(id, sclass, params, oldstyle)
      BY <1>4, <3>4
    <3> QED
      BY <2>1, <3>1, <3>2, <3>3, <3>4
  <2> QED
    BY <2>3
<1>11. CASE \E id \in unit.names, params \in Params : LocalDecl(id, "EXTERN", "function", params)
  <2>1. \A params \in Params : params = << >> \/ params[1] \in Name
    BY <1>1, ParamsAre
  <2> QED
    BY <1>3, <1>11, <2>1
<1>12. CASE \E id \in unit.names : Typedef(id)
  BY <1>5, <1>12
<1>13. CASE \E params \in Params : OtherFunctionBegin(params)
  BY <1>6, <1>13
<1>14. CASE BlockBegin \/ BlockEnd \/ FunctionEnd \/ finalize
  BY <1>7, <1>14
<1>15. CASE Use \/ UseUndeclared \/ CallUndeclared
  BY <1>8, <1>15
<1>16. CASE Stopped \/ UNCHANGED vars
  BY <1>9, <1>16
<1> QED
  BY <1>10, <1>11, <1>12, <1>13, <1>14, <1>15, <1>16 DEF Next

\* Whatever is declared and used in whatever order, in blocks, parameter lists and
\* outside, the tables of sym.c, made on demand and found by level, with the symbol
\* looked up one token ahead, give every use the declaration of the innermost scope that
\* has one; declarations with linkage mean one thing; and what lcc refuses is an error.
THEOREM RefinesBlockScopes == Spec => ImplementsBlockScopes
<1>1. ScopesInvariant /\ [Next]_vars => ScopesInvariant' /\ [C!Next]_(C!absvars)
  BY ScopesStep
<1> QED
  BY <1>1, ScopesInit, PTL DEF Spec, ImplementsBlockScopes, C!Spec

---------------------------------------------------------------------------
(* Names with linkage *)

---------------------------------------------------------------------------
(* Linkage *)

\* What is visible is declared in an open scope.
LEMMA VisibleIn ==
    ASSUME ScopesInvariant, NEW n \in Name, C!Visible(n) # C!Undeclared
    PROVE  \E i \in DOMAIN scopes : scopes[i][n] = C!Visible(n)
<1>1. C!Declaring(n) # {}
  BY DEF C!Visible
<1>2. Len(scopes) \in Nat /\ DOMAIN scopes = 1 .. Len(scopes)
  BY OpenIs DEF ScopesInvariant
<1>3. C!Declaring(n) \subseteq 1 .. Len(scopes)
  BY <1>2 DEF C!Declaring
<1>4. \E i \in C!Declaring(n) : \A j \in C!Declaring(n) : j <= i
  BY <1>1, <1>2, <1>3, GreatestIndex
<1> DEFINE i == CHOOSE i \in C!Declaring(n) : \A j \in C!Declaring(n) : j <= i
<1>5. i \in C!Declaring(n)
  BY <1>4
<1>6. C!Visible(n) = scopes[i][n]
  BY <1>1 DEF C!Visible
<1> HIDE DEF i
<1> QED
  BY <1>2, <1>3, <1>5, <1>6

\* The linkage after a declaration.
LEMMA LinkageAfterIs ==
    ASSUME ScopesInvariant, LinkageKnown, NEW n \in Name,
           NEW sclass \in {"AUTO", "STATIC", "EXTERN"}, NEW kind,
           NEW after, after = C!LinkageAfter(n, sclass, kind)
    PROVE  /\ after \in [Name -> {"none", "internal", "external", "both"}]
           /\ \A m \in Name : m # n => after[m] = linkage[m]
           /\ LinkageStep(linkage[n], after[n], sclass)
<1> DEFINE inherits == sclass = "EXTERN" \/ (sclass = "AUTO" /\ kind = "function")
           v == C!Visible(n)
           seen == v # C!Undeclared /\ v = C!Linked(v.kind)
           new == IF sclass = "STATIC" THEN "internal"
                  ELSE IF inherits /\ v # C!Undeclared /\ v = C!Linked(v.kind) THEN linkage[n]
                  ELSE "external"
           l2 == IF linkage[n] \in {"none", new} THEN new ELSE "both"
<1>1. seen => linkage[n] # "none"
  <2> SUFFICES ASSUME seen PROVE linkage[n] # "none"
    OBVIOUS
  <2>1. PICK i \in DOMAIN scopes : scopes[i][n] = v
    BY VisibleIn
  <2>2. C!Undeclared = Meaningless /\ v.scope = 0
    BY Terms DEF C!Linked
  <2> HIDE DEF v
  <2> QED
    BY <2>1, <2>2 DEF LinkageKnown
<1>2. linkage \in [Name -> {"none", "internal", "external", "both"}]
  BY DEF LinkageKnown
<1>3. after = [linkage EXCEPT ![n] = l2]
  BY DEF C!LinkageAfter
<1> HIDE DEF v
<1>4. linkage[n] \in {"none", "internal", "external", "both"}
  BY <1>2
<1>5. l2 \in {"internal", "external", "both"} /\ LinkageStep(linkage[n], l2, sclass)
  BY <1>1, <1>4 DEF LinkageStep
<1> HIDE DEF l2
<1> QED
  BY <1>2, <1>3, <1>5

\* A scope that says e of n in place of what it said, a new scope, a scope less.
LEMMA LinkageKnownAfter ==
    ASSUME ScopesInvariant, LinkageKnown,
           NEW after \in [Name -> {"none", "internal", "external", "both"}],
           \A n \in Name : linkage[n] # "none" => after[n] # "none",
           linkage' = after,
           \/ scopes' = scopes \/ scopes' = Front(scopes)
           \/ \E n \in Name : \E e : /\ scopes' = DeclaredIn(scopes, n, e)
                                     /\ e.scope = 0 => after[n] # "none"
           \/ \E f \in Name : \E e, ps : /\ scopes' = Append(DeclaredIn(scopes, f, e), ps)
                                         /\ e.scope = 0 => after[f] # "none"
                                         /\ \A n \in Name : ps[n] = Meaningless \/ ps[n].scope # 0
           \/ \E ps : /\ scopes' = Append(scopes, ps)
                      /\ \A n \in Name : ps[n] = Meaningless \/ ps[n].scope # 0
    PROVE  LinkageKnown'
<1> DEFINE Fine(x) == x = Meaningless \/ x.scope # 0
           m == Len(scopes)
           Known(sc) == \A i \in DOMAIN sc, n \in Name : Fine(sc[i][n]) \/ after[n] # "none"
<1>1. /\ m \in Nat \ {0} /\ DOMAIN scopes = 1 .. m /\ scopes \in Seq({Within(View(st), i) : i \in Nat})
      /\ \A i \in 1 .. m : DOMAIN scopes[i] = Name
  <2>1. \A i : DOMAIN Within(View(st), i) = Name
    BY DEF Within
  <2>2. \A i \in 1 .. Len(Open(View(st), st.level)) : DOMAIN Open(View(st), st.level)[i] = Name
    BY <2>1, OpenIs, ZenonT(60) DEF ScopesInvariant
  <2> QED
    BY <2>2, OpenIs DEF ScopesInvariant
<1>2. Known(scopes)
  BY DEF LinkageKnown
<1>3. \A n \in Name : \A e : (e.scope = 0 => after[n] # "none") =>
         /\ Known(DeclaredIn(scopes, n, e)) /\ DOMAIN DeclaredIn(scopes, n, e) = 1 .. m
  <2> SUFFICES ASSUME NEW n \in Name, NEW e, e.scope = 0 => after[n] # "none"
               PROVE  Known(DeclaredIn(scopes, n, e)) /\ DOMAIN DeclaredIn(scopes, n, e) = 1 .. m
    OBVIOUS
  <2> DEFINE sc == DeclaredIn(scopes, n, e)
  <2>1. DOMAIN sc = 1 .. m
    BY <1>1 DEF DeclaredIn
  <2>2. \A i \in 1 .. m, k \in Name : sc[i][k] = IF i = m /\ k = n THEN e ELSE scopes[i][k]
    BY <1>1 DEF DeclaredIn
  <2> HIDE DEF sc
  <2>3. ASSUME NEW i \in DOMAIN sc, NEW k \in Name PROVE Fine(sc[i][k]) \/ after[k] # "none"
    <3>1. i \in 1 .. m /\ i \in DOMAIN scopes
      BY <1>1, <2>1
    <3>2. CASE i = m /\ k = n
      <4>1. sc[i][k] = e
        BY <2>2, <3>1, <3>2
      <4> QED
        BY <3>2, <4>1
    <3>3. CASE ~(i = m /\ k = n)
      <4>1. sc[i][k] = scopes[i][k]
        BY <2>2, <3>1, <3>3
      <4>2. Fine(scopes[i][k]) \/ after[k] # "none"
        BY <1>2, <3>1
      <4> QED
        BY <4>1, <4>2
    <3> QED
      BY <3>2, <3>3
  <2> QED
    BY <2>1, <2>3 DEF sc
<1>4. \A sc, ps : Known(sc) /\ sc # << >> /\ DOMAIN sc = 1 .. m /\ sc \in Seq({sc[i] : i \in 1 .. m})
                    /\ (\A n \in Name : Fine(ps[n])) => Known(Append(sc, ps))
  <2> SUFFICES ASSUME NEW sc, NEW ps, Known(sc), DOMAIN sc = 1 .. m, sc \in Seq({sc[i] : i \in 1 .. m}),
                      \A n \in Name : Fine(ps[n])
               PROVE  Known(Append(sc, ps))
    OBVIOUS
  <2>1. Len(sc) = m
    BY <1>1
  <2>2. DOMAIN Append(sc, ps) = 1 .. (m + 1) /\ Append(sc, ps)[m + 1] = ps
        /\ \A i \in 1 .. m : Append(sc, ps)[i] = sc[i]
    BY <1>1, <2>1
  <2>3. \A i \in 1 .. (m + 1) : i = m + 1 \/ i \in 1 .. m
    BY <1>1
  <2> HIDE DEF Fine
  <2> QED
    BY <2>2, <2>3
<1>5. \A sc : DOMAIN sc = 1 .. m => sc # << >>
  BY <1>1
<1>6. Known(scopes')
  <2>1. CASE scopes' = scopes
    BY <1>2, <2>1
  <2>2. CASE scopes' = Front(scopes)
    <3>1. DOMAIN Front(scopes) = 1 .. (m - 1) /\ \A i \in 1 .. (m - 1) : Front(scopes)[i] = scopes[i]
      BY <1>1 DEF Front
    <3>2. \A i \in 1 .. (m - 1) : i \in 1 .. m
      BY <1>1
    <3>3. \A i \in 1 .. m, k \in Name : Fine(scopes[i][k]) \/ after[k] # "none"
      BY <1>1, <1>2
    <3> DEFINE sc == Front(scopes)
    <3> HIDE DEF Fine, sc
    <3>4. ASSUME NEW i \in DOMAIN sc, NEW k \in Name PROVE Fine(sc[i][k]) \/ after[k] # "none"
      <4>1. i \in 1 .. m /\ sc[i] = scopes[i]
        BY <3>1, <3>2 DEF sc
      <4> QED
        BY <3>3, <4>1
    <3>5. Known(sc)
      BY <3>4
    <3> HIDE DEF Known
    <3> QED
      BY <2>2, <3>5 DEF sc
  <2>3. ASSUME NEW n \in Name, NEW e, scopes' = DeclaredIn(scopes, n, e),
               e.scope = 0 => after[n] # "none"
        PROVE  Known(scopes')
    <3>1. Known(DeclaredIn(scopes, n, e))
      BY <1>3, <2>3
    <3> HIDE DEF Known
    <3> QED
      BY <2>3, <3>1
  <2>4. ASSUME NEW f \in Name, NEW e, NEW ps, scopes' = Append(DeclaredIn(scopes, f, e), ps),
               e.scope = 0 => after[f] # "none", \A n \in Name : Fine(ps[n])
        PROVE  Known(scopes')
    <3> DEFINE sc == DeclaredIn(scopes, f, e)
    <3>1. Known(sc) /\ DOMAIN sc = 1 .. m
      BY <1>3, <2>4
    <3>2. sc = [i \in 1 .. m |-> sc[i]]
      BY <1>1 DEF DeclaredIn
    <3> HIDE DEF sc
    <3>3. sc \in Seq({sc[i] : i \in 1 .. m})
      BY <1>1, <3>2
    <3> QED
      BY <1>4, <1>5, <2>4, <3>1, <3>3 DEF sc
  <2>5. ASSUME NEW ps, scopes' = Append(scopes, ps), \A n \in Name : Fine(ps[n])
        PROVE  Known(scopes')
    <3>1. scopes \in Seq({scopes[i] : i \in 1 .. m})
      <4>1. scopes = [i \in 1 .. m |-> scopes[i]]
        BY <1>1
      <4> QED
        BY <1>1, <4>1
    <3>2. scopes # << >>
      BY <1>1, <1>5
    <3> HIDE DEF Fine
    <3>3. Known(Append(scopes, ps))
      BY <1>1, <1>2, <1>4, <2>5, <3>1, <3>2
    <3> QED
      BY <2>5, <3>3
  <2> QED
    BY <2>1, <2>2, <2>3, <2>4, <2>5, ZenonT(60)
<1> QED
  BY <1>6 DEF LinkageKnown

\* Every step of BlockScopes keeps it, unless it refuses.
LEMMA LinkageKnownStep ==
    ASSUME ScopesInvariant, LinkageKnown, C!Next, phase' # "rejected"
    PROVE  LinkageKnown'
<1> DEFINE T == [Name -> {"none", "internal", "external", "both"}]
<1>1. linkage \in T
  BY DEF LinkageKnown
<1>2. \A n \in Name, sclass \in {"AUTO", "STATIC", "EXTERN"} : \A kind :
         /\ C!LinkageAfter(n, sclass, kind) \in T
         /\ C!LinkageAfter(n, sclass, kind)[n] # "none"
         /\ \A k \in Name : linkage[k] # "none" => C!LinkageAfter(n, sclass, kind)[k] # "none"
  BY LinkageAfterIs DEF LinkageStep
<1>3. /\ C!Undeclared = Meaningless /\ C!Front(scopes) = Front(scopes)
      /\ \A n, e : C!Declared(n, e) = DeclaredIn(scopes, n, e)
      /\ \A k : C!Linked(k).scope = 0
  BY Terms DEF C!Linked
<1>4. ASSUME NEW n \in Name, NEW k \in C!Kind, C!DeclareOwn(n, k) PROVE LinkageKnown'
  <2>1. linkage' = linkage /\ scopes' = DeclaredIn(scopes, n, C!Own(k, Len(scopes)))
    BY <1>3, <1>4 DEF C!DeclareOwn, C!Read, C!Refuse
  <2>2. C!Own(k, Len(scopes)).scope # 0
    <3>1. Len(scopes) # 0
      BY OpenIs DEF ScopesInvariant
    <3> QED
      BY <3>1 DEF C!Own
  <2> HIDE DEF T
  <2> QED
    BY <1>1, <2>1, <2>2, LinkageKnownAfter DEF T
<1>5. ASSUME NEW n \in Name, NEW k, NEW sclass \in {"AUTO", "STATIC", "EXTERN"}, NEW defines,
             C!DeclareLinked(n, k, sclass, defines)
      PROVE  LinkageKnown'
  <2>1. linkage' = C!LinkageAfter(n, sclass, k) /\ scopes' = DeclaredIn(scopes, n, C!Linked(k))
    BY <1>3, <1>5 DEF C!DeclareLinked, C!Read, C!Refuse
  <2> QED
    BY <1>2, <2>1, LinkageKnownAfter
<1>6. \A params \in SUBSET Name : \A n \in Name :
         C!Parameters(params)[n] = Meaningless \/ C!Parameters(params)[n].scope # 0
  BY <1>3 DEF C!Parameters, C!Own
<1>7. ASSUME NEW f \in Name, NEW sclass \in {"AUTO", "STATIC", "EXTERN"}, NEW params \in SUBSET Name,
             C!Define(f, sclass, params)
      PROVE  LinkageKnown'
  <2>1. /\ linkage' = C!LinkageAfter(f, sclass, "function")
        /\ scopes' = Append(DeclaredIn(scopes, f, C!Linked("function")), C!Parameters(params))
    BY <1>3, <1>7 DEF C!Define, C!Read, C!Refuse
  <2> DEFINE after == C!LinkageAfter(f, sclass, "function")
  <2>2. /\ after \in T /\ after[f] # "none"
        /\ \A k \in Name : linkage[k] # "none" => after[k] # "none"
    BY <1>2
  <2> HIDE DEF after
  <2>3. \E g \in Name : \E e, ps : /\ scopes' = Append(DeclaredIn(scopes, g, e), ps)
                                   /\ e.scope = 0 => after[g] # "none"
                                   /\ \A n \in Name : ps[n] = Meaningless \/ ps[n].scope # 0
    BY <1>6, <2>1, <2>2
  <2> QED
    BY <2>1, <2>2, <2>3, LinkageKnownAfter DEF after
<1>8. ASSUME NEW params \in SUBSET Name, C!DefineOther(params) PROVE LinkageKnown'
  <2>1. linkage' = linkage /\ scopes' = Append(scopes, C!Parameters(params))
    BY <1>8 DEF C!DefineOther, C!Read
  <2>2. \E ps : /\ scopes' = Append(scopes, ps)
                /\ \A n \in Name : ps[n] = Meaningless \/ ps[n].scope # 0
    BY <1>6, <2>1
  <2> HIDE DEF T
  <2> QED
    BY <1>1, <2>1, <2>2, LinkageKnownAfter DEF T
<1>9. ASSUME C!OpenBlock \/ C!Close \/ C!End PROVE LinkageKnown'
  <2>1. \A n \in Name : C!NoNames[n] = Meaningless
    BY <1>3 DEF C!NoNames
  <2>2. /\ linkage' = linkage
        /\ scopes' = Append(scopes, C!NoNames) \/ scopes' = Front(scopes) \/ scopes' = scopes
    BY <1>3, <1>9 DEF C!OpenBlock, C!Close, C!End, C!Read
  <2>3. CASE scopes' = Append(scopes, C!NoNames)
    <3>1. \E ps : /\ scopes' = Append(scopes, ps)
                  /\ \A n \in Name : ps[n] = Meaningless \/ ps[n].scope # 0
      BY <2>1, <2>3
    <3> HIDE DEF T
    <3> QED
      BY <1>1, <2>2, <3>1, LinkageKnownAfter DEF T
  <2>4. CASE scopes' = Front(scopes) \/ scopes' = scopes
    BY <1>1, <2>2, <2>4, LinkageKnownAfter
  <2> QED
    BY <2>2, <2>3, <2>4
<1>10. ASSUME NEW n \in Name, C!Use(n) \/ C!CallUndeclared(n) PROVE LinkageKnown'
  <2>1. CASE C!Use(n)
    <3>1. linkage' = linkage /\ scopes' = scopes
      BY <2>1 DEF C!Use, C!Read, C!Refuse
    <3> QED
      BY <1>1, <3>1, LinkageKnownAfter
  <2>2. CASE C!CallUndeclared(n)
    <3>1. /\ linkage' = C!LinkageAfter(n, "EXTERN", "function")
          /\ scopes' = DeclaredIn(scopes, n, C!Linked("function"))
      BY <1>3, <2>2 DEF C!CallUndeclared, C!Read
    <3> QED
      BY <1>2, <3>1, LinkageKnownAfter
  <2> QED
    BY <1>10, <2>1, <2>2
<1> QED
  BY <1>4, <1>5, <1>7, <1>8, <1>9, <1>10 DEF C!Next

---------------------------------------------------------------------------
(* What leaves a name alone *)

\* Nothing is disturbed when nothing changes, nor by two steps of which none disturbs.
LEMMA UndisturbedTwice ==
    ASSUME NEW s, NEW s2, NEW s3, NEW n
    PROVE  /\ Undisturbed(s, s, n)
           /\ Undisturbed(s, s2, n) /\ Undisturbed(s2, s3, n) => Undisturbed(s, s3, n)
BY DEF Undisturbed, SameMarks

\* The same for all names.
LEMMA QuietTwice ==
    ASSUME NEW s, NEW s2, NEW s3
    PROVE  /\ Quiet(s, s)
           /\ Quiet(s, s2) /\ Quiet(s2, s3) => Quiet(s, s3)
BY UndisturbedTwice DEF Quiet

\* One symbol stays one symbol.
LEMMA UndisturbedOne ==
    ASSUME NEW s, NEW s2, NEW n, Undisturbed(s, s2, n)
    PROVE  /\ OneSymbol(s, n) => OneSymbol(s2, n)
           /\ \A p : IsOuter(s2, p, n) <=> IsOuter(s, p, n)
<1>1. \A p : IsOuter(s2, p, n) <=> IsOuter(s, p, n)
  BY DEF Undisturbed, IsOuter, SameMarks
<1>2. ASSUME OneSymbol(s, n) PROVE OneSymbol(s2, n)
  <2>1. \A p : IsOf(s2, p, n) => p \in Globals(s2) \cup Externals(s2)
    BY <1>2 DEF Undisturbed, OneSymbol
  <2>2. \A p : IsOf(s2, p, n) /\ p \in Externals(s2) => s2.syms[p].sclass = "EXTERN" /\ ~s2.syms[p].defined
    BY <1>2 DEF Undisturbed, OneSymbol, SameMarks
  <2>3. ASSUME NEW p, NEW q, IsOf(s2, p, n), IsOf(s2, q, n),
               \/ p \in Globals(s2) /\ q \in Globals(s2)
               \/ IsOuter(s2, p, n) /\ IsOuter(s2, q, n)
        PROVE  p = q
    <3>1. IsOf(s, p, n) /\ IsOf(s, q, n)
      BY <2>3 DEF Undisturbed
    <3>2. \/ p \in Globals(s) /\ q \in Globals(s)
          \/ IsOuter(s, p, n) /\ IsOuter(s, q, n)
      BY <1>1, <2>3, <3>1 DEF Undisturbed
    <3> QED
      BY <1>2, <3>1, <3>2 DEF OneSymbol
  <2> QED
    BY <2>1, <2>2, <2>3 DEF OneSymbol
<1> QED
  BY <1>1, <1>2

\* A name that is left alone is sound in the same way, and still when it has come to
\* have both linkages.
LEMMA UndisturbedSound ==
    ASSUME NEW s, NEW s2, NEW n, Undisturbed(s, s2, n),
           NEW l, NEW D, NEW c, NameSound(s, n, l, D, c),
           NEW l2, l2 = l \/ (l # "none" /\ l2 = "both"),
           NEW D2, n \in D2 <=> n \in D,
           NEW c2, \A p : IsOf(s, p, n) => (p = c2 <=> p = c)
    PROVE  NameSound(s2, n, l2, D2, c2)
<1>1. OneSymbol(s2, n) /\ \A p : IsOuter(s2, p, n) <=> IsOuter(s, p, n)
  BY UndisturbedOne DEF NameSound
<1>2. l2 # "none" <=> \E p : IsOuter(s2, p, n)
  BY <1>1 DEF NameSound
<1>3. \A p : IsOuter(s, p, n) => SameMarks(s.syms[p], s2.syms[p]) /\ (p = c2 <=> p = c)
  BY DEF IsOuter, Undisturbed
<1>4. n \in D2 => \E p : IsOuter(s2, p, n) /\ s2.syms[p].defined
  BY <1>1, <1>3 DEF NameSound, SameMarks
<1>5. ASSUME NEW p, IsOuter(s2, p, n) PROVE Printed(s2.syms[p], l2, p = c2)
  <2>1. Printed(s.syms[p], l, p = c)
    BY <1>1, <1>5 DEF NameSound
  <2>2. SameMarks(s.syms[p], s2.syms[p]) /\ (p = c2 <=> p = c)
    BY <1>1, <1>3, <1>5
  <2> QED
    BY <2>1, <2>2 DEF Printed, SameMarks
<1>6. ASSUME IsOf(s2, c2, n) PROVE IsOuter(s2, c2, n) /\ s2.syms[c2].defined
  <2>1. IsOf(s, c2, n) /\ c2 = c
    BY <1>6 DEF Undisturbed
  <2>2. IsOuter(s, c2, n) /\ s.syms[c2].defined
    BY <2>1 DEF NameSound
  <2> QED
    BY <1>1, <1>3, <2>2 DEF SameMarks
<1> QED
  BY <1>1, <1>2, <1>4, <1>5, <1>6 DEF NameSound

\* The globals are in the first table, the externals in theirs.
LEMMA PlacesIn ==
    ASSUME NEW s, Sound(s)
    PROVE  /\ 1 \in DOMAIN s.identifiers /\ s.identifiers[1].level = GLOBAL
           /\ Globals(s) \cup Externals(s) \subseteq DOMAIN s.syms
           /\ Globals(s) \cap Externals(s) = {}
           /\ DOMAIN s = {"level", "syms", "identifiers", "externals"}
<1>1. 1 \in DOMAIN s.identifiers /\ s.identifiers[1].level = GLOBAL
  BY SoundTables DEF Sound, TablesNested
<1>2. Globals(s) \subseteq DOMAIN s.syms /\ Externals(s) \subseteq DOMAIN s.syms
  BY <1>1, BucketInMemory DEF Sound, AllListed, Globals, Externals
<1> QED
  BY <1>1, <1>2 DEF Sound, State, AllListed, Globals, Externals

\* The same tables, and symbols that only differ in what no name depends on.
LEMMA MarksQuiet ==
    ASSUME NEW s, NEW s2, s2.identifiers[1] = s.identifiers[1], s2.externals = s.externals,
           DOMAIN s2.syms = DOMAIN s.syms,
           \A p \in DOMAIN s.syms : /\ s2.syms[p].name = s.syms[p].name
                                    /\ s2.syms[p].scope = s.syms[p].scope
                                    /\ SameMarks(s.syms[p], s2.syms[p])
    PROVE  Quiet(s, s2)
BY DEF Quiet, Undisturbed, IsOf, Globals, Externals

\* The same symbols.
LEMMA SymsQuiet ==
    ASSUME NEW s, NEW s2, s2.identifiers[1] = s.identifiers[1], s2.externals = s.externals,
           s2.syms = s.syms
    PROVE  Quiet(s, s2)
BY MarksQuiet DEF SameMarks

\* Scopes are entered and left.
LEMMA ScopesQuiet ==
    ASSUME NEW s, Sound(s)
    PROVE  /\ Quiet(s, enterscope(s))
           /\ s.level > GLOBAL => Quiet(s, exitscope(s))
<1>1. Quiet(s, enterscope(s))
  BY PlacesIn, SymsQuiet DEF enterscope
<1>2. ASSUME s.level > GLOBAL PROVE Quiet(s, exitscope(s))
  <2> DEFINE s2 == exitscope(s)
  <2>1. Sound(s2) /\ s2.syms = s.syms /\ Dropped(s, s2)
    BY <1>2, ScopeLeft
  <2>2. s2.externals = s.externals
    BY PlacesIn DEF exitscope
  <2> HIDE DEF s2
  <2>3. s2.identifiers[1] = s.identifiers[1]
    BY <2>1, PlacesIn DEF Dropped
  <2> QED
    BY <2>1, <2>2, <2>3, SymsQuiet DEF s2
<1> QED
  BY <1>1, <1>2

\* What is declared in a block.
LEMMA InstallQuiet ==
    ASSUME NEW s, Sound(s), s.level > GLOBAL, NEW p \in Symbol, p.scope = s.level, p.alias = NULL,
           NEW s2, s2 = install(s, p)
    PROVE  Quiet(s, s2)
<1> DEFINE n == Fresh(s)
           old == s.identifiers
           m == Len(old)
           ids == IF Last(old).level < p.scope THEN Append(old, NewTable(s, p.scope)) ELSE old
           new == Linked(Last(ids), n)
<1>1. /\ DOMAIN s = {"level", "syms", "identifiers", "externals"} /\ old \in Seq(Table)
      /\ m \in Nat \ {0} /\ DOMAIN old = 1 .. m /\ old[1].level = GLOBAL
      /\ Last(old) = old[m] /\ s.level \in Nat
  BY SoundTables, PlacesIn DEF Sound, State, Last
<1>2. /\ s2.externals = s.externals /\ s2.identifiers = Append(Front(ids), new)
      /\ \E x : s2.syms = With(s.syms, n, [p EXCEPT !.up = x])
  BY <1>1 DEF install
<1>3. n \notin DOMAIN s.syms /\ GLOBAL \in Nat
  BY FreshIsFree DEF Sound, GLOBAL
<1>4. IsNew(s, s2, n, p)
  <2> HIDE DEF ids, new
  <2> QED
    BY <1>2, NewIs
<1>5. s2.identifiers[1] = old[1]
  <2> DEFINE k == Len(ids)
  <2>1. k \in Nat /\ k > 1 /\ ids[1] = old[1]
    <3>1. CASE Last(old).level < p.scope
      <4>1. ids = Append(old, NewTable(s, p.scope))
        BY <3>1
      <4> QED
        BY <1>1, <4>1
    <3>2. CASE ~(Last(old).level < p.scope)
      <4>1. ids = old
        BY <3>2
      <4>2. m # 1
        BY <1>1, <1>3, <3>2
      <4> QED
        BY <1>1, <4>1, <4>2
    <3> QED
      BY <3>1, <3>2
  <2>2. Front(ids) = [i \in 1 .. (k - 1) |-> ids[i]]
    BY DEF Front
  <2> HIDE DEF ids, new, k
  <2>3. 1 \in 1 .. (k - 1) /\ k - 1 \in Nat
    BY <2>1
  <2>4. Len(Front(ids)) = k - 1
    BY <2>2, <2>3
  <2>5. Append(Front(ids), new)[1] = Front(ids)[1]
    <3>1. Front(ids) \in Seq({ids[i] : i \in 1 .. (k - 1)})
      BY <2>2, <2>3
    <3> HIDE DEF old
    <3> QED
      BY <2>3, <2>4, <3>1
  <2> QED
    BY <1>2, <2>1, <2>2, <2>3, <2>5
<1> HIDE DEF n, ids, new
<1>6. \A q, a : IsOf(s2, q, a) <=> IsOf(s, q, a)
  BY <1>1, <1>3, <1>4 DEF IsOf, IsNew
<1>7. \A q, a : IsOf(s, q, a) => SameMarks(s.syms[q], s2.syms[q])
  BY <1>4 DEF IsOf, IsNew, SameMarks
<1> QED
  BY <1>2, <1>5, <1>6, <1>7 DEF Quiet, Undisturbed, Globals, Externals

\* Parameters.
LEMMA ParametersQuiet ==
    ASSUME NEW s, Sound(s), s.level > GLOBAL, NEW params, params = << >> \/ params[1] \in Name
    PROVE  Quiet(s, parameters(s, params))
<1>1. CASE params = << >>
  BY <1>1, QuietTwice DEF parameters
<1>2. CASE params # << >>
  <2> DEFINE p == NewSymbol(params[1], s.level, "AUTO", "object", "FUNC")
  <2>1. s.level \in Nat
    BY SoundTables
  <2>2. p \in Symbol /\ p.scope = s.level /\ p.alias = NULL
    <3> HIDE DEF p
    <3> QED
      BY <1>2, <2>1, NewSymbolIs DEF p
  <2> HIDE DEF p
  <2>3. Quiet(s, install(s, p))
    BY <2>2, InstallQuiet
  <2> QED
    BY <1>2, <2>3 DEF parameters, dclparam, p
<1> QED
  BY <1>1, <1>2

\* A declarator.
LEMMA PrototypeQuiet ==
    ASSUME NEW s, Sound(s), NEW params, params = << >> \/ params[1] \in Name
    PROVE  Quiet(s, prototype(s, params))
<1> DEFINE one == enterscope(s)
           two == enterscope(one)
           opened == IF s.level + 1 > PARAM THEN two ELSE one
           args == parameters(opened, params)
           left == exitscope(args)
<1>1. Sound(one) /\ one.level = s.level + 1 /\ Quiet(s, one) /\ s.level \in Nat /\ s.level >= GLOBAL
  BY ScopeEntered, ScopesQuiet, SoundTables DEF Sound, TablesNested
<1> HIDE DEF one
<1>2. Sound(two) /\ two.level = s.level + 2 /\ Quiet(s, two)
  BY <1>1, ScopeEntered, ScopesQuiet, QuietTwice
<1> HIDE DEF two
<1>3. /\ Sound(opened) /\ Quiet(s, opened) /\ opened.level \in Nat /\ opened.level > GLOBAL
      /\ opened.level > PARAM => opened.level - 1 > GLOBAL
  BY <1>1, <1>2 DEF GLOBAL, PARAM
<1> HIDE DEF opened
<1>4. Sound(args) /\ args.level = opened.level /\ Quiet(s, args)
  <2>1. Sound(args) /\ args.level = opened.level
    BY <1>3, ParametersDeclared DEF Leaves
  <2>2. Quiet(opened, args)
    BY <1>3, ParametersQuiet
  <2> QED
    BY <1>3, <2>1, <2>2, QuietTwice
<1> HIDE DEF args
<1>5. Sound(left) /\ left.level = args.level - 1 /\ Quiet(s, left)
  BY <1>3, <1>4, ScopeLeft, ScopesQuiet, QuietTwice
<1> HIDE DEF left
<1>6. args.level > PARAM => Quiet(s, exitscope(left))
  BY <1>3, <1>4, <1>5, ScopesQuiet, QuietTwice
<1> QED
  BY <1>5, <1>6 DEF prototype, left, args, opened, two, one

\* A use and an alias disturb no name.
LEMMA UsedQuiet ==
    ASSUME NEW s, Sound(s), NEW p
    PROVE  /\ Quiet(s, Used(s, p))
           /\ \A x : Quiet(s, [s EXCEPT !.syms[p].alias = x])
<1>1. DOMAIN s = {"level", "syms", "identifiers", "externals"}
  BY PlacesIn
<1>2. s.syms \in [DOMAIN s.syms -> Symbol]
  BY InMemory DEF Sound, State
<1>3. \A q, x : Quiet(s, [s EXCEPT !.syms[q].ref = x]) /\ Quiet(s, [s EXCEPT !.syms[q].alias = x])
  <2> TAKE q, x
  <2> DEFINE r == [s EXCEPT !.syms[q].ref = x]
             a == [s EXCEPT !.syms[q].alias = x]
  <2>1. /\ r.identifiers = s.identifiers /\ r.externals = s.externals
        /\ a.identifiers = s.identifiers /\ a.externals = s.externals
        /\ r.syms = [s.syms EXCEPT ![q].ref = x] /\ a.syms = [s.syms EXCEPT ![q].alias = x]
    BY <1>1
  <2> HIDE DEF r, a
  <2>2. \A k \in DOMAIN s.syms : /\ r.syms[k].name = s.syms[k].name /\ r.syms[k].scope = s.syms[k].scope
                                 /\ SameMarks(s.syms[k], r.syms[k])
    BY <1>2, <2>1 DEF SameMarks, Symbol
  <2>3. \A k \in DOMAIN s.syms : /\ a.syms[k].name = s.syms[k].name /\ a.syms[k].scope = s.syms[k].scope
                                 /\ SameMarks(s.syms[k], a.syms[k])
    BY <1>2, <2>1 DEF SameMarks, Symbol
  <2>4. DOMAIN r.syms = DOMAIN s.syms /\ DOMAIN a.syms = DOMAIN s.syms
    BY <2>1
  <2> QED
    BY <2>1, <2>2, <2>3, <2>4, MarksQuiet DEF r, a
<1> QED
  BY <1>3 DEF Used

\* Nor does the arena that is emptied.
LEMMA DeallocateQuiet ==
    ASSUME NEW s, Sound(s), s.level = GLOBAL
    PROVE  Quiet(s, deallocate(s))
<1> DEFINE s2 == deallocate(s)
<1>1. Purged(s, s2)
  BY Deallocated
<1>2. s2.externals = s.externals
  BY PlacesIn DEF deallocate
<1> HIDE DEF s2
<1>3. \A p, n : IsOf(s2, p, n) <=> IsOf(s, p, n)
  BY <1>1 DEF Purged, Outermost, IsOf
<1>4. \A p, n : IsOf(s, p, n) => SameMarks(s.syms[p], s2.syms[p])
  BY <1>1 DEF Purged, Outermost, IsOf, SameMarks
<1> QED
  BY <1>1, <1>2, <1>3, <1>4 DEF Quiet, Undisturbed, Purged, Globals, Externals, s2

\* The head of a function.
LEMMA HeadQuiet ==
    ASSUME NEW s, Sound(s), s.level = GLOBAL, NEW params, params = << >> \/ params[1] \in Name
    PROVE  /\ Quiet(s, parameters(enterscope(s), params))
           /\ Quiet(s, parameters(enterscope(exitscope(parameters(enterscope(s), params))), params))
<1> DEFINE one == enterscope(s)
           h == parameters(one, params)
           left == exitscope(h)
           again == enterscope(left)
           h2 == parameters(again, params)
<1>1. Sound(one) /\ one.level = GLOBAL + 1 /\ Quiet(s, one) /\ GLOBAL \in Nat
  BY ScopeEntered, ScopesQuiet DEF GLOBAL
<1> HIDE DEF one
<1>2. Sound(h) /\ h.level = GLOBAL + 1 /\ Quiet(s, h)
  BY <1>1, ParametersDeclared, ParametersQuiet, QuietTwice DEF Leaves
<1> HIDE DEF h
<1>3. Sound(left) /\ left.level = GLOBAL /\ Quiet(s, left)
  BY <1>1, <1>2, ScopeLeft, ScopesQuiet, QuietTwice
<1> HIDE DEF left
<1>4. Sound(again) /\ again.level = GLOBAL + 1 /\ Quiet(s, again)
  BY <1>3, ScopeEntered, ScopesQuiet, QuietTwice
<1> HIDE DEF again
<1>5. Quiet(s, h2)
  BY <1>1, <1>4, ParametersQuiet, QuietTwice
<1> QED
  BY <1>2, <1>5 DEF one, h, left, again

---------------------------------------------------------------------------
(* What declares a name *)

\* What lookup finds outside blocks is a global.
LEMMA LookupGlobal ==
    ASSUME NEW s, Sound(s), NEW n, NEW p, p = lookup(s, n), p # NULL, s.syms[p].scope = GLOBAL
    PROVE  p \in Globals(s) /\ p \in DOMAIN s.syms
<1> DEFINE ids == s.identifiers
           is == {i \in DOMAIN ids : Find(s, ids[i], n) # NULL}
           k == CHOOSE i \in is : \A j \in is : j <= i
<1>1. is # {}
  BY DEF lookup
<1>2. Len(ids) \in Nat /\ is \subseteq 1 .. Len(ids)
  BY SoundTables
<1>3. \E i \in is : \A j \in is : j <= i
  BY <1>1, <1>2, GreatestIndex
<1>4. k \in is /\ p = Find(s, ids[k], n)
  BY <1>1, <1>3 DEF lookup
<1> HIDE DEF k
<1>5. p \in ToSet(ids[k].bucket) /\ p \in DOMAIN s.syms /\ s.syms[p].scope = ids[k].level
  <2>1. \A i \in DOMAIN ids : Find(s, ids[i], n) # NULL =>
           /\ Find(s, ids[i], n) \in ToSet(ids[i].bucket) /\ Find(s, ids[i], n) \in DOMAIN s.syms
           /\ s.syms[Find(s, ids[i], n)].scope = ids[i].level
    BY FindSound
  <2> QED
    BY <1>4, <2>1
<1>6. k = 1
  BY <1>4, <1>5, SoundTables DEF GLOBAL
<1> QED
  BY <1>5, <1>6 DEF Globals

\* A table that does not lead to a name has no symbol of it.
LEMMA NoneFound ==
    ASSUME NEW s, NEW tp, NEW T, NULL \notin T, tp.bucket \in Seq(T), NEW n, Find(s, tp, n) = NULL
    PROVE  \A p \in ToSet(tp.bucket) : s.syms[p].name # n
<1> SUFFICES ASSUME NEW p \in ToSet(tp.bucket), s.syms[p].name = n PROVE FALSE
  OBVIOUS
<1> DEFINE b == tp.bucket
           is == {i \in DOMAIN b : s.syms[b[i]].name = n}
           k == CHOOSE i \in is : \A j \in is : i <= j
<1>1. is # {}
  BY DEF ToSet
<1>2. \E i \in is : \A j \in is : i <= j
  <2>1. is \subseteq Nat
    BY LenProperties
  <2> HIDE DEF is
  <2> QED
    BY <1>1, <2>1, LeastNumber
<1>3. k \in is
  BY <1>2
<1>4. Find(s, tp, n) = b[k]
  BY <1>1 DEF Find
<1> HIDE DEF k
<1>5. b[k] \in T
  BY <1>3, ElementOfSeq, LenProperties
<1> QED
  BY <1>4, <1>5

\* A new symbol in memory and in a table.
LEMMA EnteredIs ==
    ASSUME NEW s, Sound(s), NEW p \in Symbol, p.scope = GLOBAL, Blank(p),
           NEW n, n = Fresh(s), NEW s2, NEW x, s2.syms = With(s.syms, n, [p EXCEPT !.up = x]),
           NEW gs, NEW es, Globals(s2) = Globals(s) \cup gs, Externals(s2) = Externals(s) \cup es
    PROVE  Entered(s, s2, n, p.name, p.sclass, gs, es)
<1>1. n \notin DOMAIN s.syms /\ DOMAIN s2.syms = DOMAIN s.syms \cup {n}
  BY FreshIsFree DEF Sound, With
<1>2. s2.syms[n] = [p EXCEPT !.up = x] /\ \A q \in DOMAIN s.syms : s2.syms[q] = s.syms[q]
  BY <1>1 DEF With
<1>3. /\ s2.syms[n].name = p.name /\ s2.syms[n].scope = GLOBAL /\ s2.syms[n].sclass = p.sclass
      /\ Blank(s2.syms[n])
  <2> DEFINE y == [p EXCEPT !.up = x]
  <2>1. y.name = p.name /\ y.scope = p.scope /\ y.sclass = p.sclass /\ Blank(y)
    BY DEF Symbol, Blank
  <2> HIDE DEF y
  <2> QED
    BY <1>2, <2>1 DEF y
<1>4. \A q, a : IsOf(s2, q, a) <=> IsOf(s, q, a) \/ (q = n /\ a = p.name)
  BY <1>1, <1>2, <1>3 DEF IsOf
<1>5. \A q, a : IsOf(s, q, a) => SameMarks(s.syms[q], s2.syms[q])
  BY <1>2 DEF IsOf, SameMarks
<1> QED
  BY <1>1, <1>3, <1>4, <1>5 DEF Entered

\* The table with a symbol in front.
LEMMA LinkedSet ==
    ASSUME NEW tp \in Table, NEW n \in Nat
    PROVE  ToSet(Linked(tp, n).bucket) = ToSet(tp.bucket) \cup {n}
<1> DEFINE b == tp.bucket
           c == <<n>> \o b
<1>1. b \in Seq(Nat) /\ Linked(tp, n).bucket = c
  BY DEF Table, Linked
<1>2. ToSet(c) = ToSet(b) \cup {n}
  <2> HIDE DEF b
  <2> QED
    BY <1>1, Prepended
<1> QED
  BY <1>1, <1>2

\* A declaration enters a symbol at file scope, or behind the scenes.
LEMMA DeclarationEnters ==
    ASSUME NEW s, Sound(s), NEW p \in Symbol, p.scope = GLOBAL, Blank(p),
           NEW n, n = Fresh(s)
    PROVE  /\ Entered(s, installGlobal(s, p), n, p.name, p.sclass, {n}, {})
           /\ Entered(s, installExternal(s, p), n, p.name, p.sclass, {}, {n})
           /\ s.level = GLOBAL => Entered(s, install(s, p), n, p.name, p.sclass, {n}, {})
<1>1. /\ DOMAIN s = {"level", "syms", "identifiers", "externals"} /\ 1 \in DOMAIN s.identifiers
      /\ s.identifiers[1] \in Table /\ s.externals \in Table /\ n \in Nat
      /\ s.identifiers[1].level = GLOBAL /\ s.identifiers \in Seq(Table)
  BY PlacesIn, SoundTables, FreshIsFree DEF Sound, State
<1>2. ASSUME NEW s2, s2.identifiers = [s.identifiers EXCEPT ![1] = Linked(s.identifiers[1], n)],
             s2.externals = s.externals, NEW x, s2.syms = With(s.syms, n, [p EXCEPT !.up = x])
      PROVE  Entered(s, s2, n, p.name, p.sclass, {n}, {})
  <2>1. Globals(s2) = Globals(s) \cup {n}
    BY <1>1, <1>2, LinkedSet DEF Globals
  <2>2. Externals(s2) = Externals(s) \cup {}
    BY <1>2 DEF Externals
  <2> QED
    BY <1>2, <2>1, <2>2, EnteredIs
<1>3. Entered(s, installGlobal(s, p), n, p.name, p.sclass, {n}, {})
  <2> DEFINE s2 == installGlobal(s, p)
  <2>1. /\ s2.identifiers = [s.identifiers EXCEPT ![1] = Linked(s.identifiers[1], n)]
        /\ s2.externals = s.externals /\ s2.syms = With(s.syms, n, [p EXCEPT !.up = s.identifiers[1].all])
    BY <1>1 DEF installGlobal
  <2> HIDE DEF s2
  <2>2. Entered(s, s2, n, p.name, p.sclass, {n}, {})
    BY <1>2, <2>1
  <2> QED
    BY <2>2 DEF s2
<1>4. Entered(s, installExternal(s, p), n, p.name, p.sclass, {}, {n})
  <2> DEFINE s2 == installExternal(s, p)
  <2>1. /\ s2.identifiers = s.identifiers /\ s2.externals = Linked(s.externals, n)
        /\ s2.syms = With(s.syms, n, [p EXCEPT !.up = s.externals.all])
    BY <1>1 DEF installExternal
  <2> HIDE DEF s2
  <2>2. Externals(s2) = Externals(s) \cup {n} /\ Globals(s2) = Globals(s) \cup {}
    BY <1>1, <2>1, LinkedSet DEF Externals, Globals
  <2>3. Entered(s, s2, n, p.name, p.sclass, {}, {n})
    BY <2>1, <2>2, EnteredIs
  <2> QED
    BY <2>3 DEF s2
<1>5. ASSUME s.level = GLOBAL PROVE Entered(s, install(s, p), n, p.name, p.sclass, {n}, {})
  <2> DEFINE s2 == install(s, p)
             ids == s.identifiers
             new == Linked(ids[1], n)
  <2>1. Len(ids) = 1 /\ Last(ids) = ids[1]
    BY <1>5, SoundTables DEF Last
  <2>2. ~(Last(ids).level < p.scope)
    BY <1>1, <2>1 DEF GLOBAL
  <2>3. /\ s2.identifiers = Append(Front(ids), new) /\ s2.externals = s.externals
        /\ s2.syms = With(s.syms, n, [p EXCEPT !.up = ids[1].all])
    BY <1>1, <2>1, <2>2 DEF install
  <2>4. Append(Front(ids), new) = [ids EXCEPT ![1] = new]
    <3>1. Front(ids) = << >>
      BY <2>1 DEF Front
    <3>2. ids = [i \in 1 .. 1 |-> ids[i]]
      BY <1>1, <2>1
    <3> HIDE DEF new
    <3>3. Append(Front(ids), new) = [i \in 1 .. 1 |-> new]
      BY <3>1
    <3>4. [ids EXCEPT ![1] = new] = [i \in 1 .. 1 |-> new]
      BY <3>2
    <3> QED
      BY <3>3, <3>4
  <2> HIDE DEF s2
  <2>5. Entered(s, s2, n, p.name, p.sclass, {n}, {})
    BY <1>2, <2>3, <2>4
  <2> QED
    BY <2>5 DEF s2
<1> QED
  BY <1>3, <1>4, <1>5

\* Other names are left alone.
LEMMA EnteredElsewhere ==
    ASSUME NEW s, Sound(s), NEW s2, NEW p, NEW n, NEW sclass, NEW gs, gs \subseteq {p},
           NEW es, es \subseteq {p}, Entered(s, s2, p, n, sclass, gs, es), NEW a, a # n
    PROVE  Undisturbed(s, s2, a)
BY DEF Entered, Undisturbed, IsOf

\* The name itself has one symbol, if it had none of that sort.
LEMMA EnteredOne ==
    ASSUME NEW s, Sound(s), NEW s2, NEW p, NEW n, NEW sclass, OneSymbol(s, n),
           NEW gs, NEW es, Entered(s, s2, p, n, sclass, gs, es),
           \/ /\ gs = {p} /\ es = {} /\ \A q : IsOf(s, q, n) => q \notin Globals(s)
           \/ /\ gs = {} /\ es = {p} /\ sclass = "EXTERN",
           sclass # "TYPEDEF" => \A q : ~IsOuter(s, q, n)
    PROVE  /\ OneSymbol(s2, n)
           /\ \A q : IsOuter(s2, q, n) <=> IsOuter(s, q, n) \/ (q = p /\ sclass # "TYPEDEF")
<1>1. p \notin Globals(s) /\ p \notin Externals(s) /\ Globals(s) \cap Externals(s) = {}
  BY PlacesIn DEF Entered
<1>2. \A q : IsOuter(s2, q, n) <=> IsOuter(s, q, n) \/ (q = p /\ sclass # "TYPEDEF")
  BY ZenonT(60) DEF IsOuter, Entered, SameMarks, IsOf
<1>3. \A q : IsOf(s2, q, n) => q \in Globals(s2) \cup Externals(s2)
  BY DEF Entered, OneSymbol
<1>4. \A q : IsOf(s2, q, n) /\ q \in Externals(s2) => s2.syms[q].sclass = "EXTERN" /\ ~s2.syms[q].defined
  <2> SUFFICES ASSUME NEW q, IsOf(s2, q, n), q \in Externals(s2)
               PROVE  s2.syms[q].sclass = "EXTERN" /\ ~s2.syms[q].defined
    OBVIOUS
  <2>1. CASE q = p
    BY <1>1, <2>1 DEF Entered, Blank
  <2>2. CASE q # p
    BY <2>2 DEF Entered, OneSymbol, SameMarks
  <2> QED
    BY <2>1, <2>2
<1>5. ASSUME NEW q, NEW r, IsOf(s2, q, n), IsOf(s2, r, n),
             \/ q \in Globals(s2) /\ r \in Globals(s2)
             \/ IsOuter(s2, q, n) /\ IsOuter(s2, r, n)
      PROVE  q = r
  <2>1. CASE q \in Globals(s2) /\ r \in Globals(s2)
    <3>1. \A x : IsOf(s2, x, n) /\ x \in Globals(s2) /\ x # p => IsOf(s, x, n) /\ x \in Globals(s)
      BY DEF Entered
    <3> QED
      BY <1>1, <1>5, <2>1, <3>1 DEF OneSymbol, Entered
  <2>2. CASE IsOuter(s2, q, n) /\ IsOuter(s2, r, n)
    BY <1>2, <2>2 DEF OneSymbol, IsOuter
  <2> QED
    BY <1>5, <2>1, <2>2
<1> QED
  BY <1>2, <1>3, <1>4, <1>5 DEF OneSymbol

\* Other names are left alone, and it may be written again.
LEMMA RewritesElsewhere ==
    ASSUME NEW s, NEW s2, NEW p, NEW n, Rewrites(s, s2, p, n)
    PROVE  /\ \A a : a # n => Undisturbed(s, s2, a)
           /\ \A s3 : Rewrites(s2, s3, p, n) => Rewrites(s, s3, p, n)
<1>1. \A q, a : IsOf(s, q, a) /\ a # n => q # p
  BY DEF Rewrites, IsOf
<1>2. \A a : a # n => Undisturbed(s, s2, a)
  BY <1>1 DEF Rewrites, Undisturbed
<1>3. ASSUME NEW s3, Rewrites(s2, s3, p, n) PROVE Rewrites(s, s3, p, n)
  <2>1. \A q, a : IsOf(s, q, a) /\ q # p => SameMarks(s.syms[q], s3.syms[q])
    BY <1>3 DEF Rewrites, SameMarks
  <2> QED
    BY <1>3, <2>1 DEF Rewrites
<1> QED
  BY <1>2, <1>3

\* What is written is the one symbol of its name.
LEMMA RewritesOne ==
    ASSUME NEW s, NEW s2, NEW p, NEW n, Rewrites(s, s2, p, n), OneSymbol(s, n),
           IsOuter(s, p, n), s2.syms[p].sclass # "TYPEDEF",
           p \in Globals(s) \/ \A q : IsOf(s, q, n) => q \notin Globals(s)
    PROVE  TheOne(s2, p, n)
<1>1. \A q : IsOuter(s2, q, n) /\ q # p => IsOuter(s, q, n)
  BY DEF IsOuter, Rewrites, SameMarks
<1>2. \A q : IsOuter(s2, q, n) <=> q = p
  <2>1. IsOuter(s2, p, n)
    BY DEF IsOuter, Rewrites
  <2>2. \A q : IsOuter(s, q, n) => q = p
    BY DEF OneSymbol, IsOuter
  <2> QED
    BY <1>1, <2>1, <2>2
<1>3. \A q : IsOf(s2, q, n) => q \in Globals(s2) \cup Externals(s2)
  BY DEF Rewrites, OneSymbol
<1>4. \A q : IsOf(s2, q, n) /\ q \in Externals(s2) => s2.syms[q].sclass = "EXTERN" /\ ~s2.syms[q].defined
  BY DEF Rewrites, OneSymbol, SameMarks
<1>5. ASSUME NEW q, NEW r, IsOf(s2, q, n), IsOf(s2, r, n), q \in Globals(s2), r \in Globals(s2)
      PROVE  q = r
  BY <1>5 DEF Rewrites, OneSymbol
<1>6. OneSymbol(s2, n)
  BY <1>2, <1>3, <1>4, <1>5 DEF OneSymbol
<1> QED
  BY <1>2, <1>6 DEF TheOne

\* A symbol of the globals is written where it is.
LEMMA MarkRewrites ==
    ASSUME NEW s, Sound(s), NEW p, NEW n, IsOf(s, p, n), p \in Globals(s),
           NEW s2, s2.identifiers = s.identifiers, s2.externals = s.externals,
           NEW y, s2.syms = [s.syms EXCEPT ![p] = y], y.name = n, y.scope = GLOBAL
    PROVE  Rewrites(s, s2, p, n)
<1>1. p \notin Externals(s)
  BY PlacesIn
<1>2. /\ DOMAIN s2.syms = DOMAIN s.syms /\ p \in DOMAIN s.syms
      /\ s2.syms[p] = y /\ \A q \in DOMAIN s.syms : q # p => s2.syms[q] = s.syms[q]
  BY DEF IsOf
<1>3. \A q, a : IsOf(s2, q, a) <=> IsOf(s, q, a)
  BY <1>2 DEF IsOf
<1>4. \A q, a : IsOf(s, q, a) /\ q # p => SameMarks(s.syms[q], s2.syms[q])
  BY <1>2 DEF IsOf, SameMarks
<1> QED
  BY <1>1, <1>3, <1>4 DEF Rewrites, Globals, Externals

\* A symbol is defined.
LEMMA DefglobalRewrites ==
    ASSUME NEW s, Sound(s), NEW p, NEW n, IsOf(s, p, n), p \in Globals(s),
           NEW s2, s2 = defglobal(s, p)
    PROVE  Rewrites(s, s2, p, n) /\ Completed(s.syms[p], s2.syms[p])
<1> DEFINE x == s.syms[p]
           y == [x EXCEPT !.emitted = @ + 1, !.defined = TRUE,
                          !.exported = @ \/ x.sclass # "STATIC"]
<1>1. DOMAIN s = {"level", "syms", "identifiers", "externals"} /\ x \in Symbol /\ p \in DOMAIN s.syms
  BY PlacesIn, SoundTables DEF IsOf
<1>2. s2.identifiers = s.identifiers /\ s2.externals = s.externals /\ s2.syms = [s.syms EXCEPT ![p] = y]
  BY <1>1 DEF defglobal
<1>3. y.name = n /\ y.scope = GLOBAL /\ Completed(x, y)
  <2>1. x.name = n /\ x.scope = GLOBAL
    BY DEF IsOf
  <2> HIDE DEF x
  <2> QED
    BY <1>1, <2>1 DEF Symbol, Completed
<1> HIDE DEF y
<1>4. Rewrites(s, s2, p, n)
  BY <1>2, <1>3, MarkRewrites
<1>5. s2.syms[p] = y
  BY <1>1, <1>2
<1> QED
  BY <1>3, <1>4, <1>5

\* A symbol gets its type, and perhaps an initializer.
LEMMA TypedRewrites ==
    ASSUME NEW s, Sound(s), NEW p, NEW n, IsOf(s, p, n), p \in Globals(s),
           NEW kind \in {"object", "function"}, NEW init \in BOOLEAN,
           NEW typed, typed = [s EXCEPT !.syms[p].kind = kind],
           NEW s2, s2 = IF init THEN initglobal(typed, p) ELSE typed
    PROVE  Rewrites(s, s2, p, n) /\ Initialises(s.syms[p], s2.syms[p], kind, init)
<1> DEFINE x == s.syms[p]
           y == [x EXCEPT !.kind = kind]
           d == defglobal(typed, p)
           w == d.syms[p]
           z == [w EXCEPT !.sclass = IF @ = "EXTERN" THEN "AUTO" ELSE @]
<1>1. DOMAIN s = {"level", "syms", "identifiers", "externals"} /\ x \in Symbol /\ p \in DOMAIN s.syms
  BY PlacesIn, SoundTables DEF IsOf
<1>2. typed.identifiers = s.identifiers /\ typed.externals = s.externals
      /\ typed.syms = [s.syms EXCEPT ![p] = y]
  BY <1>1
<1>3. /\ y.name = n /\ y.scope = GLOBAL /\ y.kind = kind /\ y.sclass = x.sclass /\ y.defined = x.defined
      /\ y.emitted = x.emitted /\ y.exported = x.exported /\ y.imported = x.imported
  <2> HIDE DEF x
  <2> QED
    BY <1>1 DEF IsOf, Symbol, x
<1>4. Same(s, typed)
  BY Marked
<1>5. Sound(typed)
  BY <1>4, SameSound
<1> HIDE DEF y
<1>6. Rewrites(s, typed, p, n) /\ typed.syms[p] = y
  BY <1>1, <1>2, <1>3, MarkRewrites
<1>7. IsOf(typed, p, n) /\ p \in Globals(typed)
  BY <1>6 DEF Rewrites
<1>9. Sound(d)
  BY <1>5, Marked, SameSound
<1>10. d = defglobal(typed, p)
  OBVIOUS
<1> HIDE DEF d
<1>8. Rewrites(typed, d, p, n) /\ Completed(y, w)
  <2>1. Rewrites(typed, d, p, n) /\ Completed(typed.syms[p], d.syms[p])
    BY <1>5, <1>7, <1>10, DefglobalRewrites
  <2> QED
    BY <1>6, <2>1
<1>11. IsOf(d, p, n) /\ p \in Globals(d) /\ w \in Symbol /\ p \in DOMAIN d.syms
       /\ DOMAIN d = {"level", "syms", "identifiers", "externals"}
  BY <1>7, <1>8, <1>9, SoundTables, PlacesIn DEF Rewrites, IsOf
<1> DEFINE i == [d EXCEPT !.syms[p].sclass = IF @ = "EXTERN" THEN "AUTO" ELSE @]
<1>12. i.identifiers = d.identifiers /\ i.externals = d.externals /\ i.syms = [d.syms EXCEPT ![p] = z]
  BY <1>11
<1>13. /\ z.name = n /\ z.scope = GLOBAL /\ z.kind = w.kind /\ z.defined = w.defined
       /\ z.sclass = IF w.sclass = "EXTERN" THEN "AUTO" ELSE w.sclass
       /\ z.emitted = w.emitted /\ z.exported = w.exported /\ z.imported = w.imported
  <2> HIDE DEF w
  <2> QED
    BY <1>11 DEF IsOf, Symbol, w
<1>14. i = initglobal(typed, p)
  BY <1>10 DEF initglobal
<1> HIDE DEF i, z
<1>15. Rewrites(d, i, p, n) /\ i.syms[p] = z
  BY <1>9, <1>11, <1>12, <1>13, MarkRewrites
<1>16. Rewrites(s, i, p, n)
  BY <1>6, <1>8, <1>15, RewritesElsewhere
<1>17. CASE init
  <2>1. s2 = i /\ s2.syms[p] = z
    BY <1>14, <1>15, <1>17
  <2>2. Initialises(x, z, kind, init)
    <3> HIDE DEF w, x
    <3> QED
      BY <1>3, <1>8, <1>13, <1>17 DEF Initialises, Completed
  <2> QED
    BY <1>16, <2>1, <2>2
<1>18. CASE ~init
  <2>1. s2 = typed /\ x.emitted \in Nat /\ x.emitted + 0 = x.emitted
    BY <1>1, <1>18 DEF Symbol
  <2>2. Initialises(x, y, kind, init)
    <3> HIDE DEF x
    <3> QED
      BY <1>1, <1>3, <1>18, <2>1 DEF Initialises, Symbol
  <2> QED
    BY <1>6, <2>1, <2>2
<1> QED
  BY <1>17, <1>18

\* What remains of a chain without a symbol.
LEMMA WithoutSet ==
    ASSUME NEW T, NEW b \in Seq(T), \A k, l \in DOMAIN b : b[k] = b[l] => k = l,
           NEW q \in ToSet(b)
    PROVE  ToSet(Without(b, q)) = ToSet(b) \ {q}
<1>1. PICK i \in DOMAIN b : b[i] = q
  BY DEF ToSet
<1> QED
  BY <1>1, WithoutIs

\* relocate makes an external a global.
LEMMA RelocateRewrites ==
    ASSUME NEW s, Sound(s), NEW name, NEW q, q = Find(s, s.externals, name), q # NULL,
           NEW u, u = relocate(s, name)
    PROVE  Rewrites(s, u, q, name) /\ q \in Externals(s) /\ SameMarks(s.syms[q], u.syms[q])
<1> DEFINE f == s.syms
           D == DOMAIN f
           ids == s.identifiers
           b == s.externals.bucket
<1>1. Moves(s, u, q)
  BY RelocateMoves
<1>2. q \in ToSet(b) /\ q \in D
  BY FindSound
<1>3. IsOf(s, q, name)
  BY RelocateShown DEF Moved, IsOf
<1>4. f \in [D -> Symbol] /\ f[q].up \in Nat /\ ids[1] \in Table /\ ids[1].all \in Nat /\ q \in Nat
  <2>1. f \in Memory
    BY DEF Sound, State
  <2>2. f \in [D -> Symbol]
    BY <2>1, InMemory
  <2>3. f[q].up \in Nat
    BY <1>2, <2>2 DEF Symbol
  <2>4. ids[1] \in Table /\ q \in Nat
    BY <1>2, SoundTables DEF Sound, TablesNested
  <2> QED
    BY <2>2, <2>3, <2>4 DEF Table
<1>5. AllMarks(D, f, u.syms)
  <2>1. PICK f1 : /\ f1 = f \/ \E c : f1 = [f EXCEPT ![c].up = f[q].up]
                  /\ u.syms = [f1 EXCEPT ![q].up = ids[1].all]
    BY <1>1 DEF Moves
  <2> HIDE DEF D
  <2>2. AllMarks(D, f, f1)
    <3>1. CASE f1 = f
      <4> HIDE DEF f
      <4> QED
        BY <1>4, <3>1 DEF AllMarks, SameMarks
    <3>2. ASSUME NEW c, f1 = [f EXCEPT ![c].up = f[q].up] PROVE AllMarks(D, f, f1)
      <4> DEFINE v == f[q].up
      <4>1. f1 = [f EXCEPT ![c].up = v] /\ v \in Nat
        BY <1>4, <3>2
      <4> HIDE DEF f, v
      <4> QED
        BY <1>4, <4>1, UpMarks
    <3> QED
      BY <2>1, <3>1, <3>2
  <2>3. f1 \in [D -> Symbol]
    BY <2>2 DEF AllMarks
  <2>4. AllMarks(D, f1, u.syms)
    <3> DEFINE v == ids[1].all
    <3>1. u.syms = [f1 EXCEPT ![q].up = v] /\ v \in Nat
      BY <1>4, <2>1
    <3> HIDE DEF v, f
    <3> QED
      BY <2>3, <3>1, UpMarks
  <2> QED
    BY <2>2, <2>4 DEF AllMarks, SameMarks
<1>6. Globals(u) = Globals(s) \cup {q}
  <2>1. u.identifiers[1] = Linked(ids[1], q)
    BY <1>1, PlacesIn DEF Moves
  <2> QED
    BY <1>4, <2>1, LinkedSet DEF Globals
<1>7. Externals(u) = Externals(s) \ {q}
  <2>1. b \in Seq(D) /\ \A k, l \in DOMAIN b : b[k] = b[l] => k = l
    BY DEF Sound, AllListed, Listed
  <2>2. u.externals.bucket = Without(b, q)
    BY <1>1 DEF Moves
  <2> HIDE DEF b, D
  <2> QED
    BY <1>2, <2>1, <2>2, WithoutSet DEF Externals, b
<1>8. DOMAIN u.syms = D
  BY <1>5 DEF AllMarks
<1> HIDE DEF D
<1>9. \A p, a : IsOf(u, p, a) <=> IsOf(s, p, a)
  BY <1>5, <1>8 DEF AllMarks, IsOf, D
<1>10. \A p \in D : SameMarks(f[p], u.syms[p])
  BY <1>5 DEF AllMarks
<1> QED
  BY <1>2, <1>3, <1>6, <1>7, <1>9, <1>10 DEF Rewrites, Externals, IsOf, D

\* A name that no table leads to, or not that of the globals or externals.
LEMMA NotThere ==
    ASSUME NEW s, Sound(s), NEW n
    PROVE  /\ lookup(s, n) = NULL => Find(s, s.identifiers[1], n) = NULL
           /\ lookup(s, n) = NULL => \A q : IsOf(s, q, n) => q \notin Globals(s)
           /\ Find(s, s.identifiers[1], n) = NULL => \A q : IsOf(s, q, n) => q \notin Globals(s)
           /\ Find(s, s.externals, n) = NULL => \A q : IsOf(s, q, n) => q \notin Externals(s)
<1>1. /\ s.externals.bucket \in Seq(DOMAIN s.syms) /\ s.identifiers[1].bucket \in Seq(DOMAIN s.syms)
      /\ 1 \in DOMAIN s.identifiers /\ NULL \notin DOMAIN s.syms
  <2>1. NULL \notin DOMAIN s.syms /\ 1 \in DOMAIN s.identifiers
    BY SoundTables, PlacesIn
  <2> QED
    BY <2>1 DEF Sound, AllListed, Listed
<1>2. ASSUME lookup(s, n) = NULL PROVE Find(s, s.identifiers[1], n) = NULL
  <2> DEFINE ids == s.identifiers
             is == {i \in DOMAIN ids : Find(s, ids[i], n) # NULL}
             k == CHOOSE i \in is : \A j \in is : j <= i
  <2> SUFFICES ASSUME is # {} PROVE FALSE
    BY <1>1
  <2>1. Len(ids) \in Nat /\ is \subseteq 1 .. Len(ids)
    BY SoundTables
  <2>2. \E i \in is : \A j \in is : j <= i
    BY <2>1, GreatestIndex
  <2>3. k \in is
    BY <2>2
  <2>4. lookup(s, n) = Find(s, ids[k], n)
    BY DEF lookup
  <2> HIDE DEF k
  <2> QED
    BY <1>2, <2>3, <2>4
<1>3. ASSUME Find(s, s.identifiers[1], n) = NULL PROVE \A q : IsOf(s, q, n) => q \notin Globals(s)
  <2>1. \A q \in ToSet(s.identifiers[1].bucket) : s.syms[q].name # n
    BY <1>1, <1>3, NoneFound
  <2> QED
    BY <2>1 DEF IsOf, Globals
<1>4. ASSUME Find(s, s.externals, n) = NULL PROVE \A q : IsOf(s, q, n) => q \notin Externals(s)
  <2>1. \A q \in ToSet(s.externals.bucket) : s.syms[q].name # n
    BY <1>1, <1>4, NoneFound
  <2> QED
    BY <2>1 DEF IsOf, Externals
<1> QED
  BY <1>2, <1>3, <1>4

\* What is written is among the globals.
LEMMA RewritesPlaced ==
    ASSUME NEW s, NEW u, NEW r, NEW n, Sound(u), Rewrites(s, u, r, n)
    PROVE  Placed(s, u, r, n)
<1>1. IsOf(u, r, n) /\ r \in Globals(u)
  BY DEF Rewrites
<1>2. Spares(s, u, n)
  BY RewritesElsewhere DEF Spares
<1> QED
  BY <1>1, <1>2 DEF Placed

\* The name is known at file scope.
LEMMA KnownPlaced ==
    ASSUME NEW s, Sound(s), NEW id \in Name, NEW sclass \in {"AUTO", "STATIC", "EXTERN"},
           NEW p, p = lookup(s, id), p # NULL, s.syms[p].scope = GLOBAL,
           NEW u, u = Reclassed(s, p, sclass)
    PROVE  /\ Placed(s, u, p, id)
           /\ OneSymbol(s, id) /\ s.syms[p].sclass # "TYPEDEF" =>
                 TheOne(u, p, id) /\ Resumes(s, u.syms[p], p, id, sclass)
<1> DEFINE x == s.syms[p]
           c == IF x.sclass = "EXTERN" THEN sclass ELSE x.sclass
           y == [x EXCEPT !.sclass = c]
<1>1. p \in Globals(s) /\ p \in DOMAIN s.syms /\ x.name = id
  BY LookupGlobal, LookupMeans DEF Finds
<1>2. DOMAIN s = {"level", "syms", "identifiers", "externals"} /\ x \in Symbol
  BY <1>1, PlacesIn, SoundTables
<1>3. u = [s EXCEPT !.syms[p].sclass = c] /\ c \in {"AUTO", "STATIC", "EXTERN", "TYPEDEF"}
  BY <1>2 DEF Symbol, Reclassed
<1>4. u.identifiers = s.identifiers /\ u.externals = s.externals /\ u.syms = [s.syms EXCEPT ![p] = y]
  BY <1>2, <1>3
<1> HIDE DEF c
<1>5. Sound(u)
  BY <1>3, Marked, SameSound, ZenonT(60)
<1>6. /\ y.name = id /\ y.scope = GLOBAL /\ y.sclass = c /\ y.defined = x.defined
      /\ y.emitted = x.emitted /\ y.exported = x.exported /\ y.imported = x.imported
  <2>1. x.scope = GLOBAL
    OBVIOUS
  <2> HIDE DEF x
  <2> QED
    BY <1>1, <1>2, <2>1 DEF Symbol
<1> HIDE DEF y
<1>7. IsOf(s, p, id) /\ u.syms[p] = y
  BY <1>1, <1>4 DEF IsOf
<1>8. Rewrites(s, u, p, id)
  <2>1. y.name = id /\ y.scope = GLOBAL
    BY <1>6
  <2>2. IsOf(s, p, id)
    BY <1>7
  <2> HIDE DEF x
  <2> QED
    BY <1>1, <1>4, <2>1, <2>2, MarkRewrites
<1>9. Placed(s, u, p, id)
  BY <1>5, <1>8, RewritesPlaced
<1>10. ASSUME OneSymbol(s, id), x.sclass # "TYPEDEF"
       PROVE  TheOne(u, p, id) /\ Resumes(s, u.syms[p], p, id, sclass)
  <2>1. IsOuter(s, p, id) /\ y.sclass # "TYPEDEF"
    BY <1>6, <1>7, <1>10 DEF IsOuter, c
  <2>2. TheOne(u, p, id)
    <3>1. u.syms[p].sclass # "TYPEDEF"
      BY <1>7, <2>1
    <3> QED
      BY <1>1, <1>8, <1>10, <2>1, <3>1, RewritesOne
  <2>3. Resumes(s, y, p, id, sclass)
    BY <1>6, <2>1 DEF Resumes, c
  <2> QED
    BY <1>7, <2>2, <2>3
<1> QED
  BY <1>9, <1>10

\* A block has introduced it.
LEMMA ExternalPlaced ==
    ASSUME NEW s, Sound(s), NEW id \in Name, NEW sclass \in {"AUTO", "STATIC", "EXTERN"},
           NEW q, q = Find(s, s.externals, id), q # NULL,
           NEW u, u = Classed(relocate(s, id), q, sclass)
    PROVE  /\ Placed(s, u, q, id)
           /\ OneSymbol(s, id) /\ lookup(s, id) = NULL =>
                 TheOne(u, q, id) /\ Resumes(s, u.syms[q], q, id, sclass)
<1> DEFINE w == relocate(s, id)
           x == w.syms[q]
           y == [x EXCEPT !.sclass = sclass]
<1>1. Rewrites(s, w, q, id) /\ q \in Externals(s) /\ SameMarks(s.syms[q], x) /\ Sound(w)
  BY RelocateRewrites, Relocated
<1>2. u = [w EXCEPT !.syms[q].sclass = sclass]
  BY DEF Classed
<1> HIDE DEF w
<1>3. IsOf(w, q, id) /\ q \in Globals(w)
  BY <1>1 DEF Rewrites
<1>4. DOMAIN w = {"level", "syms", "identifiers", "externals"} /\ x \in Symbol
  BY <1>1, <1>3, PlacesIn, SoundTables DEF IsOf
<1>5. u.identifiers = w.identifiers /\ u.externals = w.externals /\ u.syms = [w.syms EXCEPT ![q] = y]
  BY <1>2, <1>4
<1>6. Sound(u)
  BY <1>1, <1>2, Marked, SameSound, ZenonT(60)
<1>7. /\ y.name = id /\ y.scope = GLOBAL /\ y.sclass = sclass /\ y.defined = x.defined
      /\ y.emitted = x.emitted /\ y.exported = x.exported /\ y.imported = x.imported
  <2>1. x.scope = GLOBAL /\ x.name = id
    BY <1>3 DEF IsOf
  <2> HIDE DEF x
  <2> QED
    BY <1>4, <2>1 DEF Symbol
<1> HIDE DEF y
<1>8. u.syms[q] = y
  BY <1>3, <1>5 DEF IsOf
<1>9. Rewrites(w, u, q, id)
  <2>1. y.name = id /\ y.scope = GLOBAL
    BY <1>7
  <2> HIDE DEF x
  <2> QED
    BY <1>1, <1>3, <1>5, <2>1, MarkRewrites
<1>10. Rewrites(s, u, q, id)
  BY <1>1, <1>9, RewritesElsewhere
<1>11. Placed(s, u, q, id)
  BY <1>6, <1>10, RewritesPlaced
<1>12. ASSUME OneSymbol(s, id), lookup(s, id) = NULL
       PROVE  TheOne(u, q, id) /\ Resumes(s, u.syms[q], q, id, sclass)
  <2>1. IsOf(s, q, id) /\ s.syms[q].sclass = "EXTERN"
    BY <1>1, <1>12 DEF OneSymbol, Rewrites
  <2>2. IsOuter(s, q, id)
    BY <2>1 DEF IsOuter
  <2>3. TheOne(u, q, id)
    <3>1. u.syms[q].sclass # "TYPEDEF"
      BY <1>7, <1>8
    <3>2. \A p : IsOf(s, p, id) => p \notin Globals(s)
      BY <1>12, NotThere
    <3> QED
      BY <1>10, <1>12, <2>2, <3>1, <3>2, RewritesOne
  <2>4. Resumes(s, y, q, id, sclass)
    BY <1>1, <1>7, <2>1, <2>2 DEF Resumes, SameMarks
  <2> QED
    BY <1>8, <2>3, <2>4
<1> QED
  BY <1>11, <1>12

\* Nothing outside blocks has the name.
LEMMA AnewPlaced ==
    ASSUME NEW s, Sound(s), NEW id \in Name, NEW sclass \in {"AUTO", "STATIC", "EXTERN"},
           NEW kind \in {"object", "function"}, Find(s, s.externals, id) = NULL,
           NEW u, u = installGlobal(s, NewSymbol(id, GLOBAL, sclass, kind, "PERM")),
           NEW r, r = Fresh(s)
    PROVE  /\ Placed(s, u, r, id)
           /\ OneSymbol(s, id) /\ lookup(s, id) = NULL =>
                 TheOne(u, r, id) /\ Resumes(s, u.syms[r], r, id, sclass)
<1> DEFINE p == NewSymbol(id, GLOBAL, sclass, kind, "PERM")
<1>1. /\ p \in Symbol /\ p.scope = GLOBAL /\ p.sclass = sclass /\ p.arena = "PERM" /\ p.alias = NULL
      /\ p.name = id /\ Blank(p)
  <2>1. GLOBAL \in Nat
    BY DEF GLOBAL
  <2>2. p.name = id /\ Blank(p)
    BY DEF NewSymbol, Blank
  <2> HIDE DEF p
  <2> QED
    BY <2>1, <2>2, NewSymbolIs DEF p
<1>2. u = installGlobal(s, p)
  OBVIOUS
<1> HIDE DEF p
<1>3. Entered(s, u, r, id, sclass, {r}, {})
  BY <1>1, <1>2, DeclarationEnters
<1>4. Sound(u)
  BY <1>1, <1>2, GlobalInstalled DEF Adds
<1>5. IsOf(u, r, id) /\ r \in Globals(u)
  BY <1>3 DEF Entered
<1>6. Spares(s, u, id)
  <2>1. {r} \subseteq {r} /\ {} \subseteq {r}
    OBVIOUS
  <2> QED
    BY <1>3, <2>1, EnteredElsewhere DEF Spares
<1>7. ASSUME OneSymbol(s, id), lookup(s, id) = NULL
      PROVE  TheOne(u, r, id) /\ Resumes(s, u.syms[r], r, id, sclass)
  <2>1. \A q : ~IsOf(s, q, id)
    BY <1>7, NotThere DEF OneSymbol
  <2>2. \A q : ~IsOuter(s, q, id)
    BY <2>1 DEF IsOuter
  <2>3. OneSymbol(u, id) /\ \A q : IsOuter(u, q, id) <=> IsOuter(s, q, id) \/ (q = r /\ sclass # "TYPEDEF")
    BY <1>3, <1>7, <2>1, <2>2, EnteredOne
  <2>4. TheOne(u, r, id)
    BY <2>2, <2>3 DEF TheOne
  <2>5. Resumes(s, u.syms[r], r, id, sclass)
    BY <1>3, <2>2 DEF Resumes, Entered
  <2> QED
    BY <2>4, <2>5
<1> QED
  BY <1>4, <1>5, <1>6, <1>7 DEF Placed

\* A declaration at file scope makes it of the name it declares, and leaves the others.
LEMMA DclglobalDeclares ==
    ASSUME NEW s, Sound(s), NEW id \in Name, NEW sclass \in {"AUTO", "STATIC", "EXTERN"},
           NEW kind \in {"object", "function"}, NEW init \in BOOLEAN,
           NEW d, d = dclglobal(s, id, sclass, kind, init)
    PROVE  /\ Spares(s, d.s, id)
           /\ IsOf(d.s, d.p, id)
           /\ Declarable(s, id, d) => Declared(s, d.s, d.p, id, sclass, kind, init)
<1> DEFINE p == lookup(s, id)
           known == p # NULL /\ s.syms[p].scope = GLOBAL
           q == Find(s, s.externals, id)
           r == IF known THEN p ELSE IF q # NULL THEN q ELSE Fresh(s)
           placed == IF known THEN Reclassed(s, p, sclass)
                     ELSE IF q # NULL THEN Classed(relocate(s, id), q, sclass)
                     ELSE installGlobal(s, NewSymbol(id, GLOBAL, sclass, kind, "PERM"))
           typed == [placed EXCEPT !.syms[r].kind = kind]
           good == Declarable(s, id, d)
<1>1. d.s = (IF init THEN initglobal(typed, r) ELSE typed) /\ d.p = r
  BY DEF dclglobal, Reclassed, Classed
<1>2. known /\ ~d.error => s.syms[p].kind = kind
  BY DEF dclglobal
<1>3. Placed(s, placed, r, id) /\ (good => TheOne(placed, r, id) /\ Resumes(s, placed.syms[r], r, id, sclass))
  <2>1. CASE known
    <3>1. p \in DOMAIN s.syms
      BY <2>1, LookupGlobal
    <3>2. good => s.syms[p].sclass # "TYPEDEF" /\ OneSymbol(s, id)
      BY <1>2, <2>1, <3>1 DEF Declarable
    <3>3. r = p /\ placed = Reclassed(s, p, sclass)
      BY <2>1
    <3>4. p = lookup(s, id) /\ p # NULL /\ s.syms[p].scope = GLOBAL
      BY <2>1
    <3> HIDE DEF p, placed, r, good
    <3>5. /\ Placed(s, placed, p, id)
          /\ OneSymbol(s, id) /\ s.syms[p].sclass # "TYPEDEF" =>
                TheOne(placed, p, id) /\ Resumes(s, placed.syms[p], p, id, sclass)
      BY <3>3, <3>4, KnownPlaced
    <3> QED
      BY <3>2, <3>3, <3>5
  <2>2. CASE ~known /\ q # NULL
    <3>1. r = q /\ placed = Classed(relocate(s, id), q, sclass)
      BY <2>2
    <3>2. good => lookup(s, id) = NULL /\ OneSymbol(s, id)
      BY <2>2 DEF Declarable
    <3>3. q = Find(s, s.externals, id) /\ q # NULL
      BY <2>2
    <3> HIDE DEF q, placed, r, good
    <3>4. /\ Placed(s, placed, q, id)
          /\ OneSymbol(s, id) /\ lookup(s, id) = NULL =>
                TheOne(placed, q, id) /\ Resumes(s, placed.syms[q], q, id, sclass)
      BY <3>1, <3>3, ExternalPlaced
    <3> QED
      BY <3>1, <3>2, <3>4
  <2>3. CASE ~known /\ q = NULL
    <3>1. r = Fresh(s) /\ placed = installGlobal(s, NewSymbol(id, GLOBAL, sclass, kind, "PERM"))
      BY <2>3
    <3>2. good => lookup(s, id) = NULL /\ OneSymbol(s, id)
      BY <2>3 DEF Declarable
    <3>3. Find(s, s.externals, id) = NULL
      BY <2>3
    <3> HIDE DEF placed, r, good
    <3> QED
      BY <3>1, <3>2, <3>3, AnewPlaced
  <2> QED
    BY <2>1, <2>2, <2>3
<1>4. typed = [placed EXCEPT !.syms[r].kind = kind]
  OBVIOUS
<1> DEFINE u == IF init THEN initglobal(typed, r) ELSE typed
<1>5. d.s = u
  BY <1>1
<1> HIDE DEF placed, r, typed, good
<1>6. Rewrites(placed, u, r, id) /\ Initialises(placed.syms[r], u.syms[r], kind, init)
  BY <1>3, <1>4, TypedRewrites DEF Placed
<1> HIDE DEF u
<1>7. ASSUME NEW a, a # id PROVE Undisturbed(s, u, a)
  <2>1. Undisturbed(s, placed, a) /\ Undisturbed(placed, u, a)
    BY <1>3, <1>6, <1>7, RewritesElsewhere DEF Placed, Spares
  <2> QED
    BY <2>1, UndisturbedTwice
<1>8. IsOf(u, r, id) /\ r \in Globals(u)
  BY <1>6 DEF Rewrites
<1>9. ASSUME good PROVE Declared(s, u, r, id, sclass, kind, init)
  <2>1. OneSymbol(placed, id) /\ IsOuter(placed, r, id) /\ r \in Globals(placed)
    BY <1>3, <1>9 DEF TheOne, Placed
  <2>2. u.syms[r].sclass # "TYPEDEF"
    BY <1>6, <2>1 DEF Initialises, IsOuter
  <2>3. TheOne(u, r, id)
    BY <1>6, <2>1, <2>2, RewritesOne DEF TheOne
  <2> QED
    BY <1>3, <1>6, <1>8, <1>9, <2>3 DEF Declared
<1> QED
  BY <1>1, <1>5, <1>7, <1>8, <1>9 DEF good, Spares

---------------------------------------------------------------------------
(* What a declaration makes of a name *)

\* The symbol a declaration goes on with is not printed twice, and of the storage class
\* of its linkage.
LEMMA ResumedMarks ==
    ASSUME NEW s, NEW y, NEW r, r # NULL, NEW n, NEW sclass \in {"AUTO", "STATIC", "EXTERN"},
           NEW l, NEW l2, NEW D, NameSound(s, n, l, D, NULL), Resumes(s, y, r, n, sclass),
           LinkageStep(l, l2, sclass)
    PROVE  /\ Printed(y, l2, FALSE)
           /\ n \in D => y.defined
           /\ r \notin DOMAIN s.syms => ~y.defined
           /\ r \in DOMAIN s.syms => IsOuter(s, r, n) /\ (y.defined <=> s.syms[r].defined)
<1>1. CASE r \notin DOMAIN s.syms
  <2>1. Blank(y) /\ y.sclass = sclass /\ \A q : ~IsOuter(s, q, n)
    BY <1>1 DEF Resumes, IsOuter, IsOf
  <2>2. l = "none" /\ n \notin D
    BY <2>1 DEF NameSound
  <2>3. (l2 = "internal" => sclass = "STATIC") /\ (l2 = "external" => sclass \in {"AUTO", "EXTERN"})
    BY <2>2 DEF LinkageStep
  <2>4. Printed(y, l2, FALSE)
    BY <2>1, <2>3 DEF Printed, Blank
  <2> QED
    BY <1>1, <2>1, <2>2, <2>4 DEF Blank
<1>2. CASE r \in DOMAIN s.syms
  <2> DEFINE x == s.syms[r]
  <2>1. /\ IsOuter(s, r, n) /\ y.defined = x.defined /\ y.emitted = x.emitted
        /\ y.exported = x.exported /\ y.imported = x.imported
        /\ y.sclass = IF x.sclass = "EXTERN" THEN sclass ELSE x.sclass
    BY <1>2 DEF Resumes
  <2>2. Printed(x, l, FALSE) /\ l # "none"
    BY <2>1 DEF NameSound
  <2>3. l2 \in {l, "both"} /\ l2 # "none"
    BY <2>2 DEF LinkageStep
  <2>4. (l2 = "internal" => y.sclass = "STATIC") /\ (l2 = "external" => y.sclass \in {"AUTO", "EXTERN"})
    BY <2>1, <2>2, <2>3 DEF LinkageStep, Printed
  <2>5. Printed(y, l2, FALSE)
    <3> HIDE DEF x
    <3> QED
      BY <2>1, <2>2, <2>3, <2>4 DEF Printed
  <2>6. ASSUME n \in D PROVE y.defined
    <3>1. PICK p : IsOuter(s, p, n) /\ s.syms[p].defined
      BY <2>6 DEF NameSound
    <3>2. p = r
      BY <2>1, <3>1 DEF NameSound, OneSymbol, IsOuter
    <3> QED
      BY <2>1, <3>1, <3>2
  <2> QED
    BY <1>2, <2>1, <2>5, <2>6
<1> QED
  BY <1>1, <1>2

\* A declaration at file scope keeps its name sound, unless it is a second definition.
LEMMA DeclaredSound ==
    ASSUME NEW s, NEW u, NEW r, NEW n, NEW sclass, NEW kind, NEW init, NEW l, NEW l2, NEW D,
           Declared(s, u, r, n, sclass, kind, init), LinkageStep(l, l2, sclass),
           NameSound(s, n, l, D, NULL), Sound(u), init \in BOOLEAN,
           sclass \in {"AUTO", "STATIC", "EXTERN"},
           init = FALSE \/ Undefined(s, n)
    PROVE  NameSound(u, n, l2, D \cup Defined(init, n), NULL)
<1> DEFINE z == u.syms[r]
<1>1. PICK y : Resumes(s, y, r, n, sclass) /\ Initialises(y, z, kind, init)
  BY DEF Declared
<1>2. NULL \notin DOMAIN u.syms /\ IsOuter(u, r, n) /\ r # NULL /\ OneSymbol(u, n)
      /\ \A q : IsOuter(u, q, n) <=> q = r
  BY SoundTables DEF Declared, TheOne, IsOuter, IsOf
<1>3. /\ Printed(y, l2, FALSE)
      /\ n \in D => y.defined
      /\ r \notin DOMAIN s.syms => ~y.defined
      /\ r \in DOMAIN s.syms => IsOuter(s, r, n) /\ (y.defined <=> s.syms[r].defined)
  <2>1. r # NULL /\ Resumes(s, y, r, n, sclass)
    BY <1>1, <1>2
  <2> HIDE DEF z
  <2> QED
    BY <2>1, ResumedMarks, ZenonT(60)
<1>4. l2 \in {"internal", "external", "both"}
  BY DEF LinkageStep
<1>5. init => ~y.defined
  BY <1>3 DEF Undefined
<1> HIDE DEF z
<1>6. Printed(z, l2, FALSE)
  <2>1. CASE init
    <3>1. y.emitted = 0 /\ ~y.exported /\ ~y.imported
      BY <1>3, <1>5, <2>1 DEF Printed
    <3>2. z.emitted = 1 /\ z.defined /\ ~z.imported
      <4>1. z.emitted = y.emitted + 1 /\ z.imported = y.imported
        BY <1>1, <2>1 DEF Initialises
      <4> QED
        BY <1>1, <2>1, <3>1, <4>1 DEF Initialises
    <3>3. z.exported <=> y.sclass # "STATIC"
      BY <1>1, <2>1, <3>1 DEF Initialises
    <3>4. z.sclass = IF y.sclass = "EXTERN" THEN "AUTO" ELSE y.sclass
      BY <1>1, <2>1 DEF Initialises
    <3> QED
      BY <1>3, <3>2, <3>3, <3>4 DEF Printed
  <2>2. CASE ~init
    <3>1. y.emitted \in {0, 1}
      BY <1>3 DEF Printed
    <3>2. z.emitted = y.emitted /\ z.sclass = y.sclass /\ z.imported = y.imported
      BY <1>1, <2>2, <3>1 DEF Initialises
    <3>3. (z.defined <=> y.defined) /\ (z.exported <=> y.exported)
      BY <1>1, <2>2 DEF Initialises
    <3> QED
      BY <1>3, <3>2, <3>3 DEF Printed
  <2> QED
    BY <2>1, <2>2
<1>7. (y.defined \/ init) <=> z.defined
  BY <1>1 DEF Initialises
<1>8. n \in D \cup Defined(init, n) => z.defined
  BY <1>3, <1>7 DEF Defined
<1>9. \A q : IsOuter(u, q, n) => Printed(u.syms[q], l2, q = NULL)
  BY <1>2, <1>6 DEF z
<1>10. NameSound(u, n, l2, D \cup Defined(init, n), NULL)
  BY <1>2, <1>4, <1>8, <1>9 DEF NameSound, IsOf, z
<1> QED
  BY <1>10

\* A declaration alone defines nothing.
LEMMA DeclaredOnly ==
    ASSUME NEW s, NEW u, NEW r, NEW n, NEW sclass, NEW kind, Sound(u), Declared(s, u, r, n, sclass, kind, FALSE), Undefined(s, n)
    PROVE  ~u.syms[r].defined
<1> DEFINE z == u.syms[r]
<1>1. PICK y : Resumes(s, y, r, n, sclass) /\ Initialises(y, z, kind, FALSE)
  BY DEF Declared
<1>2. ~y.defined
  BY <1>1 DEF Resumes, Blank, Undefined
<1>3. y.defined <=> z.defined
  BY <1>1 DEF Initialises
<1> QED
  BY <1>2, <1>3

\* A declaration that is no error defines nothing again.
LEMMA NotTwice ==
    ASSUME NEW s, Sound(s), NEW id \in Name, OneSymbol(s, id),
           lookup(s, id) # NULL =>
              s.syms[lookup(s, id)].scope = GLOBAL /\ ~s.syms[lookup(s, id)].defined
    PROVE  Undefined(s, id)
<1> DEFINE p == lookup(s, id)
<1> SUFFICES ASSUME NEW q, IsOuter(s, q, id) PROVE ~s.syms[q].defined
  BY DEF Undefined
<1>1. IsOf(s, q, id) /\ q \in Globals(s) \cup Externals(s)
  BY DEF IsOuter, OneSymbol
<1>2. CASE q \in Externals(s)
  BY <1>1, <1>2 DEF OneSymbol
<1>3. CASE q \in Globals(s)
  <2>1. p # NULL
    BY <1>1, <1>3, NotThere
  <2>2. p \in Globals(s) /\ p \in DOMAIN s.syms /\ s.syms[p].name = id /\ s.syms[p].scope = GLOBAL
    BY <2>1, LookupGlobal, LookupMeans DEF Finds
  <2>3. p = q
    BY <1>1, <1>3, <2>2 DEF OneSymbol, IsOf
  <2> QED
    BY <2>1, <2>3
<1> QED
  BY <1>1, <1>2, <1>3

\* It is defined then, and printed at its end.
LEMMA BegunSound ==
    ASSUME NEW s, NEW u, NEW r, NEW n, NEW l, NEW D, Sound(s), TheOne(s, r, n), r \in Globals(s),
           ~s.syms[r].defined, NameSound(s, n, l, D, NULL), u = Begun(s, r)
    PROVE  /\ NameSound(u, n, l, D \cup {n}, r)
           /\ Spares(s, u, n)
<1> DEFINE x == s.syms[r]
           y == [x EXCEPT !.defined = TRUE]
<1>1. IsOuter(s, r, n) /\ r \in DOMAIN s.syms /\ x.name = n /\ x.scope = GLOBAL
  BY DEF TheOne, IsOuter, IsOf
<1>2. DOMAIN s = {"level", "syms", "identifiers", "externals"} /\ x \in Symbol /\ r # NULL
  BY <1>1, PlacesIn, SoundTables
<1>3. u.identifiers = s.identifiers /\ u.externals = s.externals /\ u.syms = [s.syms EXCEPT ![r] = y]
  BY <1>2 DEF Begun
<1>4. /\ y.name = n /\ y.scope = GLOBAL /\ y.sclass = x.sclass /\ y.defined
      /\ y.emitted = x.emitted /\ y.exported = x.exported /\ y.imported = x.imported
  <2> HIDE DEF x
  <2> QED
    BY <1>1, <1>2 DEF Symbol
<1> HIDE DEF y
<1>5. u.syms[r] = y
  BY <1>1, <1>3
<1>6. Rewrites(s, u, r, n)
  <2>1. IsOf(s, r, n)
    BY <1>1 DEF IsOuter
  <2>2. y.name = n /\ y.scope = GLOBAL
    BY <1>4
  <2> HIDE DEF x
  <2> QED
    BY <1>3, <2>1, <2>2, MarkRewrites
<1>7. TheOne(u, r, n)
  <2>1. u.syms[r].sclass # "TYPEDEF" /\ OneSymbol(s, n)
    BY <1>1, <1>4, <1>5 DEF IsOuter, TheOne
  <2> QED
    BY <1>1, <1>6, <2>1, RewritesOne
<1>8. Printed(x, l, FALSE)
  <2>1. Printed(x, l, r = NULL)
    BY <1>1 DEF NameSound
  <2> QED
    BY <1>2, <2>1
<1>9. Printed(y, l, TRUE)
  <2>1. x.emitted = 0 /\ ~x.exported
    BY <1>8 DEF Printed
  <2> HIDE DEF x
  <2> QED
    BY <1>4, <1>8, <2>1 DEF Printed
<1>10. l # "none" /\ IsOuter(u, r, n)
  BY <1>1, <1>7 DEF NameSound, TheOne
<1>11. \A p : IsOuter(u, p, n) => Printed(u.syms[p], l, p = r)
  BY <1>5, <1>7, <1>9 DEF TheOne
<1>12. NameSound(u, n, l, D \cup {n}, r)
  BY <1>4, <1>5, <1>7, <1>10, <1>11 DEF NameSound, TheOne
<1>13. Spares(s, u, n)
  BY <1>6, RewritesElsewhere DEF Spares
<1> QED
  BY <1>12, <1>13

\* The body of a function ends.
LEMMA EndedSound ==
    ASSUME NEW s, NEW u, NEW c, NEW n, NEW l, NEW D, Sound(s), IsOf(s, c, n),
           NameSound(s, n, l, D, c), u = defglobal(s, c)
    PROVE  NameSound(u, n, l, D, NULL)
<1> DEFINE x == s.syms[c]
           y == u.syms[c]
<1>1. IsOuter(s, c, n) /\ x.defined /\ OneSymbol(s, n) /\ l # "none"
  BY DEF NameSound
<1>2. c \in Globals(s)
  BY <1>1 DEF OneSymbol
<1>3. Rewrites(s, u, c, n) /\ Completed(x, y)
  BY <1>2, DefglobalRewrites
<1>4. TheOne(u, c, n)
  <2>1. y.sclass # "TYPEDEF"
    BY <1>1, <1>3 DEF Completed, IsOuter
  <2> QED
    BY <1>1, <1>2, <1>3, <2>1, RewritesOne
<1>5. Printed(x, l, TRUE)
  <2>1. Printed(x, l, c = c)
    BY <1>1 DEF NameSound
  <2> QED
    BY <2>1
<1>6. NULL \notin DOMAIN u.syms
  <2>1. Sound(u)
    BY Marked, SameSound
  <2> QED
    BY <2>1, SoundTables
<1> HIDE DEF y, x
<1>7. Printed(y, l, FALSE)
  <2>1. x.emitted = 0 /\ ~x.exported /\ ~x.imported
    BY <1>5 DEF Printed
  <2>2. /\ y.emitted = 1 /\ y.defined /\ ~y.imported /\ y.sclass = x.sclass
        /\ y.exported <=> y.sclass # "STATIC"
    BY <1>3, <2>1 DEF Completed
  <2> QED
    BY <1>5, <2>2 DEF Printed
<1>8. IsOuter(u, c, n) /\ OneSymbol(u, n) /\ y.defined
  BY <1>3, <1>4 DEF TheOne, Completed
<1>9. \A p : IsOuter(u, p, n) => Printed(u.syms[p], l, p = NULL)
  <2>1. c # NULL
    BY <1>6, <1>8 DEF IsOuter, IsOf
  <2> QED
    BY <1>4, <1>7, <2>1 DEF TheOne, y
<1> QED
  BY <1>1, <1>6, <1>8, <1>9 DEF NameSound, IsOf, y

\* A block introduces a name.
LEMMA ExternalSound ==
    ASSUME NEW s, Sound(s), NEW u, NEW p, NEW n, Entered(s, u, p, n, "EXTERN", {}, {p}),
           NEW D, NEW c, c = NULL \/ c \in DOMAIN s.syms, p # NULL, NameSound(s, n, "none", D, c)
    PROVE  NameSound(u, n, "external", D, c)
<1>1. n \notin D /\ \A q : ~IsOuter(s, q, n)
  BY DEF NameSound
<1>2. OneSymbol(u, n) /\ \A q : IsOuter(u, q, n) <=> q = p
  <2>1. OneSymbol(s, n)
    BY DEF NameSound
  <2>2. /\ OneSymbol(u, n)
        /\ \A q : IsOuter(u, q, n) <=> IsOuter(s, q, n) \/ (q = p /\ "EXTERN" # "TYPEDEF")
    BY <1>1, <2>1, EnteredOne
  <2> QED
    BY <1>1, <2>2
<1>3. ~IsOf(u, c, n)
  <2>1. p \notin DOMAIN s.syms
    BY DEF Entered
  <2>2. ~IsOf(s, c, n)
    BY <1>1 DEF NameSound
  <2> QED
    BY <2>1, <2>2 DEF Entered
<1>4. Printed(u.syms[p], "external", p = c)
  <2>1. Blank(u.syms[p]) /\ u.syms[p].sclass = "EXTERN"
    BY DEF Entered
  <2> QED
    BY <2>1 DEF Printed, Blank
<1> QED
  BY <1>1, <1>2, <1>3, <1>4 DEF NameSound

\* A name becomes a type.
LEMMA TypeSound ==
    ASSUME NEW s, NEW u, NEW p, NEW n, NEW l, NEW D, Sound(s), Sound(u),
           Entered(s, u, p, n, "TYPEDEF", {p}, {}), \A q : IsOf(s, q, n) => q \notin Globals(s),
           NameSound(s, n, l, D, NULL)
    PROVE  NameSound(u, n, l, D, NULL)
<1>1. OneSymbol(u, n) /\ \A q : IsOuter(u, q, n) <=> IsOuter(s, q, n)
  <2>1. OneSymbol(s, n)
    BY DEF NameSound
  <2>2. /\ OneSymbol(u, n)
        /\ \A q : IsOuter(u, q, n) <=> IsOuter(s, q, n) \/ (q = p /\ "TYPEDEF" # "TYPEDEF")
    BY <2>1, EnteredOne
  <2> QED
    BY <2>2
<1>2. \A q : IsOuter(s, q, n) => SameMarks(s.syms[q], u.syms[q])
  BY DEF Entered, IsOuter
<1>3. NULL \notin DOMAIN u.syms
  BY SoundTables
<1>4. \A q : IsOuter(u, q, n) => Printed(u.syms[q], l, q = NULL)
  <2> TAKE q
  <2> HAVE IsOuter(u, q, n)
  <2>1. Printed(s.syms[q], l, q = NULL) /\ SameMarks(s.syms[q], u.syms[q])
    BY <1>1, <1>2 DEF NameSound
  <2> QED
    BY <2>1 DEF Printed, SameMarks
<1>5. n \in D => \E q : IsOuter(u, q, n) /\ u.syms[q].defined
  BY <1>1, <1>2 DEF NameSound, SameMarks
<1>6. l # "none" <=> \E q : IsOuter(u, q, n)
  BY <1>1 DEF NameSound
<1> QED
  BY <1>1, <1>3, <1>4, <1>5, <1>6 DEF NameSound, IsOf

\* The symbol behind the extern declarations of a block is that of the name.
LEMMA OutsideOuter ==
    ASSUME NEW s, NEW id, NEW q, Sound(s), OneSymbol(s, id), q = Outside(s, id)
    PROVE  Outsider(s, id, q)
<1> DEFINE g == Find(s, s.identifiers[1], id)
           x == Find(s, s.externals, id)
<1>1. /\ 1 \in DOMAIN s.identifiers /\ s.identifiers[1].level = GLOBAL
      /\ s.identifiers[1].bucket \in Seq(DOMAIN s.syms) /\ s.externals.bucket \in Seq(DOMAIN s.syms)
  BY PlacesIn DEF Sound, AllListed, Listed
<1>2. \A tp : tp.bucket \in Seq(DOMAIN s.syms) =>
         Find(s, tp, id) = NULL \/ s.syms[Find(s, tp, id)].name = id
  <2> SUFFICES ASSUME NEW tp, tp.bucket \in Seq(DOMAIN s.syms)
               PROVE  Find(s, tp, id) = NULL \/ s.syms[Find(s, tp, id)].name = id
    OBVIOUS
  <2> DEFINE b == tp.bucket
  <2>1. Find(s, tp, id) = First(s, b, id)
    BY FindIsFirst
  <2> HIDE DEF b
  <2>2. First(s, b, id) = NULL \/ (First(s, b, id) \in ToSet(b) /\ s.syms[First(s, b, id)].name = id)
    BY FirstIn DEF b
  <2> QED
    BY <2>1, <2>2
<1>3. g # NULL => IsOf(s, g, id) /\ g \in Globals(s)
  <2>1. \A i \in DOMAIN s.identifiers : Find(s, s.identifiers[i], id) # NULL =>
           /\ Find(s, s.identifiers[i], id) \in ToSet(s.identifiers[i].bucket)
           /\ Find(s, s.identifiers[i], id) \in DOMAIN s.syms
           /\ s.syms[Find(s, s.identifiers[i], id)].scope = s.identifiers[i].level
    BY FindSound
  <2> QED
    BY <1>1, <1>2, <2>1 DEF IsOf, Globals
<1>4. x # NULL => IsOf(s, x, id) /\ x \in Externals(s)
  <2>1. x # NULL => x \in ToSet(s.externals.bucket) /\ x \in DOMAIN s.syms /\ s.syms[x].scope = GLOBAL
    BY FindSound
  <2> QED
    BY <1>1, <1>2, <2>1 DEF IsOf, Externals
<1>5. q = IF g # NULL /\ s.syms[g].sclass # "TYPEDEF" THEN g ELSE x
  BY DEF Outside
<1>6. x = NULL => \A p : IsOf(s, p, id) => p \notin Externals(s)
  BY NotThere
<1>7. g = NULL => \A p : IsOf(s, p, id) => p \notin Globals(s)
  BY NotThere
<1>8. g # NULL \/ g = NULL
  OBVIOUS
<1> HIDE DEF g, x
<1>9. q # NULL => IsOuter(s, q, id)
  <2>1. x # NULL => s.syms[x].sclass = "EXTERN"
    BY <1>4 DEF OneSymbol
  <2> QED
    BY <1>3, <1>4, <1>5, <2>1 DEF IsOuter
<1>10. ASSUME q = NULL, NEW p, IsOuter(s, p, id) PROVE FALSE
  <2>1. IsOf(s, p, id) /\ s.syms[p].sclass # "TYPEDEF" /\ p \in Globals(s) \cup Externals(s)
    BY <1>10 DEF IsOuter, OneSymbol
  <2>2. x = NULL
    BY <1>3, <1>5, <1>10
  <2>3. p \in Globals(s) /\ g # NULL
    BY <1>6, <1>7, <2>1, <2>2
  <2>4. p = g
    BY <1>3, <2>1, <2>3 DEF OneSymbol
  <2> QED
    BY <1>5, <1>10, <2>1, <2>3, <2>4
<1> QED
  BY <1>9, <1>10 DEF Outsider

\* An extern declaration in a block keeps its name sound, and leaves the others.
LEMMA DclexternSound ==
    ASSUME NEW s, Sound(s), s.level > GLOBAL, NEW id \in Name, NEW kind \in {"object", "function"},
           NEW q, NEW u, u = dclextern(s, id, kind, q)
    PROVE  /\ Spares(s, u, id)
           /\ \A l, l2, D, c :
                 /\ Outsider(s, id, q)
                 /\ NameSound(s, id, l, D, c) /\ LinkageStep(l, l2, "EXTERN")
                 /\ c = NULL \/ c \in DOMAIN s.syms
                 => NameSound(u, id, l2, D, c)
<1> DEFINE x == NewSymbol(id, s.level, "EXTERN", kind, "PERM")
           y == NewSymbol(id, GLOBAL, "EXTERN", kind, "PERM")
           local == install(s, x)
           outer == IF q # NULL THEN local ELSE installExternal(local, y)
           alias == IF q # NULL THEN q ELSE Fresh(local)
           p == Fresh(local)
<1>1. /\ x \in Symbol /\ x.scope = s.level /\ x.alias = NULL /\ x.arena = "PERM"
      /\ y \in Symbol /\ y.scope = GLOBAL /\ y.alias = NULL /\ y.arena = "PERM" /\ y.sclass = "EXTERN"
      /\ y.name = id /\ Blank(y)
  <2>1. GLOBAL \in Nat /\ s.level \in Nat
    BY SoundTables DEF GLOBAL
  <2>2. y.name = id /\ Blank(y)
    BY DEF NewSymbol, Blank
  <2> HIDE DEF x, y
  <2>3. x \in Symbol /\ x.scope = s.level /\ x.alias = NULL /\ x.arena = "PERM"
    BY <2>1, NewSymbolIs DEF x
  <2>4. y \in Symbol /\ y.scope = GLOBAL /\ y.alias = NULL /\ y.arena = "PERM" /\ y.sclass = "EXTERN"
    BY <2>1, NewSymbolIs DEF y
  <2> QED
    BY <2>2, <2>3, <2>4
<1>2. u = [outer EXCEPT !.syms[Fresh(s)].alias = alias]
  BY DEF dclextern
<1> HIDE DEF x, y
<1>3. Quiet(s, local)
  BY <1>1, InstallQuiet
<1>4. Sound(local) /\ DOMAIN s.syms \subseteq DOMAIN local.syms
  BY <1>1, Installed DEF Adds
<1>5. outer = IF q # NULL THEN local ELSE installExternal(local, y)
  OBVIOUS
<1> HIDE DEF local, outer, alias, p
<1>6. q = NULL => Entered(local, outer, p, id, "EXTERN", {}, {p})
  BY <1>1, <1>4, <1>5, DeclarationEnters DEF p
<1>7. Sound(outer)
  BY <1>1, <1>4, <1>5, ExternalInstalled DEF Adds
<1>8. Quiet(outer, u)
  BY <1>2, <1>7, UsedQuiet
<1>9. ASSUME NEW a, a # id PROVE Undisturbed(s, u, a)
  <2>1. Undisturbed(s, local, a) /\ Undisturbed(outer, u, a)
    BY <1>3, <1>8 DEF Quiet
  <2>2. Undisturbed(local, outer, a)
    <3>1. CASE q # NULL
      BY <1>5, <3>1, UndisturbedTwice
    <3>2. CASE q = NULL
      <4>1. {} \subseteq {p} /\ {p} \subseteq {p}
        OBVIOUS
      <4> QED
        BY <1>4, <1>6, <1>9, <3>2, <4>1, EnteredElsewhere
    <3> QED
      BY <3>1, <3>2
  <2> QED
    BY <2>1, <2>2, UndisturbedTwice
<1>10. ASSUME NEW l, NEW l2, NEW D, NEW c,
              Outsider(s, id, q), NameSound(s, id, l, D, c), LinkageStep(l, l2, "EXTERN"),
              c = NULL \/ c \in DOMAIN s.syms
       PROVE  NameSound(u, id, l2, D, c)
  <2>1. Undisturbed(s, local, id) /\ Undisturbed(outer, u, id)
    BY <1>3, <1>8 DEF Quiet
  <2>2. NameSound(local, id, l, D, c)
    BY <1>10, <2>1, UndisturbedSound
  <2>3. NameSound(outer, id, l2, D, c)
    <3>1. CASE q # NULL
      <4>1. l # "none"
        BY <1>10, <3>1 DEF NameSound, Outsider
      <4>2. l2 = l \/ (l # "none" /\ l2 = "both")
        BY <1>10, <4>1 DEF LinkageStep
      <4>3. NameSound(local, id, l2, D, c)
        BY <2>2, <4>2, UndisturbedSound, UndisturbedTwice
      <4> QED
        BY <1>5, <3>1, <4>3
    <3>2. CASE q = NULL
      <4>1. l = "none"
        BY <1>10, <3>2 DEF NameSound, Outsider
      <4>2. l2 = "external"
        BY <1>10, <4>1 DEF LinkageStep
      <4>3. p # NULL /\ (c = NULL \/ c \in DOMAIN local.syms)
        BY <1>4, <1>10, FreshIsFree DEF p, Sound
      <4>4. NameSound(local, id, "none", D, c)
        BY <2>2, <4>1
      <4>5. NameSound(outer, id, "external", D, c)
        BY <1>4, <1>6, <3>2, <4>3, <4>4, ExternalSound
      <4> QED
        BY <4>2, <4>5
    <3> QED
      BY <3>1, <3>2
  <2> QED
    BY <2>1, <2>3, UndisturbedSound
<1> QED
  BY <1>9, <1>10 DEF Spares

---------------------------------------------------------------------------
(* The steps *)

\* What disturbs no name keeps all sound.
LEMMA NamesQuiet ==
    ASSUME NamesSound, Quiet(st, st'), linkage' = linkage, definitions' = definitions,
           cfunc' = cfunc, ownNamed' = ownNamed
    PROVE  NamesSound'
<1> SUFFICES ASSUME NEW n \in Name \ ownNamed
             PROVE  NameSound(st', n, linkage[n], definitions, cfunc)
  BY DEF NamesSound
<1>1. Undisturbed(st, st', n) /\ NameSound(st, n, linkage[n], definitions, cfunc)
  BY DEF Quiet, NamesSound
<1> QED
  BY <1>1, UndisturbedSound

\* Blocks, uses, and functions without a name.
LEMMA QuietNames ==
    ASSUME ScopesInvariant, NamesSound,
           \/ BlockBegin \/ BlockEnd \/ Use
           \/ \E params : (params = << >> \/ params[1] \in Name) /\ OtherFunctionBegin(params)
    PROVE  NamesSound'
<1>1. Sound(st) /\ st.level \in Nat /\ GLOBAL \in Nat
  BY SoundTables DEF ScopesInvariant, TablesInvariant, GLOBAL
<1>2. CASE BlockBegin
  <2>1. Quiet(st, st')
    BY <1>1, <1>2, ScopesQuiet DEF BlockBegin, Becomes
  <2> QED
    BY <1>2, <2>1, NamesQuiet DEF BlockBegin
<1>3. CASE BlockEnd
  <2>1. st.level > GLOBAL /\ st' = exitscope(st)
    BY <1>3 DEF BlockEnd, Becomes, Inside
  <2>2. Quiet(st, st')
    BY <1>1, <2>1, ScopesQuiet
  <2> QED
    BY <1>3, <2>2, NamesQuiet DEF BlockEnd
<1>4. CASE Use
  <2>1. Quiet(st, st')
    BY <1>1, <1>4, UsedQuiet DEF Use, Becomes
  <2> QED
    BY <1>4, <2>1, NamesQuiet DEF Use
<1>5. ASSUME NEW params, params = << >> \/ params[1] \in Name, OtherFunctionBegin(params)
      PROVE  NamesSound'
  <2> DEFINE h == parameters(enterscope(st), params)
  <2>1. st.level = GLOBAL /\ st' = enterscope(h)
    BY <1>5 DEF OtherFunctionBegin, Between, Becomes
  <2>2. Quiet(st, h)
    BY <1>1, <1>5, <2>1, HeadQuiet
  <2>3. Sound(h)
    BY <1>1, <1>5, <2>1, HeadShown DEF HeadOf, Leaves
  <2> HIDE DEF h
  <2>4. Quiet(st, st')
    BY <2>1, <2>2, <2>3, ScopesQuiet, QuietTwice
  <2> QED
    BY <1>5, <2>4, NamesQuiet DEF OtherFunctionBegin
<1> QED
  BY <1>2, <1>3, <1>4, <1>5

\* A declaration at file scope.
LEMMA GlobalDeclNames ==
    ASSUME ScopesInvariant, LinkageKnown, NamesSound, phase' # "rejected", NEW id \in unit.names,
           NEW sclass \in {"AUTO", "STATIC", "EXTERN"}, NEW kind \in {"object", "function"},
           NEW init \in BOOLEAN, kind = "object" \/ init = FALSE, NEW params, params = << >> \/ params[1] \in Name,
           GlobalDecl(id, sclass, kind, init, params)
    PROVE  NamesSound'
<1> DEFINE s == prototype(st, params)
           d == dclglobal(s, id, sclass, kind, init)
           u == deallocate(d.s)
<1>1. /\ Sound(st) /\ st.level = GLOBAL /\ cfunc = NULL /\ Meant(st, definitions) /\ id \in Name
  BY NamesOfUnit DEF ScopesInvariant, TablesInvariant, MarksMeant, GlobalDecl, Between
<1>2. /\ ~d.error /\ st' = u /\ linkage' = C!LinkageAfter(id, sclass, kind)
      /\ definitions' = IF init THEN definitions \cup {id} ELSE definitions
      /\ UNCHANGED <<cfunc, ownNamed>>
  BY DEF GlobalDecl, Reject, Becomes
<1>3. Sound(s) /\ s.level = GLOBAL /\ Quiet(st, s) /\ Meant(s, definitions)
  BY <1>1, PrototypeRead, PrototypeQuiet, PrototypeShown DEF Leaves
<1> HIDE DEF s
<1>4. Leaves(s, d.s)
  BY <1>1, <1>3, DeclaredGlobal
<1>14. Sound(d.s) /\ d.s.level = GLOBAL
  BY <1>3, <1>4 DEF Leaves
<1>5. Spares(s, d.s, id) /\ (Declarable(s, id, d) => Declared(s, d.s, d.p, id, sclass, kind, init))
  BY <1>1, <1>3, DclglobalDeclares
<1>6. lookup(s, id) # NULL => s.syms[lookup(s, id)].scope = GLOBAL
  BY <1>3, LookupSound
<1>7. init /\ lookup(s, id) # NULL => ~s.syms[lookup(s, id)].defined
  BY <1>2, <1>6 DEF dclglobal
<1> HIDE DEF d, u
<1>8. Quiet(d.s, st')
  BY <1>2, <1>14, DeallocateQuiet DEF u
<1>9. /\ linkage' \in [Name -> {"none", "internal", "external", "both"}]
      /\ \A m \in Name : m # id => linkage'[m] = linkage[m]
      /\ LinkageStep(linkage[id], linkage'[id], sclass)
  BY <1>1, <1>2, LinkageAfterIs
<1>10. ASSUME NEW n \in Name \ ownNamed, n # id
       PROVE  NameSound(st', n, linkage'[n], definitions', cfunc')
  <2>1. Undisturbed(st, s, n) /\ Undisturbed(s, d.s, n) /\ Undisturbed(d.s, st', n)
    BY <1>3, <1>5, <1>8, <1>10 DEF Quiet, Spares
  <2>2. Undisturbed(st, st', n)
    BY <2>1, UndisturbedTwice
  <2>3. NameSound(st, n, linkage[n], definitions, cfunc) /\ linkage'[n] = linkage[n]
    BY <1>9, <1>10 DEF NamesSound
  <2>4. (n \in definitions' <=> n \in definitions) /\ cfunc' = cfunc
    BY <1>2, <1>10
  <2> QED
    BY <2>2, <2>3, <2>4, UndisturbedSound
<1>11. ASSUME id \notin ownNamed
       PROVE  NameSound(st', id, linkage'[id], definitions', cfunc')
  <2>1. NameSound(st, id, linkage[id], definitions, NULL)
    BY <1>1, <1>11 DEF NamesSound
  <2>2. NameSound(s, id, linkage[id], definitions, NULL)
    BY <1>3, <2>1, UndisturbedSound DEF Quiet
  <2>3. OneSymbol(s, id)
    BY <2>2 DEF NameSound
  <2>4. Declared(s, d.s, d.p, id, sclass, kind, init)
    BY <1>2, <1>3, <1>5, <1>6, <2>3 DEF Meant, Declarable
  <2>5. init = FALSE \/ Undefined(s, id)
    BY <1>1, <1>3, <1>6, <1>7, <2>3, NotTwice
  <2>6. NameSound(d.s, id, linkage'[id], definitions \cup Defined(init, id), NULL)
    <3> DEFINE w == d.s
               l2 == linkage'[id]
    <3>1. /\ Sound(w) /\ Declared(s, w, d.p, id, sclass, kind, init)
          /\ LinkageStep(linkage[id], l2, sclass)
      BY <1>9, <1>14, <2>4
    <3> HIDE DEF w, l2
    <3>2. NameSound(w, id, l2, definitions \cup Defined(init, id), NULL)
      BY <2>2, <2>5, <3>1, DeclaredSound
    <3> QED
      BY <3>2 DEF w, l2
  <2>7. definitions' = definitions \cup Defined(init, id) /\ cfunc' = NULL
    BY <1>1, <1>2 DEF Defined
  <2>8. NameSound(st', id, linkage'[id], definitions \cup Defined(init, id), NULL)
    BY <1>8, <2>6, UndisturbedSound DEF Quiet
  <2> QED
    BY <2>7, <2>8
<1>12. ownNamed' = ownNamed
  BY <1>2
<1> QED
  BY <1>10, <1>11, <1>12 DEF NamesSound

\* A name that is disturbed by nothing, or only by what its declaration does.
LEMMA QuietName ==
    ASSUME NEW s, NEW s2, NEW n, NEW l, NEW D, NEW c, NameSound(s, n, l, D, c), Quiet(s, s2)
    PROVE  NameSound(s2, n, l, D, c)
  BY UndisturbedSound DEF Quiet

\* The other names are sound after the declaration of one.
LEMMA NamesSpared ==
    ASSUME NamesSound, NEW id, Spares(st, st', id), ownNamed \subseteq ownNamed',
           \A m \in Name : m # id => /\ linkage'[m] = linkage[m]
                                     /\ m \in definitions' <=> m \in definitions,
           \A m \in Name : \A p : m # id /\ IsOf(st, p, m) => (p = cfunc' <=> p = cfunc),
           id \in Name \ ownNamed' => NameSound(st', id, linkage'[id], definitions', cfunc')
    PROVE  NamesSound'
<1> SUFFICES ASSUME NEW n \in Name \ ownNamed', n # id
             PROVE  NameSound(st', n, linkage'[n], definitions', cfunc')
  BY DEF NamesSound
<1>1. Undisturbed(st, st', n) /\ NameSound(st, n, linkage[n], definitions, cfunc)
  BY DEF Spares, NamesSound
<1>2. linkage'[n] = linkage[n] /\ (n \in definitions' <=> n \in definitions)
  OBVIOUS
<1>3. \A p : IsOf(st, p, n) => (p = cfunc' <=> p = cfunc)
  OBVIOUS
<1> QED
  BY <1>1, <1>2, <1>3, UndisturbedSound

\* A symbol outside blocks that is written disturbs its own name only.
LEMMA MarkSpares ==
    ASSUME NEW s, NEW s2, NEW p, NEW n, NEW y, s2.syms = [s.syms EXCEPT ![p] = y],
           s2.identifiers = s.identifiers, s2.externals = s.externals,
           IsOf(s, p, n), y.name = n, y.scope = GLOBAL
    PROVE  Spares(s, s2, n)
<1> SUFFICES ASSUME NEW a, a # n PROVE Undisturbed(s, s2, a)
  BY DEF Spares
<1>1. Globals(s2) = Globals(s) /\ Externals(s2) = Externals(s)
  BY DEF Globals, Externals
<1>2. \A q : IsOf(s2, q, a) <=> IsOf(s, q, a)
  BY DEF IsOf
<1>3. \A q : IsOf(s, q, a) => SameMarks(s.syms[q], s2.syms[q])
  BY DEF IsOf, SameMarks
<1> QED
  BY <1>1, <1>2, <1>3 DEF Undisturbed

\* So do the beginning and the end of a function.
LEMMA FunctionSpares ==
    ASSUME NEW s, NEW p, NEW n, Sound(s), IsOf(s, p, n)
    PROVE  Spares(s, defglobal(s, p), n) /\ Spares(s, Begun(s, p), n)
<1> DEFINE x == s.syms[p]
           y == [x EXCEPT !.emitted = @ + 1, !.defined = TRUE,
                          !.exported = @ \/ x.sclass # "STATIC"]
           z == [x EXCEPT !.defined = TRUE]
<1>1. DOMAIN s = {"level", "syms", "identifiers", "externals"} /\ x \in Symbol
      /\ x.name = n /\ x.scope = GLOBAL
  BY PlacesIn, SoundTables DEF IsOf
<1>2. /\ defglobal(s, p).syms = [s.syms EXCEPT ![p] = y]
      /\ defglobal(s, p).identifiers = s.identifiers /\ defglobal(s, p).externals = s.externals
  BY <1>1 DEF defglobal
<1>3. /\ Begun(s, p).syms = [s.syms EXCEPT ![p] = z]
      /\ Begun(s, p).identifiers = s.identifiers /\ Begun(s, p).externals = s.externals
  BY <1>1 DEF Begun
<1>4. y.name = n /\ y.scope = GLOBAL /\ z.name = n /\ z.scope = GLOBAL
  <2> HIDE DEF x
  <2> QED
    BY <1>1 DEF Symbol
<1> HIDE DEF x, y, z
<1>5. Spares(s, defglobal(s, p), n)
  BY <1>2, <1>4, MarkSpares
<1>6. Spares(s, Begun(s, p), n)
  BY <1>3, <1>4, MarkSpares
<1> QED
  BY <1>5, <1>6

\* A typedef.
LEMMA TypedefNames ==
    ASSUME ScopesInvariant, NamesSound, phase' # "rejected", NEW id \in unit.names, Typedef(id)
    PROVE  NamesSound'
<1> DEFINE x == NewSymbol(id, st.level, "TYPEDEF", "type", IF st.level < LOCAL_ THEN "PERM" ELSE "FUNC")
           s == install(st, x)
           r == Fresh(st)
<1>1. Sound(st) /\ Level(st.level) /\ id \in Name /\ (st.level = GLOBAL => cfunc = NULL)
  BY NamesOfUnit DEF ScopesInvariant, TablesInvariant, MarksMeant, Typedef
<1>2. /\ ~(lookup(st, id) # NULL /\ st.syms[lookup(st, id)].scope = st.level)
      /\ st' = IF st.level = GLOBAL THEN deallocate(s) ELSE s
      /\ UNCHANGED <<cfunc, linkage, definitions, ownNamed>>
  BY DEF Typedef, Reject, Becomes
<1>3. /\ x \in Symbol /\ x.scope = st.level /\ x.alias = NULL /\ x.sclass = "TYPEDEF"
      /\ x.name = id /\ Blank(x) /\ (st.level = GLOBAL => x.arena = "PERM")
  <2>1. x.name = id /\ Blank(x)
    BY DEF NewSymbol, Blank
  <2>2. st.level \in Nat /\ (st.level = GLOBAL => st.level < LOCAL_)
    BY <1>1 DEF Level, GLOBAL, LOCAL_
  <2> HIDE DEF x
  <2> QED
    BY <1>1, <2>1, <2>2, NewSymbolIs DEF x
<1> HIDE DEF x
<1>4. CASE st.level # GLOBAL
  <2>1. st.level > GLOBAL
    BY <1>1, <1>4 DEF Level, GLOBAL, LOCAL_
  <2>2. Quiet(st, s)
    BY <1>1, <1>3, <2>1, InstallQuiet
  <2> QED
    BY <1>2, <1>4, <2>2, NamesQuiet
<1>5. CASE st.level = GLOBAL
  <2>1. lookup(st, id) = NULL
    BY <1>1, <1>2, <1>5, LookupSound
  <2>2. \A q : IsOf(st, q, id) => q \notin Globals(st)
    BY <1>1, <2>1, NotThere
  <2>3. Entered(st, s, r, id, "TYPEDEF", {r}, {})
    BY <1>1, <1>3, <1>5, DeclarationEnters
  <2>4. Sound(s) /\ s.level = GLOBAL
    BY <1>1, <1>3, <1>5, Installed DEF Adds
  <2>5. st' = deallocate(s) /\ cfunc = NULL
    BY <1>1, <1>2, <1>5
  <2> HIDE DEF s, r
  <2>6. Quiet(s, st')
    BY <2>4, <2>5, DeallocateQuiet
  <2>7. Spares(st, st', id)
    <3> SUFFICES ASSUME NEW a, a # id PROVE Undisturbed(st, st', a)
      BY DEF Spares
    <3>1. {r} \subseteq {r} /\ {} \subseteq {r}
      OBVIOUS
    <3>2. Undisturbed(st, s, a)
      BY <1>1, <2>3, <3>1, EnteredElsewhere
    <3>3. Undisturbed(s, st', a)
      BY <2>6 DEF Quiet
    <3> QED
      BY <3>2, <3>3, UndisturbedTwice
  <2>8. ASSUME id \notin ownNamed PROVE NameSound(st', id, linkage[id], definitions, NULL)
    <3>1. NameSound(st, id, linkage[id], definitions, NULL)
      BY <1>1, <2>5, <2>8 DEF NamesSound
    <3>2. NameSound(s, id, linkage[id], definitions, NULL)
      BY <1>1, <2>2, <2>3, <2>4, <3>1, TypeSound
    <3> QED
      BY <2>6, <3>2, QuietName
  <2>9. linkage' = linkage /\ definitions' = definitions /\ cfunc' = cfunc /\ ownNamed' = ownNamed
    BY <1>2
  <2>10. id \in Name \ ownNamed' => NameSound(st', id, linkage'[id], definitions', cfunc')
    BY <2>5, <2>8, <2>9
  <2> QED
    BY <2>7, <2>9, <2>10, NamesSpared
<1> QED
  BY <1>4, <1>5

\* The end of a function.
LEMMA FunctionEndNames ==
    ASSUME ScopesInvariant, NamesSound, FunctionEnd
    PROVE  NamesSound'
<1> DEFINE b == exitscope(st)
           w == IF cfunc = NULL THEN b ELSE defglobal(b, cfunc)
           s == exitscope(w)
<1>1. /\ Sound(st) /\ st.level = LOCAL_ /\ st.level > GLOBAL
      /\ cfunc = NULL \/ Outermost(st, cfunc)
      /\ st' = deallocate(s) /\ cfunc' = NULL
      /\ linkage' = linkage /\ definitions' = definitions /\ ownNamed' = ownNamed
  BY DEF ScopesInvariant, TablesInvariant, FunctionEnd, Becomes, GLOBAL, LOCAL_
<1>2. Sound(b) /\ b.level = PARAM /\ b.syms = st.syms /\ Quiet(st, b)
  BY <1>1, ScopeLeft, ScopesQuiet DEF LOCAL_, PARAM
<1> HIDE DEF b
<1>3. Sound(w) /\ w.level = PARAM
  <2>1. Same(b, defglobal(b, cfunc))
    BY <1>2, Marked
  <2> QED
    BY <1>2, <2>1, SameSound DEF Same
<1>4. Quiet(w, s) /\ Sound(s) /\ s.level = GLOBAL
  BY <1>3, ScopeLeft, ScopesQuiet DEF PARAM, GLOBAL
<1>5. Quiet(w, st')
  BY <1>1, <1>4, DeallocateQuiet, QuietTwice
<1> HIDE DEF s
<1>6. CASE cfunc = NULL
  <2>1. Quiet(st, st')
    BY <1>2, <1>5, <1>6, QuietTwice
  <2> QED
    BY <1>1, <1>6, <2>1, NamesQuiet
<1>7. CASE cfunc # NULL
  <2> DEFINE n == st.syms[cfunc].name
  <2>1. IsOf(st, cfunc, n) /\ w = defglobal(b, cfunc)
    BY <1>1, <1>7 DEF Outermost, IsOf
  <2>2. n \in Name
    BY <1>1, <2>1, SoundTables DEF IsOf, Symbol
  <2> HIDE DEF w, n
  <2>7. IsOf(b, cfunc, n)
    BY <1>2, <2>1 DEF IsOf
  <2>8. Spares(st, st', n)
    <3> SUFFICES ASSUME NEW a, a # n PROVE Undisturbed(st, st', a)
      BY DEF Spares
    <3>1. Undisturbed(b, w, a)
      BY <1>2, <2>1, <2>7, FunctionSpares DEF Spares
    <3>2. Undisturbed(st, b, a) /\ Undisturbed(w, st', a)
      BY <1>2, <1>5 DEF Quiet
    <3> QED
      BY <3>1, <3>2, UndisturbedTwice
  <2>9. ASSUME n \notin ownNamed PROVE NameSound(st', n, linkage[n], definitions, NULL)
    <3>1. NameSound(st, n, linkage[n], definitions, cfunc)
      BY <2>2, <2>9 DEF NamesSound
    <3>2. NameSound(b, n, linkage[n], definitions, cfunc)
      BY <1>2, <3>1, QuietName
    <3>3. NameSound(w, n, linkage[n], definitions, NULL)
      BY <1>2, <2>1, <2>7, <3>2, EndedSound
    <3> QED
      BY <1>5, <3>3, QuietName
  <2>3. Spares(st, st', n) /\ (n \notin ownNamed => NameSound(st', n, linkage[n], definitions, NULL))
    BY <2>8, <2>9
  <2>4. \A m \in Name : \A p : m # n /\ IsOf(st, p, m) => (p = cfunc' <=> p = cfunc)
    <3>1. NULL \notin DOMAIN st.syms
      BY <1>1, SoundTables
    <3> QED
      BY <1>1, <2>1, <3>1 DEF IsOf
  <2>5. n \in Name \ ownNamed' => NameSound(st', n, linkage'[n], definitions', cfunc')
    BY <1>1, <2>3
  <2>6. /\ ownNamed \subseteq ownNamed'
        /\ \A m \in Name : m # n => /\ linkage'[m] = linkage[m]
                                    /\ m \in definitions' <=> m \in definitions
    BY <1>1
  <2> QED
    BY <2>3, <2>4, <2>5, <2>6, NamesSpared
<1> QED
  BY <1>6, <1>7

\* A declaration in a block.
LEMMA LocalDeclNames ==
    ASSUME ScopesInvariant, LinkageKnown, NamesSound, phase' # "rejected", NEW id \in unit.names,
           NEW sclass \in {"AUTO", "STATIC", "EXTERN"}, NEW kind \in {"object", "function"},
           NEW params, params = << >> \/ params[1] \in Name, LocalDecl(id, sclass, kind, params)
    PROVE  NamesSound'
<1> DEFINE s == IF kind = "function" THEN prototype(st, params) ELSE st
           d == dcllocal(s, id, sclass, kind)
           u == d.s
<1>1. /\ Sound(st) /\ st.level > GLOBAL /\ id \in Name
      /\ cfunc = NULL \/ Outermost(st, cfunc)
  BY NamesOfUnit DEF ScopesInvariant, TablesInvariant, LocalDecl, Inside
<1>2. /\ st' = u
      /\ linkage' = IF sclass = "EXTERN" THEN C!LinkageAfter(id, sclass, kind) ELSE linkage
      /\ cfunc' = cfunc /\ definitions' = definitions /\ ownNamed' = ownNamed
  BY DEF LocalDecl, Reject, Becomes
<1>3. Leaves(st, s) /\ Quiet(st, s)
  BY <1>1, PrototypeRead, PrototypeQuiet, QuietTwice, LeavesAll
<1>4. Sound(s) /\ s.level > GLOBAL /\ s.level \in Nat /\ (cfunc = NULL \/ cfunc \in DOMAIN s.syms)
  BY <1>1, <1>3, Remembered, SoundTables DEF Leaves, Outermost
<1> HIDE DEF s
<1>5. CASE sclass # "EXTERN"
  <2> DEFINE arena == IF sclass = "STATIC" THEN "PERM" ELSE "FUNC"
             x == NewSymbol(id, s.level, sclass, kind, arena)
  <2>1. u = install(s, x)
    BY <1>5 DEF dcllocal
  <2>2. arena \in {"PERM", "FUNC"}
    OBVIOUS
  <2> HIDE DEF arena
  <2>3. x \in Symbol /\ x.scope = s.level /\ x.alias = NULL
    BY <1>1, <1>4, <2>2, NewSymbolIs
  <2> HIDE DEF x, u
  <2>4. Quiet(s, u)
    BY <1>4, <2>1, <2>3, InstallQuiet
  <2>5. Quiet(st, st')
    BY <1>2, <1>3, <2>4, QuietTwice
  <2> QED
    BY <1>2, <1>5, <2>5, NamesQuiet
<1>6. CASE sclass = "EXTERN"
  <2> DEFINE q == Outside(s, id)
             l == linkage[id]
             l2 == linkage'[id]
  <2>1. u = dclextern(s, id, kind, q)
    BY <1>6 DEF dcllocal
  <2>2. /\ \A m \in Name : m # id => linkage'[m] = linkage[m]
        /\ LinkageStep(l, l2, "EXTERN")
    BY <1>1, <1>2, <1>6, LinkageAfterIs
  <2> HIDE DEF u, q, l, l2
  <2>3. /\ Spares(s, u, id)
        /\ \A k, k2, D, c :
              /\ Outsider(s, id, q)
              /\ NameSound(s, id, k, D, c) /\ LinkageStep(k, k2, "EXTERN")
              /\ c = NULL \/ c \in DOMAIN s.syms
              => NameSound(u, id, k2, D, c)
    BY <1>1, <1>4, <2>1, DclexternSound
  <2>4. Spares(st, st', id)
    BY <1>2, <1>3, <2>3, UndisturbedTwice DEF Quiet, Spares
  <2>5. ASSUME id \notin ownNamed PROVE NameSound(u, id, l2, definitions, cfunc)
    <3>1. NameSound(st, id, l, definitions, cfunc)
      BY <1>1, <2>5 DEF NamesSound, l
    <3>2. NameSound(s, id, l, definitions, cfunc)
      BY <1>3, <3>1, QuietName
    <3>3. Outsider(s, id, q)
      <4>1. OneSymbol(s, id) /\ q = Outside(s, id)
        BY <3>2 DEF NameSound, q
      <4> QED
        BY <1>4, <4>1, OutsideOuter
    <3> QED
      BY <1>4, <2>2, <2>3, <3>2, <3>3
  <2>6. id \in Name \ ownNamed' => NameSound(st', id, linkage'[id], definitions', cfunc')
    BY <1>2, <2>5 DEF l2
  <2> QED
    BY <1>2, <2>2, <2>4, <2>6, NamesSpared
<1> QED
  BY <1>5, <1>6

\* The call of a function that is not declared.
LEMMA CallUndeclaredNames ==
    ASSUME ScopesInvariant, LinkageKnown, NamesSound, CallUndeclared
    PROVE  NamesSound'
<1> DEFINE q == Find(st, st.externals, t)
           s == dclextern(st, t, "function", q)
           p == Fresh(st)
           l == linkage[t]
           l2 == linkage'[t]
<1>1. /\ Sound(st) /\ Level(st.level) /\ phase = "open" /\ t # "none" /\ tsym = NULL
      /\ cfunc = NULL \/ Outermost(st, cfunc)
      /\ TokenFound /\ unit \in Unit
  BY DEF ScopesInvariant, TablesInvariant, CallUndeclared
<1>2. lookup(st, t) = NULL /\ st.level > GLOBAL /\ t \in Name
  BY <1>1, NamesOfUnit DEF TokenFound, Level, GLOBAL, LOCAL_
<1>3. /\ st' = Used(s, p) /\ linkage' = C!LinkageAfter(t, "EXTERN", "function")
      /\ cfunc' = cfunc /\ definitions' = definitions /\ ownNamed' = ownNamed
  BY DEF CallUndeclared, Becomes
<1>4. /\ \A m \in Name : m # t => linkage'[m] = linkage[m]
      /\ LinkageStep(l, l2, "EXTERN")
  BY <1>2, <1>3, LinkageAfterIs
<1>5. q = NULL \/ Outermost(st, q)
  <2>1. q # NULL => q \in DOMAIN st.syms /\ st.syms[q].scope = GLOBAL
    BY <1>1, FindSound
  <2> QED
    BY <2>1 DEF Outermost
<1>6. Find(st, st.identifiers[1], t) = NULL
  BY <1>1, <1>2, NotThere
<1>7. q = Outside(st, t)
  BY <1>6 DEF Outside
<1>8. Outermost(st, cfunc) => cfunc \in DOMAIN st.syms
  BY DEF Outermost
<1> HIDE DEF q, p, l, l2
<1>9. /\ Spares(st, s, t)
      /\ \A k, k2, D, c :
            /\ Outsider(st, t, q)
            /\ NameSound(st, t, k, D, c) /\ LinkageStep(k, k2, "EXTERN")
            /\ c = NULL \/ c \in DOMAIN st.syms
            => NameSound(s, t, k2, D, c)
  BY <1>1, <1>2, DclexternSound
<1>10. Sound(s)
  BY <1>1, <1>2, <1>5, DclexternShown
<1> HIDE DEF s
<1>11. Quiet(s, st')
  BY <1>3, <1>10, UsedQuiet
<1>12. Spares(st, st', t)
  BY <1>9, <1>11, UndisturbedTwice DEF Quiet, Spares
<1>13. ASSUME t \notin ownNamed PROVE NameSound(st', t, l2, definitions, cfunc)
  <2>1. NameSound(st, t, l, definitions, cfunc)
    BY <1>2, <1>13 DEF NamesSound, l
  <2>2. OneSymbol(st, t)
    BY <2>1 DEF NameSound
  <2>3. Outsider(st, t, q)
    BY <1>1, <1>7, <2>2, OutsideOuter
  <2>4. NameSound(s, t, l2, definitions, cfunc)
    BY <1>1, <1>4, <1>8, <1>9, <2>1, <2>3
  <2> QED
    BY <1>11, <2>4, QuietName
<1>14. t \in Name \ ownNamed' => NameSound(st', t, linkage'[t], definitions', cfunc')
  BY <1>3, <1>13 DEF l2
<1> QED
  BY <1>3, <1>4, <1>12, <1>14, NamesSpared

\* The function a definition begins is the one symbol of its name.
LEMMA BodySound ==
    ASSUME NEW s, NEW f \in Name, NEW sclass \in {"AUTO", "STATIC", "EXTERN"}, NEW l, NEW l2, NEW D,
           NameSound(s, f, l, D, NULL), LinkageStep(l, l2, sclass), Meant(s, D), Sound(s),
           lookup(s, f) # NULL => s.syms[lookup(s, f)].scope = GLOBAL,
           NEW d, d = dclglobal(s, f, sclass, "function", FALSE), ~d.error,
           lookup(s, f) # NULL =>
              ~(s.syms[lookup(s, f)].kind = "function" /\ s.syms[lookup(s, f)].defined),
           NEW w, w = Begun(d.s, d.p)
    PROVE  NameSound(w, f, l2, D \cup {f}, d.p)
<1> DEFINE p == lookup(s, f)
           u == d.s
           r == d.p
<1>1. p # NULL => s.syms[p].scope = GLOBAL /\ s.syms[p].kind = "function"
  BY DEF dclglobal
<1>2. OneSymbol(s, f)
  BY DEF NameSound
<1>3. Declarable(s, f, d)
  BY <1>1, <1>2 DEF Declarable, Meant
<1>4. Declared(s, u, r, f, sclass, "function", FALSE)
  <2>1. Declarable(s, f, d) => Declared(s, d.s, d.p, f, sclass, "function", FALSE)
    BY DclglobalDeclares
  <2> QED
    BY <1>3, <2>1
<1>5. Leaves(s, u)
  BY DeclaredGlobal
<1>6. Undefined(s, f)
  BY <1>1, <1>2, NotTwice
<1>7. w = Begun(u, r)
  OBVIOUS
<1> HIDE DEF u, r
<1>8. Sound(u)
  BY <1>5 DEF Leaves
<1>9. ~u.syms[r].defined
  BY <1>4, <1>6, <1>8, DeclaredOnly
<1>10. NameSound(u, f, l2, D \cup Defined(FALSE, f), NULL)
  BY <1>4, <1>6, <1>8, DeclaredSound
<1>11. D \cup Defined(FALSE, f) = D
  BY DEF Defined
<1>12. NameSound(u, f, l2, D, NULL)
  BY <1>10, <1>11
<1>13. TheOne(u, r, f) /\ r \in Globals(u)
  BY <1>4 DEF Declared
<1>14. NameSound(w, f, l2, D \cup {f}, r)
  BY <1>7, <1>8, <1>9, <1>12, <1>13, BegunSound
<1> QED
  BY <1>14 DEF r

\* The head of a function.
LEMMA FunctionBeginNames ==
    ASSUME ScopesInvariant, LinkageKnown, NamesSound, phase' # "rejected", NEW f \in unit.names,
           NEW sclass \in {"AUTO", "STATIC", "EXTERN"}, NEW params \in Params,
           NEW oldstyle \in BOOLEAN, FunctionBegin(f, sclass, params, oldstyle)
    PROVE  NamesSound'
<1> DEFINE listed == parameters(enterscope(st), params)
           s == IF oldstyle THEN parameters(enterscope(exitscope(listed)), params) ELSE listed
           p == lookup(s, f)
           d == dclglobal(s, f, sclass, "function", FALSE)
           w == Begun(d.s, d.p)
           l == linkage[f]
           l2 == linkage'[f]
<1>1. /\ unit \in Unit /\ Sound(st) /\ st.level = GLOBAL /\ f \in Name /\ MarksMeant /\ cfunc = NULL
  BY NamesOfUnit DEF ScopesInvariant, TablesInvariant, FunctionBegin, Between, MarksMeant
<1>2. /\ ~d.error /\ (p # NULL => ~(s.syms[p].kind = "function" /\ s.syms[p].defined))
      /\ st' = enterscope(w) /\ cfunc' = d.p
      /\ linkage' = C!LinkageAfter(f, sclass, "function")
      /\ definitions' = definitions \cup {f}
      /\ ownNamed' = IF f \in ToSet(params) THEN ownNamed \cup {f} ELSE ownNamed
  BY DEF FunctionBegin, Reject, Becomes, Begun
<1>3. HeadOf(st, params, s) /\ Quiet(st, s)
  <2>1. /\ HeadOf(st, params, listed)
        /\ HeadOf(st, params, parameters(enterscope(exitscope(listed)), params))
    BY <1>1, ParamsAre, HeadShown
  <2>2. /\ Quiet(st, listed)
        /\ Quiet(st, parameters(enterscope(exitscope(listed)), params))
    BY <1>1, ParamsAre, HeadQuiet
  <2> QED
    BY <2>1, <2>2
<1> HIDE DEF listed, s
<1>4. /\ Sound(s) /\ s.level = PARAM /\ View(s) = WithParams(View(st), PARAM, params)
      /\ Meant(s, definitions)
  BY <1>1, <1>3 DEF HeadOf, Leaves, MarksMeant
<1>5. Spares(s, d.s, f) /\ IsOf(d.s, d.p, f)
  BY <1>1, <1>4, DclglobalDeclares
<1>6. Leaves(s, d.s)
  BY <1>1, <1>4, DeclaredGlobal
<1>7. \A m \in Name : m # f => linkage'[m] = linkage[m]
  BY <1>1, <1>2, LinkageAfterIs
<1>8. LinkageStep(l, l2, sclass)
  BY <1>1, <1>2, LinkageAfterIs
<1>9. Sound(w)
  <2>1. Sound(d.s)
    BY <1>6 DEF Leaves
  <2>2. Same(d.s, Begun(d.s, d.p))
    BY <2>1, Marked DEF Begun
  <2> QED
    BY <2>1, <2>2, SameSound
<1>10. Quiet(w, st')
  BY <1>2, <1>9, ScopesQuiet
<1>11. Spares(d.s, w, f)
  BY <1>5, <1>6, FunctionSpares DEF Leaves
<1>12. f \notin ToSet(params) /\ p # NULL => s.syms[p].scope = GLOBAL
  <2> SUFFICES ASSUME f \notin ToSet(params), p # NULL PROVE s.syms[p].scope = GLOBAL
    OBVIOUS
  <2> DEFINE k == s.syms[p].scope
  <2>1. k \in Nat /\ GLOBAL <= k /\ k <= PARAM /\ View(s)[k][f] # Meaningless
    BY <1>1, <1>4, LookupMeans DEF Finds
  <2>2. View(s)[PARAM][f] = View(st)[PARAM][f]
    <3>1. PARAM \in Nat
      BY DEF PARAM
    <3>2. \A i \in Nat, n \in Name : WithParams(View(st), PARAM, params)[i][n] =
             IF i = PARAM /\ n \in ToSet(params) THEN LocalOf("object", PARAM) ELSE View(st)[i][n]
      BY <1>1, ViewIs, WithParamsAt, ParamsAre
    <3> QED
      BY <1>1, <1>4, <3>1, <3>2
  <2>3. View(st)[PARAM][f] = Meaningless
    <3>1. PARAM \in Nat /\ PARAM > st.level
      BY <1>1 DEF PARAM, GLOBAL
    <3> QED
      BY <1>1, <3>1, OutsideLevels
  <2>4. k # PARAM
    BY <2>1, <2>2, <2>3
  <2> HIDE DEF k
  <2>5. k = GLOBAL
    BY <2>1, <2>4 DEF PARAM, GLOBAL
  <2> QED
    BY <2>5 DEF k
<1>13. ASSUME f \notin ownNamed, f \notin ToSet(params)
       PROVE  NameSound(st', f, l2, definitions \cup {f}, d.p)
  <2>1. NameSound(st, f, l, definitions, NULL)
    BY <1>1, <1>13 DEF NamesSound
  <2>2. NameSound(s, f, l, definitions, NULL)
    BY <1>3, <2>1, QuietName
  <2>3. p # NULL => s.syms[p].scope = GLOBAL
    BY <1>12, <1>13
  <2>4. NameSound(w, f, l2, definitions \cup {f}, d.p)
    <3> DEFINE v == Begun(d.s, d.p)
    <3> HIDE DEF l, l2
    <3>1. NameSound(v, f, l2, definitions \cup {f}, d.p)
      BY <1>1, <1>2, <1>4, <1>8, <2>2, <2>3, BodySound
    <3> QED
      BY <3>1
  <2> HIDE DEF w, l, l2
  <2> QED
    BY <1>10, <2>4, QuietName
<1> HIDE DEF d, p
<1>14. Spares(st, st', f)
  <2> SUFFICES ASSUME NEW a, a # f PROVE Undisturbed(st, st', a)
    BY DEF Spares
  <2>1. Undisturbed(s, d.s, a) /\ Undisturbed(d.s, w, a)
    BY <1>5, <1>11 DEF Spares
  <2> HIDE DEF w
  <2>2. Undisturbed(st, s, a) /\ Undisturbed(w, st', a)
    BY <1>3, <1>10 DEF Quiet
  <2> QED
    BY <2>1, <2>2, UndisturbedTwice
<1>15. \A m \in Name : \A q : m # f /\ IsOf(st, q, m) => (q = cfunc' <=> q = cfunc)
  <2> SUFFICES ASSUME NEW m \in Name, NEW q, m # f, IsOf(st, q, m) PROVE q # cfunc' /\ q # cfunc
    OBVIOUS
  <2>1. NULL \notin DOMAIN st.syms
    BY <1>1, SoundTables
  <2>2. Undisturbed(st, s, m) /\ Undisturbed(s, d.s, m)
    BY <1>3, <1>5 DEF Quiet, Spares
  <2>3. IsOf(d.s, q, m)
    BY <2>2 DEF Undisturbed
  <2> QED
    BY <1>1, <1>2, <1>5, <2>1, <2>3 DEF IsOf
<1>16. f \in Name \ ownNamed' => NameSound(st', f, linkage'[f], definitions', cfunc')
  BY <1>2, <1>13
<1>17. /\ ownNamed \subseteq ownNamed'
       /\ \A m \in Name : m # f => (m \in definitions' <=> m \in definitions)
  BY <1>2
<1> QED
  BY <1>7, <1>14, <1>15, <1>16, <1>17, NamesSpared

---------------------------------------------------------------------------
(* The end of the file *)

\* foreach visits the globals, doextern the externals.
LEMMA GlobalsVisited ==
    ASSUME NEW s, Sound(s)
    PROVE  /\ ToSet(foreach(s, GLOBAL)) = Globals(s)
           /\ ToSet(Chain(s, s.externals.all, GLOBAL)) = Externals(s)
<1>1. /\ 1 \in DOMAIN s.identifiers /\ s.identifiers[1].level = GLOBAL
      /\ \A i \in DOMAIN s.identifiers : i # 1 => s.identifiers[i].level > GLOBAL
      /\ GLOBAL \in Nat
  BY PlacesIn, SoundTables DEF GLOBAL
<1>2. Tables(s, GLOBAL) = {1}
  BY <1>1 DEF Tables, GLOBAL
<1>3. foreach(s, GLOBAL) = Chain(s, s.identifiers[1].all, GLOBAL)
  BY <1>2 DEF foreach
<1>4. /\ SymbolsSound(s.syms) /\ s.identifiers[1] \in Table /\ Listed(s.syms, s.identifiers[1])
      /\ s.externals \in Table /\ Listed(s.syms, s.externals) /\ s.externals.level = GLOBAL
  BY <1>1, SoundTables DEF Sound, AllListed
<1>5. Chain(s, s.identifiers[1].all, s.identifiers[1].level) = s.identifiers[1].bucket
  BY <1>4, ChainOfTable
<1>6. Chain(s, s.externals.all, s.externals.level) = s.externals.bucket
  BY <1>4, ChainOfTable
<1> QED
  BY <1>1, <1>3, <1>4, <1>5, <1>6 DEF Globals, Externals

\* What doextern and doglobal write.
LEMMA FileFinished ==
    ASSUME NEW s, Sound(s), NEW g, g = doglobal(doextern(s))
    PROVE  /\ Sound(g) /\ DOMAIN g.syms = DOMAIN s.syms /\ Globals(g) = Globals(s)
           /\ \A p \in DOMAIN s.syms : Finishes(s, g, p)
<1> DEFINE e == doextern(s)
<1>1. Same(s, e) /\ g = doglobal(e)
  BY ExternalsImported
<1>2. e.syms = [q \in DOMAIN s.syms |->
                   IF q \in Externals(s) THEN [s.syms[q] EXCEPT !.imported = TRUE] ELSE s.syms[q]]
  BY GlobalsVisited DEF doextern, Sound, State
<1> HIDE DEF e
<1>3. Sound(e)
  BY <1>1, SameSound
<1>4. Same(e, g)
  BY <1>1, <1>3, GlobalsFinished
<1>5. Sound(g) /\ DOMAIN g.syms = DOMAIN s.syms /\ DOMAIN e.syms = DOMAIN s.syms
      /\ Globals(g) = Globals(s) /\ Globals(e) = Globals(s)
  BY <1>1, <1>3, <1>4, SameSound DEF Same, Globals
<1>6. g.syms = [q \in DOMAIN e.syms |->
                   IF q \notin Globals(s) THEN e.syms[q]
                   ELSE IF Imported(e.syms[q]) THEN [e.syms[q] EXCEPT !.imported = TRUE]
                   ELSE IF Tentative(e.syms[q]) THEN defglobal(e, q).syms[q] ELSE e.syms[q]]
  <2>1. ToSet(foreach(e, GLOBAL)) = Globals(s)
    BY <1>3, <1>5, GlobalsVisited
  <2>2. g.syms = [q \in DOMAIN e.syms |->
                    IF q \notin ToSet(foreach(e, GLOBAL)) THEN e.syms[q]
                    ELSE IF Imported(e.syms[q]) THEN [e.syms[q] EXCEPT !.imported = TRUE]
                    ELSE IF Tentative(e.syms[q]) THEN defglobal(e, q).syms[q] ELSE e.syms[q]]
    BY <1>1, <1>3 DEF doglobal, Sound, State
  <2> QED
    BY <2>1, <2>2
<1>7. ASSUME NEW p \in DOMAIN s.syms PROVE Finishes(s, g, p)
  <2> DEFINE y == s.syms[p]
             x == e.syms[p]
             z == g.syms[p]
             m == [y EXCEPT !.imported = TRUE]
             h == [y EXCEPT !.emitted = @ + 1, !.defined = TRUE,
                            !.exported = @ \/ y.sclass # "STATIC"]
  <2>1. y \in Symbol /\ ~(p \in Globals(s) /\ p \in Externals(s))
    BY PlacesIn, SoundTables
  <2>2. x = IF p \in Externals(s) THEN m ELSE y
    BY <1>2
  <2>3. defglobal(e, p).syms[p] =
           [x EXCEPT !.emitted = @ + 1, !.defined = TRUE, !.exported = @ \/ x.sclass # "STATIC"]
    BY <1>3, <1>5 DEF defglobal, Sound, State
  <2>4. z = IF p \notin Globals(s) THEN x
            ELSE IF Imported(x) THEN [x EXCEPT !.imported = TRUE]
            ELSE IF Tentative(x) THEN defglobal(e, p).syms[p] ELSE x
    BY <1>5, <1>6
  <2>5. /\ m.name = y.name /\ m.scope = y.scope /\ m.sclass = y.sclass /\ m.kind = y.kind
        /\ m.ref = y.ref /\ m.imported /\ m.defined = y.defined /\ m.emitted = y.emitted
        /\ m.exported = y.exported
    <3> HIDE DEF y
    <3> QED
      BY <2>1 DEF Symbol
  <2>6. /\ h.name = y.name /\ h.scope = y.scope /\ h.sclass = y.sclass /\ h.kind = y.kind
        /\ h.ref = y.ref /\ Completed(y, h)
    <3> HIDE DEF y
    <3> QED
      BY <2>1 DEF Symbol, Completed
  <2>7. CASE p \in Externals(s)
    <3>1. z = m
      BY <2>1, <2>2, <2>4, <2>7
    <3> HIDE DEF m, h
    <3> QED
      BY <2>5, <2>7, <3>1 DEF Finishes
  <2>8. CASE p \in Globals(s)
    <3>1. x = y
      BY <2>1, <2>2, <2>8
    <3>2. z = IF Imported(y) THEN m ELSE IF Tentative(y) THEN h ELSE y
      BY <2>3, <2>4, <2>8, <3>1
    <3>3. CASE Imported(y)
      <4> HIDE DEF m, h
      <4> QED
        BY <2>5, <2>8, <3>2, <3>3 DEF Finishes
    <3>4. CASE ~Imported(y) /\ Tentative(y)
      <4> HIDE DEF m, h
      <4> QED
        BY <2>6, <2>8, <3>2, <3>4 DEF Finishes
    <3>5. CASE ~Imported(y) /\ ~Tentative(y)
      <4> HIDE DEF m, h
      <4> QED
        BY <2>1, <2>8, <3>2, <3>5 DEF Finishes, SameMarks
    <3> QED
      BY <3>3, <3>4, <3>5
  <2>9. CASE p \notin Externals(s) /\ p \notin Globals(s)
    <3>1. z = y
      BY <2>2, <2>4, <2>9
    <3> HIDE DEF m, h
    <3> QED
      BY <2>9, <3>1 DEF Finishes, SameMarks
  <2> QED
    BY <2>7, <2>8, <2>9
<1> QED
  BY <1>5, <1>7

\* A sound name is so at the end of the file.
LEMMA NameFinished ==
    ASSUME NEW s, NEW g, NEW n, NEW l, NEW D, NEW p, NameSound(s, n, l, D, NULL), Finishes(s, g, p),
           IsOuter(s, p, n), l \in {"internal", "external"}, Sound(s),
           s.syms[p].sclass = "TYPEDEF" <=> s.syms[p].kind = "type",
           p \in Globals(s) => ~(/\ g.syms[p].sclass = "STATIC" /\ ~g.syms[p].defined
                                 /\ g.syms[p].kind = "function" /\ g.syms[p].ref)
    PROVE  Finished(g.syms[p], n, l, D)
<1> DEFINE y == s.syms[p]
           z == g.syms[p]
<1> SUFFICES Finished(z, n, l, D)
  OBVIOUS
<1>1. p \in DOMAIN s.syms /\ p # NULL /\ y \in Symbol /\ y.sclass # "TYPEDEF" /\ y.kind # "type"
  BY SoundTables DEF IsOuter, IsOf
<1>2. Printed(y, l, FALSE)
  <2>1. Printed(y, l, p = NULL)
    BY DEF NameSound
  <2> QED
    BY <1>1, <2>1
<1>3. n \in D => y.defined
  BY DEF NameSound, OneSymbol, IsOuter
<1>4. /\ y.sclass \in {"AUTO", "STATIC", "EXTERN"} /\ y.kind \in {"object", "function"}
  BY <1>1 DEF Symbol
<1>5. p \in Globals(s) \cup Externals(s)
  BY DEF NameSound, OneSymbol, IsOuter
<1>6. p \in Externals(s) => y.sclass = "EXTERN" /\ ~y.defined
  BY DEF NameSound, OneSymbol, IsOuter
<1>7. z.sclass = y.sclass /\ z.kind = y.kind /\ z.ref = y.ref
  BY DEF Finishes
<1>8. CASE /\ p \in Externals(s) \/ (p \in Globals(s) /\ Imported(y))
           /\ z.imported /\ z.defined = y.defined /\ z.emitted = y.emitted
           /\ z.exported = y.exported
  <2>1. ~y.defined /\ l = "external"
    BY <1>2, <1>6, <1>8 DEF Imported, Printed
  <2> HIDE DEF y, z
  <2> QED
    BY <1>2, <1>3, <1>8, <2>1 DEF Printed, Finished
<1>9. CASE ~Imported(y) /\ Tentative(y) /\ Completed(y, z)
  <2>1. ~y.defined /\ y.sclass \in {"AUTO", "STATIC"}
    BY <1>9 DEF Tentative
  <2>2. y.emitted = 0 /\ ~y.exported /\ ~y.imported
    BY <1>2, <2>1 DEF Printed
  <2>3. z.defined /\ z.emitted = 1 /\ ~z.imported /\ (z.exported <=> y.sclass # "STATIC")
    BY <1>9, <2>2 DEF Completed
  <2>4. y.sclass # "STATIC" <=> l = "external"
    BY <1>2, <2>1 DEF Printed
  <2> HIDE DEF y, z
  <2> QED
    BY <2>3, <2>4 DEF Finished
<1>10. CASE /\ p \notin Externals(s) /\ SameMarks(y, z)
            /\ p \in Globals(s) => ~Imported(y) /\ ~Tentative(y)
  <2>1. ~Imported(y) /\ ~Tentative(y) /\ p \in Globals(s)
    BY <1>5, <1>10
  <2>2. ~y.defined => y.sclass = "STATIC" /\ y.kind = "function"
    BY <1>4, <2>1 DEF Imported, Tentative
  <2>3. ~y.defined => ~y.ref
    BY <1>7, <1>10, <2>1, <2>2 DEF SameMarks
  <2> HIDE DEF y, z
  <2>4. /\ y.emitted = IF y.defined THEN 1 ELSE 0
        /\ y.exported <=> y.defined /\ l = "external"
        /\ ~y.imported
    BY <1>2 DEF Printed
  <2>5. z.emitted = y.emitted /\ z.defined = y.defined /\ z.exported = y.exported /\ z.imported = y.imported
    BY <1>10 DEF SameMarks
  <2> QED
    BY <1>3, <1>7, <2>3, <2>4, <2>5 DEF Finished
<1> QED
  BY <1>8, <1>9, <1>10 DEF Finishes

\* The end of the file shows what LinkedNames says.
LEMMA FinalizeLinked ==
    ASSUME ScopesInvariant, LinkageKnown, NamesSound, finalize
    PROVE  LinkedNames'
<1> DEFINE g == doglobal(doextern(st))
<1>1. /\ Sound(st) /\ cfunc = NULL /\ Meant(st, definitions)
  BY DEF ScopesInvariant, TablesInvariant, MarksMeant, finalize, Between
<1>2. /\ st' = g /\ phase' = (IF Unresolved(st') THEN "failed" ELSE "ended")
      /\ linkage' = linkage /\ definitions' = definitions /\ ownNamed' = ownNamed
  BY DEF finalize, Becomes
<1>3. /\ Sound(st') /\ DOMAIN st'.syms = DOMAIN st.syms /\ Globals(st') = Globals(st)
      /\ \A p \in DOMAIN st.syms : Finishes(st, st', p)
  BY <1>1, <1>2, FileFinished
<1> HIDE DEF g
<1>4. ToSet(foreach(st', GLOBAL)) = Globals(st)
  BY <1>3, GlobalsVisited
<1>5. \A n \in Name \ ownNamed : NameSound(st, n, linkage[n], definitions, NULL)
  BY <1>1 DEF NamesSound
<1>6. \A n, p : IsOuter(st', p, n) <=> IsOuter(st, p, n)
  BY <1>3 DEF IsOuter, IsOf, Finishes
<1>7. ASSUME Unresolved(st')
      PROVE  \E n \in Name : \/ n \in ownNamed \/ linkage[n] = "both"
                             \/ linkage[n] = "internal" /\ n \notin definitions
  <2>1. PICK p \in Globals(st) : st'.syms[p].sclass = "STATIC" /\ ~st'.syms[p].defined
    BY <1>4, <1>7 DEF Unresolved
  <2> DEFINE y == st.syms[p]
             z == st'.syms[p]
             n == y.name
             l == linkage[n]
  <2>2. p \in DOMAIN st.syms /\ y \in Symbol /\ y.scope = GLOBAL /\ p # NULL
    <3>1. p \in ToSet(st.identifiers[1].bucket) /\ Listed(st.syms, st.identifiers[1])
          /\ st.identifiers[1].level = GLOBAL
      BY <1>1, PlacesIn, SoundTables DEF Globals
    <3> QED
      BY <1>1, <3>1, BucketInMemory, SoundTables
  <2>3. n \in Name
    BY <2>2 DEF Symbol
  <2>4. z.sclass = y.sclass /\ (y.defined => z.defined)
    BY <1>3, <2>2 DEF Finishes, Completed, SameMarks
  <2>5. IsOuter(st, p, n)
    BY <2>1, <2>2, <2>4 DEF IsOuter, IsOf
  <2> SUFFICES ASSUME n \notin ownNamed, linkage[n] # "both"
               PROVE  linkage[n] = "internal" /\ n \notin definitions
    BY <2>3
  <2>6. NameSound(st, n, l, definitions, NULL)
    BY <1>5, <2>3
  <2>10. l \in {"none", "internal", "external", "both"}
    BY <2>3 DEF LinkageKnown
  <2> HIDE DEF n
  <2>7. l # "none" /\ Printed(y, l, p = NULL) /\ (n \in definitions => y.defined)
    BY <2>5, <2>6 DEF NameSound, OneSymbol, IsOuter
  <2>8. n \notin definitions
    BY <2>1, <2>4, <2>7
  <2>9. l # "external"
    BY <2>1, <2>4, <2>7 DEF Printed
  <2> QED
    BY <2>7, <2>8, <2>9, <2>10
<1>8. ASSUME ~Unresolved(st'), NEW n \in Name \ ownNamed, linkage[n] \in {"internal", "external"}
      PROVE  \E p : Outer(n)' = {p} /\ Finished(st'.syms[p], n, linkage[n], definitions)
  <2> DEFINE l == linkage[n]
  <2>1. NameSound(st, n, l, definitions, NULL)
    BY <1>5
  <2>2. PICK p : IsOuter(st, p, n)
    BY <1>8, <2>1 DEF NameSound
  <2>3. \A q : IsOuter(st', q, n) <=> q = p
    BY <1>6, <2>1, <2>2 DEF NameSound, OneSymbol, IsOuter
  <2>4. Outer(n)' = {p}
    <3>1. \A q : q \in Outer(n)' <=> IsOuter(st', q, n)
      BY DEF Outer, IsOuter, IsOf
    <3> QED
      BY <2>3, <3>1
  <2>5. p \in DOMAIN st.syms /\ Finishes(st, st', p)
        /\ (st.syms[p].sclass = "TYPEDEF" <=> st.syms[p].kind = "type")
    BY <1>1, <1>3, <2>2 DEF IsOuter, IsOf, Meant
  <2>6. p \in Globals(st) => ~(/\ st'.syms[p].sclass = "STATIC" /\ ~st'.syms[p].defined
                               /\ st'.syms[p].kind = "function" /\ st'.syms[p].ref)
    BY <1>4, <1>8 DEF Unresolved
  <2>7. Finished(st'.syms[p], n, l, definitions)
    <3> DEFINE u == st'
    <3>1. /\ Finishes(st, u, p)
          /\ p \in Globals(st) => ~(/\ u.syms[p].sclass = "STATIC" /\ ~u.syms[p].defined
                                    /\ u.syms[p].kind = "function" /\ u.syms[p].ref)
      BY <2>5, <2>6
    <3>2. l \in {"internal", "external"}
      BY <1>8
    <3> HIDE DEF u, l
    <3>3. Finished(u.syms[p], n, l, definitions)
      BY <1>1, <2>1, <2>2, <2>5, <3>1, <3>2, NameFinished
    <3> QED
      BY <3>3 DEF u
  <2> QED
    BY <2>4, <2>7
<1>9. CASE Unresolved(st')
  <2>1. phase' = "failed"
    BY <1>2, <1>9
  <2> QED
    BY <1>2, <1>7, <1>9, <2>1 DEF LinkedNames
<1>10. CASE ~Unresolved(st')
  <2>1. phase' = "ended"
    BY <1>2, <1>10
  <2>2. ASSUME NEW n \in Name \ ownNamed', linkage'[n] \in {"internal", "external"}
        PROVE  \E p \in Outer(n)' :
                  /\ Outer(n)' = {p}
                  /\ Finished(st'.syms[p], n, linkage'[n], definitions')
    BY <1>2, <1>8, <1>10, <2>2
  <2> QED
    BY <2>1, <2>2 DEF LinkedNames, Finished
<1> QED
  BY <1>9, <1>10

---------------------------------------------------------------------------
(* The invariant of names with linkage *)

\* A step of a source file that goes on.
LEMMA NamesStep ==
    ASSUME ScopesInvariant, LinkageKnown, NamesSound, Next, ~Stopped, ~finalize
    PROVE  Goes
<1>1. unit \in Unit
  BY DEF ScopesInvariant, TablesInvariant
<1>2. ASSUME NEW id \in unit.names, NEW sclass \in {"AUTO", "STATIC", "EXTERN"},
             NEW kind \in {"object", "function"}, NEW init \in BOOLEAN,
             kind = "object" \/ init = FALSE, NEW params, params = << >> \/ params[1] \in Name,
             GlobalDecl(id, sclass, kind, init, params)
      PROVE  Goes
  <2>1. phase = "open" /\ phase' \in {"open", "rejected"}
    BY <1>2 DEF GlobalDecl, Between, Reject
  <2>2. phase' # "rejected" => NamesSound'
    BY <1>2, GlobalDeclNames
  <2> QED
    BY <2>1, <2>2 DEF Goes, NamesKept
<1>3. ASSUME NEW id \in unit.names, NEW sclass \in {"AUTO", "STATIC", "EXTERN"},
             NEW kind \in {"object", "function"}, NEW params, params = << >> \/ params[1] \in Name,
             LocalDecl(id, sclass, kind, params)
      PROVE  Goes
  <2>1. phase = "open" /\ phase' \in {"open", "rejected"}
    BY <1>3 DEF LocalDecl, Inside, Reject
  <2>2. phase' # "rejected" => NamesSound'
    BY <1>3, LocalDeclNames
  <2> QED
    BY <2>1, <2>2 DEF Goes, NamesKept
<1>4. ASSUME NEW id \in unit.names, NEW sclass \in {"AUTO", "STATIC", "EXTERN"},
             NEW params \in Params, NEW oldstyle \in BOOLEAN,
             FunctionBegin(id, sclass, params, oldstyle)
      PROVE  Goes
  <2>1. phase = "open" /\ phase' \in {"open", "rejected"}
    BY <1>4 DEF FunctionBegin, Between, Reject
  <2>2. phase' # "rejected" => NamesSound'
    BY <1>4, FunctionBeginNames
  <2> QED
    BY <2>1, <2>2 DEF Goes, NamesKept
<1>5. ASSUME NEW id \in unit.names, Typedef(id) PROVE Goes
  <2>1. phase = "open" /\ phase' \in {"open", "rejected"}
    BY <1>5 DEF Typedef, Reject
  <2>2. phase' # "rejected" => NamesSound'
    BY <1>5, TypedefNames
  <2> QED
    BY <2>1, <2>2 DEF Goes, NamesKept
<1>6. \A params \in Params : params = << >> \/ params[1] \in Name
  BY <1>1, ParamsAre
<1>7. ASSUME \/ BlockBegin \/ BlockEnd \/ Use
             \/ \E params \in Params : OtherFunctionBegin(params)
      PROVE  Goes
  <2>1. phase = "open" /\ phase' = phase
    BY <1>7 DEF BlockBegin, BlockEnd, Use, OtherFunctionBegin, Inside, Between
  <2>2. NamesSound'
    BY <1>6, <1>7, QuietNames
  <2> QED
    BY <2>1, <2>2 DEF Goes, NamesKept
<1>8. CASE FunctionEnd
  <2>1. phase = "open" /\ phase' = phase
    BY <1>8 DEF FunctionEnd, Inside
  <2> QED
    BY <1>8, <2>1, FunctionEndNames DEF Goes, NamesKept
<1>9. CASE UseUndeclared
  BY <1>9 DEF UseUndeclared, Reject, Goes, NamesKept
<1>10. CASE CallUndeclared
  <2>1. phase = "open" /\ phase' = phase
    BY <1>10 DEF CallUndeclared
  <2> QED
    BY <1>10, <2>1, CallUndeclaredNames DEF Goes, NamesKept
<1>11. CASE \E id \in unit.names, sclass \in {"AUTO", "STATIC", "EXTERN"} :
               \/ /\ ~unit.functions
                  /\ \/ \E init \in BOOLEAN : GlobalDecl(id, sclass, "object", init, << >>)
                     \/ LocalDecl(id, sclass, "object", << >>)
               \/ \E params \in Params : GlobalDecl(id, sclass, "function", FALSE, params)
               \/ \E params \in Params, oldstyle \in BOOLEAN : FunctionBegin(id, sclass, params, oldstyle)
  <2>1. PICK id \in unit.names, sclass \in {"AUTO", "STATIC", "EXTERN"} :
           \/ \E init \in BOOLEAN : GlobalDecl(id, sclass, "object", init, << >>)
           \/ LocalDecl(id, sclass, "object", << >>)
           \/ \E params \in Params : GlobalDecl(id, sclass, "function", FALSE, params)
           \/ \E params \in Params, oldstyle \in BOOLEAN : FunctionBegin(id, sclass, params, oldstyle)
    BY <1>11
  <2>2. CASE \E init \in BOOLEAN : GlobalDecl(id, sclass, "object", init, << >>)
    BY <1>2, <2>2
  <2>3. CASE LocalDecl(id, sclass, "object", << >>)
    BY <1>3, <2>3
  <2>4. CASE \E params \in Params : GlobalDecl(id, sclass, "function", FALSE, params)
    BY <1>2, <1>6, <2>4
  <2>5. CASE \E params \in Params, oldstyle \in BOOLEAN : FunctionBegin(id, sclass, params, oldstyle)
    BY <1>4, <2>5
  <2> QED
    BY <2>1, <2>2, <2>3, <2>4, <2>5
<1>12. CASE \E id \in unit.names, params \in Params : LocalDecl(id, "EXTERN", "function", params)
  BY <1>3, <1>6, <1>12
<1>13. CASE \E id \in unit.names : Typedef(id)
  BY <1>5, <1>13
<1> QED
  BY <1>7, <1>8, <1>9, <1>10, <1>11, <1>12, <1>13 DEF Next

\* Nothing happens after an error, nor after the end.
LEMMA StepsOpen ==
    ASSUME Next, ~Stopped
    PROVE  phase = "open"
<1>1. \A id, sclass, kind, init, params : GlobalDecl(id, sclass, kind, init, params) => phase = "open"
  BY DEF GlobalDecl, Between
<1>2. \A id, sclass, kind, params : LocalDecl(id, sclass, kind, params) => phase = "open"
  BY DEF LocalDecl, Inside
<1>3. \A f, sclass, params, oldstyle : FunctionBegin(f, sclass, params, oldstyle) => phase = "open"
  BY DEF FunctionBegin, Between
<1>4. \A id : Typedef(id) => phase = "open"
  BY DEF Typedef
<1>5. \A params : OtherFunctionBegin(params) => phase = "open"
  BY DEF OtherFunctionBegin, Between
<1>6. BlockBegin \/ BlockEnd \/ FunctionEnd \/ finalize => phase = "open"
  BY DEF BlockBegin, BlockEnd, FunctionEnd, finalize, Inside, Between
<1>7. Use \/ UseUndeclared \/ CallUndeclared => phase = "open"
  BY DEF Use, UseUndeclared, CallUndeclared
<1> QED
  BY <1>1, <1>2, <1>3, <1>4, <1>5, <1>6, <1>7 DEF Next

\* Every step keeps the invariant.
LEMMA LinkedStep ==
    ASSUME LinkedInvariant, [Next]_vars
    PROVE  LinkedInvariant'
<1>1. ScopesInvariant' /\ [C!Next]_(C!absvars)
  BY ScopesStep DEF LinkedInvariant
<1>2. CASE Stopped \/ UNCHANGED vars
  <2>1. UNCHANGED vars
    BY <1>2 DEF Stopped
  <2>2. LinkedNames' /\ (phase' = "open" => LinkageKnown' /\ NamesSound')
    BY <2>1 DEF LinkedInvariant, LinkedNames, Outer, LinkageKnown, NamesSound, vars
  <2> QED
    BY <1>1, <2>2 DEF LinkedInvariant
<1>3. CASE finalize
  <2>1. phase = "open" /\ phase' \in {"ended", "failed"}
    BY <1>3 DEF finalize, Between
  <2>2. LinkedNames'
    BY <1>3, <2>1, FinalizeLinked DEF LinkedInvariant
  <2> QED
    BY <1>1, <2>1, <2>2 DEF LinkedInvariant
<1>4. CASE Next /\ ~Stopped /\ ~finalize
  <2>1. phase = "open"
    BY <1>4, StepsOpen
  <2>2. ScopesInvariant /\ LinkageKnown /\ NamesSound
    BY <2>1 DEF LinkedInvariant
  <2>3. Goes
    BY <1>4, <2>2, NamesStep
  <2>4. phase' = "open" => LinkageKnown'
    <3>1. CASE C!Next
      BY <2>2, <3>1, LinkageKnownStep
    <3>2. CASE UNCHANGED C!absvars
      BY <2>2, <3>2 DEF C!absvars, LinkageKnown
    <3> QED
      BY <1>1, <3>1, <3>2
  <2>5. phase' # "ended" /\ phase' # "failed"
    BY <2>3 DEF Goes
  <2>6. LinkedNames'
    BY <2>5 DEF LinkedNames
  <2> QED
    BY <1>1, <2>3, <2>4, <2>6 DEF LinkedInvariant, Goes, NamesKept
<1> QED
  BY <1>2, <1>3, <1>4

\* Nothing is declared at first.
LEMMA LinkedInit == Init => LinkedInvariant
<1> SUFFICES ASSUME Init PROVE LinkedInvariant
  OBVIOUS
<1>1. ScopesInvariant /\ C!Init
  BY ScopesInit
<1>2. /\ DOMAIN st.syms = {} /\ definitions = {} /\ linkage = [n \in Name |-> "none"]
      /\ phase = "open"
  BY DEF Init, Start
<1>3. \A n, p : ~IsOf(st, p, n) /\ ~IsOuter(st, p, n)
  BY <1>2 DEF IsOf, IsOuter
<1>4. NamesSound
  BY <1>2, <1>3 DEF NamesSound, NameSound, OneSymbol
<1>5. LinkageKnown
  <2>1. DOMAIN scopes = {1} /\ scopes[1] = C!NoNames
    BY <1>1 DEF C!Init
  <2>2. \A n \in Name : C!NoNames[n] = Meaningless
    BY <1>1, Terms DEF C!NoNames
  <2> QED
    BY <1>2, <2>1, <2>2 DEF LinkageKnown
<1>6. LinkedNames
  BY <1>2 DEF LinkedNames
<1> QED
  BY <1>1, <1>4, <1>5, <1>6 DEF LinkedInvariant

\* In every state of a source file a name outside blocks has one symbol, or a type and
\* an external, whose storage class, definition and marks are those of its linkage: what
\* dclglobal finds or moves, what a block has declared extern, and what a call declares
\* are the same symbol, printed once, at the end of its body if it is a function.
THEOREM LinkedInvariantHolds == Spec => []LinkedInvariant
<1>1. LinkedInvariant /\ [Next]_vars => LinkedInvariant'
  BY LinkedStep
<1> QED
  BY <1>1, LinkedInit, PTL DEF Spec

\* At the end of a file a name with linkage has one symbol, printed once if it is
\* defined, exported if its linkage is external, otherwise imported if it is used; and
\* finalize fails only for a static function that is used and never defined.
THEOREM LinkedNamesHolds == Spec => []LinkedNames
<1>1. LinkedInvariant => LinkedNames
  BY DEF LinkedInvariant
<1> QED
  BY <1>1, LinkedInvariantHolds, PTL
===========================================================================
