----------------------------- MODULE Recursion -----------------------------
(***************************************************************************)
(* What the proofs need to know of recursive functions on an interval of   *)
(* numbers (the running sums, offsets and filters of the models): that     *)
(* there is one, that there is only one, and what type its values have.    *)
(* The step is a function, so no induction principle over an operator is   *)
(* used: a least counterexample does.  Then, what Only keeps of a sequence *)
(* and what FlattenSeq makes of one, and sequences that gain or lose an    *)
(* element.                                                                *)
(***************************************************************************)
EXTENDS Filtered, SequencesExt, TLAPS, WellFoundedInduction, SequenceTheorems,
        FiniteSetTheorems

\* A set of numbers has a least one.
LEMMA LeastNumber ==
    ASSUME NEW I, I \subseteq Nat, I # {}
    PROVE  \E i \in I : \A j \in I : i <= j
<1> DEFINE R == OpToRel(<, Nat)
<1>1. IsWellFoundedOn(R, Nat)
  BY NatLessThanWellFounded
<1>2. \A x, y \in Nat : x < y => <<x, y>> \in R
  BY DEF OpToRel
<1> HIDE DEF R
<1>3. \E i \in I : \A j \in I : ~ (<<j, i>> \in R)
  BY <1>1, WFMin
<1>4. PICK i \in I : \A j \in I : ~ (<<j, i>> \in R)
  BY <1>3
<1>5. \A j \in I : i <= j
  <2> SUFFICES ASSUME NEW j \in I, j < i PROVE FALSE
    OBVIOUS
  <2>1. <<j, i>> \in R
    BY <1>2
  <2> QED
    BY <2>1, <1>4
<1> QED
  BY <1>5

\* A set of numbers up to n has a greatest one.
LEMMA GreatestNumber ==
    ASSUME NEW n \in Nat, NEW I, I \subseteq 0 .. n, I # {}
    PROVE  \E i \in I : \A j \in I : j <= i
<1>0. \A j \in I : j \in Nat /\ j <= n
  OBVIOUS
<1> DEFINE R == OpToRel(<, Nat)
           D == {n - i : i \in I}
<1>1. IsWellFoundedOn(R, Nat)
  BY NatLessThanWellFounded
<1>2. \A x, y \in Nat : x < y => <<x, y>> \in R
  BY DEF OpToRel
<1>3. D \subseteq Nat /\ D # {}
  <2>1. PICK i \in I : TRUE
    OBVIOUS
  <2>2. n - i \in D
    BY <2>1
  <2>3. \A x \in D : x \in Nat
    OBVIOUS
  <2> QED
    BY <2>2, <2>3
<1> HIDE DEF R
<1>4. PICK d \in D : \A e \in D : ~ (<<e, d>> \in R)
  <2> HIDE DEF D
  <2>1. \E d \in D : \A e \in D : ~ (<<e, d>> \in R)
    BY <1>1, <1>3, WFMin
  <2> QED
    BY <2>1
<1>5. \A j \in I : n - j \in D
  OBVIOUS
<1>6. PICK i \in I : d = n - i
  OBVIOUS
<1> HIDE DEF D
<1>7. ASSUME NEW j \in I PROVE j <= i
  <2>1. i \in Nat /\ i <= n /\ j \in Nat /\ j <= n /\ d = n - i
    BY <1>0, <1>6
  <2>2. CASE j > i
    <3>1. n - j < d /\ n - j \in Nat /\ d \in Nat
      BY <2>1, <2>2
    <3>2. <<n - j, d>> \in R
      BY <3>1, <1>2
    <3>3. n - j \in D
      BY <1>5
    <3> QED
      BY <3>2, <3>3, <1>4
  <2> QED
    BY <2>1, <2>2
<1> QED
  BY <1>7

\* So has one of indices.
LEMMA GreatestIndex ==
    ASSUME NEW n \in Nat, NEW I, I \subseteq 1 .. n, I # {}
    PROVE  \E i \in I : \A j \in I : j <= i
<1>1. I \subseteq 0 .. n
  OBVIOUS
<1> QED
  BY <1>1, GreatestNumber

\* A set that has lo, and with each number below hi the next, has them all.
LEMMA UpTo ==
    ASSUME NEW lo \in Nat, NEW hi \in Nat, NEW S, lo \in S,
           \A k \in lo .. (hi - 1) : k \in S => k + 1 \in S
    PROVE  \A k \in lo .. hi : k \in S
<1> DEFINE Bad == {k \in lo .. hi : k \notin S}
<1>1. SUFFICES ASSUME Bad # {} PROVE FALSE
  OBVIOUS
<1>2. Bad \subseteq Nat
  OBVIOUS
<1>3. PICK n \in Bad : \A m \in Bad : n <= m
  <2> HIDE DEF Bad
  <2> QED
    BY <1>1, <1>2, LeastNumber
<1>4. n \in lo .. hi /\ n \notin S /\ n # lo
  OBVIOUS
<1>5. n - 1 \in lo .. (hi - 1) /\ n - 1 \in lo .. hi /\ n - 1 < n /\ n - 1 + 1 = n
  BY <1>4
<1>6. n - 1 \in S
  BY <1>3, <1>4, <1>5
<1> QED
  BY <1>4, <1>5, <1>6

\* f starts with v0 at lo and makes each value up to hi from the one before.
Follows(f, lo, hi, v0, Step) ==
    f[lo] = v0 /\ \A k \in (lo + 1) .. hi : f[k] = Step[<<k, f[k - 1]>>]

\* There is such a function, with values where v0 and the steps have them.
LEMMA RecursionExists ==
    ASSUME NEW lo \in Nat, NEW hi \in Nat, lo <= hi, NEW V, NEW v0 \in V,
           NEW Step \in [((lo + 1) .. hi) \X V -> V]
    PROVE  \E f \in [lo .. hi -> V] : Follows(f, lo, hi, v0, Step)
<1> DEFINE Good(n) == \E f \in [lo .. n -> V] : Follows(f, lo, n, v0, Step)
           Bad == {n \in lo .. hi : ~Good(n)}
<1>0. SUFFICES ASSUME ~Good(hi) PROVE FALSE
  OBVIOUS
<1>1. hi \in Bad
  BY <1>0
<1>2. Bad \subseteq Nat
  OBVIOUS
<1>3. PICK n \in Bad : \A m \in Bad : n <= m
  <2> HIDE DEF Bad
  <2> QED
    BY <1>1, <1>2, LeastNumber
<1>4. n \in Nat /\ lo <= n /\ n <= hi /\ ~Good(n)
  OBVIOUS
<1>5. CASE n = lo
  <2> DEFINE f == [k \in lo .. n |-> v0]
  <2>1. f \in [lo .. n -> V] /\ Follows(f, lo, n, v0, Step)
    BY <1>5 DEF Follows
  <2> QED
    BY <1>4, <2>1
<1>6. CASE n # lo
  <2>1. n - 1 \in lo .. hi /\ n - 1 < n /\ n - 1 \in Nat
    BY <1>4, <1>6
  <2>2. Good(n - 1)
    BY <1>3, <2>1
  <2>3. PICK f \in [lo .. (n - 1) -> V] : Follows(f, lo, n - 1, v0, Step)
    BY <2>2
  <2> DEFINE g == [k \in lo .. n |-> IF k = n THEN Step[<<n, f[n - 1]>>] ELSE f[k]]
  <2>4. f[n - 1] \in V /\ <<n, f[n - 1]>> \in ((lo + 1) .. hi) \X V
    BY <1>4, <1>6, <2>1
  <2>5. g \in [lo .. n -> V]
    BY <1>4, <2>4
  <2>6. g[lo] = v0
    BY <1>4, <1>6, <2>3 DEF Follows
  <2>7. ASSUME NEW k \in (lo + 1) .. n PROVE g[k] = Step[<<k, g[k - 1]>>]
    <3>1. k - 1 \in lo .. n /\ k - 1 # n
      BY <1>4
    <3>2. g[k - 1] = f[k - 1]
      BY <3>1
    <3>3. CASE k = n
      <4>1. g[k] = Step[<<n, f[n - 1]>>]
        BY <1>4, <3>3
      <4> QED
        BY <3>2, <3>3, <4>1
    <3>4. CASE k # n
      <4>1. k \in (lo + 1) .. (n - 1) /\ k \in lo .. n
        BY <1>4, <3>4
      <4>2. f[k] = Step[<<k, f[k - 1]>>]
        BY <2>3, <4>1 DEF Follows
      <4> QED
        BY <3>2, <3>4, <4>1, <4>2
    <3> QED
      BY <3>3, <3>4
  <2> HIDE DEF g
  <2>8. Follows(g, lo, n, v0, Step)
    BY <2>6, <2>7 DEF Follows
  <2> QED
    BY <1>4, <2>5, <2>8
<1> QED
  BY <1>5, <1>6

\* And only one.
LEMMA RecursionUnique ==
    ASSUME NEW lo \in Nat, NEW hi \in Nat, lo <= hi, NEW v0, NEW Step,
           NEW f, Follows(f, lo, hi, v0, Step),
           NEW g, Follows(g, lo, hi, v0, Step)
    PROVE  \A k \in lo .. hi : g[k] = f[k]
<1> DEFINE Bad == {k \in lo .. hi : g[k] # f[k]}
<1>1. SUFFICES ASSUME Bad # {} PROVE FALSE
  OBVIOUS
<1>2. Bad \subseteq Nat
  OBVIOUS
<1>3. PICK n \in Bad : \A m \in Bad : n <= m
  <2> HIDE DEF Bad
  <2> QED
    BY <1>1, <1>2, LeastNumber
<1>4. n \in Nat /\ lo <= n /\ n <= hi /\ g[n] # f[n]
  OBVIOUS
<1>5. n # lo
  BY <1>4 DEF Follows
<1>6. n \in (lo + 1) .. hi /\ n - 1 \in lo .. hi /\ n - 1 < n
  BY <1>4, <1>5
<1>7. g[n - 1] = f[n - 1]
  BY <1>3, <1>4, <1>6
<1>8. f[n] = Step[<<n, f[n - 1]>>] /\ g[n] = Step[<<n, g[n - 1]>>]
  BY <1>6 DEF Follows
<1> QED
  BY <1>4, <1>7, <1>8

---------------------------------------------------------------------------
(* Filtered sequences *)

\* The prefixes of a sequence.
LEMMA Prefix ==
    ASSUME NEW T, NEW s \in Seq(T), NEW k \in 0 .. Len(s)
    PROVE  /\ SubSeq(s, 1, k) \in Seq(T) /\ Len(SubSeq(s, 1, k)) = k
           /\ \A i \in 1 .. k : SubSeq(s, 1, k)[i] = s[i]
<1>1. Len(s) \in Nat /\ DOMAIN s = 1 .. Len(s)
  BY LenProperties
<1>2. \A i \in 1 .. k : s[i] \in T
  BY <1>1, ElementOfSeq
<1>3. SubSeq(s, 1, k) \in Seq(T)
  BY <1>1, <1>2, SubSeqProperties
<1>4. Len(SubSeq(s, 1, k)) = k
  BY <1>1, SubSeqProperties
<1>5. \A i \in 1 .. k : SubSeq(s, 1, k)[i] = s[1 + i - 1]
  BY <1>1, SubSeqProperties
<1> QED
  BY <1>1, <1>3, <1>4, <1>5

\* f gives what Only keeps of the prefixes of s.
KeptUpTo(f, s, S) ==
    /\ f[0] = << >>
    /\ \A k \in 0 .. (Len(s) - 1) :
          /\ s[k + 1] \in S => f[k + 1] = Append(f[k], s[k + 1])
          /\ s[k + 1] \notin S => f[k + 1] = f[k]
    /\ \A k \in 0 .. Len(s) : Only(SubSeq(s, 1, k), S) = f[k]

\* Only goes through the sequence element by element.
LEMMA OnlyOfPrefixes ==
    ASSUME NEW T, NEW s \in Seq(T), NEW S
    PROVE  \E f \in [0 .. Len(s) -> Seq(T)] : KeptUpTo(f, s, S)
<1> DEFINE n == Len(s)
           Step == [p \in ((0 + 1) .. n) \X Seq(T) |->
                       IF s[p[1]] \in S THEN Append(p[2], s[p[1]]) ELSE p[2]]
           Filters(f, p) == f = [k \in 0 .. Len(p) |->
                                    IF k = 0 THEN << >>
                                    ELSE IF p[k] \in S THEN Append(f[k - 1], p[k]) ELSE f[k - 1]]
<1>1. n \in Nat /\ DOMAIN s = 1 .. n /\ \A k \in 1 .. n : s[k] \in T
  BY LenProperties, ElementOfSeq
<1> HIDE DEF n
<1>2. \A k \in 1 .. n, v \in Seq(T) : Append(v, s[k]) \in Seq(T)
  BY <1>1, AppendProperties
<1>3. Step \in [((0 + 1) .. n) \X Seq(T) -> Seq(T)]
  BY <1>1, <1>2
<1>4. << >> \in Seq(T)
  BY EmptySeq
<1>5. PICK f \in [0 .. n -> Seq(T)] : Follows(f, 0, n, << >>, Step)
  <2> HIDE DEF Step
  <2>1. 0 \in Nat /\ 0 <= n
    BY <1>1
  <2> QED
    BY <1>1, <1>3, <1>4, <2>1, RecursionExists, Zenon
<1>6. f[0] = << >>
  BY <1>5 DEF Follows
<1>7. \A k \in 1 .. n : f[k] = IF s[k] \in S THEN Append(f[k - 1], s[k]) ELSE f[k - 1]
  <2> SUFFICES ASSUME NEW k \in 1 .. n
               PROVE  f[k] = IF s[k] \in S THEN Append(f[k - 1], s[k]) ELSE f[k - 1]
    OBVIOUS
  <2>1. k - 1 \in 0 .. n /\ k \in (0 + 1) .. n
    BY <1>1
  <2>2. f[k] = Step[<<k, f[k - 1]>>]
    BY <1>5, <2>1 DEF Follows
  <2>3. f[k - 1] \in Seq(T)
    BY <1>5, <2>1
  <2> QED
    BY <2>1, <2>2, <2>3
<1>8. ASSUME NEW k \in 0 .. n PROVE Only(SubSeq(s, 1, k), S) = f[k]
  <2> DEFINE p == SubSeq(s, 1, k)
             g == CHOOSE g : Filters(g, p)
             h == [j \in 0 .. k |-> f[j]]
  <2>1. Len(p) = k /\ \A i \in 1 .. k : p[i] = s[i]
    BY <1>8, Prefix DEF n
  <2>2. Only(p, S) = g[Len(p)]
    BY DEF Only
  <2> HIDE DEF p
  <2>3. Filters(h, p)
    <3>1. ASSUME NEW j \in 0 .. k
          PROVE  h[j] = IF j = 0 THEN << >>
                        ELSE IF p[j] \in S THEN Append(h[j - 1], p[j]) ELSE h[j - 1]
      <4>1. CASE j = 0
        BY <1>6, <4>1
      <4>2. CASE j # 0
        <5>1. j - 1 \in 0 .. k /\ j \in 1 .. k /\ j \in 1 .. n
          BY <1>1, <4>2
        <5> QED
          BY <1>7, <2>1, <4>2, <5>1
      <4> QED
        BY <4>1, <4>2
    <3>2. h = [j \in 0 .. k |-> h[j]]
      OBVIOUS
    <3> HIDE DEF h
    <3> QED
      BY <2>1, <3>1, <3>2
  <2>4. Filters(g, p)
    BY <2>3
  <2> HIDE DEF g
  <2> DEFINE Same == {j \in 0 .. k : g[j] = f[j]}
  <2>5. 0 \in Same
    BY <1>6, <2>1, <2>4
  <2>6. \A j \in 0 .. (k - 1) : j \in Same => j + 1 \in Same
    <3> SUFFICES ASSUME NEW j \in 0 .. (k - 1), g[j] = f[j] PROVE g[j + 1] = f[j + 1]
      BY <1>1
    <3>1. j + 1 \in 1 .. k /\ j + 1 \in 0 .. k /\ j + 1 \in 1 .. n /\ j + 1 - 1 = j /\ j + 1 # 0
      BY <1>1
    <3>2. g[j + 1] = IF p[j + 1] \in S THEN Append(g[j], p[j + 1]) ELSE g[j]
      <4>1. \A i \in 0 .. k :
              g[i] = IF i = 0 THEN << >>
                     ELSE IF p[i] \in S THEN Append(g[i - 1], p[i]) ELSE g[i - 1]
        BY <2>1, <2>4, Zenon
      <4> QED
        BY <3>1, <4>1
    <3>3. f[j + 1] = IF s[j + 1] \in S THEN Append(f[j], s[j + 1]) ELSE f[j]
      BY <1>7, <3>1
    <3> QED
      BY <2>1, <3>1, <3>2, <3>3
  <2> HIDE DEF Same
  <2>7. k \in Same
    <3>1. 0 \in Nat /\ k \in Nat /\ k \in 0 .. k
      BY <1>1
    <3> QED
      BY <2>5, <2>6, <3>1, UpTo, Zenon
  <2> QED
    BY <2>1, <2>2, <2>7 DEF Same, p
<1>9. \A k \in 0 .. (n - 1) :
         /\ s[k + 1] \in S => f[k + 1] = Append(f[k], s[k + 1])
         /\ s[k + 1] \notin S => f[k + 1] = f[k]
  <2> SUFFICES ASSUME NEW k \in 0 .. (n - 1)
               PROVE  f[k + 1] = IF s[k + 1] \in S THEN Append(f[k], s[k + 1]) ELSE f[k]
    OBVIOUS
  <2>1. k + 1 \in 1 .. n /\ k + 1 - 1 = k
    BY <1>1
  <2> QED
    BY <1>7, <2>1
<1> QED
  <2>1. KeptUpTo(f, s, S)
    BY <1>6, <1>8, <1>9 DEF n, KeptUpTo
  <2> QED
    BY <1>5, <2>1 DEF n

\* The sequence is its own longest prefix, and has the empty one.
LEMMA WholePrefix ==
    ASSUME NEW T, NEW s \in Seq(T)
    PROVE  SubSeq(s, 1, Len(s)) = s /\ SubSeq(s, 1, 0) = << >>
<1>1. SubSeq(s, 1, Len(s)) = s
  BY SubSeqFull
<1>2. Len(s) \in Nat
  BY LenProperties
<1>3. SubSeq(s, 1, 0) \in Seq(T) /\ Len(SubSeq(s, 1, 0)) = 0
  BY <1>2, Prefix
<1> QED
  BY <1>1, <1>3, EmptySeq

\* Only, said of the prefixes of one sequence.
LEMMA OnlyNext ==
    ASSUME NEW T, NEW s \in Seq(T), NEW S
    PROVE  /\ Only(s, S) \in Seq(T)
           /\ Only(SubSeq(s, 1, 0), S) = << >>
           /\ \A k \in 0 .. Len(s) : Only(SubSeq(s, 1, k), S) \in Seq(T)
           /\ \A k \in 0 .. (Len(s) - 1) :
                 /\ s[k + 1] \in S =>
                       Only(SubSeq(s, 1, k + 1), S) = Append(Only(SubSeq(s, 1, k), S), s[k + 1])
                 /\ s[k + 1] \notin S =>
                       Only(SubSeq(s, 1, k + 1), S) = Only(SubSeq(s, 1, k), S)
<1> DEFINE n == Len(s)
           P(k) == Only(SubSeq(s, 1, k), S)
<1>1. n \in Nat
  BY LenProperties
<1>2. PICK f \in [0 .. Len(s) -> Seq(T)] : KeptUpTo(f, s, S)
  BY OnlyOfPrefixes, Zenon
<1>2a. /\ f[0] = << >>
       /\ \A k \in 0 .. (n - 1) :
             /\ s[k + 1] \in S => f[k + 1] = Append(f[k], s[k + 1])
             /\ s[k + 1] \notin S => f[k + 1] = f[k]
       /\ \A k \in 0 .. n : P(k) = f[k] /\ f[k] \in Seq(T)
  BY <1>2 DEF KeptUpTo
<1>3. P(n) = Only(s, S)
  BY WholePrefix
<1> HIDE DEF P, n
<1>4. ASSUME NEW k \in 0 .. (n - 1)
      PROVE  /\ s[k + 1] \in S => P(k + 1) = Append(P(k), s[k + 1])
             /\ s[k + 1] \notin S => P(k + 1) = P(k)
  <2>1. k \in 0 .. n /\ k + 1 \in 0 .. n
    BY <1>1
  <2>2. P(k) = f[k] /\ P(k + 1) = f[k + 1]
    BY <1>2a, <2>1
  <2>3. /\ s[k + 1] \in S => f[k + 1] = Append(f[k], s[k + 1])
        /\ s[k + 1] \notin S => f[k + 1] = f[k]
    BY <1>2a
  <2> QED
    BY <2>2, <2>3
<1>5. P(0) = << >> /\ \A k \in 0 .. n : P(k) \in Seq(T)
  BY <1>1, <1>2a
<1>6. Only(s, S) \in Seq(T)
  BY <1>1, <1>3, <1>5
<1>7. \A k \in 0 .. (n - 1) :
         /\ s[k + 1] \in S => P(k + 1) = Append(P(k), s[k + 1])
         /\ s[k + 1] \notin S => P(k + 1) = P(k)
  BY <1>4
<1> QED
  BY <1>5, <1>6, <1>7, Zenon DEF P, n

\* What Only keeps of a prefix are elements of it that are in the set.
LEMMA OnlyElementsOfPrefix ==
    ASSUME NEW T, NEW s \in Seq(T), NEW S
    PROVE  \A k \in 0 .. Len(s) : \A l \in DOMAIN Only(SubSeq(s, 1, k), S) :
              \E j \in 1 .. k : Only(SubSeq(s, 1, k), S)[l] = s[j] /\ s[j] \in S
<1> DEFINE n == Len(s)
           P(k) == Only(SubSeq(s, 1, k), S)
           Good == {k \in 0 .. n : \A l \in DOMAIN P(k) :
                       \E j \in 1 .. k : P(k)[l] = s[j] /\ s[j] \in S}
<1>1. n \in Nat /\ DOMAIN s = 1 .. n /\ \A k \in 1 .. n : s[k] \in T
  BY LenProperties, ElementOfSeq
<1>2. /\ P(0) = << >> /\ \A k \in 0 .. n : P(k) \in Seq(T)
      /\ \A k \in 0 .. (n - 1) :
            /\ s[k + 1] \in S => P(k + 1) = Append(P(k), s[k + 1])
            /\ s[k + 1] \notin S => P(k + 1) = P(k)
  BY OnlyNext
<1> HIDE DEF P, n
<1>3. 0 \in Good
  <2>1. DOMAIN P(0) = {}
    BY <1>2
  <2> QED
    BY <1>1, <2>1
<1>4. ASSUME NEW k \in 0 .. (n - 1), k \in Good PROVE k + 1 \in Good
  <2>1. k + 1 \in 1 .. n /\ k + 1 \in 0 .. n /\ k + 1 - 1 = k /\ k \in 0 .. n
    BY <1>1
  <2>2. /\ s[k + 1] \in S => P(k + 1) = Append(P(k), s[k + 1])
        /\ s[k + 1] \notin S => P(k + 1) = P(k)
    BY <1>2
  <2>3. SUFFICES ASSUME NEW l \in DOMAIN P(k + 1)
                 PROVE  \E j \in 1 .. (k + 1) : P(k + 1)[l] = s[j] /\ s[j] \in S
    BY <2>1
  <2>4. CASE l \in DOMAIN P(k) /\ P(k + 1)[l] = P(k)[l]
    BY <1>4, <2>1, <2>4
  <2>5. CASE s[k + 1] \in S /\ P(k + 1)[l] = s[k + 1]
    BY <2>1, <2>5
  <2>6. CASE s[k + 1] \in S
    <3>1. P(k) \in Seq(T) /\ s[k + 1] \in T /\ P(k + 1) = Append(P(k), s[k + 1])
      BY <1>1, <1>2, <2>1, <2>2, <2>6
    <3>2. (l \in DOMAIN P(k) /\ P(k + 1)[l] = P(k)[l]) \/ P(k + 1)[l] = s[k + 1]
      BY <3>1, AppendProperties, LenProperties
    <3> QED
      BY <2>4, <2>5, <2>6, <3>2
  <2>7. CASE s[k + 1] \notin S
    BY <2>2, <2>4, <2>7
  <2> QED
    BY <2>6, <2>7
<1> HIDE DEF Good
<1>5. \A k \in 0 .. n : k \in Good
  <2>1. 0 \in Nat
    OBVIOUS
  <2> QED
    BY <1>1, <1>3, <1>4, <2>1, UpTo, Zenon
<1>6. \A k \in 0 .. n : \A l \in DOMAIN P(k) :
         \E j \in 1 .. k : P(k)[l] = s[j] /\ s[j] \in S
  BY <1>5 DEF Good
<1> QED
  BY <1>6, Zenon DEF P, n

LEMMA OnlyElements ==
    ASSUME NEW T, NEW s \in Seq(T), NEW S, NEW i \in DOMAIN Only(s, S)
    PROVE  \E j \in DOMAIN s : Only(s, S)[i] = s[j] /\ s[j] \in S
<1>1. SubSeq(s, 1, Len(s)) = s /\ Len(s) \in 0 .. Len(s) /\ DOMAIN s = 1 .. Len(s)
  BY WholePrefix, LenProperties
<1>2. \A l \in DOMAIN Only(SubSeq(s, 1, Len(s)), S) :
         \E j \in 1 .. Len(s) : Only(SubSeq(s, 1, Len(s)), S)[l] = s[j] /\ s[j] \in S
  BY <1>1, OnlyElementsOfPrefix
<1> QED
  BY <1>1, <1>2

\* A filtered sequence repeats no key the sequence does not.
LEMMA OnlyDistinct ==
    ASSUME NEW T, NEW s \in Seq(T), NEW S, NEW key,
           \A i, k \in DOMAIN s : key[s[i]] = key[s[k]] => i = k
    PROVE  \A i, k \in DOMAIN Only(s, S) :
              key[Only(s, S)[i]] = key[Only(s, S)[k]] => i = k
<1> DEFINE n == Len(s)
           P(k) == Only(SubSeq(s, 1, k), S)
           Good == {k \in 0 .. n : \A i, l \in DOMAIN P(k) :
                       key[P(k)[i]] = key[P(k)[l]] => i = l}
<1>1. n \in Nat /\ DOMAIN s = 1 .. n /\ \A k \in 1 .. n : s[k] \in T
  BY LenProperties, ElementOfSeq
<1>2. /\ P(0) = << >> /\ \A k \in 0 .. n : P(k) \in Seq(T)
      /\ \A k \in 0 .. (n - 1) :
            /\ s[k + 1] \in S => P(k + 1) = Append(P(k), s[k + 1])
            /\ s[k + 1] \notin S => P(k + 1) = P(k)
  BY OnlyNext, Zenon
<1>2a. \A k \in 0 .. n : \A l \in DOMAIN P(k) : \E j \in 1 .. k : P(k)[l] = s[j]
  BY OnlyElementsOfPrefix
<1> HIDE DEF P, n
<1>3. 0 \in Good
  <2>1. DOMAIN P(0) = {}
    BY <1>2
  <2> QED
    BY <1>1, <2>1
<1>4. ASSUME NEW k \in 0 .. (n - 1), k \in Good PROVE k + 1 \in Good
  <2>1. k + 1 \in 1 .. n /\ k + 1 \in 0 .. n /\ k + 1 - 1 = k /\ k \in 0 .. n
    BY <1>1
  <2>2. /\ s[k + 1] \in S => P(k + 1) = Append(P(k), s[k + 1])
        /\ s[k + 1] \notin S => P(k + 1) = P(k)
    BY <1>2
  <2>3. \A i, l \in DOMAIN P(k) : key[P(k)[i]] = key[P(k)[l]] => i = l
    BY <1>4
  <2>4. CASE s[k + 1] \in S
    <3> DEFINE m == Len(P(k))
    <3>1. P(k) \in Seq(T) /\ s[k + 1] \in T /\ P(k + 1) = Append(P(k), s[k + 1])
      BY <1>1, <1>2, <2>1, <2>2, <2>4
    <3>2. /\ m \in Nat /\ DOMAIN P(k) = 1 .. m /\ DOMAIN P(k + 1) = 1 .. (m + 1)
          /\ P(k + 1)[m + 1] = s[k + 1]
          /\ \A l \in 1 .. m : P(k + 1)[l] = P(k)[l]
      BY <3>1, AppendProperties, LenProperties
    <3> HIDE DEF m
    <3>3. \A l \in 1 .. m : key[P(k)[l]] # key[s[k + 1]]
      <4> SUFFICES ASSUME NEW l \in 1 .. m, key[P(k)[l]] = key[s[k + 1]] PROVE FALSE
        OBVIOUS
      <4>1. PICK j \in 1 .. k : P(k)[l] = s[j]
        BY <1>2a, <2>1, <3>2
      <4>2. j \in DOMAIN s /\ k + 1 \in DOMAIN s /\ j # k + 1
        BY <1>1, <2>1
      <4> QED
        BY <4>1, <4>2
    <3>4. ASSUME NEW i \in DOMAIN P(k + 1), NEW l \in DOMAIN P(k + 1),
                 key[P(k + 1)[i]] = key[P(k + 1)[l]]
          PROVE  i = l
      <4>1. (i \in 1 .. m \/ i = m + 1) /\ (l \in 1 .. m \/ l = m + 1)
        BY <3>2
      <4> QED
        BY <2>3, <3>2, <3>3, <3>4, <4>1
    <3> QED
      BY <2>1, <3>4
  <2>5. CASE s[k + 1] \notin S
    BY <2>1, <2>2, <2>3, <2>5
  <2> QED
    BY <2>4, <2>5
<1> HIDE DEF Good
<1>5. n \in Good
  <2>1. 0 \in Nat /\ n \in 0 .. n
    BY <1>1
  <2> QED
    BY <1>1, <1>3, <1>4, <2>1, UpTo, Zenon
<1>6. P(n) = Only(s, S)
  BY WholePrefix DEF P, n
<1> QED
  BY <1>5, <1>6 DEF Good

\* Sequences that agree on what is kept of them are filtered alike.
LEMMA OnlyAgree ==
    ASSUME NEW T, NEW s \in Seq(T), NEW t \in Seq(T), NEW S, NEW R, Len(s) = Len(t),
           \A i \in DOMAIN s : (s[i] \in S <=> t[i] \in R) /\ (s[i] \in S => s[i] = t[i])
    PROVE  Only(s, S) = Only(t, R)
<1> DEFINE n == Len(s)
           P(k) == Only(SubSeq(s, 1, k), S)
           Q(k) == Only(SubSeq(t, 1, k), R)
           Good == {k \in 0 .. n : P(k) = Q(k)}
<1>1. n \in Nat /\ DOMAIN s = 1 .. n /\ n = Len(t)
  BY LenProperties
<1>2. /\ P(0) = << >>
      /\ \A k \in 0 .. (n - 1) :
            /\ s[k + 1] \in S => P(k + 1) = Append(P(k), s[k + 1])
            /\ s[k + 1] \notin S => P(k + 1) = P(k)
  BY OnlyNext, ZenonT(60)
<1>3. /\ Q(0) = << >>
      /\ \A k \in 0 .. (Len(t) - 1) :
            /\ t[k + 1] \in R => Q(k + 1) = Append(Q(k), t[k + 1])
            /\ t[k + 1] \notin R => Q(k + 1) = Q(k)
  BY OnlyNext, ZenonT(60)
<1> HIDE DEF P, Q, n
<1>4. 0 \in Good
  BY <1>1, <1>2, <1>3
<1>5. ASSUME NEW k \in 0 .. (n - 1), k \in Good PROVE k + 1 \in Good
  <2>1. k + 1 \in 1 .. n /\ k + 1 \in 0 .. n /\ k + 1 - 1 = k
    BY <1>1
  <2>2. /\ s[k + 1] \in S => P(k + 1) = Append(P(k), s[k + 1])
        /\ s[k + 1] \notin S => P(k + 1) = P(k)
    BY <1>2
  <2>3. /\ t[k + 1] \in R => Q(k + 1) = Append(Q(k), t[k + 1])
        /\ t[k + 1] \notin R => Q(k + 1) = Q(k)
    BY <1>1, <1>3
  <2>4. P(k) = Q(k)
    BY <1>5
  <2>5. /\ s[k + 1] \in S <=> t[k + 1] \in R
        /\ s[k + 1] \in S => s[k + 1] = t[k + 1]
    BY <1>1, <2>1
  <2>6. P(k + 1) = Q(k + 1)
    BY <2>1, <2>2, <2>3, <2>4, <2>5
  <2> QED
    BY <2>1, <2>6
<1> HIDE DEF Good
<1>6. n \in Good
  <2>1. 0 \in Nat /\ n \in 0 .. n
    BY <1>1
  <2> QED
    BY <1>1, <1>4, <1>5, <2>1, UpTo, Zenon
<1>7. P(n) = Only(s, S) /\ Q(n) = Only(t, R)
  BY <1>1, WholePrefix DEF P, Q, n
<1> QED
  BY <1>6, <1>7 DEF Good

\* A function on 1 .. n is a sequence.
LEMMA FunctionIsSeq ==
    ASSUME NEW T, NEW n \in Nat, NEW f \in [1 .. n -> T]
    PROVE  f \in Seq(T) /\ Len(f) = n /\ DOMAIN f = 1 .. n
<1>1. f \in Seq(T)
  BY SeqDef
<1>2. DOMAIN f = 1 .. n
  OBVIOUS
<1>3. Len(f) \in Nat /\ DOMAIN f = 1 .. Len(f)
  BY <1>1, LenProperties
<1> QED
  BY <1>1, <1>2, <1>3

\* What is kept of a sequence starts with its first element, if that is kept.
LEMMA OnlyFirst ==
    ASSUME NEW T, NEW s \in Seq(T), NEW S, s # << >>, s[1] \in S
    PROVE  1 \in DOMAIN Only(s, S) /\ Only(s, S)[1] = s[1]
<1> DEFINE n == Len(s)
           P(k) == Only(SubSeq(s, 1, k), S)
           Good == {k \in 1 .. n : 1 \in DOMAIN P(k) /\ P(k)[1] = s[1]}
<1>1. n \in Nat /\ n # 0 /\ DOMAIN s = 1 .. n /\ \A k \in 1 .. n : s[k] \in T
  BY LenProperties, ElementOfSeq, EmptySeq
<1>2. /\ P(0) = << >> /\ \A k \in 0 .. n : P(k) \in Seq(T)
      /\ \A k \in 0 .. (n - 1) :
            /\ s[k + 1] \in S => P(k + 1) = Append(P(k), s[k + 1])
            /\ s[k + 1] \notin S => P(k + 1) = P(k)
  BY OnlyNext, Zenon
<1>3. P(n) = Only(s, S)
  BY WholePrefix
<1> HIDE DEF P, n
<1>4. 1 \in Good
  <2>1. 0 \in 0 .. (n - 1) /\ 0 + 1 = 1 /\ 1 \in 1 .. n
    BY <1>1
  <2>2. P(1) = Append(P(0), s[1])
    BY <1>2, <2>1
  <2>3. P(0) \in Seq(T) /\ s[1] \in T /\ Len(P(0)) = 0
    BY <1>1, <1>2, <2>1, EmptySeq
  <2>4. Append(P(0), s[1]) \in Seq(T) /\ Len(Append(P(0), s[1])) = 1
        /\ Append(P(0), s[1])[1] = s[1]
    BY <2>3, AppendProperties
  <2>5. DOMAIN Append(P(0), s[1]) = 1 .. 1
    BY <2>4, LenProperties
  <2> QED
    BY <2>1, <2>2, <2>4, <2>5
<1>5. ASSUME NEW k \in 1 .. (n - 1), k \in Good PROVE k + 1 \in Good
  <2>1. k \in 0 .. (n - 1) /\ k \in 0 .. n /\ k + 1 \in 1 .. n
    BY <1>1
  <2>2. CASE s[k + 1] \in S
    <3>1. P(k) \in Seq(T) /\ s[k + 1] \in T /\ P(k + 1) = Append(P(k), s[k + 1])
      BY <1>1, <1>2, <2>1, <2>2
    <3>2. 1 \in 1 .. Len(P(k)) /\ Len(P(k)) \in Nat /\ P(k)[1] = s[1]
      BY <1>5, <3>1, LenProperties
    <3>3. Append(P(k), s[k + 1]) \in Seq(T) /\ Len(Append(P(k), s[k + 1])) = Len(P(k)) + 1
          /\ Append(P(k), s[k + 1])[1] = P(k)[1]
      BY <3>1, <3>2, AppendProperties
    <3>4. 1 \in DOMAIN Append(P(k), s[k + 1])
      BY <3>2, <3>3, LenProperties
    <3> QED
      BY <2>1, <3>1, <3>2, <3>3, <3>4
  <2>3. CASE s[k + 1] \notin S
    BY <1>2, <1>5, <2>1, <2>3
  <2> QED
    BY <2>2, <2>3
<1> HIDE DEF Good
<1>6. n \in Good
  <2>1. 1 \in Nat /\ n \in 1 .. n
    BY <1>1
  <2> QED
    BY <1>1, <1>4, <1>5, <2>1, UpTo, Zenon
<1> QED
  BY <1>3, <1>6 DEF Good

\* What is kept of a prefix is as long as there are elements to keep.
LEMMA OnlyLength ==
    ASSUME NEW T, NEW s \in Seq(T), NEW S
    PROVE  \A k \in 0 .. Len(s) :
              Len(Only(SubSeq(s, 1, k), S)) = Cardinality({j \in 1 .. k : s[j] \in S})
<1> DEFINE n == Len(s)
           P(k) == Only(SubSeq(s, 1, k), S)
           Kept(k) == {j \in 1 .. k : s[j] \in S}
           Good == {k \in 0 .. n : Len(P(k)) = Cardinality(Kept(k))}
<1>1. n \in Nat /\ DOMAIN s = 1 .. n /\ \A k \in 1 .. n : s[k] \in T
  BY LenProperties, ElementOfSeq
<1>2. /\ P(0) = << >> /\ \A k \in 0 .. n : P(k) \in Seq(T)
      /\ \A k \in 0 .. (n - 1) :
            /\ s[k + 1] \in S => P(k + 1) = Append(P(k), s[k + 1])
            /\ s[k + 1] \notin S => P(k + 1) = P(k)
  BY OnlyNext, Zenon
<1> HIDE DEF P, n
<1>3. ASSUME NEW k \in Nat PROVE IsFiniteSet(Kept(k))
  <2>1. IsFiniteSet(1 .. k)
    BY FS_Interval
  <2>2. Kept(k) \subseteq 1 .. k
    OBVIOUS
  <2> QED
    BY <2>1, <2>2, FS_Subset
<1>4. 0 \in Good
  <2>1. Kept(0) = {}
    OBVIOUS
  <2>2. Len(P(0)) = 0
    BY <1>2, EmptySeq
  <2> QED
    BY <1>1, <2>1, <2>2, FS_EmptySet
<1>5. ASSUME NEW k \in 0 .. (n - 1), k \in Good PROVE k + 1 \in Good
  <2>1. k \in 0 .. n /\ k + 1 \in 1 .. n /\ k + 1 \in 0 .. n /\ k \in Nat /\ k + 1 \notin 1 .. k
    BY <1>1
  <2>2. Len(P(k)) = Cardinality(Kept(k))
    BY <1>5
  <2>3. IsFiniteSet(Kept(k))
    BY <1>3, <2>1
  <2>4. CASE s[k + 1] \in S
    <3>1. Kept(k + 1) = Kept(k) \cup {k + 1}
      BY <2>1, <2>4
    <3>2. k + 1 \notin Kept(k)
      BY <2>1
    <3> HIDE DEF Kept
    <3>3. Cardinality(Kept(k + 1)) = Cardinality(Kept(k)) + 1
      BY <2>3, <3>1, <3>2, FS_AddElement
    <3>4. P(k) \in Seq(T) /\ s[k + 1] \in T /\ P(k + 1) = Append(P(k), s[k + 1])
      BY <1>1, <1>2, <2>1, <2>4
    <3>5. Len(P(k + 1)) = Len(P(k)) + 1
      BY <3>4, AppendProperties
    <3> QED
      BY <2>1, <2>2, <3>3, <3>5
  <2>5. CASE s[k + 1] \notin S
    <3>1. Kept(k + 1) = Kept(k)
      BY <2>1, <2>5
    <3>2. P(k + 1) = P(k)
      BY <1>2, <2>5
    <3> HIDE DEF Kept
    <3> QED
      BY <2>1, <2>2, <3>1, <3>2
  <2> QED
    BY <2>4, <2>5
<1> HIDE DEF Good
<1>6. \A k \in 0 .. n : k \in Good
  <2>1. 0 \in Nat
    OBVIOUS
  <2> QED
    BY <1>1, <1>4, <1>5, <2>1, UpTo, Zenon
<1>7. \A k \in 0 .. n : Len(P(k)) = Cardinality(Kept(k))
  BY <1>6 DEF Good
<1> QED
  BY <1>7 DEF P, n

\* An element that is kept comes behind the kept ones before it.
LEMMA OnlyAt ==
    ASSUME NEW T, NEW s \in Seq(T), NEW S, NEW i \in DOMAIN s, s[i] \in S,
           NEW c, c = Cardinality({j \in 1 .. (i - 1) : s[j] \in S})
    PROVE  c \in Nat /\ c + 1 \in DOMAIN Only(s, S) /\ Only(s, S)[c + 1] = s[i]
<1> DEFINE n == Len(s)
           P(k) == Only(SubSeq(s, 1, k), S)
           Good == {k \in i .. n : c + 1 \in 1 .. Len(P(k)) /\ P(k)[c + 1] = s[i]}
<1>1. n \in Nat /\ i \in 1 .. n /\ \A k \in 1 .. n : s[k] \in T
  BY LenProperties, ElementOfSeq
<1>2. /\ Only(s, S) \in Seq(T) /\ \A k \in 0 .. n : P(k) \in Seq(T)
      /\ \A k \in 0 .. (n - 1) :
            /\ s[k + 1] \in S => P(k + 1) = Append(P(k), s[k + 1])
            /\ s[k + 1] \notin S => P(k + 1) = P(k)
  BY OnlyNext, Zenon
<1>3. P(n) = Only(s, S)
  BY WholePrefix
<1>4. i - 1 \in 0 .. n /\ Len(P(i - 1)) = c
  <2>1. i - 1 \in 0 .. n
    BY <1>1
  <2> QED
    BY <2>1, OnlyLength
<1> HIDE DEF P, n
<1>5. c \in Nat
  BY <1>2, <1>4, LenProperties
<1>6. i \in Good
  <2>1. i - 1 \in 0 .. (n - 1) /\ i - 1 + 1 = i /\ i \in i .. n
    BY <1>1
  <2>2. P(i) = Append(P(i - 1), s[i])
    BY <1>2, <2>1
  <2>3. P(i - 1) \in Seq(T) /\ s[i] \in T
    BY <1>1, <1>2, <1>4
  <2>4. Len(P(i)) = c + 1 /\ P(i)[c + 1] = s[i]
    BY <1>4, <2>2, <2>3, AppendProperties
  <2> QED
    BY <1>5, <2>1, <2>4
<1>7. ASSUME NEW k \in i .. (n - 1), k \in Good PROVE k + 1 \in Good
  <2>1. k \in 0 .. (n - 1) /\ k \in 0 .. n /\ k + 1 \in 1 .. n /\ k + 1 \in i .. n
    BY <1>1
  <2>2. c + 1 \in 1 .. Len(P(k)) /\ P(k)[c + 1] = s[i]
    BY <1>7
  <2>3. CASE s[k + 1] \in S
    <3>1. P(k) \in Seq(T) /\ s[k + 1] \in T /\ P(k + 1) = Append(P(k), s[k + 1])
      BY <1>1, <1>2, <2>1, <2>3
    <3>2. Len(P(k)) \in Nat
      BY <3>1, LenProperties
    <3>3. Len(P(k + 1)) = Len(P(k)) + 1 /\ P(k + 1)[c + 1] = P(k)[c + 1]
      BY <2>2, <3>1, AppendProperties
    <3> QED
      BY <2>1, <2>2, <3>2, <3>3
  <2>4. CASE s[k + 1] \notin S
    <3>1. P(k + 1) = P(k)
      BY <1>2, <2>1, <2>4
    <3> QED
      BY <2>1, <2>2, <3>1
  <2> QED
    BY <2>3, <2>4
<1> HIDE DEF Good
<1>8. n \in Good
  <2>1. i \in Nat /\ n \in i .. n
    BY <1>1
  <2> QED
    BY <1>1, <1>6, <1>7, <2>1, UpTo, Zenon
<1> QED
  <2>1. c + 1 \in 1 .. Len(Only(s, S)) /\ Only(s, S)[c + 1] = s[i]
    BY <1>3, <1>8 DEF Good
  <2>2. DOMAIN Only(s, S) = 1 .. Len(Only(s, S))
    BY <1>2, LenProperties
  <2> QED
    BY <1>5, <2>1, <2>2

---------------------------------------------------------------------------
(* Flattened sequences *)

LEMMA Associative ==
    ASSUME NEW T, NEW a \in Seq(T), NEW b \in Seq(T), NEW c \in Seq(T)
    PROVE  (a \o b) \o c = a \o (b \o c)
BY ConcatAssociative

\* A sequence is what comes before its last element with that appended.
LEMMA LastAppended ==
    ASSUME NEW T, NEW s \in Seq(T), NEW t \in Seq(T), NEW x \in T,
           Len(t) = Len(s) + 1, \A i \in 1 .. Len(s) : t[i] = s[i], t[Len(s) + 1] = x
    PROVE  t = Append(s, x)
<1>1. Len(s) \in Nat
  BY LenProperties
<1>2. /\ Append(s, x) \in Seq(T) /\ Len(Append(s, x)) = Len(s) + 1
      /\ Append(s, x)[Len(s) + 1] = x
      /\ \A i \in 1 .. Len(s) : Append(s, x)[i] = s[i]
  BY AppendProperties
<1>3. \A i \in 1 .. Len(t) : t[i] = Append(s, x)[i]
  <2> TAKE i \in 1 .. Len(t)
  <2>1. i \in 1 .. Len(s) \/ i = Len(s) + 1
    BY <1>1
  <2> QED
    BY <1>2, <2>1
<1> QED
  BY <1>2, <1>3, SeqEqual

\* f holds the concatenations of the first sequences of ss.
Concatenates(f, ss) ==
    /\ f[1] = ss[1]
    /\ \A k \in 1 .. (Len(ss) - 1) : f[k + 1] = f[k] \o ss[k + 1]
    /\ FlattenSeq(ss) = f[Len(ss)]

LEMMA FlattenConcatenates ==
    ASSUME NEW T, NEW ss \in Seq(Seq(T)), ss # << >>
    PROVE  \E f \in [1 .. Len(ss) -> Seq(T)] : Concatenates(f, ss)
<1> DEFINE n == Len(ss)
           Step == [p \in ((1 + 1) .. n) \X Seq(T) |-> p[2] \o ss[p[1]]]
           Grows(f) == f = [i \in 1 .. n |-> IF i = 1 THEN ss[i] ELSE f[i - 1] \o ss[i]]
           flatten == CHOOSE f : Grows(f)
           Same(f) == {k \in 1 .. n : flatten[k] = f[k]}
<1>1. n \in Nat /\ n # 0 /\ 1 <= n /\ DOMAIN ss = 1 .. n /\ \A k \in 1 .. n : ss[k] \in Seq(T)
  BY LenProperties, ElementOfSeq, EmptySeq
<1>2. FlattenSeq(ss) = flatten[n]
  BY <1>1 DEF FlattenSeq
<1> HIDE DEF n
<1>3. Step \in [((1 + 1) .. n) \X Seq(T) -> Seq(T)]
  <2>1. \A k \in 1 .. n, v \in Seq(T) : v \o ss[k] \in Seq(T)
    BY <1>1, ConcatProperties
  <2> QED
    BY <1>1, <2>1
<1>4. ss[1] \in Seq(T)
  BY <1>1
<1>5. PICK f \in [1 .. n -> Seq(T)] : Follows(f, 1, n, ss[1], Step)
  <2> HIDE DEF Step
  <2>1. 1 \in Nat
    OBVIOUS
  <2> QED
    BY <1>1, <1>3, <1>4, <2>1, RecursionExists, Zenon
<1>6. f[1] = ss[1]
  BY <1>5 DEF Follows
<1>7. \A k \in 1 .. (n - 1) : f[k + 1] = f[k] \o ss[k + 1]
  <2> SUFFICES ASSUME NEW k \in 1 .. (n - 1) PROVE f[k + 1] = f[k] \o ss[k + 1]
    OBVIOUS
  <2> DEFINE m == k + 1
  <2>1. m \in (1 + 1) .. n /\ m \in 1 .. n /\ m - 1 = k /\ k \in 1 .. n
    BY <1>1
  <2> HIDE DEF m
  <2>2. f[m] = Step[<<m, f[m - 1]>>]
    BY <1>5, <2>1 DEF Follows
  <2>3. f[k] \in Seq(T)
    BY <1>5, <2>1
  <2> QED
    BY <2>1, <2>2, <2>3 DEF m
<1>8. Grows(f)
  <2>1. ASSUME NEW i \in 1 .. n
        PROVE  f[i] = IF i = 1 THEN ss[i] ELSE f[i - 1] \o ss[i]
    <3>1. CASE i = 1
      BY <1>6, <3>1
    <3>2. CASE i # 1
      <4>1. i - 1 \in 1 .. (n - 1) /\ (i - 1) + 1 = i
        BY <1>1, <3>2
      <4> QED
        BY <1>7, <3>2, <4>1
    <3> QED
      BY <3>1, <3>2
  <2>2. f = [i \in 1 .. n |-> f[i]]
    BY <1>5
  <2> QED
    BY <2>1, <2>2
<1>9. Grows(flatten)
  BY <1>8
<1> HIDE DEF flatten
<1>10. 1 \in Same(f)
  <2>1. 1 \in 1 .. n
    BY <1>1
  <2>2. flatten[1] = ss[1]
    BY <1>9, <2>1
  <2> QED
    BY <1>6, <2>1, <2>2
<1>11. \A k \in 1 .. (n - 1) : k \in Same(f) => k + 1 \in Same(f)
  <2> SUFFICES ASSUME NEW k \in 1 .. (n - 1), flatten[k] = f[k] PROVE k + 1 \in Same(f)
    BY <1>1
  <2> DEFINE m == k + 1
  <2>1. m \in 1 .. n /\ m # 1 /\ m - 1 = k
    BY <1>1
  <2>2. f[m] = f[k] \o ss[m]
    BY <1>7
  <2> HIDE DEF m
  <2>3. flatten[m] = flatten[k] \o ss[m]
    <3>1. \A i \in 1 .. n : flatten[i] = IF i = 1 THEN ss[i] ELSE flatten[i - 1] \o ss[i]
      BY <1>9, Zenon
    <3>2. flatten[m] = IF m = 1 THEN ss[m] ELSE flatten[m - 1] \o ss[m]
      BY <2>1, <3>1, Zenon
    <3> QED
      BY <2>1, <3>2
  <2>4. m \in Same(f)
    BY <2>1, <2>2, <2>3
  <2> QED
    BY <2>4 DEF m
<1>12. n \in Same(f)
  <2> DEFINE Good == Same(f)
  <2>1. 1 \in Nat /\ n \in 1 .. n
    BY <1>1
  <2> HIDE DEF Good
  <2>2. 1 \in Good /\ \A k \in 1 .. (n - 1) : k \in Good => k + 1 \in Good
    BY <1>10, <1>11 DEF Good
  <2>3. n \in Good
    BY <1>1, <2>1, <2>2, UpTo, Zenon
  <2> QED
    BY <2>3 DEF Good
<1>13. Concatenates(f, ss)
  BY <1>2, <1>6, <1>7, <1>12 DEF Concatenates, n
<1> QED
  BY <1>5, <1>13 DEF n

\* Flattening goes through a sequence from left to right.
LEMMA Flatten ==
    ASSUME NEW T, NEW ss \in Seq(Seq(T)), NEW x \in Seq(T)
    PROVE  /\ FlattenSeq(ss) \in Seq(T)
           /\ FlattenSeq(Append(ss, x)) = FlattenSeq(ss) \o x
<1> DEFINE n == Len(ss)
           tt == Append(ss, x)
<1>1. n \in Nat /\ DOMAIN ss = 1 .. n
  BY LenProperties
<1>2. /\ tt \in Seq(Seq(T)) /\ Len(tt) = n + 1 /\ tt[n + 1] = x
      /\ \A k \in 1 .. n : tt[k] = ss[k]
  BY AppendProperties
<1> HIDE DEF n, tt
<1>3. tt # << >>
  BY <1>1, <1>2, EmptySeq
<1>4. PICK g \in [1 .. Len(tt) -> Seq(T)] : Concatenates(g, tt)
  BY <1>2, <1>3, FlattenConcatenates
<1>5. /\ g[1] = tt[1] /\ FlattenSeq(tt) = g[n + 1]
      /\ \A k \in 1 .. n : g[k + 1] = g[k] \o tt[k + 1]
  <2>1. \A k \in 1 .. (Len(tt) - 1) : g[k + 1] = g[k] \o tt[k + 1]
    BY <1>4 DEF Concatenates
  <2>2. \A k \in 1 .. n : k \in 1 .. (Len(tt) - 1)
    BY <1>1, <1>2
  <2>3. \A k \in 1 .. n : g[k + 1] = g[k] \o tt[k + 1]
    BY <2>1, <2>2, Zenon
  <2> QED
    BY <1>2, <1>4, <2>3 DEF Concatenates
<1>6. CASE ss = << >>
  <2>1. n = 0
    BY <1>6, EmptySeq DEF n
  <2>2. FlattenSeq(ss) = ss
    BY <2>1 DEF FlattenSeq, n
  <2>3. FlattenSeq(tt) = x
    <3>1. n + 1 = 1
      BY <2>1
    <3> QED
      BY <1>2, <1>5, <3>1
  <2>4. << >> \in Seq(T)
    BY EmptySeq
  <2>5. << >> \o x = x
    BY <2>4, ConcatEmptySeq
  <2> QED
    BY <1>6, <2>2, <2>3, <2>4, <2>5 DEF tt
<1>7. CASE ss # << >>
  <2>0. n # 0
    BY <1>7, EmptySeq DEF n
  <2>1. PICK f \in [1 .. Len(ss) -> Seq(T)] : Concatenates(f, ss)
    BY <1>7, FlattenConcatenates
  <2>2. /\ f[1] = ss[1] /\ FlattenSeq(ss) = f[n]
        /\ \A k \in 1 .. (n - 1) : f[k + 1] = f[k] \o ss[k + 1]
    BY <2>1 DEF Concatenates, n
  <2> DEFINE Same == {k \in 1 .. n : g[k] = f[k]}
  <2>3. 1 \in Same
    BY <1>1, <1>2, <1>5, <2>0, <2>2
  <2>4. \A k \in 1 .. (n - 1) : k \in Same => k + 1 \in Same
    <3> SUFFICES ASSUME NEW k \in 1 .. (n - 1), g[k] = f[k] PROVE k + 1 \in Same
      BY <1>1
    <3>1. k + 1 \in 1 .. n /\ k \in 1 .. n
      BY <1>1
    <3>2. g[k + 1] = g[k] \o tt[k + 1] /\ f[k + 1] = f[k] \o ss[k + 1] /\ tt[k + 1] = ss[k + 1]
      BY <1>2, <1>5, <2>2, <3>1
    <3> QED
      BY <3>1, <3>2
  <2> HIDE DEF Same
  <2>5. n \in Same
    <3>1. 1 \in Nat /\ n \in 1 .. n
      BY <1>1, <2>0
    <3> QED
      BY <1>1, <2>3, <2>4, <3>1, UpTo, Zenon
  <2>6. g[n] = f[n]
    BY <2>5 DEF Same
  <2>7. g[n + 1] = g[n] \o tt[n + 1]
    <3>1. n \in 1 .. n
      BY <1>1, <2>0
    <3> QED
      BY <1>5, <3>1
  <2>8. f[n] \in Seq(T)
    <3>1. n \in 1 .. n /\ Len(ss) = n
      BY <1>1, <2>0 DEF n
    <3> QED
      BY <2>1, <3>1
  <2> QED
    BY <1>2, <1>5, <2>2, <2>6, <2>7, <2>8 DEF tt
<1> QED
  BY <1>6, <1>7

\* A sequence without its element at i.
LEMMA ElementRemoved ==
    ASSUME NEW T, NEW b \in Seq(T), NEW i \in DOMAIN b
    PROVE  /\ RemoveAt(b, i) \in Seq(T) /\ Len(RemoveAt(b, i)) = Len(b) - 1
           /\ \A k \in 1 .. (Len(b) - 1) : RemoveAt(b, i)[k] = IF k < i THEN b[k] ELSE b[k + 1]
<1> DEFINE n == Len(b)
           h == SubSeq(b, 1, i - 1)
           e == SubSeq(b, i + 1, n)
           c == h \o e
<1>1. n \in Nat /\ DOMAIN b = 1 .. n /\ i \in 1 .. n /\ \A k \in 1 .. n : b[k] \in T
  BY LenProperties, ElementOfSeq
<1>2. RemoveAt(b, i) = c
  BY DEF RemoveAt
<1> HIDE DEF n
<1>3. h \in Seq(T) /\ Len(h) = i - 1 /\ \A k \in 1 .. (i - 1) : h[k] = b[k]
  <2>1. 1 \in Int /\ i - 1 \in Int /\ \A k \in 1 .. (i - 1) : b[k] \in T
    BY <1>1
  <2>2. /\ h \in Seq(T) /\ Len(h) = IF 1 <= i - 1 THEN i - 1 - 1 + 1 ELSE 0
        /\ \A k \in 1 .. (i - 1 - 1 + 1) : h[k] = b[1 + k - 1]
    BY <2>1, SubSeqProperties
  <2> HIDE DEF h
  <2>3. \A k \in 1 .. (i - 1) : k \in 1 .. (i - 1 - 1 + 1) /\ 1 + k - 1 = k
    BY <1>1
  <2> QED
    BY <1>1, <2>2, <2>3
<1>4. e \in Seq(T) /\ Len(e) = n - i /\ \A k \in 1 .. (n - i) : e[k] = b[i + k]
  <2>1. i + 1 \in Int /\ n \in Int /\ \A k \in (i + 1) .. n : b[k] \in T
    BY <1>1
  <2>2. /\ e \in Seq(T) /\ Len(e) = IF i + 1 <= n THEN n - (i + 1) + 1 ELSE 0
        /\ \A k \in 1 .. (n - (i + 1) + 1) : e[k] = b[i + 1 + k - 1]
    BY <2>1, SubSeqProperties
  <2> HIDE DEF e
  <2>3. \A k \in 1 .. (n - i) : k \in 1 .. (n - (i + 1) + 1) /\ i + 1 + k - 1 = i + k
    BY <1>1
  <2>4. Len(e) = n - i
    BY <1>1, <2>2
  <2> QED
    BY <2>2, <2>3, <2>4
<1> HIDE DEF h, e
<1>5. /\ c \in Seq(T) /\ Len(c) = Len(h) + Len(e)
      /\ \A k \in 1 .. Len(h) + Len(e) : c[k] = IF k <= Len(h) THEN h[k] ELSE e[k - Len(h)]
  <2>1. h \in Seq(T) /\ e \in Seq(T)
    BY <1>3, <1>4
  <2> QED
    BY <2>1, ConcatProperties, Zenon
<1> HIDE DEF c
<1>6. Len(c) = n - 1
  BY <1>1, <1>3, <1>4, <1>5
<1>7. ASSUME NEW k \in 1 .. (n - 1) PROVE c[k] = IF k < i THEN b[k] ELSE b[k + 1]
  <2>1. k \in 1 .. Len(h) + Len(e)
    BY <1>1, <1>3, <1>4
  <2>2. CASE k < i
    <3>1. k \in 1 .. (i - 1) /\ k <= Len(h)
      BY <1>1, <1>3, <2>2
    <3> QED
      BY <1>3, <1>5, <2>1, <2>2, <3>1
  <2>3. CASE ~(k < i)
    <3> DEFINE m == k - (i - 1)
    <3>1. m \in 1 .. (n - i) /\ i + m = k + 1 /\ m = k - Len(h) /\ ~(k <= Len(h))
      BY <1>1, <1>3, <2>3
    <3> HIDE DEF m
    <3>2. c[k] = e[m]
      BY <1>5, <2>1, <3>1
    <3> QED
      BY <1>4, <2>3, <3>1, <3>2
  <2> QED
    BY <2>2, <2>3
<1> QED
  BY <1>2, <1>5, <1>6, <1>7 DEF n

\* What remains when nothing is there twice.
LEMMA ElementRemovedSet ==
    ASSUME NEW T, NEW b \in Seq(T), \A k, l \in DOMAIN b : b[k] = b[l] => k = l,
           NEW i \in DOMAIN b
    PROVE  ToSet(RemoveAt(b, i)) = ToSet(b) \ {b[i]}
<1> DEFINE c == RemoveAt(b, i)
           m == Len(b)
           q == b[i]
<1>1. b[i] = q
  OBVIOUS
<1>2. m \in Nat /\ DOMAIN b = 1 .. m
  BY LenProperties
<1>3. /\ c \in Seq(T) /\ Len(c) = m - 1
      /\ \A k \in 1 .. (m - 1) : c[k] = IF k < i THEN b[k] ELSE b[k + 1]
  BY ElementRemoved
<1>4. DOMAIN c = 1 .. (m - 1)
  BY <1>3
<1> HIDE DEF c, m, q
<1>5. ASSUME NEW k \in 1 .. (m - 1) PROVE c[k] \in ToSet(b) \ {q}
  <2>1. CASE k < i
    <3>1. k \in 1 .. m /\ k # i
      BY <1>1, <1>2, <2>1
    <3>2. b[k] \in ToSet(b) /\ b[k] # q
      BY <1>1, <1>2, <3>1 DEF ToSet
    <3> QED
      BY <1>3, <2>1, <3>2
  <2>2. CASE ~(k < i)
    <3>1. k + 1 \in 1 .. m /\ k + 1 # i
      BY <1>1, <1>2, <2>2
    <3>2. b[k + 1] \in ToSet(b) /\ b[k + 1] # q
      BY <1>1, <1>2, <3>1 DEF ToSet
    <3> QED
      BY <1>3, <2>2, <3>2
  <2> QED
    BY <2>1, <2>2
<1>6. ASSUME NEW k \in 1 .. m, b[k] # q PROVE b[k] \in ToSet(c)
  <2>1. CASE k < i
    <3>1. k \in 1 .. (m - 1)
      BY <1>1, <1>2, <2>1
    <3> QED
      BY <1>3, <1>4, <2>1, <3>1 DEF ToSet
  <2>2. CASE ~(k < i)
    <3>1. k - 1 \in 1 .. (m - 1) /\ ~(k - 1 < i) /\ (k - 1) + 1 = k
      BY <1>1, <1>2, <1>6, <2>2
    <3>2. c[k - 1] = b[k]
      BY <1>3, <3>1
    <3> QED
      BY <1>4, <3>1, <3>2 DEF ToSet
  <2> QED
    BY <2>1, <2>2
<1> QED
  BY <1>2, <1>4, <1>5, <1>6 DEF ToSet, c, q

\* A sequence with an element in front.
LEMMA Prepended ==
    ASSUME NEW T, NEW b \in Seq(T), NEW n \in T
    PROVE  /\ <<n>> \o b \in Seq(T) /\ Len(<<n>> \o b) = Len(b) + 1 /\ (<<n>> \o b)[1] = n
           /\ \A i \in 1 .. Len(b) : (<<n>> \o b)[i + 1] = b[i]
           /\ ToSet(<<n>> \o b) = ToSet(b) \cup {n}
<1> DEFINE c == <<n>> \o b
<1>1. c \in Seq(T)
  OBVIOUS
<1>2. Len(c) = Len(b) + 1 /\ c[1] = n /\ \A i \in 1 .. Len(b) : c[i + 1] = b[i]
  BY <1>1
<1>3. Len(b) \in Nat /\ DOMAIN b = 1 .. Len(b) /\ DOMAIN c = 1 .. (Len(b) + 1)
  BY <1>1, <1>2
<1> HIDE DEF c
<1>4. ToSet(c) = ToSet(b) \cup {n}
  <2>1. ASSUME NEW i \in 1 .. (Len(b) + 1) PROVE c[i] \in ToSet(b) \cup {n}
    <3>1. i = 1 \/ (i - 1 \in 1 .. Len(b) /\ (i - 1) + 1 = i)
      BY <1>3
    <3> QED
      BY <1>2, <1>3, <3>1 DEF ToSet
  <2>2. ASSUME NEW i \in 1 .. Len(b) PROVE b[i] \in ToSet(c)
    <3>1. i + 1 \in 1 .. (Len(b) + 1)
      BY <1>3
    <3> QED
      BY <1>2, <1>3, <3>1 DEF ToSet
  <2>3. n \in ToSet(c)
    <3>1. 1 \in 1 .. (Len(b) + 1)
      BY <1>3
    <3> QED
      BY <1>2, <1>3, <3>1 DEF ToSet
  <2> QED
    BY <1>3, <2>1, <2>2, <2>3 DEF ToSet
<1> QED
  BY <1>1, <1>2, <1>4 DEF c

\* The last table is replaced.
LEMMA LastReplaced ==
    ASSUME NEW T, NEW b \in Seq(T), NEW m, m = Len(b), m # 0, NEW e, NEW b2, b2 = Append(Front(b), e)
    PROVE  /\ DOMAIN b2 = 1 .. m /\ b2[m] = e /\ m \in 1 .. m
           /\ \A i \in 1 .. m : i # m => b2[i] = b[i]
<1> DEFINE front == Front(b)
<1>0. m \in Nat \ {0}
  BY LenProperties
<1>1. front \in Seq(T) /\ Len(front) = m - 1 /\ \A i \in 1 .. (m - 1) : front[i] = b[i]
  <2>1. front = SubSeq(b, 1, m - 1) /\ m - 1 \in 0 .. m
    BY <1>0 DEF Front
  <2> HIDE DEF front
  <2> QED
    BY <2>1, Prefix
<1>2. b2 = Append(front, e)
  OBVIOUS
<1> HIDE DEF front
<1>3. /\ Len(b2) = m /\ DOMAIN b2 = 1 .. m /\ b2[m] = e
      /\ \A i \in 1 .. (m - 1) : b2[i] = front[i]
  BY <1>0, <1>1, <1>2
<1>4. \A i \in 1 .. m : i # m => i \in 1 .. (m - 1)
  BY <1>0
<1> QED
  BY <1>0, <1>1, <1>3, <1>4
===========================================================================
