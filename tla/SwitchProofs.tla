--------------------------- MODULE SwitchProofs ---------------------------
(***************************************************************************)
(* Proofs about the sorted case labels of module Switch, the buckets that  *)
(* swgen makes of them and the code that swcode writes, for every width,   *)
(* every density, every set of constants and any number of cases.          *)
(***************************************************************************)
EXTENDS Switch, Recursion, SequenceTheorems, FiniteSetTheorems, WellFoundedInduction, TLAPS

-----------------------------------------------------------------------------
(* Arithmetic *)

\* A multiple of m between -m and m is zero.
LEMMA SmallMultiple ==
    ASSUME NEW m \in Nat \ {0}, NEW k \in Int, m * k > -m, m * k < m
    PROVE  k = 0
<1>1. CASE k >= 1
  BY <1>1, SMT
<1>2. CASE k <= -1
  BY <1>2, SMT
<1> QED
  BY <1>1, <1>2

\* Two numbers have the same remainder exactly when m divides the difference.
LEMMA SameRemainder ==
    ASSUME NEW m \in Nat \ {0}, NEW c \in Int, NEW d \in Int
    PROVE  (c - d) % m = 0 <=> c % m = d % m
<1> DEFINE qc == c \div m
           qd == d \div m
           q  == (c - d) \div m
<1>1. /\ c = m * qc + (c % m) /\ c % m \in 0 .. m - 1 /\ qc \in Int
      /\ d = m * qd + (d % m) /\ d % m \in 0 .. m - 1 /\ qd \in Int
      /\ c - d = m * q + ((c - d) % m) /\ q \in Int
  BY SMT
<1>2. c % m = d % m => (c - d) % m = 0
  BY SMTT(30)
<1>3. ASSUME (c - d) % m = 0 PROVE c % m = d % m
  <2> HIDE DEF qc, qd, q
  <2>1. m * (q - qc + qd) = (c % m) - (d % m)
    BY <1>1, <1>3, SMT
  <2>2. q - qc + qd \in Int
    BY <1>1
  <2>3. m * (q - qc + qd) > -m /\ m * (q - qc + qd) < m
    BY <1>1, <2>1, SMT
  <2>4. q - qc + qd = 0
    BY <2>2, <2>3, SmallMultiple
  <2>5. m * (q - qc + qd) = 0
    BY <2>4, SMT
  <2> QED
    BY <1>1, <2>1, <2>5, SMT
<1> QED
  BY <1>2, <1>3

-----------------------------------------------------------------------------
(* caselabel's helpers *)

Sorted(s) == \A i, j \in 1 .. Len(s) : i < j => s[i] <= s[j]

\* The shift of caselabel ends behind all smaller values and before the others.
LEMMA PlaceInOrder ==
    ASSUME NEW s \in Seq(Int), Sorted(s), NEW v \in Int
    PROVE  /\ Place(s, v) \in 0 .. Len(s)
           /\ \A i \in 1 .. Place(s, v) : s[i] < v
           /\ \A i \in Place(s, v) + 1 .. Len(s) : s[i] >= v
<1> DEFINE Fits(k) == /\ k > 0 => s[k] < v
                      /\ \A j \in k+1 .. Len(s) : s[j] >= v
           I == {k \in 0 .. Len(s) : k > 0 => s[k] < v}
<1>1. Len(s) \in Nat /\ \A i \in 1 .. Len(s) : s[i] \in Int
  BY ElementOfSeq
<1>2. PICK k \in I : \A j \in I : j <= k
  <2>1. I # {} /\ I \subseteq 0 .. Len(s)
    BY <1>1
  <2> HIDE DEF I
  <2> QED
    BY <1>1, <2>1, GreatestNumber
<1>3. k \in 0 .. Len(s) /\ Fits(k)
  BY <1>1, <1>2
<1>4. Place(s, v) \in 0 .. Len(s) /\ Fits(Place(s, v))
  BY <1>3 DEF Place
<1>5. ASSUME NEW p \in 0 .. Len(s), Fits(p)
      PROVE  \A i \in 1 .. p : s[i] < v
  BY <1>1, <1>5 DEF Sorted
<1> QED
  BY <1>4, <1>5

\* A duplicate is found exactly when the value is in the array.
LEMMA DuplicateFound ==
    ASSUME NEW s \in Seq(Int), Sorted(s), NEW v \in Int
    PROVE  IsDuplicate(s, v) <=> \E i \in 1 .. Len(s) : s[i] = v
<1> DEFINE k == Place(s, v)
<1>1. /\ k \in 0 .. Len(s)
      /\ \A i \in 1 .. k : s[i] < v
      /\ \A i \in k + 1 .. Len(s) : s[i] >= v
  BY PlaceInOrder
<1>2. Len(s) \in Nat /\ \A i \in 1 .. Len(s) : s[i] \in Int
  BY ElementOfSeq
<1>3. IsDuplicate(s, v) <=> (k < Len(s) /\ s[k + 1] = v)
  BY DEF IsDuplicate
<1> HIDE DEF k
<1>4. ASSUME NEW i \in 1 .. Len(s), s[i] = v PROVE k < Len(s) /\ s[k + 1] = v
  <2>1. i >= k + 1
    BY <1>1, <1>2, <1>4
  <2>2. k + 1 \in k + 1 .. Len(s) /\ k + 1 \in 1 .. Len(s)
    BY <1>1, <1>2, <2>1
  <2>3. s[k + 1] <= v
    BY <1>2, <1>4, <2>1, <2>2 DEF Sorted
  <2> QED
    BY <1>1, <1>2, <2>2, <2>3
<1> QED
  BY <1>1, <1>2, <1>3, <1>4

\* r is s with e put behind the first k elements.
IsInsertion(r, s, k, e, S) ==
    /\ r \in Seq(S)
    /\ Len(r) = Len(s) + 1
    /\ \A i \in 1 .. k : r[i] = s[i]
    /\ r[k + 1] = e
    /\ \A i \in k + 2 .. Len(s) + 1 : r[i] = s[i - 1]

LEMMA Insertion ==
    ASSUME NEW S, NEW s \in Seq(S), NEW k \in 0 .. Len(s), NEW e \in S
    PROVE  IsInsertion(InsertAt(s, k + 1, e), s, k, e, S)
<1> DEFINE a == SubSeq(s, 1, k)
           b == SubSeq(s, k + 1, Len(s))
<1>1. Len(s) \in Nat
  OBVIOUS
<1>2. InsertAt(s, k + 1, e) = (a \o <<e>>) \o b
  <2>1. (k + 1) - 1 = k
    BY <1>1
  <2>2. InsertAt(s, k + 1, e)
           = SubSeq(s, 1, (k + 1) - 1) \o <<e>> \o SubSeq(s, k + 1, Len(s))
    BY DEF InsertAt
  <2> QED
    BY <2>1, <2>2
<1>3. /\ a \in Seq(S) /\ Len(a) = k /\ \A i \in 1 .. k : a[i] = s[i]
  BY <1>1
<1>4. /\ b \in Seq(S) /\ Len(b) = Len(s) - k
      /\ \A i \in 1 .. Len(s) - k : b[i] = s[k + i]
  BY <1>1
<1> HIDE DEF a, b
<1>5. /\ a \o <<e>> \in Seq(S) /\ Len(a \o <<e>>) = k + 1
      /\ \A i \in 1 .. k : (a \o <<e>>)[i] = s[i]
      /\ (a \o <<e>>)[k + 1] = e
  BY <1>1, <1>3
<1> DEFINE c == a \o <<e>>
<1> HIDE DEF c
<1>6. /\ c \in Seq(S) /\ Len(c) = k + 1
      /\ \A i \in 1 .. k : c[i] = s[i]
      /\ c[k + 1] = e
  BY <1>5 DEF c
<1>7. /\ c \o b \in Seq(S) /\ Len(c \o b) = Len(s) + 1
      /\ \A i \in 1 .. k + 1 : (c \o b)[i] = c[i]
      /\ \A i \in k + 2 .. Len(s) + 1 : (c \o b)[i] = b[i - (k + 1)]
  BY <1>1, <1>4, <1>6
<1>8. \A i \in k + 2 .. Len(s) + 1 : b[i - (k + 1)] = s[i - 1]
  <2> TAKE i \in k + 2 .. Len(s) + 1
  <2>1. i - (k + 1) \in 1 .. Len(s) - k /\ k + (i - (k + 1)) = i - 1
    BY <1>1
  <2> QED
    BY <2>1, <1>4
<1>9. InsertAt(s, k + 1, e) = c \o b
  BY <1>2 DEF c
<1> DEFINE r == InsertAt(s, k + 1, e)
<1>10. r \in Seq(S) /\ Len(r) = Len(s) + 1
  BY <1>7, <1>9
<1>11. (\A i \in 1 .. k : r[i] = s[i]) /\ r[k + 1] = e
  BY <1>1, <1>6, <1>7, <1>9
<1>12. \A i \in k + 2 .. Len(s) + 1 : r[i] = s[i - 1]
  BY <1>7, <1>8, <1>9
<1> QED
  BY <1>10, <1>11, <1>12 DEF IsInsertion

-----------------------------------------------------------------------------
(* Sign extension *)

\* The two spellings of a value, and only they, are extended to one number.
LEMMA ExtendedSame ==
    ASSUME NEW c \in Int, NEW d \in Int
    PROVE  /\ Extended(c) \in Int
           /\ Extended(c) = Extended(d) <=> SameValue(c, d)
<1> DEFINE h == Modulus \div 2
<1>1. Modulus \in Nat \ {0}
  BY ModulusAssumption
<1>2. SameValue(c, d) <=> c % Modulus = d % Modulus
  BY <1>1, SameRemainder DEF SameValue
<1>3. /\ Extended(c) = IF c % Modulus >= h THEN (c % Modulus) - Modulus ELSE c % Modulus
      /\ Extended(d) = IF d % Modulus >= h THEN (d % Modulus) - Modulus ELSE d % Modulus
  BY DEF Extended
<1>4. h \in Int /\ c % Modulus \in 0 .. Modulus - 1 /\ d % Modulus \in 0 .. Modulus - 1
  BY <1>1, SMT
<1> HIDE DEF h
<1> DEFINE cl == c % Modulus
           dl == d % Modulus
           m  == Modulus
<1>5. /\ m \in Nat /\ cl \in 0 .. m - 1 /\ dl \in 0 .. m - 1 /\ h \in Int
      /\ Extended(c) = IF cl >= h THEN cl - m ELSE cl
      /\ Extended(d) = IF dl >= h THEN dl - m ELSE dl
      /\ SameValue(c, d) <=> cl = dl
  BY <1>1, <1>2, <1>3, <1>4
<1> HIDE DEF cl, dl, m
<1> QED
  BY <1>5, SMT

-----------------------------------------------------------------------------
(* The invariant *)

\* Behind the two arrays stand exactly the case labels read so far: every entry
\* belongs to one of them, and every one of them has an entry.
SwitchInv ==
    /\ values \in Seq(Int)
    /\ labels \in Seq({CaseLabelOf(c) : c \in Int})
    /\ Len(labels) = Len(values)
    /\ cases \subseteq Int
    /\ dups \in Nat
    /\ repeated = dups
    /\ Sorted(values)
    /\ \A i \in 1 .. Len(values) : \E c \in cases :
          values[i] = Extended(c) /\ labels[i] = CaseLabelOf(c)
    /\ \A c \in cases : \E i \in 1 .. Len(values) :
          values[i] = Extended(c) /\ labels[i] = CaseLabelOf(c)
    /\ dups = 0 => \A i, j \in 1 .. Len(values) : i < j => values[i] < values[j]

LEMMA InitSwitchInv == Init => SwitchInv
<1> SUFFICES ASSUME Init PROVE SwitchInv
  OBVIOUS
<1>1. /\ values = << >> /\ labels = << >> /\ cases = {} /\ dups = 0 /\ repeated = 0
  BY DEF Init
<1>2. Len(values) = 0 /\ 1 .. Len(values) = {}
  BY <1>1
<1> QED
  BY <1>1, <1>2 DEF SwitchInv, Sorted

\* A case label adds its entry at the right place and reports it if, and only
\* if, its value was there.
LEMMA CaseLabelKeeps ==
    ASSUME SwitchInv, NEW c \in Constants, CaseLabel(c)
    PROVE  SwitchInv'
<1> DEFINE v == Extended(c)
           k == Place(values, v)
           n == Len(values)
<1>1. c \in Int /\ v \in Int
  BY ConstantsAssumption, ExtendedSame
<1>2. /\ values \in Seq(Int) /\ n \in Nat /\ Sorted(values)
      /\ labels \in Seq({CaseLabelOf(d) : d \in Int}) /\ Len(labels) = n
      /\ \A i \in 1 .. n : values[i] \in Int
  BY ElementOfSeq DEF SwitchInv
<1>3. /\ k \in 0 .. n
      /\ \A i \in 1 .. k : values[i] < v
      /\ \A i \in k + 1 .. n : values[i] >= v
  BY <1>1, <1>2, PlaceInOrder
<1>4. IsDuplicate(values, v) <=> \E i \in 1 .. n : values[i] = v
  BY <1>1, <1>2, DuplicateFound
<1>5. /\ values' = InsertAt(values, k + 1, v)
      /\ labels' = InsertAt(labels, k + 1, CaseLabelOf(c))
      /\ dups' = IF IsDuplicate(values, v) THEN dups + 1 ELSE dups
      /\ cases' = cases \cup {c}
      /\ repeated' = IF \E d \in cases : SameValue(c, d) THEN repeated + 1 ELSE repeated
  BY DEF CaseLabel
<1> HIDE DEF v, k
<1>6. /\ values' \in Seq(Int)
      /\ Len(values') = n + 1
      /\ \A i \in 1 .. k : values'[i] = values[i]
      /\ values'[k + 1] = v
      /\ \A i \in k + 2 .. n + 1 : values'[i] = values[i - 1]
  <2>1. values \in Seq(Int) /\ k \in 0 .. Len(values) /\ v \in Int
    BY <1>1, <1>2, <1>3
  <2>2. IsInsertion(InsertAt(values, k + 1, v), values, k, v, Int)
    BY <2>1, Insertion
  <2>3. values' = InsertAt(values, k + 1, v)
    BY <1>5
  <2> QED
    BY <2>2, <2>3 DEF IsInsertion
<1>7. CaseLabelOf(c) \in {CaseLabelOf(d) : d \in Int}
  BY <1>1
<1>8. /\ labels' \in Seq({CaseLabelOf(d) : d \in Int})
      /\ Len(labels') = n + 1
      /\ \A i \in 1 .. k : labels'[i] = labels[i]
      /\ labels'[k + 1] = CaseLabelOf(c)
      /\ \A i \in k + 2 .. n + 1 : labels'[i] = labels[i - 1]
  <2> DEFINE S == {CaseLabelOf(d) : d \in Int}
             e == CaseLabelOf(c)
  <2>1. labels \in Seq(S) /\ k \in 0 .. Len(labels) /\ e \in S
    BY <1>2, <1>3, <1>7
  <2>2. labels' = InsertAt(labels, k + 1, e) /\ Len(labels) = n
    BY <1>2, <1>5
  <2> HIDE DEF S, e
  <2>3. IsInsertion(InsertAt(labels, k + 1, e), labels, k, e, S)
    BY <2>1, Insertion
  <2>4. /\ labels' \in Seq(S)
        /\ Len(labels') = n + 1
        /\ \A i \in 1 .. k : labels'[i] = labels[i]
        /\ labels'[k + 1] = e
        /\ \A i \in k + 2 .. n + 1 : labels'[i] = labels[i - 1]
    BY <2>2, <2>3 DEF IsInsertion
  <2> QED
    BY <2>4 DEF S, e
<1> HIDE DEF n
<1>9. cases \subseteq Int /\ cases' \subseteq Int /\ dups \in Nat /\ repeated = dups
  BY <1>1, <1>5 DEF SwitchInv
\* The value was there exactly when a case with that value was.
<1>10. IsDuplicate(values, v) <=> \E d \in cases : SameValue(c, d)
  <2>1. \A d \in cases : Extended(d) = v <=> SameValue(c, d)
    <3> TAKE d \in cases
    <3>1. d \in Int
      BY <1>9
    <3>2. Extended(c) = Extended(d) <=> SameValue(c, d)
      BY <1>1, <3>1, ExtendedSame
    <3> QED
      BY <3>2 DEF v
  <2>2. (\E i \in 1 .. n : values[i] = v) <=> \E d \in cases : Extended(d) = v
    BY DEF SwitchInv, n
  <2> QED
    BY <1>4, <2>1, <2>2
<1>11. dups' \in Nat /\ repeated' = dups'
  BY <1>5, <1>9, <1>10
\* Every position of the new arrays is one of three kinds.
<1>12. \A i \in 1 .. n + 1 :
          \/ i \in 1 .. k /\ i \in 1 .. n
          \/ i = k + 1
          \/ i \in k + 2 .. n + 1 /\ i - 1 \in k + 1 .. n /\ i - 1 \in 1 .. n
  BY <1>2, <1>3 DEF n
<1>13. Sorted(values')
  <2> SUFFICES ASSUME NEW i \in 1 .. n + 1, NEW j \in 1 .. n + 1, i < j
               PROVE  values'[i] <= values'[j]
    BY <1>6 DEF Sorted
  <2>1. \A a, b \in 1 .. n : a < b => values[a] <= values[b]
    BY <1>2 DEF Sorted, n
  <2>2. n \in Nat /\ k \in 0 .. n /\ v \in Int
    BY <1>1, <1>2, <1>3 DEF n
  <2>3. \A a \in 1 .. n : values[a] \in Int
    BY <1>2 DEF n
  <2>4. CASE i \in 1 .. k /\ j \in 1 .. k
    BY <1>6, <2>1, <2>2, <2>4
  <2>5. CASE i \in 1 .. k /\ j = k + 1
    <3>1. i \in 1 .. n /\ values[i] \in Int
      BY <2>2, <2>3, <2>5
    <3> QED
      BY <1>3, <1>6, <2>2, <2>5, <3>1
  <2>6. CASE i \in 1 .. k /\ j \in k + 2 .. n + 1
    <3>1. i \in 1 .. n /\ j - 1 \in 1 .. n /\ j - 1 \in k + 1 .. n /\ i < j - 1
      BY <2>2, <2>6
    <3> QED
      BY <1>6, <2>1, <2>6, <3>1
  <2>7. CASE i = k + 1 /\ j \in k + 2 .. n + 1
    <3>1. j - 1 \in k + 1 .. n
      BY <2>2, <2>7
    <3> QED
      BY <1>3, <1>6, <2>2, <2>3, <2>7, <3>1 DEF n
  <2>8. CASE i \in k + 2 .. n + 1 /\ j \in k + 2 .. n + 1
    <3>1. i - 1 \in 1 .. n /\ j - 1 \in 1 .. n /\ i - 1 < j - 1
      BY <2>2, <2>8
    <3> QED
      BY <1>6, <2>1, <2>8, <3>1
  <2>9. \/ i \in 1 .. k /\ (j \in 1 .. k \/ j = k + 1 \/ j \in k + 2 .. n + 1)
        \/ i = k + 1 /\ j \in k + 2 .. n + 1
        \/ i \in k + 2 .. n + 1 /\ j \in k + 2 .. n + 1
    BY <2>2
  <2> QED
    BY <2>4, <2>5, <2>6, <2>7, <2>8, <2>9
<1>14. \A i \in 1 .. n + 1 : \E d \in cases' :
          values'[i] = Extended(d) /\ labels'[i] = CaseLabelOf(d)
  <2> TAKE i \in 1 .. n + 1
  <2>1. \A a \in 1 .. n : \E d \in cases' :
           values[a] = Extended(d) /\ labels[a] = CaseLabelOf(d)
    BY <1>5 DEF SwitchInv, n
  <2>2. CASE i = k + 1
    BY <1>5, <1>6, <1>8, <2>2 DEF v
  <2>3. CASE i \in 1 .. k /\ i \in 1 .. n
    BY <1>6, <1>8, <2>1, <2>3
  <2>4. CASE i \in k + 2 .. n + 1 /\ i - 1 \in 1 .. n
    BY <1>6, <1>8, <2>1, <2>4
  <2> QED
    BY <1>12, <2>2, <2>3, <2>4
<1>15. \A d \in cases' : \E i \in 1 .. n + 1 :
          values'[i] = Extended(d) /\ labels'[i] = CaseLabelOf(d)
  <2> TAKE d \in cases'
  <2>1. CASE d = c
    <3>1. k + 1 \in 1 .. n + 1
      BY <1>2, <1>3 DEF n
    <3>2. values'[k + 1] = Extended(d) /\ labels'[k + 1] = CaseLabelOf(d)
      BY <1>6, <1>8, <2>1 DEF v
    <3> QED
      BY <3>1, <3>2
  <2>2. CASE d \in cases
    <3>1. PICK i \in 1 .. n : values[i] = Extended(d) /\ labels[i] = CaseLabelOf(d)
      BY <2>2 DEF SwitchInv, n
    <3>2. \/ i \in 1 .. k /\ i \in 1 .. n + 1
          \/ i + 1 \in k + 2 .. n + 1 /\ i + 1 \in 1 .. n + 1 /\ (i + 1) - 1 = i
      BY <1>2, <1>3 DEF n
    <3>3. CASE i \in 1 .. k /\ i \in 1 .. n + 1
      BY <1>6, <1>8, <3>1, <3>3
    <3>4. CASE /\ i + 1 \in k + 2 .. n + 1 /\ i + 1 \in 1 .. n + 1
               /\ (i + 1) - 1 = i
      <4>1. values'[i + 1] = values[i] /\ labels'[i + 1] = labels[i]
        BY <1>6, <1>8, <3>4
      <4> QED
        BY <3>1, <3>4, <4>1
    <3> QED
      BY <3>2, <3>3, <3>4
  <2> QED
    BY <1>5, <2>1, <2>2
<1>16. dups' = 0 => \A i, j \in 1 .. n + 1 : i < j => values'[i] < values'[j]
  <2> SUFFICES ASSUME dups' = 0, NEW i \in 1 .. n + 1, NEW j \in 1 .. n + 1, i < j
               PROVE  values'[i] < values'[j]
    OBVIOUS
  <2>1. dups = 0 /\ ~ IsDuplicate(values, v)
    BY <1>5, <1>9
  <2>2. \A a, b \in 1 .. n : a < b => values[a] < values[b]
    BY <2>1 DEF SwitchInv, n
  <2>3. \A a \in 1 .. n : values[a] # v
    BY <1>4, <2>1 DEF n
  <2>4. n \in Nat /\ k \in 0 .. n /\ v \in Int
    BY <1>1, <1>2, <1>3 DEF n
  <2>5. /\ \A a \in 1 .. n : values[a] \in Int
        /\ \A a \in k + 1 .. n : values[a] > v
    BY <1>2, <1>3, <2>3, <2>4, SMTT(40) DEF n
  <2>6. CASE i \in 1 .. k /\ j \in 1 .. k
    BY <1>6, <2>2, <2>4, <2>6
  <2>7. CASE i \in 1 .. k /\ j = k + 1
    BY <1>3, <1>6, <2>7
  <2>8. CASE i \in 1 .. k /\ j \in k + 2 .. n + 1
    <3>1. i \in 1 .. n /\ j - 1 \in 1 .. n /\ i < j - 1
      BY <2>4, <2>8
    <3> QED
      BY <1>6, <2>2, <2>8, <3>1
  <2>9. CASE i = k + 1 /\ j \in k + 2 .. n + 1
    <3>1. j - 1 \in k + 1 .. n /\ j - 1 \in 1 .. n
      BY <2>4, <2>9
    <3> QED
      BY <1>6, <2>4, <2>5, <2>9, <3>1
  <2>10. CASE i \in k + 2 .. n + 1 /\ j \in k + 2 .. n + 1
    <3>1. i - 1 \in 1 .. n /\ j - 1 \in 1 .. n /\ i - 1 < j - 1
      BY <2>4, <2>10
    <3> QED
      BY <1>6, <2>2, <2>10, <3>1
  <2> QED
    BY <2>4, <2>6, <2>7, <2>8, <2>9, <2>10
<1> QED
  BY <1>6, <1>8, <1>9, <1>11, <1>13, <1>14, <1>15, <1>16 DEF SwitchInv

LEMMA NextKeepsSwitchInv == SwitchInv /\ [Next]_vars => SwitchInv'
<1> SUFFICES ASSUME SwitchInv, [Next]_vars PROVE SwitchInv'
  OBVIOUS
<1>1. ASSUME NEW c \in Constants, CaseLabel(c) PROVE SwitchInv'
  BY <1>1, CaseLabelKeeps
<1>2. CASE UNCHANGED <<values, labels, dups, cases, repeated>>
  BY <1>2 DEF SwitchInv, Sorted
<1>3. CASE DefaultLabel
  BY <1>2, <1>3 DEF DefaultLabel
<1>4. CASE EndOfBody
  BY <1>2, <1>4 DEF EndOfBody
<1>5. CASE Bucket
  BY <1>2, <1>5 DEF Bucket
<1>6. CASE StartSearch
  BY <1>2, <1>6 DEF StartSearch
<1>7. CASE SwCode
  BY <1>2, <1>7 DEF SwCode
<1>8. CASE EndOfSearch
  BY <1>2, <1>8 DEF EndOfSearch
<1>9. CASE UNCHANGED vars
  BY <1>2, <1>9 DEF vars
<1> QED
  BY <1>1, <1>3, <1>4, <1>5, <1>6, <1>7, <1>8, <1>9 DEF Next, Terminating

LEMMA SwitchInvAlways == Spec => []SwitchInv
  BY InitSwitchInv, NextKeepsSwitchInv, PTL DEF Spec

-----------------------------------------------------------------------------
(* Theorems *)

\* caselabel reports a duplicate for exactly those labels whose value an
\* earlier case has, whatever the constants and however many cases there are.
THEOREM DuplicatesReportedHolds == Spec => []DuplicatesReported
<1>1. SwitchInv => DuplicatesReported
  BY DEF SwitchInv, DuplicatesReported
<1> QED
  BY <1>1, SwitchInvAlways, PTL

\* values[] and labels[] stay paired, sorted, and without a report strictly
\* increasing, which is what swgen and swcode rely on.
THEOREM CasesInOrderHolds == Spec => []CasesInOrder
<1>1. SwitchInv => CasesInOrder
  <2> SUFFICES ASSUME SwitchInv PROVE CasesInOrder
    OBVIOUS
  <2>1. DOMAIN values = 1 .. Len(values)
    BY DEF SwitchInv
  <2> QED
    BY <2>1 DEF SwitchInv, CasesInOrder
<1> QED
  BY <1>1, SwitchInvAlways, PTL

-----------------------------------------------------------------------------
(* swgen: the buckets *)

\* The last case of bucket k, when b has the first ones and n cases were taken.
Ends(b, k, n) == IF k = Len(b) THEN n ELSE b[k + 1] - 1

\* b divides the first n cases into runs, each of one case or dense.
Divides(b, n) ==
    /\ b \in Seq(Nat)
    /\ n = 0 <=> Len(b) = 0
    /\ n > 0 => b[1] = 1
    /\ \A k \in 1 .. Len(b) :
          /\ 1 <= b[k] /\ b[k] <= Ends(b, k, n) /\ Ends(b, k, n) <= n
          /\ b[k] = Ends(b, k, n) \/ Dense(values, b[k], Ends(b, k, n))

\* The inner loop of swgen stops: m is the first bucket with which all from it on are dense.
LEMMA MergeStops ==
    ASSUME NEW open, NEW n \in Nat \ {0}, NEW k
    PROVE  \E m \in 1 .. n :
              /\ \A j \in m .. n - 1 : Dense(values, open[j], k)
              /\ m > 1 => ~ Dense(values, open[m-1], k)
<1> DEFINE I == {m \in 1 .. n : \A j \in m .. n - 1 : Dense(values, open[j], k)}
<1>1. I \subseteq Nat /\ n \in I
  OBVIOUS
<1>2. PICK m \in I : \A j \in I : m <= j
  <2> HIDE DEF I
  <2> QED
    BY <1>1, LeastNumber
<1>3. ASSUME m > 1, Dense(values, open[m-1], k) PROVE FALSE
  <2>1. m - 1 \in 1 .. n /\ \A j \in (m - 1) .. n - 1 : j = m - 1 \/ j \in m .. n - 1
    BY <1>3
  <2>2. m - 1 \in I
    BY <1>3, <2>1
  <2> QED
    BY <1>2, <2>2
<1> QED
  BY <1>2, <1>3

\* One more case, merged with the buckets before it.
LEMMA MergedDivides ==
    ASSUME NEW b, NEW n \in Nat, Divides(b, n)
    PROVE  Divides(Merged(b, values, n + 1), n + 1)
<1> DEFINE open == Append(b, n + 1)
           Stops(m) == /\ \A j \in m .. Len(open) - 1 : Dense(values, open[j], n + 1)
                       /\ m > 1 => ~ Dense(values, open[m-1], n + 1)
           m == CHOOSE m \in 1 .. Len(open) : Stops(m)
           r == SubSeq(open, 1, m)
<1>1. b \in Seq(Nat) /\ Len(b) \in Nat
  BY LenProperties DEF Divides
<1>2. /\ open \in Seq(Nat) /\ Len(open) = Len(b) + 1 /\ open[Len(b) + 1] = n + 1
      /\ \A i \in 1 .. Len(b) : open[i] = b[i]
  BY <1>1, AppendProperties
<1>3. Merged(b, values, n + 1) = r
  BY DEF Merged
<1> HIDE DEF open
<1>4. m \in 1 .. Len(open) /\ Stops(m)
  <2>1. Len(open) \in Nat \ {0}
    BY <1>1, <1>2
  <2>2. \E i \in 1 .. Len(open) : Stops(i)
    BY <2>1, MergeStops, Zenon
  <2> QED
    BY <2>2
<1> HIDE DEF m, Stops
<1>5. /\ r \in Seq(Nat) /\ Len(r) = m
      /\ \A i \in 1 .. m : r[i] = open[i]
  BY <1>1, <1>2, <1>4, Prefix
<1> HIDE DEF r
<1>6. r[1] = 1
  <2>1. CASE n = 0
    BY <1>1, <1>2, <1>4, <1>5, <2>1 DEF Divides
  <2>2. CASE n > 0
    <3>1. Len(b) > 0 /\ b[1] = 1
      BY <1>1, <2>2 DEF Divides
    <3> QED
      BY <1>1, <1>2, <1>4, <1>5, <3>1
  <2> QED
    BY <2>1, <2>2
<1>7. ASSUME NEW k \in 1 .. m
      PROVE  /\ 1 <= r[k] /\ r[k] <= Ends(r, k, n + 1) /\ Ends(r, k, n + 1) <= n + 1
             /\ r[k] = Ends(r, k, n + 1) \/ Dense(values, r[k], Ends(r, k, n + 1))
  <2>1. r[k] = open[k] /\ k \in 1 .. Len(b) + 1
    BY <1>2, <1>4, <1>5
  <2>2. CASE k = m /\ k = Len(b) + 1
    BY <1>2, <1>5, <2>1, <2>2 DEF Ends
  <2>3. CASE k = m /\ k # Len(b) + 1
    <3>1. k \in 1 .. Len(b) /\ k \in m .. Len(open) - 1
      BY <1>1, <1>2, <2>1, <2>3
    <3>2. Ends(r, k, n + 1) = n + 1 /\ r[k] = b[k]
      BY <1>2, <1>5, <2>1, <2>3, <3>1 DEF Ends
    <3>3. Dense(values, r[k], n + 1)
      BY <1>4, <2>1, <3>1 DEF Stops
    <3>4. 1 <= b[k] /\ b[k] <= n /\ b[k] \in Nat
      <4>1. 1 <= b[k] /\ b[k] <= Ends(b, k, n) /\ Ends(b, k, n) <= n /\ b[k] \in Nat
        BY <1>1, <3>1, ElementOfSeq DEF Divides
      <4>2. Ends(b, k, n) \in Int
        <5>1. k # Len(b) => b[k + 1] \in Nat
          BY <1>1, <3>1, ElementOfSeq
        <5> QED
          BY <5>1 DEF Ends
      <4> QED
        BY <4>1, <4>2
    <3> QED
      BY <3>2, <3>3, <3>4
  <2>4. CASE k # m
    <3>1. k \in 1 .. Len(b) /\ k + 1 \in 1 .. m /\ r[k] = b[k]
      BY <1>1, <1>2, <1>4, <2>1, <2>4, SMTT(40)
    <3>2. Ends(r, k, n + 1) = open[k + 1] - 1
      BY <1>5, <2>4, <3>1 DEF Ends
    <3>3. open[k + 1] - 1 = Ends(b, k, n)
      <4>1. CASE k = Len(b)
        BY <1>2, <4>1 DEF Ends
      <4>2. CASE k # Len(b)
        <5>1. k + 1 \in 1 .. Len(b)
          BY <1>1, <3>1, <4>2
        <5>2. open[k + 1] = b[k + 1]
          BY <1>2, <5>1
        <5> QED
          BY <4>2, <5>2 DEF Ends
      <4> QED
        BY <4>1, <4>2
    <3>4. /\ 1 <= b[k] /\ b[k] <= Ends(b, k, n) /\ Ends(b, k, n) <= n
          /\ b[k] = Ends(b, k, n) \/ Dense(values, b[k], Ends(b, k, n))
      BY <3>1 DEF Divides
    <3>5. Ends(b, k, n) \in Int
      BY <1>2, <3>1, <3>3, <1>4, ElementOfSeq
    <3> QED
      BY <3>1, <3>2, <3>3, <3>4, <3>5
  <2> QED
    BY <2>2, <2>3, <2>4
<1>8. n + 1 # 0 /\ m # 0 /\ n + 1 > 0
  BY <1>4
<1> QED
  BY <1>3, <1>5, <1>6, <1>7, <1>8 DEF Divides

-----------------------------------------------------------------------------
(* emitcode: the jump tables *)

Lab == {NoLabel, ExitLabel} \cup {CaseLabelOf(c) : c \in Int} \cup {SearchLabel(n) : n \in Nat}

\* What a table for the cases from l to u must have: the label of each case at the
\* distance of its value from the first, and the default's everywhere else.
TableOf(t, l, u) ==
    /\ t \in Seq(Lab)
    /\ Len(t) = values[u] - values[l] + 1
    /\ \A j \in l .. u : t[values[j] - values[l] + 1] = labels[j]
    /\ \A p \in 1 .. Len(t) :
          (\A j \in l .. u : values[j] - values[l] + 1 # p) => t[p] = deflab

\* The arrays as swcode finds them when no duplicate was reported.
Increasing ==
    /\ \A i \in 1 .. ncases : values[i] \in Int /\ labels[i] \in Lab
    /\ \A i, j \in 1 .. ncases : i < j => values[i] < values[j]
    /\ ncases \in Nat /\ deflab \in Lab

LEMMA EntriesFill ==
    ASSUME Increasing, NEW j \in 2 .. ncases
    PROVE  /\ Entries(j) \in Seq(Lab)
           /\ Len(Entries(j)) = values[j] - values[j - 1]
           /\ Entries(j)[values[j] - values[j - 1]] = labels[j]
           /\ \A p \in 1 .. values[j] - values[j - 1] - 1 : Entries(j)[p] = deflab
<1> DEFINE n == values[j] - values[j - 1] - 1
           gap == [g \in 1 .. n |-> deflab]
<1>1. /\ values[j] \in Int /\ values[j - 1] \in Int /\ values[j - 1] < values[j]
      /\ labels[j] \in Lab /\ deflab \in Lab
  <2>1. j \in 1 .. ncases /\ j - 1 \in 1 .. ncases /\ j - 1 < j
    BY DEF Increasing
  <2> QED
    BY <2>1 DEF Increasing
<1>2. n \in Nat /\ values[j] - values[j - 1] = n + 1
  BY <1>1
<1>3. Entries(j) = gap \o <<labels[j]>>
  BY DEF Entries
<1> HIDE DEF n
<1>4. gap \in Seq(Lab) /\ Len(gap) = n /\ \A p \in 1 .. n : gap[p] = deflab
  BY <1>1, <1>2, FunctionIsSeq
<1>5. <<labels[j]>> \in Seq(Lab) /\ Len(<<labels[j]>>) = 1 /\ <<labels[j]>>[1] = labels[j]
  BY <1>1
<1> HIDE DEF gap
<1>6. /\ gap \o <<labels[j]>> \in Seq(Lab) /\ Len(gap \o <<labels[j]>>) = n + 1
      /\ (gap \o <<labels[j]>>)[n + 1] = labels[j]
      /\ \A p \in 1 .. n : (gap \o <<labels[j]>>)[p] = deflab
  BY <1>2, <1>4, <1>5, ConcatProperties
<1>7. values[j] - values[j - 1] - 1 = n
  BY DEF n
<1> QED
  BY <1>2, <1>3, <1>6, <1>7

\* One case more in the table.
LEMMA TableGrows ==
    ASSUME Increasing, NEW l \in 1 .. ncases, NEW u \in l .. ncases - 1,
           NEW t, TableOf(t, l, u)
    PROVE  TableOf(t \o Entries(u + 1), l, u + 1)
<1> DEFINE e == Entries(u + 1)
           d == values[u + 1] - values[u]
           n == values[u] - values[l] + 1
<1>1. /\ ncases \in Nat /\ l \in Nat /\ u \in Nat /\ u + 1 \in 2 .. ncases /\ (u + 1) - 1 = u
      /\ \A j \in l .. u + 1 : j \in 1 .. ncases
      /\ l \in 1 .. ncases /\ u \in 1 .. ncases /\ u + 1 \in 1 .. ncases
  BY DEF Increasing
<1>2. /\ e \in Seq(Lab) /\ Len(e) = d /\ e[d] = labels[u + 1]
      /\ \A p \in 1 .. d - 1 : e[p] = deflab
  BY <1>1, EntriesFill
<1>3. /\ values[l] \in Int /\ values[u] \in Int /\ values[u + 1] \in Int
      /\ values[l] <= values[u] /\ values[u] < values[u + 1]
  BY <1>1 DEF Increasing
<1>4. d \in Nat \ {0} /\ n \in Nat \ {0} /\ n + d = values[u + 1] - values[l] + 1
  BY <1>3
<1>5. t \in Seq(Lab) /\ Len(t) = n
  BY DEF TableOf
<1>6. \A j \in l .. u : /\ values[j] - values[l] + 1 \in 1 .. n
                        /\ values[j] \in Int
  <2> TAKE j \in l .. u
  <2>1. j \in 1 .. ncases /\ (l = j \/ l < j) /\ (j = u \/ j < u)
    BY <1>1
  <2>2. values[l] <= values[j] /\ values[j] <= values[u] /\ values[j] \in Int
    BY <1>1, <1>3, <2>1 DEF Increasing
  <2> QED
    BY <1>3, <2>2
<1>7. \A j \in l .. u : t[values[j] - values[l] + 1] = labels[j]
  BY DEF TableOf
<1>8. \A p \in 1 .. n : (\A j \in l .. u : values[j] - values[l] + 1 # p) => t[p] = deflab
  BY <1>5 DEF TableOf
<1> HIDE DEF e, d, n
<1>9. /\ t \o e \in Seq(Lab) /\ Len(t \o e) = n + d
      /\ \A p \in 1 .. n : (t \o e)[p] = t[p]
      /\ \A p \in 1 .. d : (t \o e)[n + p] = e[p]
  <2>1. /\ t \o e \in Seq(Lab) /\ Len(t \o e) = n + d
        /\ \A i \in 1 .. n + d : (t \o e)[i] = IF i <= n THEN t[i] ELSE e[i - n]
    BY <1>2, <1>5, ConcatProperties
  <2>2. \A p \in 1 .. d : n + p \in 1 .. n + d /\ ~ (n + p <= n) /\ (n + p) - n = p
    BY <1>4
  <2>3. \A p \in 1 .. n : p \in 1 .. n + d /\ p <= n
    BY <1>4
  <2> QED
    BY <2>1, <2>2, <2>3
<1>10. \A j \in l .. u + 1 : (t \o e)[values[j] - values[l] + 1] = labels[j]
  <2> SUFFICES ASSUME NEW j \in l .. u + 1
               PROVE  (t \o e)[values[j] - values[l] + 1] = labels[j]
    OBVIOUS
  <2>1. CASE j = u + 1
    <3>1. (t \o e)[n + d] = e[d]
      BY <1>4, <1>9
    <3> QED
      BY <1>2, <1>4, <2>1, <3>1
  <2>2. CASE j # u + 1
    <3>1. j \in l .. u
      BY <1>1, <2>2
    <3> QED
      BY <1>6, <1>7, <1>9, <3>1
  <2> QED
    BY <2>1, <2>2
<1>11. ASSUME NEW p \in 1 .. n + d, \A j \in l .. u + 1 : values[j] - values[l] + 1 # p
       PROVE  (t \o e)[p] = deflab
  <2>1. CASE p \in 1 .. n
    <3>1. \A j \in l .. u : j \in l .. u + 1
      BY <1>1
    <3> QED
      BY <1>8, <1>9, <1>11, <2>1, <3>1
  <2>2. CASE p \notin 1 .. n
    <3>1. p # n + d
      BY <1>1, <1>4, <1>11
    <3>2. p - n \in 1 .. d - 1 /\ p - n \in 1 .. d /\ n + (p - n) = p
      BY <1>4, <2>2, <3>1
    <3> QED
      BY <1>2, <1>9, <3>2
  <2> QED
    BY <2>1, <2>2
<1>12. TableOf(t \o e, l, u + 1)
  BY <1>4, <1>9, <1>10, <1>11 DEF TableOf
<1> QED
  BY <1>12 DEF e

\* Table is what emitcode writes: Entries after Entries behind the first label.
LEMMA TableFilled ==
    ASSUME Increasing, NEW l \in 1 .. ncases
    PROVE  \A u \in l .. ncases : TableOf(Table(l, u), l, u)
<1> DEFINE rest(u) == [i \in 1 .. u - l |-> Entries(l + i)]
           Filled == {u \in l .. ncases : TableOf(Table(l, u), l, u) /\ FlattenSeq(rest(u)) \in Seq(Lab)}
<1>1. ncases \in Nat /\ l \in Nat /\ l \in l .. ncases /\ labels[l] \in Lab /\ values[l] \in Int
  BY DEF Increasing
<1>2. \A u : Table(l, u) = <<labels[l]>> \o FlattenSeq(rest(u))
  BY DEF Table
<1>3. \A u \in l .. ncases : rest(u) \in Seq(Seq(Lab)) /\ Len(rest(u)) = u - l
  <2> SUFFICES ASSUME NEW u \in l .. ncases PROVE rest(u) \in Seq(Seq(Lab)) /\ Len(rest(u)) = u - l
    OBVIOUS
  <2>1. u - l \in Nat /\ \A i \in 1 .. u - l : l + i \in 2 .. ncases
    BY <1>1
  <2>2. \A i \in 1 .. u - l : Entries(l + i) \in Seq(Lab)
    BY <2>1, EntriesFill
  <2>3. rest(u) \in [1 .. u - l -> Seq(Lab)]
    BY <2>2
  <2> HIDE DEF rest
  <2> QED
    BY <2>1, <2>3, FunctionIsSeq
<1>4. <<labels[l]>> \in Seq(Lab) /\ Len(<<labels[l]>>) = 1 /\ <<labels[l]>>[1] = labels[l]
  BY <1>1
<1>5. l \in Filled
  <2>1. rest(l) \in Seq(Seq(Lab)) /\ Len(rest(l)) = 0
    BY <1>1, <1>3
  <2>2. FlattenSeq(rest(l)) = << >>
    <3> HIDE DEF rest
    <3>1. rest(l) = << >>
      BY <2>1, EmptySeq
    <3> QED
      BY <2>1, <3>1 DEF FlattenSeq
  <2>3. Table(l, l) = <<labels[l]>>
    BY <1>2, <1>4, <2>2, ConcatEmptySeq
  <2>4. TableOf(<<labels[l]>>, l, l)
    <3>1. values[l] - values[l] + 1 = 1 /\ \A j \in l .. l : j = l
      BY <1>1
    <3> QED
      BY <1>1, <1>4, <3>1 DEF TableOf
  <2>5. << >> \in Seq(Lab)
    BY EmptySeq
  <2> QED
    BY <1>1, <2>2, <2>3, <2>4, <2>5
<1>6. \A u \in l .. (ncases - 1) : u \in Filled => u + 1 \in Filled
  <2> SUFFICES ASSUME NEW u \in l .. (ncases - 1), u \in Filled PROVE u + 1 \in Filled
    OBVIOUS
  <2>1. /\ u \in l .. ncases /\ u + 1 \in l .. ncases /\ u - l \in Nat /\ (u + 1) - l = (u - l) + 1
        /\ u + 1 \in 2 .. ncases /\ l + ((u - l) + 1) = u + 1
    BY <1>1
  <2>2. /\ rest(u) \in Seq(Seq(Lab)) /\ Len(rest(u)) = u - l
        /\ rest(u + 1) \in Seq(Seq(Lab)) /\ Len(rest(u + 1)) = (u - l) + 1
    BY <1>3, <2>1
  <2>3. Entries(u + 1) \in Seq(Lab)
    BY <2>1, EntriesFill
  <2>4. rest(u + 1) = Append(rest(u), Entries(u + 1))
    <3>1. \A i \in 1 .. (u - l) + 1 : rest(u + 1)[i] = Entries(l + i)
      BY <2>1
    <3>2. \A i \in 1 .. u - l : rest(u)[i] = Entries(l + i)
      OBVIOUS
    <3>3. rest(u + 1)[(u - l) + 1] = Entries(u + 1)
      <4>1. (u - l) + 1 \in 1 .. (u - l) + 1
        BY <2>1
      <4> QED
        BY <2>1, <3>1, <4>1
    <3> HIDE DEF rest
    <3>4. \A i \in 1 .. Len(rest(u)) : rest(u + 1)[i] = rest(u)[i]
      <4> TAKE i \in 1 .. Len(rest(u))
      <4>1. i \in 1 .. u - l /\ i \in 1 .. (u - l) + 1
        BY <2>1, <2>2
      <4> QED
        BY <3>1, <3>2, <4>1
    <3>5. rest(u + 1)[Len(rest(u)) + 1] = Entries(u + 1)
      BY <2>2, <3>3
    <3>6. Len(rest(u + 1)) = Len(rest(u)) + 1
      BY <2>2
    <3> QED
      <4> DEFINE s == rest(u)
                 t == rest(u + 1)
                 e == Entries(u + 1)
                 L == Seq(Lab)
      <4>1. /\ s \in Seq(L) /\ t \in Seq(L) /\ e \in L
            /\ Len(t) = Len(s) + 1 /\ t[Len(s) + 1] = e
            /\ \A i \in 1 .. Len(s) : t[i] = s[i]
        BY <2>2, <2>3, <3>4, <3>5, <3>6
      <4> HIDE DEF s, t, e, L
      <4>2. t = Append(s, e)
        BY <4>1, LastAppended
      <4> QED
        BY <4>2 DEF s, t, e
  <2>5. /\ FlattenSeq(rest(u)) \in Seq(Lab)
        /\ FlattenSeq(rest(u + 1)) = FlattenSeq(rest(u)) \o Entries(u + 1)
    <3> HIDE DEF rest
    <3> QED
      BY <2>2, <2>3, <2>4, Flatten
  <2> DEFINE flat == FlattenSeq(rest(u))
             first == <<labels[l]>>
  <2>6. Table(l, u) = first \o flat /\ Table(l, u + 1) = first \o (flat \o Entries(u + 1))
    BY <1>2, <2>5
  <2>7. first \in Seq(Lab) /\ flat \in Seq(Lab)
    BY <1>4, <2>5
  <2>8. flat \o Entries(u + 1) \in Seq(Lab) /\ FlattenSeq(rest(u + 1)) = flat \o Entries(u + 1)
    BY <2>3, <2>5, ConcatProperties
  <2> HIDE DEF first, flat
  <2>9. (first \o flat) \o Entries(u + 1) = first \o (flat \o Entries(u + 1))
    <3> DEFINE e == Entries(u + 1)
               L == Lab
    <3>1. first \in Seq(L) /\ flat \in Seq(L) /\ e \in Seq(L)
      BY <2>3, <2>7
    <3> HIDE DEF e, L
    <3>2. (first \o flat) \o e = first \o (flat \o e)
      BY <3>1, Associative, SMTT(40)
    <3> QED
      BY <3>2 DEF e
  <2>10. Table(l, u + 1) = Table(l, u) \o Entries(u + 1)
    BY <2>6, <2>9
  <2>11. TableOf(Table(l, u + 1), l, u + 1)
    BY <2>10, TableGrows
  <2> QED
    BY <2>1, <2>8, <2>11
<1>7. \A u \in l .. ncases : u \in Filled
  <2> HIDE DEF Filled
  <2> QED
    BY <1>1, <1>5, <1>6, UpTo, Zenon
<1> QED
  BY <1>7

\* As many entries lead to a case as there are cases in the table.
LEMMA TableShare ==
    ASSUME Increasing, NEW l \in 1 .. ncases, NEW u \in l .. ncases, NEW t, TableOf(t, l, u),
           deflab = ExitLabel, \A i \in 1 .. ncases : labels[i] # ExitLabel
    PROVE  Cardinality({p \in DOMAIN t : t[p] # ExitLabel}) = u - l + 1
<1> DEFINE T == {p \in DOMAIN t : t[p] # ExitLabel}
           f == [j \in l .. u |-> values[j] - values[l] + 1]
<1>1. /\ ncases \in Nat /\ l \in Nat /\ u \in Nat /\ l <= u
      /\ \A j \in l .. u : j \in 1 .. ncases
  BY DEF Increasing
<1>2. DOMAIN t = 1 .. Len(t) /\ Len(t) = values[u] - values[l] + 1
  BY LenProperties DEF TableOf
<1>3. ASSUME NEW j \in l .. u
      PROVE  values[j] - values[l] + 1 \in 1 .. Len(t)
  <2>1. j \in 1 .. ncases /\ l \in 1 .. ncases /\ u \in 1 .. ncases /\ (l = j \/ l < j) /\ (j = u \/ j < u)
    BY <1>1
  <2>2. /\ values[l] \in Int /\ values[j] \in Int /\ values[u] \in Int
        /\ values[l] <= values[j] /\ values[j] <= values[u]
    BY <2>1 DEF Increasing
  <2> QED
    BY <1>2, <2>2
<1>4. \A j \in l .. u : f[j] = values[j] - values[l] + 1 /\ f[j] \in T
  <2> TAKE j \in l .. u
  <2>1. t[values[j] - values[l] + 1] = labels[j] /\ labels[j] # ExitLabel
    BY <1>1 DEF TableOf
  <2> QED
    BY <1>2, <1>3, <2>1
<1>5. f \in [l .. u -> T]
  <2> HIDE DEF T
  <2> QED
    BY <1>4
<1>6. \A p \in T : \E j \in l .. u : f[j] = p
  BY <1>2, <1>4 DEF TableOf
<1>7. \A i, j \in l .. u : f[i] = f[j] => i = j
  <2> TAKE i, j \in l .. u
  <2>1. /\ i \in 1 .. ncases /\ j \in 1 .. ncases /\ l \in 1 .. ncases
        /\ i < j \/ j < i \/ i = j
    BY <1>1
  <2>2. /\ values[i] \in Int /\ values[j] \in Int /\ values[l] \in Int
        /\ i < j => values[i] < values[j]
        /\ j < i => values[j] < values[i]
    BY <2>1 DEF Increasing
  <2> QED
    BY <1>4, <2>1, <2>2
<1> HIDE DEF f, T
<1>8. ExistsBijection(l .. u, T)
  BY <1>5, <1>6, <1>7 DEF ExistsBijection, Bijection, Injection, Surjection, IsInjective
<1>9. IsFiniteSet(l .. u) /\ Cardinality(l .. u) = u - l + 1
  BY <1>1, FS_Interval
<1> QED
  BY <1>8, <1>9, FS_Bijection DEF T

-----------------------------------------------------------------------------
(* swcode: the instructions *)

\* The calls of swcode that can be made, each for some of the buckets.
Calls == {c \in [lb : 1 .. Len(buckets), ub : 1 .. Len(buckets), lab : Lab] : c.lb <= c.ub}

\* The instructions it may write; a jump table is that of a bucket of several cases.
Instructions ==
    [op : {"EQ", "LT", "GT"}, val : Int, to : Lab] \cup [op : {"BRANCH"}, to : Lab]
    \cup [op : {"LABEL"}, lab : Lab]
    \cup {[op |-> "JUMP", base |-> values[Lowest(k)], table |-> Table(Lowest(k), Highest(k))] :
             k \in {b \in 1 .. Len(buckets) : Lowest(b) < Highest(b)}}

\* What swgen and swcode rely on and leave, phase by phase.
SearchInv ==
    /\ phase \in {"body", "buckets", "code", "done"}
    /\ phase = "body" => buckets = << >> /\ next = 1 /\ deflab \in Lab
    /\ phase # "body" => deflab = ExitLabel
    /\ phase \in {"body", "buckets"} => code = << >> /\ pending = << >>
    /\ phase = "buckets" =>
          /\ ncases > 0 /\ next \in 1 .. ncases + 1
          /\ Divides(buckets, next - 1)
    /\ phase = "code" => Divides(buckets, ncases) /\ ncases > 0
    /\ phase \in {"code", "done"} => code \in Seq(Instructions) /\ pending \in Seq(Calls)
    /\ phase = "done" /\ ncases > 0 => Divides(buckets, ncases)
    /\ phase = "done" /\ ~ (ncases > 0) => buckets = << >>
    /\ genlabs \in Nat

\* What the two invariants say of the arrays when swcode runs.
LEMMA ArraysTyped ==
    ASSUME SwitchInv, deflab \in Lab
    PROVE  /\ ncases \in Nat
           /\ \A i \in 1 .. ncases : values[i] \in Int /\ labels[i] \in Lab /\ labels[i] # ExitLabel
           /\ dups = 0 => Increasing
<1>1. ncases \in Nat /\ ncases = Len(values) /\ ncases = Len(labels)
  BY LenProperties DEF SwitchInv, ncases
<1>2. \A i \in 1 .. ncases : values[i] \in Int
  BY <1>1, ElementOfSeq DEF SwitchInv
<1>3. \A i \in 1 .. ncases : labels[i] \in Lab /\ labels[i] # ExitLabel
  <2> TAKE i \in 1 .. ncases
  <2>1. PICK c \in cases : labels[i] = CaseLabelOf(c)
    BY <1>1 DEF SwitchInv
  <2>2. c \in Int
    BY DEF SwitchInv
  <2>3. CaseLabelOf(c) \in Lab
    BY <2>2 DEF Lab
  <2>4. CaseLabelOf(c) # ExitLabel
    BY DEF CaseLabelOf, ExitLabel
  <2> QED
    BY <2>1, <2>3, <2>4
<1>4. dups = 0 => \A i, j \in 1 .. ncases : i < j => values[i] < values[j]
  BY <1>1 DEF SwitchInv
<1> QED
  BY <1>1, <1>2, <1>3, <1>4 DEF Increasing

\* A bucket is a run of cases.
LEMMA BucketBounds ==
    ASSUME SwitchInv, Divides(buckets, ncases), ncases > 0, NEW k \in 1 .. Len(buckets)
    PROVE  /\ Len(buckets) \in Nat \ {0}
           /\ Lowest(k) \in 1 .. ncases /\ Highest(k) \in Lowest(k) .. ncases
           /\ Lowest(k) = Highest(k) \/ Dense(values, Lowest(k), Highest(k))
<1>1. buckets \in Seq(Nat) /\ Len(buckets) \in Nat /\ ncases \in Nat
  BY LenProperties DEF Divides, SwitchInv, ncases
<1>2. Lowest(k) = buckets[k] /\ Highest(k) = Ends(buckets, k, ncases)
  BY DEF Lowest, Highest, Ends
<1>3. Lowest(k) \in Nat /\ Highest(k) \in Int
  <2>1. buckets[k] \in Nat /\ (k # Len(buckets) => buckets[k + 1] \in Nat)
    BY <1>1, ElementOfSeq
  <2> QED
    BY <1>1, <2>1 DEF Lowest, Highest
<1>4. /\ 1 <= Lowest(k) /\ Lowest(k) <= Highest(k) /\ Highest(k) <= ncases
      /\ Lowest(k) = Highest(k) \/ Dense(values, Lowest(k), Highest(k))
  BY <1>2 DEF Divides
<1> QED
  BY <1>1, <1>3, <1>4

LEMMA SearchLabels ==
    /\ \A n \in Nat : SearchLabel(n) \in Lab
    /\ NoLabel \in Lab /\ ExitLabel \in Lab
BY DEF Lab

LEMMA TestWritten ==
    ASSUME NEW op \in {"EQ", "LT", "GT"}, NEW i, values[i] \in Int, NEW to \in Lab
    PROVE  Test(op, i, to) \in Instructions
<1>1. Test(op, i, to) \in [op : {"EQ", "LT", "GT"}, val : Int, to : Lab]
  BY DEF Test
<1> QED
  BY <1>1 DEF Instructions

\* The middle bucket's code is of such instructions.
LEMMA BucketWritten ==
    ASSUME SwitchInv, Divides(buckets, ncases), ncases > 0, NEW k \in 1 .. Len(buckets),
           NEW lb, NEW ub, NEW lolab \in Lab, NEW hilab \in Lab, deflab \in Lab
    PROVE  BucketCode(lb, k, ub, lolab, hilab) \in Seq(Instructions)
<1> DEFINE I == Instructions
           l == Lowest(k)
           u == Highest(k)
<1>1. l \in 1 .. ncases /\ u \in l .. ncases
  BY BucketBounds
<1>2. \A i \in 1 .. ncases : values[i] \in Int /\ labels[i] \in Lab
  BY ArraysTyped
<1>3. ncases \in Nat
  BY ArraysTyped
<1>4. Test("LT", l, lolab) \in I /\ Test("GT", u, hilab) \in I
  BY <1>1, <1>2, <1>3, TestWritten
<1>5. CASE u - l + 1 <= 3
  <2> DEFINE n == u - l + 1
             each == [i \in 1 .. n |-> Test("EQ", l + i - 1, labels[l + i - 1])]
             last == IF k > lb THEN <<Test("GT", u, hilab)>>
                     ELSE IF k < ub THEN <<Test("LT", l, lolab)>>
                     ELSE <<[op |-> "BRANCH", to |-> lolab]>>
  <2>1. n \in Nat
    BY <1>1, <1>3
  <2>2. ASSUME NEW i \in 1 .. n PROVE Test("EQ", l + i - 1, labels[l + i - 1]) \in I
    <3>1. l + i - 1 \in 1 .. ncases
      BY <1>1, <1>3
    <3> QED
      BY <1>2, <3>1, TestWritten
  <2>3. each \in Seq(I)
    <3>1. each \in [1 .. n -> I]
      BY <2>2
    <3> HIDE DEF each, n, I
    <3> QED
      BY <2>1, <3>1, FunctionIsSeq
  <2>4. [op |-> "BRANCH", to |-> lolab] \in I
    BY DEF Instructions
  <2>5. last \in Seq(I)
    <3> HIDE DEF I, l, u
    <3> QED
      BY <1>4, <2>4
  <2>6. BucketCode(lb, k, ub, lolab, hilab) = each \o last
    BY <1>5 DEF BucketCode, Comparisons
  <2> HIDE DEF each, last, I
  <2>7. each \o last \in Seq(I)
    BY <2>3, <2>5, ConcatProperties
  <2> QED
    BY <2>6, <2>7 DEF I
<1>6. CASE ~ (u - l + 1 <= 3)
  <2> DEFINE jump == [op |-> "JUMP", base |-> values[l], table |-> Table(l, u)]
  <2>1. l < u
    BY <1>1, <1>3, <1>6
  <2>2. jump \in I
    BY <2>1 DEF Instructions
  <2>3. BucketCode(lb, k, ub, lolab, hilab) = <<Test("LT", l, lolab), Test("GT", u, hilab), jump>>
    BY <1>6 DEF BucketCode, JumpTable
  <2> HIDE DEF jump, I
  <2>4. <<Test("LT", l, lolab), Test("GT", u, hilab), jump>> \in Seq(I)
    BY <1>4, <2>2
  <2> QED
    BY <2>3, <2>4 DEF I
<1> QED
  BY <1>5, <1>6

\* What is written means the same as long as the arrays and buckets stay.
LEMMA SameArrays ==
    ASSUME UNCHANGED <<values, labels, deflab, buckets>>
    PROVE  /\ ncases' = ncases /\ Instructions' = Instructions /\ Calls' = Calls
           /\ UNCHANGED density => (Divides(buckets, ncases)' <=> Divides(buckets, ncases))
           /\ UNCHANGED <<density, next>> =>
                 (Divides(buckets, next - 1)' <=> Divides(buckets, next - 1))
<1>1. values' = values /\ labels' = labels /\ deflab' = deflab /\ buckets' = buckets
  OBVIOUS
<1>2. ncases' = ncases
  BY <1>1 DEF ncases
<1>3. \A k : Lowest(k)' = Lowest(k) /\ Highest(k)' = Highest(k)
  BY <1>1, <1>2 DEF Lowest, Highest
<1>4. \A j : Entries(j)' = Entries(j)
  BY <1>1 DEF Entries
<1>5. \A l, u : Table(l, u)' = Table(l, u)
  BY <1>1, <1>4 DEF Table
<1>6. Calls' = Calls
  BY <1>1 DEF Calls
<1>7. Instructions' = Instructions
  BY <1>1, <1>3, <1>5 DEF Instructions
<1>8. ASSUME UNCHANGED density PROVE Divides(buckets, ncases)' <=> Divides(buckets, ncases)
  BY <1>1, <1>2, <1>8 DEF Divides, Ends, Dense
<1>9. ASSUME UNCHANGED <<density, next>>
      PROVE  Divides(buckets, next - 1)' <=> Divides(buckets, next - 1)
  BY <1>1, <1>9 DEF Divides, Ends, Dense
<1> QED
  BY <1>2, <1>6, <1>7, <1>8, <1>9

\* One call of swcode writes instructions and leaves calls for some of its buckets.
LEMMA SwCodeWrites ==
    ASSUME SwitchInv, SearchInv, SwCode
    PROVE  code' \in Seq(Instructions) /\ pending' \in Seq(Calls) /\ genlabs' \in Nat
<1> DEFINE call == Head(pending)
           k == Middle(call.lb, call.ub)
           below == k > call.lb
           above == k < call.ub
           lolab == IF below THEN SearchLabel(genlabs + 1) ELSE deflab
           hilab == IF ~ above THEN deflab
                    ELSE SearchLabel(genlabs + (IF below THEN 2 ELSE 1))
           start == IF call.lab = NoLabel THEN << >>
                    ELSE <<[op |-> "LABEL", lab |-> call.lab]>>
           text == BucketCode(call.lb, k, call.ub, lolab, hilab)
           lower == IF below THEN <<[lb |-> call.lb, ub |-> k - 1, lab |-> lolab]>> ELSE << >>
           upper == IF above THEN <<[lb |-> k + 1, ub |-> call.ub, lab |-> hilab]>> ELSE << >>
           taken == Cardinality({b \in {1, 2} : (b = 1 /\ below) \/ (b = 2 /\ above)})
<1>1. /\ phase = "code" /\ pending # << >> /\ deflab = ExitLabel /\ ncases > 0
      /\ Divides(buckets, ncases) /\ code \in Seq(Instructions) /\ pending \in Seq(Calls)
      /\ genlabs \in Nat
  BY DEF SwCode, SearchInv
<1>2. /\ code' = code \o start \o text
      /\ genlabs' = genlabs + taken
      /\ pending' = lower \o upper \o Tail(pending)
  BY DEF SwCode
<1>3. call \in Calls /\ Tail(pending) \in Seq(Calls)
  BY <1>1, HeadTailProperties
<1>4. Len(buckets) \in Nat
  BY <1>1, LenProperties DEF Divides
<1>5. /\ call.lb \in 1 .. Len(buckets) /\ call.ub \in 1 .. Len(buckets) /\ call.lab \in Lab
      /\ call.lb <= call.ub
  BY <1>3 DEF Calls
<1>6. k \in call.lb .. call.ub /\ k \in 1 .. Len(buckets)
  BY <1>4, <1>5 DEF Middle
<1> HIDE DEF k
<1>7. lolab \in Lab /\ hilab \in Lab /\ deflab \in Lab
  <2>1. genlabs + 1 \in Nat /\ genlabs + 2 \in Nat
    BY <1>1
  <2> QED
    BY <1>1, <2>1, SearchLabels
<1>8. start \in Seq(Instructions)
  <2>1. [op |-> "LABEL", lab |-> call.lab] \in Instructions
    BY <1>5 DEF Instructions
  <2> DEFINE I == Instructions
  <2> HIDE DEF I
  <2> QED
    BY <2>1 DEF I
<1>9. text \in Seq(Instructions)
  <2> HIDE DEF lolab, hilab
  <2> QED
    BY <1>1, <1>6, <1>7, BucketWritten
<1>10. lower \in Seq(Calls)
  <2>1. below => [lb |-> call.lb, ub |-> k - 1, lab |-> lolab] \in Calls
    <3> HIDE DEF lolab
    <3> QED
      BY <1>4, <1>5, <1>6, <1>7 DEF Calls
  <2> DEFINE C == Calls
             c == [lb |-> call.lb, ub |-> k - 1, lab |-> lolab]
  <2>2. (below => c \in C) /\ lower = (IF below THEN <<c>> ELSE << >>)
    BY <2>1
  <2> HIDE DEF C, c
  <2> QED
    BY <2>2 DEF C
<1>11. upper \in Seq(Calls)
  <2>1. above => [lb |-> k + 1, ub |-> call.ub, lab |-> hilab] \in Calls
    <3> HIDE DEF hilab
    <3> QED
      BY <1>4, <1>5, <1>6, <1>7 DEF Calls
  <2> DEFINE C == Calls
             c == [lb |-> k + 1, ub |-> call.ub, lab |-> hilab]
  <2>2. (above => c \in C) /\ upper = (IF above THEN <<c>> ELSE << >>)
    BY <2>1
  <2> HIDE DEF C, c
  <2> QED
    BY <2>2 DEF C
<1>12. taken \in Nat
  <2>1. {b \in {1, 2} : (b = 1 /\ below) \/ (b = 2 /\ above)} \subseteq {1, 2}
    OBVIOUS
  <2>2. IsFiniteSet({1, 2})
    <3>1. IsFiniteSet({1}) /\ {1, 2} = {1} \cup {2}
      BY FS_Singleton
    <3> QED
      BY <3>1, FS_AddElement
  <2> QED
    BY <2>1, <2>2, FS_Subset, FS_CardinalityType
<1> HIDE DEF start, text, lower, upper, taken
<1>13. code' \in Seq(Instructions)
  <2> DEFINE I == Instructions
  <2>1. code \in Seq(I) /\ start \in Seq(I) /\ text \in Seq(I)
    BY <1>1, <1>8, <1>9
  <2> HIDE DEF I
  <2>2. code \o start \o text \in Seq(I)
    BY <2>1, ConcatProperties
  <2> QED
    BY <1>2, <2>2 DEF I
<1>14. pending' \in Seq(Calls)
  <2> DEFINE C == Calls
             rest == Tail(pending)
  <2>1. lower \in Seq(C) /\ upper \in Seq(C) /\ rest \in Seq(C)
    BY <1>3, <1>10, <1>11
  <2> HIDE DEF C, rest
  <2>2. lower \o upper \o rest \in Seq(C)
    BY <2>1, ConcatProperties
  <2> QED
    BY <1>2, <2>2 DEF C, rest
<1> QED
  BY <1>1, <1>2, <1>12, <1>13, <1>14

LEMMA SearchStep == SwitchInv /\ SearchInv /\ [Next]_vars => SearchInv'
<1> SUFFICES ASSUME SwitchInv, SearchInv, [Next]_vars PROVE SearchInv'
  OBVIOUS
<1>1. ncases \in Nat /\ values \in Seq(Int) /\ UNCHANGED density
  BY LenProperties DEF SwitchInv, ncases, Next, vars
<1>2. ASSUME NEW c \in Constants, CaseLabel(c) PROVE SearchInv'
  BY <1>2 DEF CaseLabel, SearchInv
<1>3. CASE DefaultLabel
  BY <1>3, SearchLabels DEF DefaultLabel, SearchInv
<1>4. CASE EndOfBody
  <2>1. /\ phase = "body" /\ deflab' = ExitLabel /\ buckets = << >> /\ next = 1
        /\ values' = values /\ buckets' = buckets /\ next' = next /\ pending' = pending
        /\ genlabs' = genlabs /\ genlabs \in Nat /\ pending = << >> /\ code = << >>
    BY <1>4 DEF EndOfBody, SearchInv
  <2>2. ncases' = ncases
    BY <2>1 DEF ncases
  <2>3. CASE ncases > 0
    <3>1. phase' = "buckets" /\ code' = code
      BY <1>4, <2>3 DEF EndOfBody
    <3>2. Divides(buckets, next - 1)'
      BY <2>1, EmptySeq DEF Divides
    <3> QED
      BY <1>1, <2>1, <2>2, <2>3, <3>1, <3>2 DEF SearchInv
  <2>4. CASE ~ (ncases > 0)
    <3>1. phase' = "done" /\ code' = <<[op |-> "BRANCH", to |-> ExitLabel]>>
      BY <1>4, <2>4 DEF EndOfBody
    <3>2. [op |-> "BRANCH", to |-> ExitLabel] \in Instructions'
      BY SearchLabels DEF Instructions
    <3>3. code' \in Seq(Instructions')
      <4> DEFINE I == Instructions'
      <4> HIDE DEF I
      <4> QED
        BY <3>1, <3>2 DEF I
    <3>4. pending' \in Seq(Calls')
      BY <2>1, EmptySeq
    <3> QED
      BY <2>1, <2>2, <2>4, <3>1, <3>3, <3>4 DEF SearchInv
  <2> QED
    BY <2>3, <2>4
<1>5. CASE Bucket
  <2>1. /\ phase = "buckets" /\ phase' = phase /\ next \in 1 .. ncases /\ next' = next + 1
        /\ buckets' = Merged(buckets, values, next) /\ Divides(buckets, next - 1)
        /\ ncases > 0 /\ deflab = ExitLabel /\ code = << >> /\ pending = << >>
        /\ values' = values /\ deflab' = deflab /\ code' = code /\ pending' = pending
        /\ genlabs' = genlabs /\ genlabs \in Nat
    BY <1>1, <1>5 DEF Bucket, SearchInv
  <2>2. next - 1 \in Nat /\ (next - 1) + 1 = next /\ next' - 1 = next
    BY <1>1, <2>1
  <2>3. Divides(Merged(buckets, values, next), next)
    BY <2>1, <2>2, MergedDivides
  <2>4. Divides(buckets, next - 1)'
    <3>1. Divides(buckets, next - 1)' <=> Divides(Merged(buckets, values, next), next)
      <4> DEFINE b == Merged(buckets, values, next)
      <4>1. buckets' = b /\ next' - 1 = next /\ values' = values /\ density' = density
        BY <1>1, <2>1, <2>2
      <4> HIDE DEF b
      <4>2. Divides(buckets, next - 1)' <=> Divides(b, next)
        BY <4>1 DEF Divides, Ends, Dense
      <4> QED
        BY <4>2 DEF b
    <3> QED
      BY <2>3, <3>1
  <2>5. ncases' = ncases /\ next' \in 1 .. ncases + 1
    BY <1>1, <2>1 DEF ncases
  <2> QED
    BY <2>1, <2>4, <2>5 DEF SearchInv
<1>6. CASE StartSearch
  <2>1. /\ phase = "buckets" /\ phase' = "code" /\ next \in 1 .. ncases + 1 /\ ~ (next <= ncases)
        /\ Divides(buckets, next - 1) /\ ncases > 0 /\ deflab = ExitLabel /\ code = << >>
        /\ pending' = <<[lb |-> 1, ub |-> Len(buckets), lab |-> NoLabel]>>
        /\ UNCHANGED <<values, labels, deflab, buckets, code, genlabs>> /\ genlabs \in Nat
    BY <1>1, <1>6 DEF StartSearch, SearchInv
  <2>2. next - 1 = ncases
    BY <1>1, <2>1
  <2>3. Divides(buckets, ncases)
    BY <2>1, <2>2
  <2>4. Len(buckets) \in Nat \ {0}
    BY <1>1, <2>1, <2>3, LenProperties DEF Divides
  <2>5. [lb |-> 1, ub |-> Len(buckets), lab |-> NoLabel] \in Calls
    BY <2>4, SearchLabels DEF Calls
  <2>6. pending' \in Seq(Calls)
    <3> DEFINE C == Calls
               c == [lb |-> 1, ub |-> Len(buckets), lab |-> NoLabel]
    <3>1. c \in C /\ pending' = <<c>>
      BY <2>1, <2>5
    <3> HIDE DEF C, c
    <3> QED
      BY <3>1 DEF C
  <2>7. code' \in Seq(Instructions)
    BY <2>1, EmptySeq
  <2>8. /\ ncases' = ncases /\ Instructions' = Instructions /\ Calls' = Calls
        /\ Divides(buckets, ncases)'
    BY <1>1, <2>1, <2>3, SameArrays
  <2> QED
    BY <2>1, <2>6, <2>7, <2>8 DEF SearchInv
<1>7. CASE SwCode
  <2>1. code' \in Seq(Instructions) /\ pending' \in Seq(Calls) /\ genlabs' \in Nat
    BY <1>7, SwCodeWrites
  <2>2. /\ phase = "code" /\ phase' = phase /\ Divides(buckets, ncases) /\ ncases > 0
        /\ deflab = ExitLabel /\ UNCHANGED <<values, labels, deflab, buckets>>
    BY <1>7 DEF SwCode, SearchInv
  <2>3. /\ ncases' = ncases /\ Instructions' = Instructions /\ Calls' = Calls
        /\ Divides(buckets, ncases)'
    BY <1>1, <2>2, SameArrays
  <2> QED
    BY <2>1, <2>2, <2>3 DEF SearchInv
<1>8. CASE EndOfSearch \/ UNCHANGED vars
  <2>1. /\ UNCHANGED <<values, labels, deflab, buckets, next, code, pending, genlabs>>
        /\ phase' = phase \/ (phase = "code" /\ phase' = "done")
    BY <1>8 DEF EndOfSearch, vars
  <2>2. /\ ncases' = ncases /\ Instructions' = Instructions /\ Calls' = Calls
        /\ Divides(buckets, ncases)' <=> Divides(buckets, ncases)
        /\ Divides(buckets, next - 1)' <=> Divides(buckets, next - 1)
    BY <1>1, <2>1, SameArrays
  <2> QED
    BY <2>1, <2>2 DEF SearchInv
<1> QED
  BY <1>2, <1>3, <1>4, <1>5, <1>6, <1>7, <1>8 DEF Next, Terminating

\* How swgen divides the cases and what swcode may write, at every step.
THEOREM SearchInvariant == Spec => [](SwitchInv /\ SearchInv)
<1>1. Init => SearchInv
  BY SearchLabels DEF Init, SearchInv
<1> QED
  BY <1>1, SwitchInvAlways, SearchStep, PTL DEF Spec

\* The manual's promise (doc/lcc.1, -d), for every density, type and set of cases:
\* swgen makes no jump table that its cases fill less than that.
THEOREM TablesDenseHolds == Spec => []TablesDense
<1>1. SwitchInv /\ SearchInv => TablesDense
  <2> SUFFICES ASSUME SwitchInv, SearchInv, dups = 0,
                      NEW p \in DOMAIN code, code[p].op = "JUMP"
               PROVE  Cardinality({t \in DOMAIN code[p].table :
                                      code[p].table[t] # ExitLabel}) * density.den
                         >= density.num * Len(code[p].table)
    BY DEF TablesDense
  <2>1. phase \in {"code", "done"} /\ deflab = ExitLabel /\ code \in Seq(Instructions)
    <3>1. code # << >>
      BY EmptySeq
    <3> QED
      BY <3>1 DEF SearchInv
  <2>2. code[p] \in Instructions
    BY <2>1, LenProperties, ElementOfSeq
  <2>3. PICK k \in 1 .. Len(buckets) :
           Lowest(k) < Highest(k) /\ code[p].table = Table(Lowest(k), Highest(k))
    BY <2>2 DEF Instructions
  <2>4. ncases > 0 /\ Divides(buckets, ncases)
    <3>1. CASE ncases > 0
      BY <2>1, <3>1 DEF SearchInv
    <3>2. CASE ~ (ncases > 0)
      <4>1. buckets = << >>
        BY <2>1, <2>3, <3>2 DEF SearchInv
      <4> QED
        BY <4>1
    <3> QED
      BY <3>1, <3>2
  <2>5. /\ Lowest(k) \in 1 .. ncases /\ Highest(k) \in Lowest(k) .. ncases
        /\ Lowest(k) = Highest(k) \/ Dense(values, Lowest(k), Highest(k))
    BY <2>4, BucketBounds
  <2> DEFINE l == Lowest(k)
             u == Highest(k)
             t == Table(l, u)
  <2>6. /\ Increasing /\ ncases \in Nat
        /\ \A i \in 1 .. ncases : values[i] \in Int /\ labels[i] # ExitLabel
    BY <2>1, ArraysTyped, SearchLabels
  <2>7. l \in 1 .. ncases /\ u \in l .. ncases /\ l < u /\ Dense(values, l, u)
    BY <2>3, <2>5, <2>6
  <2>8. code[p].table = t
    BY <2>3
  <2> HIDE DEF l, u, t
  <2>9. TableOf(t, l, u)
    <3>1. TableOf(Table(l, u), l, u)
      BY <2>6, <2>7, TableFilled
    <3> QED
      BY <3>1 DEF t, l, u
  <2>10. Cardinality({q \in DOMAIN t : t[q] # ExitLabel}) = u - l + 1
    BY <2>1, <2>6, <2>7, <2>9, TableShare
  <2>11. Len(t) = values[u] - values[l] + 1
    BY <2>9 DEF TableOf
  <2>12. (u - l + 1) * density.den >= density.num * (values[u] - values[l] + 1)
    BY <2>7 DEF Dense
  <2> QED
    BY <2>8, <2>10, <2>11, <2>12
<1> QED
  BY <1>1, SearchInvariant, PTL

-----------------------------------------------------------------------------
(* Execution *)

\* f tells for each place in the code where the search for x ends from there.
Executes(f, x) == \A p \in 1 .. Len(code) + 1 : f[p] = ArrivesFrom(f, p, x)

\* From p it only depends on what is behind p.
LEMMA OnlyAhead ==
    ASSUME NEW x, NEW p \in Nat, Len(code) \in Nat, NEW f, NEW g,
           \A q \in p + 1 .. Len(code) + 1 : f[q] = g[q], p <= Len(code) + 1
    PROVE  ArrivesFrom(f, p, x) = ArrivesFrom(g, p, x)
<1>1. ASSUME NEW lab PROVE Goes(f, p, lab) = Goes(g, p, lab)
  <2> DEFINE ahead == {q \in p + 1 .. Len(code) : code[q] = [op |-> "LABEL", lab |-> lab]}
             q == CHOOSE q \in ahead : TRUE
  <2>1. CASE ahead = {}
    BY <2>1 DEF Goes
  <2>2. CASE ahead # {}
    <3>1. q \in p + 1 .. Len(code) + 1
      <4>1. q \in ahead
        BY <2>2
      <4> QED
        BY <4>1
    <3>2. f[q] = g[q]
      BY <3>1
    <3> HIDE DEF q
    <3>3. Goes(f, p, lab) = (IF ~ IsSearch(lab) THEN lab ELSE f[q])
      BY <2>2 DEF Goes, q
    <3>4. Goes(g, p, lab) = (IF ~ IsSearch(lab) THEN lab ELSE g[q])
      BY <2>2 DEF Goes, q
    <3> QED
      BY <3>2, <3>3, <3>4
  <2> QED
    BY <2>1, <2>2
<1>2. CASE p > Len(code)
  BY <1>2 DEF ArrivesFrom
<1>3. CASE ~ (p > Len(code))
  <2>1. f[p + 1] = g[p + 1]
    BY <1>3
  <2> QED
    BY <1>1, <1>3, <2>1 DEF ArrivesFrom
<1> QED
  BY <1>2, <1>3

LEMMA ExecutionExists ==
    ASSUME NEW x, Len(code) \in Nat
    PROVE  \E f : Executes(f, x) /\ Arrives(x) = f[1]
<1> DEFINE n == Len(code)
           D == 1 .. n + 1
           Good == {k \in 0 .. n : \E f : \A p \in (n + 1 - k) .. n + 1 :
                                             f[p] = ArrivesFrom(f, p, x)}
<1>1. 0 \in Good
  <2> DEFINE f == [p \in D |-> ExitLabel]
  <2>1. \A p \in (n + 1 - 0) .. n + 1 : p = n + 1 /\ p \in D /\ p > n
    OBVIOUS
  <2>2. \A p \in (n + 1 - 0) .. n + 1 : f[p] = ExitLabel
    BY <2>1
  <2>3. \A p \in (n + 1 - 0) .. n + 1 : ArrivesFrom(f, p, x) = ExitLabel
    BY <2>1 DEF ArrivesFrom
  <2> HIDE DEF f
  <2> QED
    BY <2>2, <2>3
<1>2. \A k \in 0 .. (n - 1) : k \in Good => k + 1 \in Good
  <2> SUFFICES ASSUME NEW k \in 0 .. (n - 1), k \in Good PROVE k + 1 \in Good
    OBVIOUS
  <2>1. PICK f : \A p \in (n + 1 - k) .. n + 1 : f[p] = ArrivesFrom(f, p, x)
    OBVIOUS
  <2> DEFINE m == n + 1 - (k + 1)
             a == ArrivesFrom(f, m, x)
             g == [p \in D |-> IF p = m THEN a ELSE f[p]]
  <2>2. /\ m \in Nat /\ m \in D /\ n + 1 - k = m + 1 /\ k + 1 \in 0 .. n /\ m <= n + 1
        /\ \A p \in m + 1 .. n + 1 : p \in D /\ p # m /\ p \in Nat /\ p <= n + 1
    OBVIOUS
  <2> HIDE DEF m, a
  <2>3. g[m] = a /\ \A p \in m + 1 .. n + 1 : g[p] = f[p]
    BY <2>2
  <2> HIDE DEF g
  <2>4. ArrivesFrom(f, m, x) = ArrivesFrom(g, m, x)
    BY <2>2, <2>3, OnlyAhead
  <2>5. ASSUME NEW p \in m + 1 .. n + 1 PROVE g[p] = ArrivesFrom(g, p, x)
    <3>1. \A q \in p + 1 .. n + 1 : q \in m + 1 .. n + 1
      BY <2>2
    <3>2. ArrivesFrom(f, p, x) = ArrivesFrom(g, p, x)
      BY <2>2, <2>3, <3>1, OnlyAhead
    <3>3. f[p] = ArrivesFrom(f, p, x)
      BY <2>1, <2>2
    <3> QED
      BY <2>3, <3>2, <3>3
  <2>6. \A p \in m .. n + 1 : g[p] = ArrivesFrom(g, p, x)
    <3>1. \A p \in m .. n + 1 : p = m \/ p \in m + 1 .. n + 1
      BY <2>2
    <3> QED
      BY <2>3, <2>4, <2>5, <3>1 DEF a
  <2> QED
    BY <2>2, <2>6 DEF m
<1>3. n \in Good
  <2>1. 0 \in Nat /\ n \in Nat /\ n \in 0 .. n
    OBVIOUS
  <2> HIDE DEF Good
  <2>2. \A k \in 0 .. n : k \in Good
    BY <1>1, <1>2, <2>1, UpTo, Zenon
  <2> QED
    BY <2>1, <2>2
<1>4. PICK f : \A p \in D : f[p] = ArrivesFrom(f, p, x)
  BY <1>3
<1> DEFINE h == [p \in D |-> f[p]]
<1>5. \A p \in D : h[p] = f[p] /\ p \in Nat /\ p <= n + 1
  OBVIOUS
<1>6. ASSUME NEW p \in D PROVE f[p] = ArrivesFrom(h, p, x)
  <2>1. \A q \in p + 1 .. n + 1 : q \in D
    OBVIOUS
  <2> HIDE DEF h
  <2>2. \A q \in p + 1 .. n + 1 : f[q] = h[q]
    BY <1>5, <2>1
  <2>3. ArrivesFrom(f, p, x) = ArrivesFrom(h, p, x)
    BY <1>5, <2>2, OnlyAhead
  <2> QED
    BY <1>4, <2>3
<1>7. h = [p \in D |-> ArrivesFrom(h, p, x)]
  BY <1>6
<1> DEFINE from == CHOOSE g : g = [p \in 1 .. Len(code) + 1 |-> ArrivesFrom(g, p, x)]
<1>8. from = [p \in 1 .. Len(code) + 1 |-> ArrivesFrom(from, p, x)]
  <2> HIDE DEF h
  <2> QED
    BY <1>7
<1>9. Arrives(x) = from[1]
  BY DEF Arrives
<1>10. Executes(from, x)
  <2> HIDE DEF from
  <2>1. \A p \in 1 .. Len(code) + 1 : from[p] = ArrivesFrom(from, p, x)
    BY <1>8
  <2> QED
    BY <2>1 DEF Executes
<1> QED
  BY <1>9, <1>10

-----------------------------------------------------------------------------
(* The code of a bucket *)

\* Instruction by instruction, t is the code of bucket k, the middle one of those
\* from lb to ub.
IsCodeOf(t, lb, k, ub, lo, hi) ==
    LET n == Highest(k) - Lowest(k) + 1
    IN  /\ n <= 3 =>
              /\ Len(t) = n + 1
              /\ \A i \in 1 .. n : t[i] = Test("EQ", Lowest(k) + i - 1, labels[Lowest(k) + i - 1])
              /\ k > lb => t[n + 1] = Test("GT", Highest(k), hi)
              /\ ~ (k > lb) /\ k < ub => t[n + 1] = Test("LT", Lowest(k), lo)
              /\ ~ (k > lb) /\ ~ (k < ub) => t[n + 1] = [op |-> "BRANCH", to |-> lo]
        /\ ~ (n <= 3) =>
              /\ Len(t) = 3
              /\ t[1] = Test("LT", Lowest(k), lo) /\ t[2] = Test("GT", Highest(k), hi)
              /\ t[3] = [op |-> "JUMP", base |-> values[Lowest(k)],
                         table |-> Table(Lowest(k), Highest(k))]

LEMMA BucketShape ==
    ASSUME NEW lb, NEW k, NEW ub, NEW lo, NEW hi,
           Lowest(k) \in Int, Highest(k) \in Int, Lowest(k) <= Highest(k)
    PROVE  IsCodeOf(BucketCode(lb, k, ub, lo, hi), lb, k, ub, lo, hi)
<1> DEFINE t == BucketCode(lb, k, ub, lo, hi)
           n == Highest(k) - Lowest(k) + 1
           each == [i \in 1 .. n |-> Test("EQ", Lowest(k) + i - 1, labels[Lowest(k) + i - 1])]
           end == IF k > lb THEN Test("GT", Highest(k), hi)
                  ELSE IF k < ub THEN Test("LT", Lowest(k), lo)
                  ELSE [op |-> "BRANCH", to |-> lo]
<1>1. n \in Nat
  OBVIOUS
<1>2. CASE n <= 3
  <2>1. t = each \o (IF k > lb THEN <<Test("GT", Highest(k), hi)>>
                     ELSE IF k < ub THEN <<Test("LT", Lowest(k), lo)>>
                     ELSE <<[op |-> "BRANCH", to |-> lo]>>)
    BY <1>2 DEF BucketCode, Comparisons
  <2>2. t = each \o <<end>>
    BY <2>1
  <2> DEFINE T == {each[i] : i \in 1 .. n} \cup {end}
  <2>3. each \in [1 .. n -> T] /\ end \in T
    OBVIOUS
  <2>4. \A i \in 1 .. n : each[i] = Test("EQ", Lowest(k) + i - 1, labels[Lowest(k) + i - 1])
    OBVIOUS
  <2> HIDE DEF each, n, t, T
  <2>5. each \in Seq(T) /\ Len(each) = n
    BY <1>1, <2>3, FunctionIsSeq
  <2> HIDE DEF end
  <2>6. <<end>> \in Seq(T) /\ Len(<<end>>) = 1 /\ <<end>>[1] = end
    BY <2>3
  <2>7. /\ Len(each \o <<end>>) = n + 1
        /\ \A i \in 1 .. n : (each \o <<end>>)[i] = each[i]
        /\ (each \o <<end>>)[n + 1] = end
    BY <1>1, <2>5, <2>6, ConcatProperties
  <2>8. /\ Len(t) = n + 1 /\ t[n + 1] = end
        /\ \A i \in 1 .. n : t[i] = Test("EQ", Lowest(k) + i - 1, labels[Lowest(k) + i - 1])
    BY <2>2, <2>4, <2>7
  <2> QED
    BY <1>2, <2>8 DEF n, t, end, IsCodeOf
<1>3. CASE ~ (n <= 3)
  <2>1. t = <<Test("LT", Lowest(k), lo), Test("GT", Highest(k), hi),
             [op |-> "JUMP", base |-> values[Lowest(k)],
              table |-> Table(Lowest(k), Highest(k))]>>
    BY <1>3 DEF BucketCode, JumpTable
  <2> QED
    BY <1>3, <2>1 DEF IsCodeOf
<1> QED
  BY <1>2, <1>3

\* What a call of swcode writes, when lo and hi are the labels for the buckets
\* below and above the middle one.
Text(c, lo, hi) ==
    (IF c.lab = NoLabel THEN << >> ELSE <<[op |-> "LABEL", lab |-> c.lab]>>)
    \o BucketCode(c.lb, Middle(c.lb, c.ub), c.ub, lo, hi)

\* The place of the first test: behind the label.
Behind(c) == IF c.lab = NoLabel THEN 0 ELSE 1

IsTextOf(t, b, k, c, lo, hi) ==
    /\ t \in Seq(Instructions) /\ b \in Seq(Instructions)
    /\ k \in c.lb .. c.ub /\ IsCodeOf(b, c.lb, k, c.ub, lo, hi)
    /\ Len(b) \in Nat \ {0} /\ Len(t) = Behind(c) + Len(b)
    /\ c.lab # NoLabel => t[1] = [op |-> "LABEL", lab |-> c.lab]
    /\ \A i \in 1 .. Len(b) : t[Behind(c) + i] = b[i] /\ b[i].op # "LABEL"

LEMMA TextShape ==
    ASSUME SwitchInv, Divides(buckets, ncases), ncases > 0, deflab \in Lab,
           NEW c \in Calls, NEW lo \in Lab, NEW hi \in Lab
    PROVE  \E b : IsTextOf(Text(c, lo, hi), b, Middle(c.lb, c.ub), c, lo, hi)
<1> DEFINE k == Middle(c.lb, c.ub)
           b == BucketCode(c.lb, k, c.ub, lo, hi)
           t == Text(c, lo, hi)
<1>1. /\ c.lb \in 1 .. Len(buckets) /\ c.ub \in 1 .. Len(buckets) /\ c.lab \in Lab
      /\ c.lb <= c.ub /\ Len(buckets) \in Nat
  BY LenProperties DEF Calls, Divides
<1>2. k \in c.lb .. c.ub /\ k \in 1 .. Len(buckets)
  BY <1>1 DEF Middle
<1> HIDE DEF k
<1>3. b \in Seq(Instructions)
  BY <1>2, BucketWritten
<1>4. /\ Lowest(k) \in Int /\ Highest(k) \in Int /\ Lowest(k) <= Highest(k)
  <2>1. ncases \in Nat
    BY ArraysTyped
  <2>2. Lowest(k) \in 1 .. ncases /\ Highest(k) \in Lowest(k) .. ncases
    BY <1>2, BucketBounds
  <2> QED
    BY <2>1, <2>2
<1> DEFINE n == Highest(k) - Lowest(k) + 1
<1>5. IsCodeOf(b, c.lb, k, c.ub, lo, hi)
  BY <1>4, BucketShape
<1> HIDE DEF b
<1>6. n \in Nat \ {0}
  BY <1>4
<1>7. Len(b) \in Nat \ {0} /\ \A i \in 1 .. Len(b) : b[i].op # "LABEL"
  <2>1. CASE n <= 3
    <3>1. \A i \in 1 .. Len(b) : i \in 1 .. n \/ i = n + 1
      BY <1>5, <1>6, <2>1 DEF IsCodeOf
    <3>2. \A i \in 1 .. n : b[i].op = "EQ"
      <4>1. \A op, i, to : Test(op, i, to).op = op
        BY DEF Test
      <4> QED
        BY <1>5, <2>1, <4>1 DEF IsCodeOf
    <3>3. b[n + 1].op \in {"GT", "LT", "BRANCH"}
      BY <1>5, <2>1 DEF Test, IsCodeOf
    <3>4. Len(b) = n + 1
      BY <1>5, <2>1 DEF IsCodeOf
    <3> QED
      BY <1>6, <3>1, <3>2, <3>3, <3>4
  <2>2. CASE ~ (n <= 3)
    <3>1. \A i \in 1 .. 3 : i = 1 \/ i = 2 \/ i = 3
      OBVIOUS
    <3>2. \A op, i, to : Test(op, i, to).op = op
      BY DEF Test
    <3>3. Len(b) = 3 /\ b[1].op = "LT" /\ b[2].op = "GT" /\ b[3].op = "JUMP"
      BY <1>5, <2>2, <3>2 DEF IsCodeOf
    <3> QED
      BY <3>1, <3>3
  <2> QED
    BY <2>1, <2>2
<1>8. /\ t \in Seq(Instructions) /\ Len(t) = Behind(c) + Len(b)
      /\ c.lab # NoLabel => t[1] = [op |-> "LABEL", lab |-> c.lab]
      /\ \A i \in 1 .. Len(b) : t[Behind(c) + i] = b[i]
  <2> DEFINE I == Instructions
             m == [op |-> "LABEL", lab |-> c.lab]
  <2>1. b \in Seq(I) /\ m \in I
    BY <1>1, <1>3 DEF Instructions
  <2>2. t = (IF c.lab = NoLabel THEN << >> ELSE <<m>>) \o b
    BY DEF Text, b, k
  <2> HIDE DEF I, m, t
  <2>3. CASE c.lab = NoLabel
    <3>1. t = b
      BY <2>1, <2>2, <2>3, ConcatEmptySeq
    <3> QED
      BY <1>7, <2>1, <2>3, <3>1 DEF Behind, I
  <2>4. CASE c.lab # NoLabel
    <3>1. t = <<m>> \o b
      BY <2>2, <2>4
    <3>2. <<m>> \in Seq(I) /\ Len(<<m>>) = 1 /\ <<m>>[1] = m
      BY <2>1
    <3>3. /\ t \in Seq(I) /\ Len(t) = 1 + Len(b)
          /\ \A i \in 1 .. 1 + Len(b) : t[i] = IF i <= 1 THEN <<m>>[i] ELSE b[i - 1]
      BY <2>1, <3>1, <3>2, ConcatProperties
    <3>4. \A i \in 1 .. Len(b) : 1 + i \in 1 .. 1 + Len(b) /\ ~ (1 + i <= 1) /\ (1 + i) - 1 = i
      BY <1>7
    <3>5. t[1] = m /\ \A i \in 1 .. Len(b) : t[1 + i] = b[i]
      BY <1>7, <3>2, <3>3, <3>4
    <3> QED
      BY <2>4, <3>3, <3>5 DEF Behind, I, m
  <2> QED
    BY <2>3, <2>4
<1> QED
  <2> HIDE DEF t
  <2>1. IsTextOf(t, b, k, c, lo, hi)
    BY <1>2, <1>3, <1>5, <1>7, <1>8 DEF IsTextOf
  <2> QED
    BY <2>1 DEF t, k

-----------------------------------------------------------------------------
(* The layout of the code *)

SearchLabelSet == {SearchLabel(n) : n \in Nat}

\* The instructions t stand in the code co from place p on.
Holds(co, p, t) ==
    /\ p + Len(t) <= Len(co) + 1
    /\ \A i \in 1 .. Len(t) : co[p + i - 1] = t[i]

\* S says which calls have written, and where.  Call c wrote at e, or is the
\* next to write, and then at e.
NextAt(co, pe, S, e, c) ==
    \/ [at |-> e, call |-> c] \in S
    \/ e = Len(co) + 1 /\ pe # << >> /\ pe[1] = c

\* Call c wrote at e or behind it, or is still to write.
LaterAt(co, pe, S, e, c) ==
    \/ \E s \in S : s.at >= e /\ s.call = c
    \/ \E i \in 1 .. Len(pe) : pe[i] = c

\* What the call s.call wrote at s.at, with the labels lo and hi.
Written(co, pe, S, s, lo, hi) ==
    LET c == s.call
        k == Middle(c.lb, c.ub)
        e == s.at + Len(Text(c, lo, hi))
    IN  /\ Holds(co, s.at, Text(c, lo, hi))
        /\ IF c.lb < k
           THEN /\ lo \in SearchLabelSet
                /\ NextAt(co, pe, S, e, [lb |-> c.lb, ub |-> k - 1, lab |-> lo])
           ELSE lo = ExitLabel
        /\ IF k < c.ub
           THEN /\ hi \in SearchLabelSet
                /\ LaterAt(co, pe, S, e, [lb |-> k + 1, ub |-> c.ub, lab |-> hi])
                /\ c.lb = k => NextAt(co, pe, S, e, [lb |-> k + 1, ub |-> c.ub, lab |-> hi])
           ELSE hi = ExitLabel

Layout(co, pe, S) ==
    /\ S \subseteq [at : Nat \ {0}, call : Calls]
    /\ NextAt(co, pe, S, 1, [lb |-> 1, ub |-> Len(buckets), lab |-> NoLabel])
    /\ \A s \in S : \E lo, hi \in Lab : Written(co, pe, S, s, lo, hi)

\* Every label is written once, and only by the call that has it.
LabelsOnce(co, pe, g) ==
    /\ \A p \in 1 .. Len(co) : co[p].op = "LABEL" => \E n \in 1 .. g : co[p].lab = SearchLabel(n)
    /\ \A i \in 1 .. Len(pe) : pe[i].lab # NoLabel => \E n \in 1 .. g : pe[i].lab = SearchLabel(n)
    /\ \A p, q \in 1 .. Len(co) :
          co[p].op = "LABEL" /\ co[q].op = "LABEL" /\ co[p].lab = co[q].lab => p = q
    /\ \A i, j \in 1 .. Len(pe) : pe[i].lab = pe[j].lab => i = j
    /\ \A p \in 1 .. Len(co), i \in 1 .. Len(pe) : co[p].op = "LABEL" => co[p].lab # pe[i].lab

\* What the code is when the search has been written.
Compiled ==
    /\ SwitchInv /\ dups = 0 /\ Increasing /\ deflab = ExitLabel
    /\ ncases > 0 /\ Divides(buckets, ncases)
    /\ code \in Seq(Instructions) /\ pending = << >>

-----------------------------------------------------------------------------
(* The search arrives *)

\* Value x must arrive at lab.
Selects(lab, x) ==
    /\ \A j \in 1 .. ncases : values[j] = x => lab = labels[j]
    /\ (\A j \in 1 .. ncases : values[j] # x) => lab = ExitLabel

\* No case outside the buckets from lb to ub has value x.
Among(lb, ub, x) ==
    \A j \in 1 .. ncases : values[j] = x => Lowest(lb) <= j /\ j <= Highest(ub)

LEMMA LabelKinds ==
    /\ \A n : IsSearch(SearchLabel(n))
    /\ \A c : ~ IsSearch(CaseLabelOf(c))
    /\ ~ IsSearch(ExitLabel) /\ \A n : SearchLabel(n) # NoLabel
    /\ \A m, n : SearchLabel(m) = SearchLabel(n) => m = n
<1>1. /\ \A n : IsSearch(SearchLabel(n))
      /\ \A c : ~ IsSearch(CaseLabelOf(c))
      /\ ~ IsSearch(ExitLabel)
  BY DEF IsSearch, SearchLabel, CaseLabelOf, ExitLabel
<1>2. \A n : SearchLabel(n) # NoLabel
  BY DEF SearchLabel, NoLabel
<1>3. \A m, n : SearchLabel(m) = SearchLabel(n) => m = n
  BY DEF SearchLabel
<1> QED
  BY <1>1, <1>2, <1>3

\* A jump to a label arrives where the call with that label wrote.
LEMMA JumpArrives ==
    ASSUME Compiled, NEW S, Layout(code, pending, S), LabelsOnce(code, pending, genlabs),
           NEW f, NEW r \in S, r.call.lab \in SearchLabelSet, NEW p \in Nat, p < r.at
    PROVE  Goes(f, p, r.call.lab) = f[r.at]
<1> DEFINE m == [op |-> "LABEL", lab |-> r.call.lab]
           ahead == {q \in p + 1 .. Len(code) : code[q] = m}
<1>1. r.at \in Nat \ {0} /\ r.call \in Calls
  BY DEF Layout
<1>2. PICK lo \in Lab, hi \in Lab : Written(code, pending, S, r, lo, hi)
  BY DEF Layout
<1> DEFINE t == Text(r.call, lo, hi)
<1>3. Holds(code, r.at, t)
  BY <1>2 DEF Written
<1>4. r.call.lab # NoLabel /\ IsSearch(r.call.lab)
  BY LabelKinds DEF SearchLabelSet
<1>5. Len(t) \in Nat \ {0} /\ t[1] = m
  <2>1. SwitchInv /\ Divides(buckets, ncases) /\ ncases > 0 /\ deflab \in Lab
    BY SearchLabels DEF Compiled
  <2>2. PICK b : IsTextOf(t, b, Middle(r.call.lb, r.call.ub), r.call, lo, hi)
    BY <1>1, <2>1, TextShape
  <2> HIDE DEF t
  <2> QED
    BY <1>4, <2>2 DEF IsTextOf, Behind
<1> HIDE DEF t
<1>6. Len(code) \in Nat
  BY LenProperties DEF Compiled
<1>7. r.at \in 1 .. Len(code) /\ r.at + 1 - 1 = r.at /\ 1 \in 1 .. Len(t)
  BY <1>1, <1>3, <1>5, <1>6 DEF Holds
<1>8. code[r.at] = m
  BY <1>3, <1>5, <1>7 DEF Holds
<1>9. ahead = {r.at}
  <2>1. r.at \in ahead
    BY <1>1, <1>7, <1>8
  <2>2. ASSUME NEW q \in ahead PROVE q = r.at
    <3>1. q \in 1 .. Len(code) /\ code[q] = m
      OBVIOUS
    <3> QED
      BY <1>7, <1>8, <3>1 DEF LabelsOnce
  <2> HIDE DEF ahead
  <2> QED
    BY <2>1, <2>2
<1>10. (CHOOSE q \in ahead : TRUE) = r.at /\ ahead # {}
  BY <1>9
<1> QED
  BY <1>4, <1>10 DEF Goes

\* A jump to the default label, or to that of a case, arrives there.
LEMMA LabelArrives ==
    ASSUME NEW f, NEW p
    PROVE  /\ Goes(f, p, ExitLabel) = ExitLabel
           /\ SwitchInv => \A j \in 1 .. ncases : Goes(f, p, labels[j]) = labels[j]
<1>1. Goes(f, p, ExitLabel) = ExitLabel
  BY LabelKinds DEF Goes
<1>2. ASSUME SwitchInv, NEW j \in 1 .. ncases PROVE Goes(f, p, labels[j]) = labels[j]
  <2>1. PICK c \in cases : labels[j] = CaseLabelOf(c)
    BY <1>2 DEF SwitchInv, ncases
  <2> QED
    BY <2>1, LabelKinds DEF Goes
<1> QED
  BY <1>1, <1>2

\* The buckets are in the order of their cases.
LEMMA BucketOrder ==
    ASSUME SwitchInv, Divides(buckets, ncases), ncases > 0
    PROVE  /\ \A k \in 1 .. Len(buckets) - 1 : Lowest(k + 1) = Highest(k) + 1
           /\ Lowest(1) = 1 /\ Highest(Len(buckets)) = ncases
<1>1. ncases \in Nat /\ buckets \in Seq(Nat) /\ Len(buckets) \in Nat /\ buckets[1] = 1
  BY LenProperties DEF Divides, SwitchInv, ncases
<1>2. ASSUME NEW k \in 1 .. Len(buckets) - 1 PROVE Lowest(k + 1) = Highest(k) + 1
  <2>1. k # Len(buckets) /\ k + 1 \in 1 .. Len(buckets)
    BY <1>1
  <2>2. buckets[k + 1] \in Nat
    BY <1>1, <2>1, ElementOfSeq
  <2> QED
    BY <2>1, <2>2 DEF Lowest, Highest
<1> QED
  BY <1>1, <1>2 DEF Lowest, Highest

\* Where a value can still be, after a test of the middle bucket k.
LEMMA Narrowed ==
    ASSUME Compiled, NEW x \in Int,
           NEW lb \in 1 .. Len(buckets), NEW ub \in 1 .. Len(buckets), NEW k \in lb .. ub,
           Among(lb, ub, x)
    PROVE  LET absent == \A j \in Lowest(k) .. Highest(k) : values[j] # x
           IN  /\ Lowest(k) \in 1 .. ncases /\ Highest(k) \in Lowest(k) .. ncases
               /\ x < values[Lowest(k)] =>
                     IF lb < k THEN Among(lb, k - 1, x) ELSE \A j \in 1 .. ncases : values[j] # x
               /\ x > values[Highest(k)] =>
                     IF k < ub THEN Among(k + 1, ub, x) ELSE \A j \in 1 .. ncases : values[j] # x
               /\ absent /\ x <= values[Highest(k)] /\ lb < k => Among(lb, k - 1, x)
               /\ absent /\ x >= values[Lowest(k)] /\ k < ub => Among(k + 1, ub, x)
               /\ absent /\ lb = k /\ k = ub => \A j \in 1 .. ncases : values[j] # x
               /\ absent /\ values[Lowest(k)] <= x /\ x <= values[Highest(k)] =>
                     \A j \in 1 .. ncases : values[j] # x
<1> DEFINE l == Lowest(k)
           u == Highest(k)
<1>1. /\ SwitchInv /\ Divides(buckets, ncases) /\ ncases > 0 /\ ncases \in Nat
      /\ Len(buckets) \in Nat /\ k \in 1 .. Len(buckets)
  BY LenProperties DEF Compiled, Divides, Increasing
<1>2. l \in 1 .. ncases /\ u \in l .. ncases /\ l \in Nat /\ u \in Nat
  BY <1>1, BucketBounds
<1>3. /\ lb < k => Highest(k - 1) = l - 1
      /\ k < ub => Lowest(k + 1) = u + 1
  <2>1. lb < k => k - 1 \in 1 .. Len(buckets) - 1 /\ (k - 1) + 1 = k
    BY <1>1
  <2>2. k < ub => k \in 1 .. Len(buckets) - 1
    BY <1>1
  <2>3. \A b \in 1 .. Len(buckets) - 1 : Lowest(b + 1) = Highest(b) + 1
    BY <1>1, BucketOrder
  <2>4. lb < k => Lowest(k) = Highest(k - 1) + 1
    BY <2>1, <2>3
  <2>5. lb < k => Highest(k - 1) \in Int
    <3>1. lb < k => k - 1 \in 1 .. Len(buckets)
      BY <1>1, <2>1
    <3>2. lb < k => Highest(k - 1) \in Lowest(k - 1) .. ncases /\ Lowest(k - 1) \in 1 .. ncases
      BY <1>1, <3>1, BucketBounds
    <3> QED
      BY <1>1, <3>2
  <2> QED
    BY <1>2, <2>2, <2>3, <2>4, <2>5
<1> HIDE DEF l, u
<1>4. \A i, j \in 1 .. ncases : i < j => values[i] < values[j]
  BY DEF Compiled, Increasing
<1>5. \A i \in 1 .. ncases : values[i] \in Int
  BY DEF Compiled, Increasing
<1>6. ASSUME NEW j \in 1 .. ncases, values[j] = x
      PROVE  /\ x < values[l] => j < l
             /\ x > values[u] => j > u
             /\ x <= values[u] => j <= u
             /\ x >= values[l] => j >= l
  <2>1. /\ l \in 1 .. ncases /\ u \in 1 .. ncases /\ j \in Nat
        /\ values[l] \in Int /\ values[u] \in Int
    BY <1>1, <1>2, <1>5
  <2>2. /\ j < l \/ j = l \/ l < j
        /\ j < u \/ j = u \/ u < j
    BY <1>2, <2>1
  <2> QED
    BY <1>2, <1>4, <1>6, <2>1, <2>2
<1>7. \A j \in 1 .. ncases : values[j] = x => Lowest(lb) <= j /\ j <= Highest(ub) /\ j \in Nat
  BY DEF Among
<1>8. lb = k => Lowest(lb) = l
  BY DEF l
<1>9. ub = k => Highest(ub) = u
  BY DEF u
<1> DEFINE absent == \A j \in l .. u : values[j] # x
<1>10. absent => \A j \in 1 .. ncases : values[j] = x => j < l \/ j > u
  BY <1>1, <1>2
<1> HIDE DEF absent
<1>11. lb = k \/ lb < k
  BY <1>1
<1>12. ub = k \/ k < ub
  BY <1>1
<1>13. x < values[l] =>
          IF lb < k THEN Among(lb, k - 1, x) ELSE \A j \in 1 .. ncases : values[j] # x
  <2>1. CASE lb < k
    BY <1>2, <1>3, <1>6, <1>7, <2>1 DEF Among
  <2>2. CASE ~ (lb < k)
    BY <1>2, <1>6, <1>7, <1>8, <1>11, <2>2
  <2> QED
    BY <2>1, <2>2
<1>14. x > values[u] =>
          IF k < ub THEN Among(k + 1, ub, x) ELSE \A j \in 1 .. ncases : values[j] # x
  <2>1. CASE k < ub
    BY <1>2, <1>3, <1>6, <1>7, <2>1 DEF Among
  <2>2. CASE ~ (k < ub)
    BY <1>2, <1>6, <1>7, <1>9, <1>12, <2>2
  <2> QED
    BY <2>1, <2>2
<1>15. absent /\ x <= values[u] /\ lb < k => Among(lb, k - 1, x)
  BY <1>2, <1>3, <1>6, <1>7, <1>10 DEF Among
<1>16. absent /\ x >= values[l] /\ k < ub => Among(k + 1, ub, x)
  BY <1>2, <1>3, <1>6, <1>7, <1>10 DEF Among
<1>17. absent /\ lb = k /\ k = ub => \A j \in 1 .. ncases : values[j] # x
  BY <1>2, <1>7, <1>8, <1>9, <1>10
<1>18. absent /\ values[l] <= x /\ x <= values[u] => \A j \in 1 .. ncases : values[j] # x
  BY <1>2, <1>6, <1>7, <1>10
<1> QED
  BY <1>2, <1>13, <1>14, <1>15, <1>16, <1>17, <1>18 DEF absent, l, u

\* What the execution does with an instruction.
LEMMA InstructionStep ==
    ASSUME NEW x \in Int, NEW f, Executes(f, x), Len(code) \in Nat, NEW p \in 1 .. Len(code)
    PROVE  /\ code[p].op = "LABEL" => f[p] = f[p + 1]
           /\ \A v, to : code[p] = [op |-> "EQ", val |-> v, to |-> to] =>
                 f[p] = IF x = v THEN Goes(f, p, to) ELSE f[p + 1]
           /\ \A v, to : code[p] = [op |-> "LT", val |-> v, to |-> to] =>
                 f[p] = IF x < v THEN Goes(f, p, to) ELSE f[p + 1]
           /\ \A v, to : code[p] = [op |-> "GT", val |-> v, to |-> to] =>
                 f[p] = IF x > v THEN Goes(f, p, to) ELSE f[p + 1]
           /\ \A to : code[p] = [op |-> "BRANCH", to |-> to] => f[p] = Goes(f, p, to)
           /\ \A v, t : code[p] = [op |-> "JUMP", base |-> v, table |-> t] =>
                 f[p] = IF x - v + 1 \in DOMAIN t THEN Goes(f, p, t[x - v + 1]) ELSE NoLabel
<1>1. f[p] = ArrivesFrom(f, p, x) /\ ~ (p > Len(code))
  BY DEF Executes
<1>2. code[p].op # "JUMP" => f[p] = IF Taken(code[p], x) THEN Goes(f, p, code[p].to) ELSE f[p + 1]
  BY <1>1 DEF ArrivesFrom
<1>3. code[p].op = "LABEL" => f[p] = f[p + 1]
  BY <1>2 DEF Taken
<1>4. ASSUME NEW op \in {"EQ", "LT", "GT"}, NEW v, NEW to, code[p] = [op |-> op, val |-> v, to |-> to]
      PROVE  f[p] = IF (op = "EQ" /\ x = v) \/ (op = "LT" /\ x < v) \/ (op = "GT" /\ x > v)
                    THEN Goes(f, p, to) ELSE f[p + 1]
  <2>1. code[p].op = op /\ code[p].val = v /\ code[p].to = to
    BY <1>4
  <2> QED
    BY <1>2, <2>1 DEF Taken
<1>5. ASSUME NEW to, code[p] = [op |-> "BRANCH", to |-> to] PROVE f[p] = Goes(f, p, to)
  <2>1. code[p].op = "BRANCH" /\ code[p].to = to
    BY <1>5
  <2> QED
    BY <1>2, <2>1 DEF Taken
<1>6. ASSUME NEW v, NEW t, code[p] = [op |-> "JUMP", base |-> v, table |-> t]
      PROVE  f[p] = IF x - v + 1 \in DOMAIN t THEN Goes(f, p, t[x - v + 1]) ELSE NoLabel
  <2>1. code[p].op = "JUMP" /\ code[p].base = v /\ code[p].table = t
    BY <1>6
  <2> QED
    BY <1>1, <2>1 DEF ArrivesFrom
<1> QED
  BY <1>3, <1>4, <1>5, <1>6

\* Each kind of instruction by itself.
LEMMA EqualStep ==
    ASSUME NEW x \in Int, NEW f, Executes(f, x), Len(code) \in Nat, NEW p \in 1 .. Len(code),
           NEW to, code[p] = [op |-> "EQ", val |-> x, to |-> to]
    PROVE  f[p] = Goes(f, p, to)
BY InstructionStep

LEMMA UnequalStep ==
    ASSUME NEW x \in Int, NEW f, Executes(f, x), Len(code) \in Nat, NEW p \in 1 .. Len(code),
           NEW v, NEW to, code[p] = [op |-> "EQ", val |-> v, to |-> to], x # v
    PROVE  f[p] = f[p + 1]
BY InstructionStep

LEMMA LessStep ==
    ASSUME NEW x \in Int, NEW f, Executes(f, x), Len(code) \in Nat, NEW p \in 1 .. Len(code),
           NEW v, NEW to, code[p] = [op |-> "LT", val |-> v, to |-> to]
    PROVE  (x < v => f[p] = Goes(f, p, to)) /\ (~ (x < v) => f[p] = f[p + 1])
BY InstructionStep

LEMMA GreaterStep ==
    ASSUME NEW x \in Int, NEW f, Executes(f, x), Len(code) \in Nat, NEW p \in 1 .. Len(code),
           NEW v, NEW to, code[p] = [op |-> "GT", val |-> v, to |-> to]
    PROVE  (x > v => f[p] = Goes(f, p, to)) /\ (~ (x > v) => f[p] = f[p + 1])
BY InstructionStep

LEMMA BranchStep ==
    ASSUME NEW x \in Int, NEW f, Executes(f, x), Len(code) \in Nat, NEW p \in 1 .. Len(code),
           NEW to, code[p] = [op |-> "BRANCH", to |-> to]
    PROVE  f[p] = Goes(f, p, to)
BY InstructionStep

LEMMA JumpStep ==
    ASSUME NEW x \in Int, NEW f, Executes(f, x), Len(code) \in Nat, NEW p \in 1 .. Len(code),
           NEW v, NEW t, code[p] = [op |-> "JUMP", base |-> v, table |-> t]
    PROVE  f[p] = IF x - v + 1 \in DOMAIN t THEN Goes(f, p, t[x - v + 1]) ELSE NoLabel
BY InstructionStep

\* Places that only pass on.
LEMMA PassesOn ==
    ASSUME NEW f, NEW b \in Nat, NEW m \in Nat,
           \A i \in 0 .. m - 1 : f[b + i] = f[b + (i + 1)]
    PROVE  f[b] = f[b + m]
<1> DEFINE Good == {i \in 0 .. m : f[b] = f[b + i]}
<1>1. 0 \in Good
  OBVIOUS
<1>2. \A i \in 0 .. (m - 1) : i \in Good => i + 1 \in Good
  OBVIOUS
<1>3. \A i \in 0 .. m : i \in Good
  <2> HIDE DEF Good
  <2>1. 0 \in Nat
    OBVIOUS
  <2> QED
    BY <1>1, <1>2, <2>1, UpTo, Zenon
<1>4. m \in 0 .. m
  OBVIOUS
<1> QED
  BY <1>3, <1>4

\* The jumps of a block, and its end, lead where a value that is not in the
\* middle bucket k must arrive, if the blocks behind it do.
LeadsOn(f, s, k, e, lo, hi, x) ==
    LET c == s.call
    IN  /\ \A p \in s.at .. e - 1 :
              /\ (IF c.lb < k THEN Among(c.lb, k - 1, x) ELSE \A j \in 1 .. ncases : values[j] # x)
                    => Selects(Goes(f, p, lo), x)
              /\ (IF k < c.ub THEN Among(k + 1, c.ub, x) ELSE \A j \in 1 .. ncases : values[j] # x)
                    => Selects(Goes(f, p, hi), x)
        /\ c.lb < k /\ Among(c.lb, k - 1, x) => Selects(f[e], x)
        /\ c.lb = k /\ k < c.ub /\ Among(k + 1, c.ub, x) => Selects(f[e], x)

LEMMA BlocksLeadOn ==
    ASSUME Compiled, NEW S, Layout(code, pending, S), LabelsOnce(code, pending, genlabs),
           NEW f, NEW x, NEW s \in S, NEW lo, NEW hi, Written(code, pending, S, s, lo, hi),
           \A r \in S : r.at > s.at /\ Among(r.call.lb, r.call.ub, x) => Selects(f[r.at], x),
           NEW k, k = Middle(s.call.lb, s.call.ub),
           NEW e, e = s.at + Len(Text(s.call, lo, hi)), e \in Nat, e > s.at
    PROVE  LeadsOn(f, s, k, e, lo, hi, x)
<1> DEFINE c == s.call
           lower == [lb |-> c.lb, ub |-> k - 1, lab |-> lo]
           upper == [lb |-> k + 1, ub |-> c.ub, lab |-> hi]
<1>1. s.at \in Nat \ {0} /\ \A r \in S : r.at \in Nat
  BY DEF Layout
<1>2. pending = << >> /\ 1 .. Len(pending) = {}
  <2>1. pending = << >>
    BY DEF Compiled
  <2> QED
    BY <2>1
<1>3. c.lb < k => lo \in SearchLabelSet /\ [at |-> e, call |-> lower] \in S
  BY <1>2 DEF Written, NextAt
<1>4. k < c.ub => hi \in SearchLabelSet /\ \E r \in S : r.at >= e /\ r.call = upper
  BY <1>2 DEF Written, LaterAt
<1>5. c.lb = k /\ k < c.ub => [at |-> e, call |-> upper] \in S
  BY <1>2 DEF Written, NextAt
<1>6. ~ (c.lb < k) => lo = ExitLabel
  BY DEF Written
<1>7. ~ (k < c.ub) => hi = ExitLabel
  BY DEF Written
<1>8. (\A j \in 1 .. ncases : values[j] # x) => Selects(ExitLabel, x)
  BY DEF Selects
<1> HIDE DEF c
<1>9. ASSUME c.lb < k, Among(c.lb, k - 1, x) PROVE Selects(f[e], x)
  <2> DEFINE r == [at |-> e, call |-> lower]
  <2>1. r \in S /\ r.at = e /\ r.at > s.at /\ r.call.lb = c.lb /\ r.call.ub = k - 1
    BY <1>3, <1>9
  <2> HIDE DEF r
  <2>2. Among(r.call.lb, r.call.ub, x)
    BY <1>9, <2>1
  <2> QED
    BY <2>1, <2>2
<1>10. ASSUME c.lb = k, k < c.ub, Among(k + 1, c.ub, x) PROVE Selects(f[e], x)
  <2> DEFINE r == [at |-> e, call |-> upper]
  <2>1. r \in S /\ r.at = e /\ r.at > s.at /\ r.call.lb = k + 1 /\ r.call.ub = c.ub
    BY <1>5, <1>10
  <2> HIDE DEF r
  <2>2. Among(r.call.lb, r.call.ub, x)
    BY <1>10, <2>1
  <2> QED
    BY <2>1, <2>2
<1>11. ASSUME NEW p \in s.at .. e - 1,
              IF c.lb < k THEN Among(c.lb, k - 1, x) ELSE \A j \in 1 .. ncases : values[j] # x
       PROVE  Selects(Goes(f, p, lo), x)
  <2>1. CASE c.lb < k
    <3> DEFINE r == [at |-> e, call |-> lower]
    <3>1. r \in S /\ r.call.lab = lo /\ lo \in SearchLabelSet /\ r.at = e
      BY <1>3, <2>1
    <3>2. p \in Nat /\ p < e
      BY <1>1
    <3> HIDE DEF r
    <3>3. Goes(f, p, r.call.lab) = f[r.at]
      BY <3>1, <3>2, JumpArrives
    <3> QED
      BY <1>9, <1>11, <2>1, <3>1, <3>3
  <2>2. CASE ~ (c.lb < k)
    <3>1. Goes(f, p, lo) = ExitLabel
      BY <1>6, <2>2, LabelArrives
    <3> QED
      BY <1>8, <1>11, <2>2, <3>1
  <2> QED
    BY <2>1, <2>2
<1>12. ASSUME NEW p \in s.at .. e - 1,
              IF k < c.ub THEN Among(k + 1, c.ub, x) ELSE \A j \in 1 .. ncases : values[j] # x
       PROVE  Selects(Goes(f, p, hi), x)
  <2>1. CASE k < c.ub
    <3>1. PICK r \in S : r.at >= e /\ r.call = upper
      BY <1>4, <2>1
    <3>2. r.call.lab = hi /\ r.call.lb = k + 1 /\ r.call.ub = c.ub /\ hi \in SearchLabelSet
      BY <1>4, <2>1, <3>1
    <3>3. p \in Nat /\ p < r.at /\ r.at > s.at
      BY <1>1, <3>1
    <3>4. Goes(f, p, r.call.lab) = f[r.at]
      BY <3>2, <3>3, JumpArrives
    <3>5. Among(r.call.lb, r.call.ub, x)
      BY <1>12, <2>1, <3>2
    <3>6. Selects(f[r.at], x)
      BY <3>3, <3>5
    <3> QED
      BY <3>2, <3>4, <3>6
  <2>2. CASE ~ (k < c.ub)
    <3>1. Goes(f, p, hi) = ExitLabel
      BY <1>7, <2>2, LabelArrives
    <3> QED
      BY <1>8, <1>12, <2>2, <3>1
  <2> QED
    BY <2>1, <2>2
<1> QED
  BY <1>9, <1>10, <1>11, <1>12 DEF LeadsOn, c

\* The code of the middle bucket itself, from place a on.
LEMMA BucketSelects ==
    ASSUME Compiled, NEW x \in Int, NEW f, Executes(f, x), NEW s, NEW k, NEW e, NEW lo, NEW hi,
           LeadsOn(f, s, k, e, lo, hi, x),
           s.call.lb \in 1 .. Len(buckets), s.call.ub \in 1 .. Len(buckets),
           k \in s.call.lb .. s.call.ub, Among(s.call.lb, s.call.ub, x),
           s.at \in Nat \ {0},
           NEW b, IsCodeOf(b, s.call.lb, k, s.call.ub, lo, hi), Len(b) \in Nat,
           NEW a \in Nat, s.at <= a, e = a + Len(b), Holds(code, a, b)
    PROVE  Selects(f[a], x)
<1> DEFINE c == s.call
           l == Lowest(k)
           u == Highest(k)
           absent == \A j \in l .. u : values[j] # x
           n == u - l + 1
           nowhere == \A j \in 1 .. ncases : values[j] # x
<1>1. /\ l \in 1 .. ncases /\ u \in l .. ncases
      /\ x < values[l] => IF c.lb < k THEN Among(c.lb, k - 1, x) ELSE nowhere
      /\ x > values[u] => IF k < c.ub THEN Among(k + 1, c.ub, x) ELSE nowhere
      /\ absent /\ x <= values[u] /\ c.lb < k => Among(c.lb, k - 1, x)
      /\ absent /\ x >= values[l] /\ k < c.ub => Among(k + 1, c.ub, x)
      /\ absent /\ c.lb = k /\ k = c.ub => nowhere
      /\ absent /\ values[l] <= x /\ x <= values[u] => nowhere
  <2> DEFINE lb == c.lb
             ub == c.ub
  <2>1. lb \in 1 .. Len(buckets) /\ ub \in 1 .. Len(buckets) /\ k \in lb .. ub /\ Among(lb, ub, x)
    OBVIOUS
  <2> HIDE DEF lb, ub
  <2>2. /\ l \in 1 .. ncases /\ u \in l .. ncases
        /\ x < values[l] => IF lb < k THEN Among(lb, k - 1, x) ELSE nowhere
        /\ x > values[u] => IF k < ub THEN Among(k + 1, ub, x) ELSE nowhere
        /\ absent /\ x <= values[u] /\ lb < k => Among(lb, k - 1, x)
        /\ absent /\ x >= values[l] /\ k < ub => Among(k + 1, ub, x)
        /\ absent /\ lb = k /\ k = ub => nowhere
        /\ absent /\ values[l] <= x /\ x <= values[u] => nowhere
    BY <2>1, Narrowed
  <2> QED
    BY <2>2 DEF lb, ub
<1>2. /\ \A p \in s.at .. e - 1 :
            /\ (IF c.lb < k THEN Among(c.lb, k - 1, x) ELSE nowhere) => Selects(Goes(f, p, lo), x)
            /\ (IF k < c.ub THEN Among(k + 1, c.ub, x) ELSE nowhere) => Selects(Goes(f, p, hi), x)
      /\ c.lb < k /\ Among(c.lb, k - 1, x) => Selects(f[e], x)
      /\ c.lb = k /\ k < c.ub /\ Among(k + 1, c.ub, x) => Selects(f[e], x)
  BY DEF LeadsOn
<1>3. /\ n <= 3 =>
            /\ Len(b) = n + 1
            /\ \A i \in 1 .. n : b[i] = Test("EQ", l + i - 1, labels[l + i - 1])
            /\ k > c.lb => b[n + 1] = Test("GT", u, hi)
            /\ ~ (k > c.lb) /\ k < c.ub => b[n + 1] = Test("LT", l, lo)
            /\ ~ (k > c.lb) /\ ~ (k < c.ub) => b[n + 1] = [op |-> "BRANCH", to |-> lo]
      /\ ~ (n <= 3) =>
            /\ Len(b) = 3
            /\ b[1] = Test("LT", l, lo) /\ b[2] = Test("GT", u, hi)
            /\ b[3] = [op |-> "JUMP", base |-> values[l], table |-> Table(l, u)]
  BY DEF IsCodeOf
<1>4. ncases \in Nat /\ Len(code) \in Nat /\ \A i \in 1 .. ncases : values[i] \in Int
  BY LenProperties DEF Compiled, Increasing
<1>5. \A i, j \in 1 .. ncases : i < j => values[i] < values[j]
  BY DEF Compiled, Increasing
<1>6. SwitchInv /\ Increasing /\ deflab = ExitLabel
  BY DEF Compiled
<1>7. /\ c.lb \in Nat /\ c.ub \in Nat /\ k \in Nat
      /\ c.lb = k \/ (c.lb < k /\ k > c.lb)
      /\ k = c.ub \/ k < c.ub
      /\ k > c.lb => c.lb < k
      /\ ~ (k > c.lb) => c.lb = k /\ ~ (c.lb < k)
      /\ ~ (k < c.ub) => k = c.ub
  <2>1. c.lb \in Nat /\ c.ub \in Nat /\ k \in c.lb .. c.ub
    OBVIOUS
  <2> HIDE DEF c
  <2> QED
    BY <2>1
<1> HIDE DEF c, l, u
<1>8. /\ l \in Nat /\ u \in Nat /\ l <= u
      /\ l \in 1 .. ncases /\ u \in 1 .. ncases
      /\ values[l] \in Int /\ values[u] \in Int
  BY <1>1, <1>4
<1>9. \A j \in l .. u : j \in 1 .. ncases
  BY <1>4, <1>8
<1>10. /\ n \in Nat \ {0}
       /\ \A i \in 1 .. n : l + i - 1 \in l .. u /\ l + i - 1 \in 1 .. ncases
       /\ \A j \in l .. u : j - l \in 0 .. n - 1 /\ l + ((j - l) + 1) - 1 = j
  BY <1>4, <1>8
<1>11. nowhere => Selects(ExitLabel, x)
  BY DEF Selects
<1>12. \A j \in 1 .. ncases : values[j] = x => Selects(labels[j], x)
  <2> SUFFICES ASSUME NEW j \in 1 .. ncases, values[j] = x PROVE Selects(labels[j], x)
    OBVIOUS
  <2>1. ASSUME NEW i \in 1 .. ncases, values[i] = x PROVE i = j
    <3>1. i < j \/ i = j \/ j < i
      BY <1>4
    <3> QED
      BY <1>4, <1>5, <2>1, <3>1
  <2> QED
    BY <2>1 DEF Selects
<1> HIDE DEF nowhere, n
<1>13. \A op, i, to : Test(op, i, to) = [op |-> op, val |-> values[i], to |-> to]
  BY DEF Test
\* Every instruction of the bucket is in place.
<1>14. \A i \in 1 .. Len(b) :
          code[a + i - 1] = b[i] /\ a + i - 1 \in 1 .. Len(code) /\ a + i - 1 \in s.at .. e - 1
  <2>1. a + Len(b) <= Len(code) + 1 /\ \A i \in 1 .. Len(b) : code[a + i - 1] = b[i]
    BY DEF Holds
  <2> DEFINE z == Len(b)
             w == Len(code)
  <2>2. \A i \in 1 .. z : a + i - 1 \in 1 .. w /\ a + i - 1 \in s.at .. e - 1
    <3>1. a + z <= w + 1 /\ z \in Nat /\ w \in Nat /\ e = a + z
      BY <1>4, <2>1
    <3> HIDE DEF z, w
    <3> QED
      BY <3>1
  <2> QED
    BY <2>1, <2>2
<1>15. CASE n <= 3
  <2>1. Len(b) = n + 1 /\ n + 1 \in 1 .. Len(b) /\ \A i \in 1 .. n : i \in 1 .. Len(b)
    BY <1>3, <1>10, <1>15
  \* The tests for equality pass on what is not equal.
  <2>2. ASSUME NEW i \in 1 .. n
        PROVE  f[a + i - 1] = IF x = values[l + i - 1] THEN labels[l + i - 1] ELSE f[a + i]
    <3> DEFINE p == a + i - 1
               j == l + i - 1
    <3>1. /\ p \in 1 .. Len(code) /\ p + 1 = a + i /\ j \in 1 .. ncases /\ code[p] = b[i]
      <4>1. p + 1 = a + i
        OBVIOUS
      <4>2. i \in 1 .. Len(b)
        BY <2>1
      <4> QED
        BY <1>10, <1>14, <4>1, <4>2
    <3>2. code[p] = [op |-> "EQ", val |-> values[j], to |-> labels[j]]
      BY <1>3, <1>13, <1>15, <3>1
    <3> HIDE DEF p, j
    <3>3. f[p] = IF x = values[j] THEN Goes(f, p, labels[j]) ELSE f[p + 1]
      <4>1. Len(code) \in Nat /\ p \in 1 .. Len(code)
        BY <1>4, <3>1
      <4> DEFINE v == values[j]
                 w == labels[j]
      <4>2. code[p] = [op |-> "EQ", val |-> v, to |-> w]
        BY <3>2
      <4> HIDE DEF v, w
      <4>3. ASSUME x = v PROVE f[p] = Goes(f, p, w)
        <5>1. code[p] = [op |-> "EQ", val |-> x, to |-> w]
          BY <4>2, <4>3
        <5> QED
          BY <4>1, <5>1, EqualStep, ZenonT(60)
      <4>4. ASSUME x # v PROVE f[p] = f[p + 1]
        BY <4>1, <4>2, <4>4, UnequalStep, SMTT(20)
      <4> QED
        BY <4>3, <4>4 DEF v, w
    <3>4. Goes(f, p, labels[j]) = labels[j]
      BY <1>6, <3>1, LabelArrives
    <3>5. f[p] = IF x = values[j] THEN labels[j] ELSE f[a + i]
      BY <3>1, <3>3, <3>4
    <3> QED
      BY <3>5 DEF p, j
  <2>3. CASE absent
    <3>1. \A i \in 0 .. n - 1 : f[a + i] = f[a + (i + 1)]
      <4> TAKE i \in 0 .. n - 1
      <4>1. i + 1 \in 1 .. n /\ a + (i + 1) - 1 = a + i
        BY <1>10
      <4> DEFINE h == i + 1
      <4>2. h \in 1 .. n
        BY <4>1
      <4>3. f[a + h - 1] = IF x = values[l + h - 1] THEN labels[l + h - 1] ELSE f[a + h]
        <5> HIDE DEF h
        <5> QED
          BY <2>2, <4>2
      <4>4. values[l + h - 1] # x
        <5> HIDE DEF h
        <5> QED
          BY <1>10, <2>3, <4>2
      <4> QED
        BY <4>1, <4>3, <4>4
    <3>2. f[a] = f[a + n]
      BY <1>10, <3>1, PassesOn, ZenonT(60)
    <3> DEFINE q == a + n
    <3>3. code[q] = b[n + 1] /\ q \in 1 .. Len(code) /\ q \in s.at .. e - 1 /\ q + 1 = e
      <4> DEFINE h == n + 1
      <4>1. a + h - 1 = q /\ h \in 1 .. Len(b) /\ q + 1 = e
        BY <1>10, <2>1
      <4>2. code[a + h - 1] = b[h] /\ a + h - 1 \in 1 .. Len(code) /\ a + h - 1 \in s.at .. e - 1
        <5> HIDE DEF h
        <5> QED
          BY <1>14, <4>1
      <4> HIDE DEF q
      <4> QED
        BY <4>1, <4>2
    <3>4. f[a] = f[q]
      BY <3>2
    <3> HIDE DEF q
    <3>5. CASE k > c.lb
      <4>1. code[q] = [op |-> "GT", val |-> values[u], to |-> hi]
        BY <1>3, <1>13, <1>15, <3>3, <3>5
      <4>2. f[q] = IF x > values[u] THEN Goes(f, q, hi) ELSE f[q + 1]
        <5>1. Len(code) \in Nat /\ q \in 1 .. Len(code)
          BY <1>4, <3>3
        <5>2. /\ x > values[u] => f[q] = Goes(f, q, hi)
              /\ ~ (x > values[u]) => f[q] = f[q + 1]
          BY <4>1, <5>1, GreaterStep, ZenonT(60)
        <5> QED
          BY <5>2
      <4>3. CASE x > values[u]
        BY <1>1, <1>2, <3>3, <3>4, <4>2, <4>3
      <4>4. CASE ~ (x > values[u])
        <5>1. x <= values[u]
          BY <1>8, <4>4
        <5> QED
          BY <1>1, <1>2, <1>7, <2>3, <3>3, <3>4, <3>5, <4>2, <4>4, <5>1
      <4> QED
        BY <4>3, <4>4
    <3>6. CASE ~ (k > c.lb) /\ k < c.ub
      <4>1. code[q] = [op |-> "LT", val |-> values[l], to |-> lo]
        BY <1>3, <1>13, <1>15, <3>3, <3>6
      <4>2. f[q] = IF x < values[l] THEN Goes(f, q, lo) ELSE f[q + 1]
        <5>1. Len(code) \in Nat /\ q \in 1 .. Len(code)
          BY <1>4, <3>3
        <5>2. /\ x < values[l] => f[q] = Goes(f, q, lo)
              /\ ~ (x < values[l]) => f[q] = f[q + 1]
          BY <4>1, <5>1, LessStep, ZenonT(60)
        <5> QED
          BY <5>2
      <4>3. CASE x < values[l]
        BY <1>1, <1>2, <3>3, <3>4, <4>2, <4>3
      <4>4. CASE ~ (x < values[l])
        <5>1. x >= values[l]
          BY <1>8, <4>4
        <5> QED
          BY <1>1, <1>2, <1>7, <2>3, <3>3, <3>4, <3>6, <4>2, <4>4, <5>1
      <4> QED
        BY <4>3, <4>4
    <3>7. CASE ~ (k > c.lb) /\ ~ (k < c.ub)
      <4>1. code[q] = [op |-> "BRANCH", to |-> lo]
        BY <1>3, <1>15, <3>3, <3>7
      <4>2. f[q] = Goes(f, q, lo)
        <5>1. Len(code) \in Nat /\ q \in 1 .. Len(code)
          BY <1>4, <3>3
        <5> QED
          BY <4>1, <5>1, BranchStep, ZenonT(60)
      <4>3. nowhere
        BY <1>1, <1>7, <2>3, <3>7
      <4> QED
        BY <1>2, <1>7, <3>3, <3>4, <3>7, <4>2, <4>3
    <3> QED
      BY <3>5, <3>6, <3>7
  <2>4. CASE ~ absent
    <3>1. PICK j \in l .. u : values[j] = x
      BY <2>4
    <3> DEFINE m == j - l
    <3>2. m \in Nat /\ m < n /\ l + (m + 1) - 1 = j
      BY <1>8, <1>10, SMTT(40)
    <3>3. j \in 1 .. ncases
      BY <1>9
    <3> HIDE DEF m
    <3>4. \A i \in 0 .. m - 1 : f[a + i] = f[a + (i + 1)]
      <4> TAKE i \in 0 .. m - 1
      <4> DEFINE h == i + 1
      <4>1. h \in 1 .. n /\ a + h - 1 = a + i /\ l + h - 1 < j
        BY <1>8, <1>10, <3>2
      <4>2. f[a + h - 1] = IF x = values[l + h - 1] THEN labels[l + h - 1] ELSE f[a + h]
        <5> HIDE DEF h
        <5> QED
          BY <2>2, <4>1
      <4>3. values[l + h - 1] # x
        <5> HIDE DEF h
        <5>1. l + h - 1 \in 1 .. ncases
          BY <1>10, <4>1
        <5>2. values[l + h - 1] < values[j] /\ values[j] \in Int
          BY <1>4, <1>5, <3>3, <4>1, <5>1
        <5> QED
          BY <3>1, <5>2
      <4> QED
        BY <4>1, <4>2, <4>3
    <3>5. f[a] = f[a + m]
      BY <3>2, <3>4, PassesOn
    <3>6. f[a + m] = labels[j]
      <4> DEFINE h == m + 1
      <4>1. h \in 1 .. n /\ a + h - 1 = a + m /\ l + h - 1 = j
        BY <1>10, <3>2
      <4>2. f[a + h - 1] = IF x = values[l + h - 1] THEN labels[l + h - 1] ELSE f[a + h]
        <5> HIDE DEF h
        <5> QED
          BY <2>2, <4>1
      <4> QED
        BY <3>1, <4>1, <4>2
    <3> QED
      BY <1>12, <3>1, <3>3, <3>5, <3>6
  <2> QED
    BY <2>3, <2>4
<1>16. CASE ~ (n <= 3)
  <2> DEFINE p == a + 1 - 1
             q == a + 2 - 1
             r == a + 3 - 1
             t == Table(l, u)
             i == x - values[l] + 1
  <2>1. Len(b) = 3 /\ 1 \in 1 .. Len(b) /\ 2 \in 1 .. Len(b) /\ 3 \in 1 .. Len(b)
    <3>1. Len(b) = 3
      BY <1>3, <1>16
    <3> QED
      BY <3>1
  <2>2. p = a /\ p + 1 = q /\ q + 1 = r
    OBVIOUS
  <2>3. /\ code[p] = b[1] /\ p \in 1 .. Len(code) /\ p \in s.at .. e - 1
        /\ code[q] = b[2] /\ q \in 1 .. Len(code) /\ q \in s.at .. e - 1
        /\ code[r] = b[3] /\ r \in 1 .. Len(code)
    BY <1>14, <2>1
  <2> HIDE DEF p, q, r, t
  <2>4. /\ code[p] = [op |-> "LT", val |-> values[l], to |-> lo]
        /\ code[q] = [op |-> "GT", val |-> values[u], to |-> hi]
        /\ code[r] = [op |-> "JUMP", base |-> values[l], table |-> t]
    BY <1>3, <1>13, <1>16, <2>3 DEF t
  <2>5. f[p] = IF x < values[l] THEN Goes(f, p, lo) ELSE f[p + 1]
    <3>1. code[p] = [op |-> "LT", val |-> values[l], to |-> lo]
      BY <2>4
    <3>2. Len(code) \in Nat /\ p \in 1 .. Len(code)
      BY <1>4, <2>3
    <3>3. /\ x < values[l] => f[p] = Goes(f, p, lo)
          /\ ~ (x < values[l]) => f[p] = f[p + 1]
      BY <3>1, <3>2, LessStep, ZenonT(60)
    <3> QED
      BY <3>3
  <2>6. f[q] = IF x > values[u] THEN Goes(f, q, hi) ELSE f[q + 1]
    <3>1. code[q] = [op |-> "GT", val |-> values[u], to |-> hi]
      BY <2>4
    <3>2. Len(code) \in Nat /\ q \in 1 .. Len(code)
      BY <1>4, <2>3
    <3>3. /\ x > values[u] => f[q] = Goes(f, q, hi)
          /\ ~ (x > values[u]) => f[q] = f[q + 1]
      BY <3>1, <3>2, GreaterStep, ZenonT(60)
    <3> QED
      BY <3>3
  <2>7. f[r] = IF i \in DOMAIN t THEN Goes(f, r, t[i]) ELSE NoLabel
    <3>1. code[r] = [op |-> "JUMP", base |-> values[l], table |-> t]
      BY <2>4
    <3>2. Len(code) \in Nat /\ r \in 1 .. Len(code)
      BY <1>4, <2>3
    <3>3. f[r] = IF x - values[l] + 1 \in DOMAIN t
                 THEN Goes(f, r, t[x - values[l] + 1]) ELSE NoLabel
      BY <3>1, <3>2, JumpStep, ZenonT(60)
    <3> QED
      BY <3>3
  <2>8. CASE x < values[l]
    BY <1>1, <1>2, <2>2, <2>3, <2>5, <2>8
  <2>9. CASE ~ (x < values[l]) /\ x > values[u]
    BY <1>1, <1>2, <2>2, <2>3, <2>5, <2>6, <2>9
  <2>10. CASE ~ (x < values[l]) /\ ~ (x > values[u])
    <3>1. values[l] <= x /\ x <= values[u] /\ i \in Int
      BY <1>8, <2>10, SMTT(40)
    <3>2. TableOf(t, l, u)
      <4>1. l \in 1 .. ncases /\ u \in l .. ncases
        BY <1>1
      <4>2. TableOf(Table(l, u), l, u)
        BY <1>6, <4>1, TableFilled
      <4> QED
        BY <4>2 DEF t
    <3>3. Len(t) = values[u] - values[l] + 1 /\ t \in Seq(Lab)
      BY <3>2 DEF TableOf
    <3>4. DOMAIN t = 1 .. Len(t)
      BY <3>3, LenProperties
    <3>5. i \in 1 .. Len(t)
      <4> DEFINE v == values[l]
                 y == values[u]
      <4>1. v \in Int /\ y \in Int /\ v <= x /\ x <= y /\ Len(t) = y - v + 1 /\ i = x - v + 1
        BY <1>8, <3>1, <3>3
      <4> HIDE DEF v, y, i
      <4> QED
        BY <4>1
    <3>6. f[a] = Goes(f, r, t[i])
      <4> HIDE DEF i
      <4> QED
        BY <2>2, <2>5, <2>6, <2>7, <2>10, <3>4, <3>5
    <3>7. CASE absent
      <4>1. \A j \in l .. u : values[j] - values[l] + 1 # i
        <5> TAKE j \in l .. u
        <5>1. values[j] \in Int /\ values[j] # x
          BY <1>4, <1>9, <3>7
        <5> DEFINE v == values[l]
                   y == values[j]
        <5>2. v \in Int /\ y \in Int /\ y # x
          BY <1>8, <5>1
        <5> HIDE DEF v, y
        <5>3. y - v + 1 # x - v + 1
          BY <5>2
        <5> QED
          BY <5>3 DEF v, y
      <4> HIDE DEF i
      <4>2. t[i] = ExitLabel
        BY <1>6, <3>2, <3>5, <4>1 DEF TableOf
      <4>3. nowhere
        BY <1>1, <3>1, <3>7
      <4> QED
        BY <1>11, <3>6, <4>2, <4>3, LabelArrives
    <3>8. CASE ~ absent
      <4>1. PICK j \in l .. u : values[j] = x
        BY <3>8
      <4>2. j \in 1 .. ncases
        BY <1>9
      <4>3. t[i] = labels[j]
        BY <3>2, <4>1 DEF TableOf
      <4>4. Goes(f, r, labels[j]) = labels[j]
        BY <1>6, <4>2, LabelArrives
      <4> HIDE DEF i
      <4> QED
        BY <1>12, <3>6, <4>1, <4>2, <4>3, <4>4
    <3> QED
      BY <3>7, <3>8
  <2> QED
    BY <2>8, <2>9, <2>10
<1> QED
  BY <1>15, <1>16

\* Every block selects the right label, from the last one to the first.
LEMMA BlocksSelect ==
    ASSUME Compiled, NEW S, Layout(code, pending, S), LabelsOnce(code, pending, genlabs),
           NEW x \in Int, NEW f, Executes(f, x)
    PROVE  \A s \in S : Among(s.call.lb, s.call.ub, x) => Selects(f[s.at], x)
<1> DEFINE z == Len(code) + 1
           Wrong(s) == Among(s.call.lb, s.call.ub, x) /\ ~ Selects(f[s.at], x)
           Bad == {n \in Nat : \E s \in S : n = z - s.at /\ Wrong(s)}
<1>1. Len(code) \in Nat /\ SwitchInv /\ Divides(buckets, ncases) /\ ncases > 0 /\ deflab \in Lab
  BY LenProperties, SearchLabels DEF Compiled
<1>2. \A s \in S : s.at \in Nat \ {0} /\ s.call \in Calls
  BY DEF Layout
<1>3. ASSUME NEW s \in S
      PROVE  \E lo, hi, b :
                /\ lo \in Lab /\ hi \in Lab
                /\ Written(code, pending, S, s, lo, hi)
                /\ IsTextOf(Text(s.call, lo, hi), b, Middle(s.call.lb, s.call.ub), s.call, lo, hi)
                /\ s.at + Len(Text(s.call, lo, hi)) <= z
  <2>1. PICK lo \in Lab, hi \in Lab : Written(code, pending, S, s, lo, hi)
    BY DEF Layout
  <2>2. s.call \in Calls
    BY <1>2
  <2>3. PICK b : IsTextOf(Text(s.call, lo, hi), b, Middle(s.call.lb, s.call.ub), s.call, lo, hi)
    BY <1>1, <2>2, TextShape
  <2>4. s.at + Len(Text(s.call, lo, hi)) <= z
    BY <2>1 DEF Written, Holds
  <2> QED
    BY <2>1, <2>3, <2>4
<1>4. \A s \in S : z - s.at \in Nat
  <2> TAKE s \in S
  <2>1. PICK lo, hi, b :
           /\ IsTextOf(Text(s.call, lo, hi), b, Middle(s.call.lb, s.call.ub), s.call, lo, hi)
           /\ s.at + Len(Text(s.call, lo, hi)) <= z
    BY <1>3
  <2>2. Len(Text(s.call, lo, hi)) \in Nat
    BY <2>1, LenProperties DEF IsTextOf
  <2> QED
    BY <1>1, <1>2, <2>1, <2>2
<1>5. SUFFICES ASSUME Bad # {} PROVE FALSE
  <2>1. \A s \in S : ~ Wrong(s)
    BY <1>4, <1>5
  <2> QED
    BY <2>1
<1>6. PICK n \in Bad : \A m \in Bad : n <= m
  <2>1. Bad \subseteq Nat
    OBVIOUS
  <2> HIDE DEF Bad
  <2> QED
    BY <1>5, <2>1, LeastNumber
<1>7. PICK s \in S : n = z - s.at /\ Wrong(s)
  OBVIOUS
<1>8. \A r \in S : r.at > s.at /\ Among(r.call.lb, r.call.ub, x) => Selects(f[r.at], x)
  <2> SUFFICES ASSUME NEW r \in S, r.at > s.at, Wrong(r) PROVE FALSE
    OBVIOUS
  <2>1. z - r.at \in Bad
    <3> HIDE DEF Wrong
    <3> QED
      BY <1>4
  <2>2. n <= z - r.at
    BY <1>6, <2>1
  <2> QED
    BY <1>1, <1>2, <1>7, <2>2
<1>9. PICK lo, hi, b :
         /\ lo \in Lab /\ hi \in Lab
         /\ Written(code, pending, S, s, lo, hi)
         /\ IsTextOf(Text(s.call, lo, hi), b, Middle(s.call.lb, s.call.ub), s.call, lo, hi)
  BY <1>3
<1> DEFINE c == s.call
           k == Middle(c.lb, c.ub)
           t == Text(c, lo, hi)
           e == s.at + Len(t)
           a == s.at + Behind(c)
<1>10. /\ t \in Seq(Instructions) /\ b \in Seq(Instructions)
       /\ k \in c.lb .. c.ub /\ IsCodeOf(b, c.lb, k, c.ub, lo, hi)
       /\ Len(b) \in Nat \ {0} /\ Len(t) = Behind(c) + Len(b)
       /\ c.lab # NoLabel => t[1] = [op |-> "LABEL", lab |-> c.lab]
       /\ \A i \in 1 .. Len(b) : t[Behind(c) + i] = b[i]
       /\ Holds(code, s.at, t)
  BY <1>9 DEF IsTextOf, Written
<1>11. Behind(c) \in {0, 1} /\ s.at \in Nat \ {0} /\ e \in Nat /\ e > s.at /\ a \in Nat
       /\ s.at <= a /\ e = a + Len(b) /\ (Behind(c) = 1 <=> c.lab # NoLabel)
       /\ (Behind(c) = 0 => a = s.at)
  <2>1. Behind(c) \in {0, 1} /\ (Behind(c) = 1 <=> c.lab # NoLabel)
    BY DEF Behind
  <2> DEFINE v == s.at
             w == Behind(c)
             y == Len(b)
             tt == Len(t)
  <2>2. w \in {0, 1} /\ v \in Nat \ {0} /\ y \in Nat \ {0} /\ tt = w + y /\ e = v + tt /\ a = v + w
    BY <1>2, <1>10, <2>1
  <2> HIDE DEF v, w, y, tt, e, a
  <2>3. e \in Nat /\ e > v /\ a \in Nat /\ v <= a /\ e = a + y /\ (w = 0 => a = v)
    BY <2>2
  <2> QED
    BY <2>1, <2>2, <2>3 DEF v, w, y
<1>12. LeadsOn(f, s, k, e, lo, hi, x)
  <2>1. k = Middle(s.call.lb, s.call.ub) /\ e = s.at + Len(Text(s.call, lo, hi))
    OBVIOUS
  <2> HIDE DEF k, e, c, t, a
  <2> QED
    BY <1>8, <1>9, <1>11, <2>1, BlocksLeadOn
<1>13. Holds(code, a, b)
  <2> DEFINE d == Behind(c)
  <2>1. s.at + Len(t) <= Len(code) + 1 /\ \A i \in 1 .. Len(t) : code[s.at + i - 1] = t[i]
    BY <1>10 DEF Holds
  <2>2. a + Len(b) <= Len(code) + 1
    BY <1>11, <2>1
  <2>3. ASSUME NEW i \in 1 .. Len(b) PROVE code[a + i - 1] = b[i]
    <3> DEFINE j == d + i
    <3>1. j \in 1 .. Len(t)
      <4> DEFINE w == Len(t)
                 y == Len(b)
      <4>1. w = d + y /\ y \in Nat /\ d \in {0, 1} /\ i \in 1 .. y
        BY <1>10, <1>11
      <4> HIDE DEF w, y, d
      <4>2. j \in 1 .. w
        BY <4>1
      <4> QED
        BY <4>2 DEF w
    <3>2. s.at + j - 1 = a + i - 1
      BY <1>11
    <3>3. t[j] = b[i]
      BY <1>10
    <3> HIDE DEF j, a, t
    <3> QED
      BY <2>1, <3>1, <3>2, <3>3
  <2> QED
    BY <2>2, <2>3 DEF Holds
<1>14. f[s.at] = f[a]
  <2>1. CASE Behind(c) = 0
    BY <1>11, <2>1
  <2>2. CASE Behind(c) = 1
    <3>1. 1 \in 1 .. Len(t) /\ s.at + 1 - 1 = s.at /\ a = s.at + 1
      BY <1>10, <1>11, <2>2
    <3>2. code[s.at] = [op |-> "LABEL", lab |-> c.lab]
      <4>1. code[s.at + 1 - 1] = t[1]
        BY <1>10, <3>1 DEF Holds
      <4> QED
        BY <1>10, <1>11, <2>2, <3>1, <4>1
    <3>3. s.at \in 1 .. Len(code)
      <4>1. s.at + Len(t) <= Len(code) + 1 /\ Len(t) >= 1 /\ Len(t) \in Nat
        BY <1>10, <1>11, <2>2 DEF Holds
      <4> QED
        BY <1>1, <1>2, <4>1
    <3>4. f[s.at] = f[s.at + 1]
      BY <1>1, <3>2, <3>3, InstructionStep
    <3> QED
      BY <3>1, <3>4
  <2> QED
    BY <1>11, <2>1, <2>2
<1>15. c.lb \in 1 .. Len(buckets) /\ c.ub \in 1 .. Len(buckets)
  BY <1>2 DEF Calls
<1>16. Selects(f[a], x)
  <2>1. /\ s.call.lb \in 1 .. Len(buckets) /\ s.call.ub \in 1 .. Len(buckets)
        /\ k \in s.call.lb .. s.call.ub /\ Among(s.call.lb, s.call.ub, x)
        /\ IsCodeOf(b, s.call.lb, k, s.call.ub, lo, hi) /\ Len(b) \in Nat
    BY <1>7, <1>10, <1>15
  <2> HIDE DEF k, e, c, t, a
  <2> QED
    BY <1>11, <1>12, <1>13, <2>1, BucketSelects
<1> QED
  BY <1>7, <1>14, <1>16

\* The whole search.
LEMMA SearchSelects ==
    ASSUME Compiled, NEW S, Layout(code, pending, S), LabelsOnce(code, pending, genlabs),
           NEW x \in Int
    PROVE  Selects(Arrives(x), x)
<1>1. Len(code) \in Nat
  BY LenProperties DEF Compiled
<1>2. PICK f : Executes(f, x) /\ Arrives(x) = f[1]
  BY <1>1, ExecutionExists
<1> DEFINE s == [at |-> 1, call |-> [lb |-> 1, ub |-> Len(buckets), lab |-> NoLabel]]
<1>3. s \in S
  BY DEF Layout, NextAt, Compiled
<1>4. s.at = 1 /\ s.call.lb = 1 /\ s.call.ub = Len(buckets)
  OBVIOUS
<1>5. Among(1, Len(buckets), x)
  <2>1. Lowest(1) = 1 /\ Highest(Len(buckets)) = ncases
    BY BucketOrder DEF Compiled
  <2> QED
    BY <2>1 DEF Among
<1> HIDE DEF s
<1>6. Selects(f[s.at], x)
  BY <1>2, <1>3, <1>4, <1>5, BlocksSelect
<1> QED
  BY <1>2, <1>4, <1>6

\* A value of the type is what its constants extend to.
LEMMA WordExtended ==
    ASSUME NEW x \in Word
    PROVE  x \in Int /\ Extended(x) = x
<1> DEFINE h == Modulus \div 2
<1>1. Modulus \in Nat \ {0}
  BY ModulusAssumption
<1>2. h \in Nat /\ 2 * h <= Modulus
  BY <1>1, SMT
<1>3. x \in -h .. h - 1
  BY DEF Word
<1>4. x % Modulus = IF x >= 0 THEN x ELSE x + Modulus
  <2> DEFINE m == Modulus
  <2>1. m \in Nat \ {0} /\ x \in Int /\ -m <= x /\ x < m
    BY <1>1, <1>2, <1>3
  <2> HIDE DEF m, h
  <2>2. ASSUME x >= 0 PROVE x % m = x
    BY <2>1, <2>2, SMT
  <2>3. ASSUME ~ (x >= 0) PROVE x % m = x + m
    <3> DEFINE y == x + m
    <3>1. y \in Int /\ y - x = m /\ y \in 0 .. m - 1
      BY <2>1, <2>3
    <3> HIDE DEF y
    <3>2. (y - x) % m = 0
      <4>1. m % m = 0
        BY <2>1, SMT
      <4> QED
        BY <3>1, <4>1
    <3>3. y % m = x % m
      BY <2>1, <3>1, <3>2, SameRemainder
    <3>4. y % m = y
      BY <2>1, <3>1, SMT
    <3> QED
      BY <3>3, <3>4 DEF y
  <2>4. x % m = IF x >= 0 THEN x ELSE x + m
    BY <2>2, <2>3
  <2> QED
    BY <2>4 DEF m
<1>5. Extended(x) = IF x % Modulus >= h THEN (x % Modulus) - Modulus ELSE x % Modulus
  BY DEF Extended
<1> DEFINE m == Modulus
<1>6. m \in Nat /\ h \in Nat /\ 2 * h <= m /\ x \in -h .. h - 1
      /\ x % m = (IF x >= 0 THEN x ELSE x + m)
      /\ Extended(x) = IF x % m >= h THEN (x % m) - m ELSE x % m
  BY <1>1, <1>2, <1>3, <1>4, <1>5
<1> HIDE DEF h, m
<1>7. CASE x >= 0
  BY <1>6, <1>7
<1>8. CASE ~ (x >= 0)
  BY <1>6, <1>8
<1> QED
  BY <1>6, <1>7, <1>8

\* The label that the arrays select is that of the case with the value.
LEMMA SelectedCase ==
    ASSUME SwitchInv, dups = 0, NEW x \in Word, NEW lab, Selects(lab, x)
    PROVE  lab = IF \E c \in cases : SameValue(c, x)
                 THEN CaseLabelOf(CHOOSE c \in cases : SameValue(c, x))
                 ELSE ExitLabel
<1>1. x \in Int /\ Extended(x) = x
  BY WordExtended
<1>2. ncases = Len(values) /\ ncases \in Nat /\ cases \subseteq Int
  BY LenProperties DEF SwitchInv, ncases
<1>3. \A c \in cases : SameValue(c, x) <=> Extended(c) = x
  <2> TAKE c \in cases
  <2>1. c \in Int
    BY <1>2
  <2>2. Extended(c) = Extended(x) <=> SameValue(c, x)
    BY <1>1, <2>1, ExtendedSame
  <2> QED
    BY <1>1, <2>2
<1>4. CASE \E c \in cases : SameValue(c, x)
  <2> DEFINE d == CHOOSE c \in cases : SameValue(c, x)
  <2>1. d \in cases /\ SameValue(d, x)
    BY <1>4
  <2> HIDE DEF d
  <2>2. PICK i \in 1 .. ncases : values[i] = Extended(d) /\ labels[i] = CaseLabelOf(d)
    BY <1>2, <2>1 DEF SwitchInv
  <2>3. values[i] = x
    BY <1>3, <2>1, <2>2
  <2>4. lab = labels[i]
    BY <2>3 DEF Selects
  <2> QED
    BY <1>4, <2>2, <2>4 DEF d
<1>5. CASE ~ \E c \in cases : SameValue(c, x)
  <2>1. \A j \in 1 .. ncases : values[j] # x
    <3> TAKE j \in 1 .. ncases
    <3>1. PICK c \in cases : values[j] = Extended(c)
      BY <1>2 DEF SwitchInv
    <3> QED
      BY <1>3, <1>5, <3>1
  <2> QED
    BY <1>5, <2>1 DEF Selects
<1> QED
  BY <1>4, <1>5

-----------------------------------------------------------------------------
(* swcode makes that layout *)

\* After a call of swcode with the labels lo and hi, whose calls for the d parts
\* of the rest come first in pe2, g labels having been taken.
CallsNext(pe, pe2, g, d, lo, hi) ==
    LET c == pe[1]
        k == Middle(c.lb, c.ub)
        lower == [lb |-> c.lb, ub |-> k - 1, lab |-> lo]
        upper == [lb |-> k + 1, ub |-> c.ub, lab |-> hi]
    IN  /\ d \in {0, 1, 2}
        /\ Len(pe2) = d + (Len(pe) - 1)
        /\ \A i \in 2 .. Len(pe) : pe2[d + i - 1] = pe[i]
        /\ IF c.lb < k
           THEN lo = SearchLabel(g + 1) /\ d > 0 /\ pe2[1] = lower
           ELSE lo = ExitLabel
        /\ IF k < c.ub
           THEN hi = SearchLabel(g + d) /\ d > 0 /\ pe2[d] = upper
           ELSE hi = ExitLabel
        /\ d = (IF c.lb < k THEN 1 ELSE 0) + (IF k < c.ub THEN 1 ELSE 0)

LEMMA LayoutGrows ==
    ASSUME SwitchInv, Divides(buckets, ncases), ncases > 0, deflab = ExitLabel,
           NEW co \in Seq(Instructions), NEW pe \in Seq(Calls), pe # << >>,
           NEW S, Layout(co, pe, S), NEW pe2 \in Seq(Calls), NEW g \in Nat, NEW d,
           NEW lo \in Lab, NEW hi \in Lab, CallsNext(pe, pe2, g, d, lo, hi)
    PROVE  Layout(co \o Text(pe[1], lo, hi), pe2, S \cup {[at |-> Len(co) + 1, call |-> pe[1]]})
<1> DEFINE c == pe[1]
           k == Middle(c.lb, c.ub)
           t == Text(c, lo, hi)
           co2 == co \o t
           new == [at |-> Len(co) + 1, call |-> c]
           S2 == S \cup {new}
<1>1. Len(pe) \in Nat \ {0} /\ c \in Calls /\ Len(co) \in Nat /\ Len(pe2) \in Nat
  <2>1. Len(pe) \in Nat \ {0} /\ Len(co) \in Nat /\ Len(pe2) \in Nat
    BY LenProperties, EmptySeq
  <2> QED
    BY <2>1, ElementOfSeq
<1>2. \E b : IsTextOf(t, b, k, c, lo, hi)
  <2>1. deflab \in Lab
    BY SearchLabels
  <2> HIDE DEF c
  <2> QED
    BY <1>1, <2>1, TextShape
<1> DEFINE I == Instructions
<1>3. t \in Seq(I) /\ co \in Seq(I) /\ Len(t) \in Nat \ {0}
  <2>1. PICK b : IsTextOf(t, b, k, c, lo, hi)
    BY <1>2
  <2>2. t \in Seq(I) /\ Len(b) \in Nat \ {0} /\ Len(t) = Behind(c) + Len(b)
    BY <2>1 DEF IsTextOf
  <2>3. Behind(c) \in {0, 1}
    BY DEF Behind
  <2>4. co \in Seq(I)
    OBVIOUS
  <2> DEFINE m == Len(b)
             w == Behind(c)
             y == Len(t)
  <2>5. y \in Nat \ {0}
    <3>1. m \in Nat \ {0} /\ y = w + m /\ w \in {0, 1}
      BY <2>2, <2>3
    <3> HIDE DEF m, w, y
    <3> QED
      BY <3>1
  <2> HIDE DEF t, c, I
  <2> QED
    BY <2>2, <2>4, <2>5
<1> HIDE DEF t, I, c, k
<1>4. /\ Len(co2) = Len(co) + Len(t)
      /\ \A i \in 1 .. Len(co) : co2[i] = co[i]
      /\ \A i \in 1 .. Len(t) : co2[Len(co) + i] = t[i]
  <2>1. /\ Len(co2) = Len(co) + Len(t)
        /\ \A i \in 1 .. Len(co) + Len(t) : co2[i] = IF i <= Len(co) THEN co[i] ELSE t[i - Len(co)]
    BY <1>3, ConcatProperties
  <2> DEFINE n == Len(co)
             m == Len(t)
  <2>2. n \in Nat /\ m \in Nat
    BY <1>1, <1>3
  <2> HIDE DEF n, m
  <2>3. \A i \in 1 .. n : i \in 1 .. n + m /\ i <= n
    BY <2>2
  <2>4. \A i \in 1 .. m : n + i \in 1 .. n + m /\ ~ (n + i <= n) /\ (n + i) - n = i
    BY <2>2
  <2> HIDE DEF co2
  <2> QED
    BY <2>1, <2>3, <2>4 DEF n, m
<1> HIDE DEF co2
<1>5. new \in [at : Nat \ {0}, call : Calls] /\ new.at = Len(co) + 1 /\ new.call = c /\ new \in S2
  BY <1>1
<1>6. S \subseteq [at : Nat \ {0}, call : Calls] /\ S2 \subseteq [at : Nat \ {0}, call : Calls]
  BY <1>5 DEF Layout
\* What was next has now written, or is still to.
<1>7. ASSUME NEW e, NEW w, NextAt(co, pe, S, e, w) PROVE NextAt(co2, pe2, S2, e, w)
  <2>1. CASE [at |-> e, call |-> w] \in S
    BY <2>1 DEF NextAt
  <2>2. CASE e = Len(co) + 1 /\ pe[1] = w
    <3>1. [at |-> e, call |-> w] = new
      BY <2>2 DEF c
    <3> QED
      BY <1>5, <3>1 DEF NextAt
  <2> QED
    BY <1>7, <2>1, <2>2 DEF NextAt
<1>8. ASSUME NEW e \in Nat, e <= Len(co) + 1, NEW w, LaterAt(co, pe, S, e, w)
      PROVE  LaterAt(co2, pe2, S2, e, w)
  <2>1. CASE \E s \in S : s.at >= e /\ s.call = w
    BY <2>1 DEF LaterAt
  <2>2. CASE \E i \in 1 .. Len(pe) : pe[i] = w
    <3>1. PICK i \in 1 .. Len(pe) : pe[i] = w
      BY <2>2
    <3>2. CASE i = 1
      <4>1. new.at >= e /\ new.call = w
        BY <1>1, <1>5, <1>8, <3>1, <3>2 DEF c
      <4> HIDE DEF new
      <4> QED
        BY <4>1, <1>5 DEF LaterAt
    <3>3. CASE i # 1
      <4>1. i \in 2 .. Len(pe) /\ pe2[d + i - 1] = pe[i] /\ Len(pe2) = d + (Len(pe) - 1) /\ d \in Nat
        BY <1>1, <3>1, <3>3 DEF CallsNext
      <4>2. d + i - 1 \in 1 .. Len(pe2)
        BY <1>1, <4>1
      <4> QED
        BY <3>1, <4>1, <4>2 DEF LaterAt
    <3> QED
      BY <3>2, <3>3
  <2> QED
    BY <1>8, <2>1, <2>2 DEF LaterAt
<1>9. NextAt(co2, pe2, S2, 1, [lb |-> 1, ub |-> Len(buckets), lab |-> NoLabel])
  BY <1>7 DEF Layout
\* The earlier calls.
<1>10. ASSUME NEW s \in S PROVE \E l, h \in Lab : Written(co2, pe2, S2, s, l, h)
  <2>1. PICK l \in Lab, h \in Lab : Written(co, pe, S, s, l, h)
    BY DEF Layout
  <2> DEFINE v == s.call
             j == Middle(v.lb, v.ub)
             x == Text(v, l, h)
             e == s.at + Len(x)
             lower == [lb |-> v.lb, ub |-> j - 1, lab |-> l]
             upper == [lb |-> j + 1, ub |-> v.ub, lab |-> h]
  <2>2. /\ Holds(co, s.at, x)
        /\ IF v.lb < j THEN l \in SearchLabelSet /\ NextAt(co, pe, S, e, lower) ELSE l = ExitLabel
        /\ IF j < v.ub
           THEN /\ h \in SearchLabelSet /\ LaterAt(co, pe, S, e, upper)
                /\ v.lb = j => NextAt(co, pe, S, e, upper)
           ELSE h = ExitLabel
    BY <2>1 DEF Written
  <2>3. s.at \in Nat \ {0} /\ v \in Calls
    BY <1>6
  <2>4. Len(x) \in Nat
    <3>1. deflab \in Lab
      BY SearchLabels
    <3>2. PICK b : IsTextOf(Text(v, l, h), b, j, v, l, h)
      <4> HIDE DEF v
      <4> QED
        BY <2>3, <3>1, TextShape
    <3> QED
      BY <3>2, LenProperties DEF IsTextOf
  <2> HIDE DEF x, j, v, lower, upper
  <2>5. e \in Nat /\ e <= Len(co) + 1
    BY <2>2, <2>3, <2>4 DEF Holds
  <2>6. Holds(co2, s.at, x)
    <3>1. s.at + Len(x) <= Len(co) + 1 /\ \A i \in 1 .. Len(x) : co[s.at + i - 1] = x[i]
      BY <2>2 DEF Holds
    <3> DEFINE a == s.at
               n == Len(co)
               m == Len(x)
    <3>2. a + m <= n + 1 /\ a \in Nat \ {0} /\ m \in Nat /\ n \in Nat
      BY <1>1, <2>3, <2>4, <3>1
    <3>3. \A i \in 1 .. m : a + i - 1 \in 1 .. n
      <4> HIDE DEF a, n, m
      <4> QED
        BY <3>2
    <3>4. \A i \in 1 .. m : co2[a + i - 1] = x[i]
      BY <1>4, <3>1, <3>3
    <3>5. s.at + Len(x) <= Len(co2) + 1
      BY <1>1, <1>3, <1>4, <2>3, <2>4, <3>1
    <3> QED
      BY <3>4, <3>5 DEF Holds
  <2> HIDE DEF e
  <2>7. /\ IF v.lb < j THEN l \in SearchLabelSet /\ NextAt(co2, pe2, S2, e, lower) ELSE l = ExitLabel
        /\ IF j < v.ub
           THEN /\ h \in SearchLabelSet /\ LaterAt(co2, pe2, S2, e, upper)
                /\ v.lb = j => NextAt(co2, pe2, S2, e, upper)
           ELSE h = ExitLabel
    BY <1>7, <1>8, <2>2, <2>5
  <2>8. Written(co2, pe2, S2, s, l, h)
    BY <2>6, <2>7 DEF Written, v, j, x, e, lower, upper
  <2> QED
    BY <2>8
\* And this one.
<1>11. Written(co2, pe2, S2, new, lo, hi)
  <2> DEFINE e == new.at + Len(t)
             lower == [lb |-> c.lb, ub |-> k - 1, lab |-> lo]
             upper == [lb |-> k + 1, ub |-> c.ub, lab |-> hi]
  <2>1. e = Len(co2) + 1
    BY <1>1, <1>3, <1>4, <1>5
  <2>2. Holds(co2, new.at, t)
    <3> DEFINE n == Len(co)
               m == Len(t)
    <3>1. \A i \in 1 .. m : (n + 1) + i - 1 = n + i
      BY <1>1, <1>3
    <3>2. \A i \in 1 .. m : co2[(n + 1) + i - 1] = t[i]
      BY <1>4, <3>1
    <3>3. (n + 1) + m <= Len(co2) + 1
      BY <1>1, <1>3, <1>4
    <3> QED
      BY <1>5, <3>2, <3>3 DEF Holds
  <2>3. /\ d \in {0, 1, 2} /\ Len(pe2) = d + (Len(pe) - 1)
        /\ IF c.lb < k THEN lo = SearchLabel(g + 1) /\ d > 0 /\ pe2[1] = lower ELSE lo = ExitLabel
        /\ IF k < c.ub THEN hi = SearchLabel(g + d) /\ d > 0 /\ pe2[d] = upper ELSE hi = ExitLabel
        /\ d = (IF c.lb < k THEN 1 ELSE 0) + (IF k < c.ub THEN 1 ELSE 0)
    BY DEF CallsNext, c, k
  <2> HIDE DEF e, lower, upper
  <2>4. d > 0 => pe2 # << >> /\ d \in 1 .. Len(pe2)
    <3>1. d > 0 => Len(pe2) > 0 /\ d \in 1 .. Len(pe2)
      BY <1>1, <2>3
    <3> QED
      BY <3>1
  <2>5. \A n \in Nat : SearchLabel(n) \in SearchLabelSet
    BY DEF SearchLabelSet
  <2>6. g + 1 \in Nat /\ g + d \in Nat
    BY <2>3
  <2>7. IF c.lb < k THEN lo \in SearchLabelSet /\ NextAt(co2, pe2, S2, e, lower) ELSE lo = ExitLabel
    BY <2>1, <2>3, <2>4, <2>5, <2>6 DEF NextAt
  <2>8. IF k < c.ub
        THEN /\ hi \in SearchLabelSet /\ LaterAt(co2, pe2, S2, e, upper)
             /\ c.lb = k => NextAt(co2, pe2, S2, e, upper)
        ELSE hi = ExitLabel
    <3>1. CASE k < c.ub
      <4>1. hi \in SearchLabelSet
        BY <2>3, <2>5, <2>6, <3>1
      <4>2. LaterAt(co2, pe2, S2, e, upper)
        BY <2>3, <2>4, <3>1 DEF LaterAt
      <4>3. c.lb = k => NextAt(co2, pe2, S2, e, upper)
        <5> SUFFICES ASSUME c.lb = k PROVE NextAt(co2, pe2, S2, e, upper)
          OBVIOUS
        <5>1. ~ (c.lb < k)
          BY <1>1 DEF Calls
        <5>2. d = 1
          BY <2>3, <3>1, <5>1
        <5> QED
          BY <2>1, <2>3, <2>4, <3>1, <5>2 DEF NextAt
      <4> QED
        BY <3>1, <4>1, <4>2, <4>3
    <3>2. CASE ~ (k < c.ub)
      BY <2>3, <3>2
    <3> QED
      BY <3>1, <3>2
  <2>9. new.call = c /\ k = Middle(c.lb, c.ub) /\ t = Text(c, lo, hi)
    BY <1>5 DEF k, t
  <2> HIDE DEF new
  <2> QED
    BY <2>2, <2>7, <2>8, <2>9 DEF Written, e, lower, upper
<1>12. \A s \in S2 : \E l, h \in Lab : Written(co2, pe2, S2, s, l, h)
  <2> TAKE s \in S2
  <2>1. s \in S \/ s = new
    OBVIOUS
  <2> HIDE DEF new, S2
  <2> QED
    BY <1>10, <1>11, <2>1
<1>13. Layout(co2, pe2, S2)
  <2> HIDE DEF S2
  <2> QED
    BY <1>6, <1>9, <1>12 DEF Layout
<1> QED
  BY <1>13 DEF co2, t, c

\* The labels it takes are new, and the one it writes was taken for this call.
LEMMA LabelsOnceGrows ==
    ASSUME SwitchInv, Divides(buckets, ncases), ncases > 0, deflab = ExitLabel,
           NEW co \in Seq(Instructions), NEW pe \in Seq(Calls), pe # << >>,
           NEW pe2 \in Seq(Calls), NEW g \in Nat, NEW d,
           NEW lo \in Lab, NEW hi \in Lab, CallsNext(pe, pe2, g, d, lo, hi),
           LabelsOnce(co, pe, g)
    PROVE  LabelsOnce(co \o Text(pe[1], lo, hi), pe2, g + d)
<1> DEFINE c == pe[1]
           k == Middle(c.lb, c.ub)
           t == Text(c, lo, hi)
           co2 == co \o t
           n == Len(co)
<1>1. Len(pe) \in Nat \ {0} /\ n \in Nat /\ Len(pe2) \in Nat
  BY LenProperties, EmptySeq
<1>2. c \in Calls
  BY <1>1, ElementOfSeq
<1>3. PICK b : IsTextOf(t, b, k, c, lo, hi)
  <2>1. deflab \in Lab
    BY SearchLabels
  <2> HIDE DEF c
  <2> QED
    BY <1>2, <2>1, TextShape
<1>4. /\ d \in {0, 1, 2} /\ Len(pe2) = d + (Len(pe) - 1)
      /\ \A i \in 2 .. Len(pe) : pe2[d + i - 1] = pe[i]
  BY DEF CallsNext
<1>5. \A i \in 1 .. d : pe2[i].lab = SearchLabel(g + i)
  <2> TAKE i \in 1 .. d
  <2>1. /\ IF c.lb < k THEN lo = SearchLabel(g + 1) /\ pe2[1].lab = lo ELSE TRUE
        /\ IF k < c.ub THEN hi = SearchLabel(g + d) /\ pe2[d].lab = hi ELSE TRUE
        /\ d = (IF c.lb < k THEN 1 ELSE 0) + (IF k < c.ub THEN 1 ELSE 0)
    BY DEF CallsNext
  <2> HIDE DEF c, k
  <2>2. (i = 1 /\ c.lb < k) \/ (i = d /\ k < c.ub)
    BY <2>1
  <2> QED
    BY <2>1, <2>2
\* Where the labels of the code and of the calls come from.
<1>6. ASSUME NEW p \in 1 .. Len(co2), co2[p].op = "LABEL"
      PROVE  \/ p \in 1 .. n /\ co[p].op = "LABEL" /\ co2[p].lab = co[p].lab
             \/ p = n + 1 /\ co2[p].lab = c.lab /\ c.lab # NoLabel
  <2> DEFINE I == Instructions
  <2>1. co \in Seq(I) /\ t \in Seq(I)
    BY <1>3 DEF IsTextOf
  <2>2. /\ Len(t) = Behind(c) + Len(b) /\ Len(b) \in Nat
        /\ c.lab # NoLabel => t[1] = [op |-> "LABEL", lab |-> c.lab]
        /\ \A i \in 1 .. Len(b) : t[Behind(c) + i] = b[i] /\ b[i].op # "LABEL"
    BY <1>3 DEF IsTextOf
  <2>3. Behind(c) \in {0, 1} /\ (Behind(c) = 1 <=> c.lab # NoLabel)
    BY DEF Behind
  <2> HIDE DEF t, I, c, k
  <2>4. Len(co2) = n + Len(t) /\ \A i \in 1 .. n + Len(t) : co2[i] = IF i <= n THEN co[i] ELSE t[i - n]
    BY <2>1, ConcatProperties
  <2> DEFINE m == Len(t)
             w == Behind(c)
             y == Len(b)
             i == p - n
  <2>5. m \in Nat /\ m = w + y /\ y \in Nat /\ w \in {0, 1} /\ p \in 1 .. n + m
    BY <2>2, <2>3, <2>4
  <2>6. CASE p <= n
    <3>1. co2[p] = co[p]
      BY <2>4, <2>5, <2>6
    <3>2. p \in 1 .. n
      <4> HIDE DEF n, m, w, y
      <4> QED
        BY <1>1, <2>5, <2>6
    <3> HIDE DEF co2
    <3> QED
      BY <1>6, <3>1, <3>2
  <2>7. CASE ~ (p <= n)
    <3>1. co2[p] = t[i]
      BY <2>4, <2>5, <2>7
    <3>2. i \in 1 .. m /\ (i \in w + 1 .. m \/ (i = 1 /\ w = 1))
      <4> HIDE DEF n, m, w, y
      <4> QED
        BY <1>1, <2>5, <2>7
    <3>3. CASE i \in w + 1 .. m
      <4> DEFINE j == i - w
      <4>1. j \in 1 .. y /\ w + j = i
        <5> HIDE DEF n, m, w, y, i
        <5> QED
          BY <1>1, <2>5, <3>3
      <4> HIDE DEF j, i, co2
      <4>2. t[w + j] = b[j] /\ b[j].op # "LABEL"
        BY <2>2, <4>1
      <4> QED
        BY <1>6, <3>1, <4>1, <4>2
    <3>4. CASE i = 1 /\ w = 1
      <4>1. p = n + 1 /\ c.lab # NoLabel
        <5>1. p = n + 1
          <6> HIDE DEF n, m, w, y
          <6> QED
            BY <1>1, <2>5, <3>4
        <5> QED
          BY <2>3, <3>4, <5>1
      <4>2. co2[p] = [op |-> "LABEL", lab |-> c.lab]
        BY <2>2, <3>1, <3>4, <4>1
      <4> HIDE DEF co2
      <4> QED
        BY <4>1, <4>2
    <3> QED
      BY <3>2, <3>3, <3>4
  <2> QED
    BY <2>5, <2>6, <2>7
<1>7. ASSUME NEW i \in 1 .. Len(pe2)
      PROVE  \/ i \in 1 .. d /\ pe2[i].lab = SearchLabel(g + i)
             \/ \E j \in 2 .. Len(pe) : i = d + j - 1 /\ pe2[i].lab = pe[j].lab
  <2>1. CASE i <= d
    <3>1. i \in 1 .. d
      BY <1>1, <1>4, <2>1
    <3> QED
      BY <1>5, <3>1
  <2>2. CASE ~ (i <= d)
    <3> DEFINE j == i - d + 1
    <3>1. j \in 2 .. Len(pe) /\ i = d + j - 1
      BY <1>1, <1>4, <2>2
    <3> HIDE DEF j
    <3> QED
      BY <1>4, <3>1
  <2> QED
    BY <1>1, <1>4, <2>1, <2>2
<1> HIDE DEF co2, t, k, c, n
<1>8. /\ \A p \in 1 .. n : co[p].op = "LABEL" => \E m \in 1 .. g : co[p].lab = SearchLabel(m)
      /\ \A i \in 1 .. Len(pe) : pe[i].lab # NoLabel => \E m \in 1 .. g : pe[i].lab = SearchLabel(m)
  BY DEF LabelsOnce, n
<1>9. /\ \A p, q \in 1 .. n :
            co[p].op = "LABEL" /\ co[q].op = "LABEL" /\ co[p].lab = co[q].lab => p = q
      /\ \A i, j \in 1 .. Len(pe) : pe[i].lab = pe[j].lab => i = j
      /\ \A p \in 1 .. n, i \in 1 .. Len(pe) : co[p].op = "LABEL" => co[p].lab # pe[i].lab
  BY DEF LabelsOnce, n
<1>10. 1 \in 1 .. Len(pe) /\ \A j \in 2 .. Len(pe) : j \in 1 .. Len(pe) /\ j # 1
  BY <1>1
<1>11. c.lab # NoLabel => \E m \in 1 .. g : c.lab = SearchLabel(m)
  BY <1>8, <1>10 DEF c
<1>12. /\ \A m \in 1 .. g : m \in 1 .. g + d /\ \A i \in 1 .. d : m # g + i
       /\ \A i \in 1 .. d : g + i \in 1 .. g + d
       /\ \A i, j \in 1 .. d : g + i = g + j => i = j
  BY <1>4
<1>13. \A m \in 1 .. g, i \in 1 .. d : SearchLabel(m) # SearchLabel(g + i)
  BY <1>12, LabelKinds
<1>14. \A p \in 1 .. Len(co2) : co2[p].op = "LABEL" => \E m \in 1 .. g : co2[p].lab = SearchLabel(m)
  BY <1>6, <1>8, <1>11
<1>15. \A i \in 1 .. Len(pe2) : pe2[i].lab # NoLabel =>
          \E m \in 1 .. g + d : pe2[i].lab = SearchLabel(m)
  <2> SUFFICES ASSUME NEW i \in 1 .. Len(pe2), pe2[i].lab # NoLabel
               PROVE  \E m \in 1 .. g + d : pe2[i].lab = SearchLabel(m)
    OBVIOUS
  <2>1. CASE i \in 1 .. d /\ pe2[i].lab = SearchLabel(g + i)
    BY <1>12, <2>1
  <2>2. CASE \E j \in 2 .. Len(pe) : i = d + j - 1 /\ pe2[i].lab = pe[j].lab
    BY <1>8, <1>10, <1>12, <2>2
  <2> QED
    BY <1>7, <2>1, <2>2
<1>16. ASSUME NEW p \in 1 .. Len(co2), NEW q \in 1 .. Len(co2),
              co2[p].op = "LABEL", co2[q].op = "LABEL", co2[p].lab = co2[q].lab
       PROVE  p = q
  <2>1. ASSUME NEW u \in 1 .. n, co[u].op = "LABEL" PROVE co[u].lab # c.lab
    BY <1>9, <1>10, <2>1 DEF c
  <2> QED
    BY <1>6, <1>9, <1>16, <2>1
<1>17. ASSUME NEW i \in 1 .. Len(pe2), NEW j \in 1 .. Len(pe2), pe2[i].lab = pe2[j].lab
       PROVE  i = j
  <2>1. ASSUME NEW u \in 2 .. Len(pe), NEW v \in 1 .. d PROVE pe[u].lab # SearchLabel(g + v)
    BY <1>8, <1>10, <1>13, LabelKinds
  <2>2. CASE i \in 1 .. d /\ pe2[i].lab = SearchLabel(g + i)
    <3>1. j \in 1 .. d /\ pe2[j].lab = SearchLabel(g + j)
      BY <1>7, <1>17, <2>1, <2>2
    <3>2. g + i = g + j
      BY <1>17, <2>2, <3>1, LabelKinds
    <3> QED
      BY <1>12, <2>2, <3>1, <3>2
  <2>3. CASE \E u \in 2 .. Len(pe) : i = d + u - 1 /\ pe2[i].lab = pe[u].lab
    <3>1. PICK u \in 2 .. Len(pe) : i = d + u - 1 /\ pe2[i].lab = pe[u].lab
      BY <2>3
    <3>2. ~ (j \in 1 .. d /\ pe2[j].lab = SearchLabel(g + j))
      BY <1>17, <2>1, <3>1
    <3>3. PICK v \in 2 .. Len(pe) : j = d + v - 1 /\ pe2[j].lab = pe[v].lab
      BY <1>7, <3>2
    <3>4. u = v
      BY <1>9, <1>10, <1>17, <3>1, <3>3
    <3> QED
      BY <3>1, <3>3, <3>4
  <2> QED
    BY <1>7, <2>2, <2>3
<1>18. ASSUME NEW p \in 1 .. Len(co2), NEW i \in 1 .. Len(pe2), co2[p].op = "LABEL"
       PROVE  co2[p].lab # pe2[i].lab
  <2>1. CASE i \in 1 .. d /\ pe2[i].lab = SearchLabel(g + i)
    BY <1>13, <1>14, <1>18, <2>1
  <2>2. CASE \E j \in 2 .. Len(pe) : i = d + j - 1 /\ pe2[i].lab = pe[j].lab
    <3>1. PICK j \in 2 .. Len(pe) : pe2[i].lab = pe[j].lab
      BY <2>2
    <3>2. j \in 1 .. Len(pe) /\ pe[1].lab # pe[j].lab
      BY <1>9, <1>10
    <3> QED
      BY <1>6, <1>9, <1>18, <3>1, <3>2 DEF c
  <2> QED
    BY <1>7, <2>1, <2>2
<1>19. \A p \in 1 .. Len(co2) : co2[p].op = "LABEL" =>
          \E m \in 1 .. g + d : co2[p].lab = SearchLabel(m)
  BY <1>12, <1>14
<1>20. LabelsOnce(co2, pe2, g + d)
  BY <1>15, <1>16, <1>17, <1>18, <1>19 DEF LabelsOnce
<1> QED
  BY <1>20 DEF co2, t, c

\* s is x and y, of at most one element each and d together, before r.
InFront(s, x, y, r, d) ==
    /\ Len(s) = d + Len(r)
    /\ \A i \in 1 .. Len(r) : s[d + i] = r[i]
    /\ Len(x) = 1 => s[1] = x[1]
    /\ Len(y) = 1 => s[d] = y[1]

LEMMA ThreeParts ==
    ASSUME NEW C, NEW x \in Seq(C), NEW y \in Seq(C), NEW r \in Seq(C),
           Len(x) \in {0, 1}, Len(y) \in {0, 1}, NEW d, d = Len(x) + Len(y)
    PROVE  InFront(x \o y \o r, x, y, r, d)
<1> DEFINE z == x \o y
           a == Len(x)
           b == Len(y)
           n == Len(r)
<1>1. n \in Nat /\ a \in {0, 1} /\ b \in {0, 1} /\ d = a + b
  BY LenProperties
<1>2. z \in Seq(C) /\ Len(z) = a + b /\ \A i \in 1 .. a + b : z[i] = IF i <= a THEN x[i] ELSE y[i - a]
  BY ConcatProperties
<1> HIDE DEF z
<1>3. /\ Len(z \o r) = d + n
      /\ \A i \in 1 .. d + n : (z \o r)[i] = IF i <= d THEN z[i] ELSE r[i - d]
  <2> HIDE DEF a, b, n
  <2>1. Len(z) = d
    BY <1>1, <1>2
  <2>2. /\ Len(z \o r) = Len(z) + Len(r)
        /\ \A i \in 1 .. Len(z) + Len(r) :
              (z \o r)[i] = IF i <= Len(z) THEN z[i] ELSE r[i - Len(z)]
    BY <1>2, ConcatProperties
  <2> QED
    BY <2>1, <2>2 DEF n
<1> DEFINE s == z \o r
<1> HIDE DEF s, a, b, n
<1>4. \A i \in 1 .. n : d + i \in 1 .. d + n /\ ~ (d + i <= d) /\ (d + i) - d = i
  BY <1>1
<1>5. \A i \in 1 .. n : s[d + i] = r[i]
  BY <1>3, <1>4 DEF s
<1>6. a = 1 => s[1] = x[1]
  BY <1>1, <1>2, <1>3 DEF s
<1>7. b = 1 => s[d] = y[1]
  <2> SUFFICES ASSUME b = 1 PROVE s[d] = y[1]
    OBVIOUS
  <2>1. d \in 1 .. d + n /\ d <= d /\ d \in 1 .. a + b /\ ~ (d <= a) /\ d - a = 1
    BY <1>1
  <2> QED
    BY <1>2, <1>3, <2>1 DEF s
<1>8. InFront(s, x, y, r, d)
  BY <1>3, <1>5, <1>6, <1>7 DEF InFront, s, a, b, n
<1> QED
  BY <1>8 DEF s, z

\* What a call of swcode does, in the terms of the layout.
LEMMA SwCodeCalls ==
    ASSUME SwitchInv, SearchInv, SwCode
    PROVE  \E d : \E lo, hi \in Lab :
              /\ code' = code \o Text(pending[1], lo, hi)
              /\ genlabs' = genlabs + d
              /\ CallsNext(pending, pending', genlabs, d, lo, hi)
<1> DEFINE c == Head(pending)
           k == Middle(c.lb, c.ub)
           below == k > c.lb
           above == k < c.ub
           lo == IF below THEN SearchLabel(genlabs + 1) ELSE deflab
           hi == IF ~ above THEN deflab
                 ELSE SearchLabel(genlabs + (IF below THEN 2 ELSE 1))
           start == IF c.lab = NoLabel THEN << >>
                    ELSE <<[op |-> "LABEL", lab |-> c.lab]>>
           text == BucketCode(c.lb, k, c.ub, lo, hi)
           a == [lb |-> c.lb, ub |-> k - 1, lab |-> lo]
           b == [lb |-> k + 1, ub |-> c.ub, lab |-> hi]
           lower == IF below THEN <<a>> ELSE << >>
           upper == IF above THEN <<b>> ELSE << >>
           taken == {n \in {1, 2} : (n = 1 /\ below) \/ (n = 2 /\ above)}
           d == (IF c.lb < k THEN 1 ELSE 0) + (IF k < c.ub THEN 1 ELSE 0)
           I == Instructions
           C == Calls
<1>1. /\ pending # << >> /\ deflab = ExitLabel /\ ncases > 0 /\ Divides(buckets, ncases)
      /\ code \in Seq(I) /\ pending \in Seq(C) /\ genlabs \in Nat
  BY DEF SwCode, SearchInv
<1>2. /\ code' = code \o start \o text
      /\ genlabs' = genlabs + Cardinality(taken)
      /\ pending' = lower \o upper \o Tail(pending)
  BY DEF SwCode
<1>3. c = pending[1] /\ c \in C /\ Tail(pending) \in Seq(C)
      /\ Len(pending) \in Nat \ {0} /\ Len(Tail(pending)) = Len(pending) - 1
      /\ \A i \in 1 .. Len(pending) - 1 : Tail(pending)[i] = pending[i + 1]
  <2> HIDE DEF C
  <2>1. Len(pending) \in Nat \ {0}
    BY <1>1, LenProperties, EmptySeq
  <2> QED
    BY <1>1, <2>1, HeadTailProperties
<1>4. Len(buckets) \in Nat
  BY <1>1, LenProperties DEF Divides
<1>5. /\ c.lb \in 1 .. Len(buckets) /\ c.ub \in 1 .. Len(buckets) /\ c.lab \in Lab
      /\ c.lb <= c.ub
  BY <1>3 DEF Calls
<1>6. k \in c.lb .. c.ub /\ k \in 1 .. Len(buckets)
  BY <1>4, <1>5 DEF Middle
<1> HIDE DEF k
<1>7. lo \in Lab /\ hi \in Lab /\ deflab \in Lab
  <2>1. genlabs + 1 \in Nat /\ genlabs + 2 \in Nat
    BY <1>1
  <2> QED
    BY <1>1, <2>1, SearchLabels
<1>8. (below => a \in C) /\ (above => b \in C)
  <2> HIDE DEF lo, hi
  <2> QED
    BY <1>4, <1>5, <1>6, <1>7 DEF Calls
<1>9. start \in Seq(I) /\ text \in Seq(I)
  <2>1. text \in Seq(I)
    <3> HIDE DEF lo, hi
    <3> QED
      BY <1>1, <1>6, <1>7, BucketWritten
  <2> DEFINE m == [op |-> "LABEL", lab |-> c.lab]
  <2>2. m \in I
    BY <1>5 DEF Instructions
  <2>3. start = IF c.lab = NoLabel THEN << >> ELSE <<m>>
    OBVIOUS
  <2> HIDE DEF I, m, text, start
  <2>4. start \in Seq(I)
    BY <2>2, <2>3
  <2> QED
    BY <2>1, <2>4
<1>10. code' = code \o Text(pending[1], lo, hi)
  <2>1. Text(c, lo, hi) = start \o text
    BY DEF Text, k
  <2> HIDE DEF I, start, text, c, lo, hi
  <2>2. (code \o start) \o text = code \o (start \o text)
    BY <1>1, <1>9, Associative
  <2> QED
    BY <1>2, <1>3, <2>1, <2>2
\* The labels taken.
<1>11. Cardinality(taken) = d
  <2>1. /\ (below <=> c.lb < k) /\ (above <=> k < c.ub)
    BY <1>4, <1>5, <1>6
  <2>2. /\ Cardinality({}) = 0 /\ Cardinality({1}) = 1 /\ Cardinality({2}) = 1
        /\ Cardinality({1, 2}) = 2
    <3>1. /\ IsFiniteSet({1}) /\ Cardinality({1}) = 1 /\ Cardinality({2}) = 1 /\ Cardinality({}) = 0
      BY FS_Singleton, FS_EmptySet
    <3>2. {1, 2} = {1} \cup {2} /\ 2 \notin {1}
      OBVIOUS
    <3> QED
      BY <3>1, <3>2, FS_AddElement
  <2> HIDE DEF k, c
  <2>3. CASE below /\ above
    <3>1. taken = {1, 2}
      BY <2>3
    <3> QED
      BY <2>1, <2>2, <2>3, <3>1
  <2>4. CASE below /\ ~ above
    <3>1. taken = {1}
      BY <2>4
    <3> QED
      BY <2>1, <2>2, <2>4, <3>1
  <2>5. CASE ~ below /\ above
    <3>1. taken = {2}
      BY <2>5
    <3> QED
      BY <2>1, <2>2, <2>5, <3>1
  <2>6. CASE ~ below /\ ~ above
    <3>1. taken = {}
      BY <2>6
    <3> QED
      BY <2>1, <2>2, <2>6, <3>1
  <2> QED
    BY <2>3, <2>4, <2>5, <2>6
\* The calls made.
<1>12. (below <=> c.lb < k) /\ (above <=> k < c.ub)
  BY <1>4, <1>5, <1>6
<1>13. lower \in Seq(C) /\ upper \in Seq(C)
  <2> HIDE DEF C, a, b
  <2> QED
    BY <1>8
<1>14. /\ Len(lower) = IF c.lb < k THEN 1 ELSE 0
       /\ Len(upper) = IF k < c.ub THEN 1 ELSE 0
       /\ below => lower[1] = a
       /\ above => upper[1] = b
  <2> HIDE DEF a, b, c
  <2> QED
    BY <1>12
<1> DEFINE r == Tail(pending)
<1>15. /\ Len(pending') = d + Len(r)
       /\ \A i \in 1 .. Len(r) : pending'[d + i] = r[i]
       /\ below => pending'[1] = a
       /\ above => pending'[d] = b
  <2>1. Len(lower) \in {0, 1} /\ Len(upper) \in {0, 1}
    <3> HIDE DEF lower, upper, a, b, c, C
    <3> QED
      BY <1>14
  <2>2. d = Len(lower) + Len(upper)
    <3> HIDE DEF lower, upper, a, b, c, C
    <3> QED
      BY <1>14
  <2>3. (below => Len(lower) = 1) /\ (above => Len(upper) = 1)
    <3> HIDE DEF lower, upper, a, b, c, C
    <3> QED
      BY <1>12, <1>14
  <2>4. pending' = lower \o upper \o r
    BY <1>2
  <2>5. r \in Seq(C)
    BY <1>3
  <2> HIDE DEF lower, upper, a, b, c, C, r, d
  <2>6. InFront(lower \o upper \o r, lower, upper, r, d)
    BY <1>13, <2>1, <2>2, <2>5, ThreeParts, Zenon
  <2> QED
    BY <1>14, <2>3, <2>4, <2>6 DEF InFront
<1>16. d \in {0, 1, 2}
  OBVIOUS
<1>17. Len(pending') = d + (Len(pending) - 1)
       /\ \A i \in 2 .. Len(pending) : pending'[d + i - 1] = pending[i]
  <2>1. \A i \in 2 .. Len(pending) : i - 1 \in 1 .. Len(pending) - 1 /\ (i - 1) + 1 = i /\ d + (i - 1) = d + i - 1
    BY <1>3, <1>16
  <2> HIDE DEF d, c
  <2> QED
    BY <1>3, <1>15, <2>1
<1>18. IF c.lb < k THEN lo = SearchLabel(genlabs + 1) /\ d > 0 /\ pending'[1] = a ELSE lo = ExitLabel
  <2> HIDE DEF a, c
  <2> QED
    BY <1>1, <1>12, <1>15
<1>19. IF k < c.ub THEN hi = SearchLabel(genlabs + d) /\ d > 0 /\ pending'[d] = b ELSE hi = ExitLabel
  <2> HIDE DEF b, c
  <2> QED
    BY <1>1, <1>12, <1>15
<1>20. CallsNext(pending, pending', genlabs, d, lo, hi)
  <2>1. c = pending[1]
    BY <1>3
  <2> HIDE DEF lo, hi, c
  <2>2. /\ d = (IF c.lb < k THEN 1 ELSE 0) + (IF k < c.ub THEN 1 ELSE 0)
    OBVIOUS
  <2> HIDE DEF d
  <2> QED
    BY <1>16, <1>17, <1>18, <1>19, <2>1, <2>2 DEF CallsNext, k
<1>21. genlabs' = genlabs + d
  BY <1>2, <1>11
<1> HIDE DEF lo, hi, d
<1> QED
  BY <1>7, <1>10, <1>20, <1>21

LEMMA SameTexts ==
    ASSUME UNCHANGED <<values, labels, deflab, buckets>>, NEW S
    PROVE  Layout(code, pending, S)' <=> Layout(code', pending', S)
<1>1. values' = values /\ labels' = labels /\ deflab' = deflab /\ buckets' = buckets
  OBVIOUS
<1>2. ncases' = ncases
  BY <1>1 DEF ncases
<1>3. \A k : Lowest(k)' = Lowest(k) /\ Highest(k)' = Highest(k)
  BY <1>1, <1>2 DEF Lowest, Highest
<1>4. \A j : Entries(j)' = Entries(j)
  BY <1>1 DEF Entries
<1>5. \A l, u : Table(l, u)' = Table(l, u)
  BY <1>1, <1>4 DEF Table
<1>6. \A op, i, to : Test(op, i, to)' = Test(op, i, to)
  BY <1>1 DEF Test
<1>7. \A lb, k, ub, lo, hi : BucketCode(lb, k, ub, lo, hi)' = BucketCode(lb, k, ub, lo, hi)
  <2> TAKE lb, k, ub, lo, hi
  <2>1. Comparisons(lb, k, ub, lo, hi)' = Comparisons(lb, k, ub, lo, hi)
    <3>1. Lowest(k)' = Lowest(k) /\ Highest(k)' = Highest(k)
      BY <1>3
    <3>2. [i \in 1 .. Highest(k) - Lowest(k) + 1 |->
              Test("EQ", Lowest(k) + i - 1, labels[Lowest(k) + i - 1])]'
          = [i \in 1 .. Highest(k) - Lowest(k) + 1 |->
                Test("EQ", Lowest(k) + i - 1, labels[Lowest(k) + i - 1])]
      BY <1>1, <3>1 DEF Test
    <3>3. /\ Test("GT", Highest(k), hi)' = Test("GT", Highest(k), hi)
          /\ Test("LT", Lowest(k), lo)' = Test("LT", Lowest(k), lo)
      BY <1>1, <3>1 DEF Test
    <3> QED
      BY <3>1, <3>2, <3>3 DEF Comparisons
  <2>2. JumpTable(k, lo, hi)' = JumpTable(k, lo, hi)
    <3>1. Lowest(k)' = Lowest(k) /\ Highest(k)' = Highest(k)
      BY <1>3
    <3>2. Table(Lowest(k), Highest(k))' = Table(Lowest(k), Highest(k))
      BY <1>5, <3>1
    <3> QED
      BY <1>1, <3>1, <3>2 DEF JumpTable, Test
  <2> QED
    BY <1>3, <2>1, <2>2 DEF BucketCode
<1>8. \A c, lo, hi : Text(c, lo, hi)' = Text(c, lo, hi)
  BY <1>7 DEF Text
<1>9. \A s, lo, hi : Written(code, pending, S, s, lo, hi)' <=> Written(code', pending', S, s, lo, hi)
  <2> TAKE s, lo, hi
  <2>1. Text(s.call, lo, hi)' = Text(s.call, lo, hi)
    BY <1>8
  <2> QED
    BY <2>1 DEF Written, Holds, NextAt, LaterAt
<1>10. Calls' = Calls /\ buckets' = buckets
  BY <1>1 DEF Calls
<1> QED
  BY <1>9, <1>10 DEF Layout, NextAt

-----------------------------------------------------------------------------
(* The search, at every step *)

\* The code is laid out from the first call of swcode on, and without a case
\* there is only the jump.
SearchLaid ==
    /\ phase = "code" \/ (phase = "done" /\ ncases > 0) =>
          LabelsOnce(code, pending, genlabs) /\ \E S : Layout(code, pending, S)
    /\ phase = "done" => pending = << >>
    /\ phase = "done" /\ ~ (ncases > 0) => code = <<[op |-> "BRANCH", to |-> ExitLabel]>>

LEMMA StartLaid ==
    ASSUME SwitchInv, SearchInv, StartSearch, UNCHANGED density
    PROVE  LabelsOnce(code, pending, genlabs)' /\ \E S : Layout(code, pending, S)'
<1> DEFINE top == [lb |-> 1, ub |-> Len(buckets), lab |-> NoLabel]
<1>1. code' = << >> /\ pending' = <<top>> /\ UNCHANGED <<values, labels, deflab, buckets>>
  BY DEF StartSearch, SearchInv
<1>2. Len(code') = 0 /\ Len(pending') = 1 /\ pending'[1] = top /\ pending' # << >>
  <2> HIDE DEF top
  <2> QED
    BY <1>1
<1>3. LabelsOnce(code, pending, genlabs)'
  <2>1. \A i \in 1 .. Len(pending') : i = 1
    BY <1>2
  <2>2. \A p : ~ (p \in 1 .. Len(code'))
    BY <1>2
  <2>3. pending'[1].lab = NoLabel
    BY <1>2
  <2> QED
    BY <2>1, <2>2, <2>3 DEF LabelsOnce
<1>4. Layout(code', pending', {})
  <2>1. NextAt(code', pending', {}, 1, top)
    <3> HIDE DEF top
    <3> QED
      BY <1>2 DEF NextAt
  <2> QED
    BY <2>1 DEF Layout
<1>5. Layout(code, pending, {})'
  BY <1>1, <1>4, SameTexts
<1> QED
  BY <1>3, <1>5

LEMMA SwCodeLays ==
    ASSUME SwitchInv, SearchInv, SwCode,
           LabelsOnce(code, pending, genlabs), NEW S, Layout(code, pending, S)
    PROVE  LabelsOnce(code, pending, genlabs)' /\ \E R : Layout(code, pending, R)'
<1>1. /\ pending # << >> /\ deflab = ExitLabel /\ ncases > 0 /\ Divides(buckets, ncases)
      /\ code \in Seq(Instructions) /\ pending \in Seq(Calls) /\ genlabs \in Nat
      /\ UNCHANGED <<values, labels, deflab, buckets>>
  BY DEF SwCode, SearchInv
<1>2. pending' \in Seq(Calls)
  BY SwCodeWrites
<1>3. PICK d : \E lo, hi \in Lab :
         /\ code' = code \o Text(pending[1], lo, hi)
         /\ genlabs' = genlabs + d
         /\ CallsNext(pending, pending', genlabs, d, lo, hi)
  BY SwCodeCalls
<1>4. PICK lo \in Lab, hi \in Lab :
         /\ code' = code \o Text(pending[1], lo, hi)
         /\ genlabs' = genlabs + d
         /\ CallsNext(pending, pending', genlabs, d, lo, hi)
  BY <1>3
<1>5. LabelsOnce(code \o Text(pending[1], lo, hi), pending', genlabs + d)
  BY <1>1, <1>2, <1>4, LabelsOnceGrows
<1>6. LabelsOnce(code, pending, genlabs)'
  <2>1. LabelsOnce(code', pending', genlabs')
    BY <1>4, <1>5
  <2> QED
    BY <2>1 DEF LabelsOnce
<1> DEFINE R == S \cup {[at |-> Len(code) + 1, call |-> pending[1]]}
<1>7. Layout(code \o Text(pending[1], lo, hi), pending', R)
  BY <1>1, <1>2, <1>4, LayoutGrows
<1>8. \E Q : Q = R
  OBVIOUS
<1>9. PICK Q : Q = R
  BY <1>8
<1>10. Layout(code', pending', Q)
  BY <1>4, <1>7, <1>9
<1>11. Layout(code, pending, Q)'
  BY <1>1, <1>10, SameTexts
<1> QED
  BY <1>6, <1>11

LEMMA SearchLaidStep ==
    SwitchInv /\ SearchInv /\ SearchLaid /\ [Next]_vars => SearchLaid'
<1> SUFFICES ASSUME SwitchInv, SearchInv, SearchLaid, [Next]_vars PROVE SearchLaid'
  OBVIOUS
<1>1. UNCHANGED density
  BY DEF Next, vars
<1>2. ASSUME NEW c \in Constants, CaseLabel(c) PROVE SearchLaid'
  BY <1>2 DEF CaseLabel, SearchLaid
<1>3. CASE DefaultLabel
  BY <1>3 DEF DefaultLabel, SearchLaid
<1>4. CASE EndOfBody
  <2>1. values' = values /\ pending' = << >> /\ phase' \in {"buckets", "done"}
    BY <1>4 DEF EndOfBody, SearchInv
  <2>2. ncases' = ncases
    BY <2>1 DEF ncases
  <2>3. /\ phase' = "done" <=> ~ (ncases > 0)
        /\ ~ (ncases > 0) => code' = <<[op |-> "BRANCH", to |-> ExitLabel]>>
    BY <1>4 DEF EndOfBody
  <2> QED
    BY <2>1, <2>2, <2>3 DEF SearchLaid
<1>5. CASE Bucket
  BY <1>5 DEF Bucket, SearchLaid
<1>6. CASE StartSearch
  <2>1. phase' = "code"
    BY <1>6 DEF StartSearch
  <2> QED
    BY <1>1, <1>6, <2>1, StartLaid DEF SearchLaid
<1>7. CASE SwCode
  <2>1. phase = "code" /\ phase' = "code"
    BY <1>7 DEF SwCode
  <2>2. PICK S : LabelsOnce(code, pending, genlabs) /\ Layout(code, pending, S)
    BY <2>1 DEF SearchLaid
  <2>3. LabelsOnce(code, pending, genlabs)' /\ \E R : Layout(code, pending, R)'
    BY <1>7, <2>2, SwCodeLays
  <2> QED
    BY <2>1, <2>3 DEF SearchLaid
<1>8. CASE EndOfSearch \/ UNCHANGED vars
  <2>1. /\ UNCHANGED <<values, labels, deflab, buckets, code, pending, genlabs>>
        /\ phase' = phase \/ (phase = "code" /\ phase' = "done" /\ pending = << >>)
    BY <1>8 DEF EndOfSearch, vars
  <2>2. ncases' = ncases
    BY <2>1 DEF ncases
  <2>3. LabelsOnce(code, pending, genlabs)' <=> LabelsOnce(code, pending, genlabs)
    BY <2>1 DEF LabelsOnce
  <2>4. \A S : Layout(code, pending, S)' <=> Layout(code, pending, S)
    <3> TAKE S
    <3>1. Layout(code, pending, S)' <=> Layout(code', pending', S)
      BY <2>1, SameTexts
    <3> QED
      BY <2>1, <3>1
  <2>5. phase = "code" => ncases > 0
    BY DEF SearchInv
  <2> QED
    BY <2>1, <2>2, <2>3, <2>4, <2>5 DEF SearchLaid
<1> QED
  BY <1>2, <1>3, <1>4, <1>5, <1>6, <1>7, <1>8 DEF Next, Terminating

\* What the search promises, for every width, density and set of constants: each
\* value of the type arrives at its case, or at the default label, whichever of
\* comparisons, jump tables and search labels are on its way.
THEOREM SelectsCaseHolds == Spec => []SelectsCase
<1>1. Init => SearchLaid
  BY DEF Init, SearchLaid
<1>2. SwitchInv /\ SearchInv /\ SearchLaid => SelectsCase
  <2> SUFFICES ASSUME SwitchInv, SearchInv, SearchLaid, phase = "done", dups = 0,
                      NEW x \in Word
               PROVE  Arrives(x) = IF \E c \in cases : SameValue(c, x)
                                   THEN CaseLabelOf(CHOOSE c \in cases : SameValue(c, x))
                                   ELSE ExitLabel
    BY DEF SelectsCase
  <2>1. x \in Int
    BY WordExtended
  <2>2. deflab = ExitLabel /\ code \in Seq(Instructions) /\ pending = << >>
    BY DEF SearchInv, SearchLaid
  <2>3. ncases \in Nat /\ Increasing
    BY <2>2, SearchLabels, ArraysTyped
  <2>4. CASE ncases > 0
    <3>1. Compiled
      BY <2>2, <2>3, <2>4 DEF Compiled, SearchInv
    <3>2. PICK S : LabelsOnce(code, pending, genlabs) /\ Layout(code, pending, S)
      BY <2>4 DEF SearchLaid
    <3>3. Selects(Arrives(x), x)
      BY <2>1, <3>1, <3>2, SearchSelects
    <3> QED
      BY <3>3, SelectedCase
  <2>5. CASE ~ (ncases > 0)
    <3>1. code = <<[op |-> "BRANCH", to |-> ExitLabel]>>
      BY <2>5 DEF SearchLaid
    <3>2. Len(code) = 1 /\ code[1].op = "BRANCH" /\ code[1].to = ExitLabel
      BY <3>1
    <3>3. PICK f : Executes(f, x) /\ Arrives(x) = f[1]
      BY <3>2, ExecutionExists
    <3>4. f[1] = ArrivesFrom(f, 1, x)
      BY <3>2, <3>3 DEF Executes
    <3>5. ArrivesFrom(f, 1, x) = Goes(f, 1, ExitLabel)
      BY <3>2 DEF ArrivesFrom, Taken
    <3>6. Arrives(x) = ExitLabel
      BY <3>3, <3>4, <3>5, LabelArrives
    <3>7. Selects(ExitLabel, x)
      BY <2>3, <2>5 DEF Selects
    <3> QED
      BY <3>6, <3>7, SelectedCase
  <2> QED
    BY <2>4, <2>5
<1> QED
  BY <1>1, <1>2, SearchInvariant, SearchLaidStep, PTL DEF Spec
=============================================================================
