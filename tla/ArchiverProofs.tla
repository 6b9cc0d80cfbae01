-------------------------- MODULE ArchiverProofs --------------------------
(***************************************************************************)
(* Theorems about the archiver for every set of files, contents and        *)
(* commands: the loop over the members and the two temporary files leaves  *)
(* the archive asked for, which no kill loses.                             *)
(***************************************************************************)
EXTENDS Archiver, Recursion, FiniteSetTheorems

---------------------------------------------------------------------------
(* What a job makes of an archive *)

\* The files of the directory, and the jobs there are: the commands, and
\* adding the symbol directory.
Disk == [Named -> OnDisk \cup {Missing}]
Job == Command \cup
       [op : {"r"}, args : {<<SYMDEF>>}, where : {"b"}, at : Named,
        u : {FALSE}, s : {FALSE}]

\* No two members have a name in common.
Unique(a) == \A i, k \in DOMAIN a : a[i].name = a[k].name => i = k
NameOf == [m \in Member |-> m.name]

LEMMA JobType ==
    ASSUME NEW j \in Job
    PROVE  /\ j.args \in Seq(Named) /\ j.op \in {"d", "r", "t", "x", "none"}
           /\ \A i, k \in DOMAIN j.args : j.args[i] = j.args[k] => i = k
           /\ j.where \in {"a", "b", "none"} /\ j.at \in Named /\ j.u \in BOOLEAN
<1>1. CASE j \in Command
  <2>1. IsCommand(j)
    BY <1>1, ArchiverAssumption
  <2>2. j.args \in Seq(File) /\ File \subseteq Named
    BY <2>1 DEF IsCommand, Named
  <2>3. j.args \in Seq(Named)
    BY <2>2, SeqMonotonic
  <2>4. \A i, k \in DOMAIN j.args : j.args[i] = j.args[k] => i = k
    BY <2>1, Zenon DEF IsCommand
  <2>5. j.op \in {"d", "r", "t", "x", "none"} /\ j.where \in {"a", "b", "none"} /\ j.u \in BOOLEAN
    BY <2>1, Zenon DEF IsCommand
  <2>6. j.at \in Named
    BY <2>1, <2>2 DEF IsCommand
  <2> QED
    BY <2>3, <2>4, <2>5, <2>6, Zenon
<1>2. CASE j \notin Command
  <2>1. /\ j.op = "r" /\ j.args = <<SYMDEF>> /\ j.where = "b" /\ j.at \in Named
        /\ j.u = FALSE
    BY <1>2 DEF Job
  <2>2. <<SYMDEF>> \in Seq(Named) /\ DOMAIN <<SYMDEF>> = {1}
    BY DEF Named
  <2>3. j.args \in Seq(Named) /\ \A i, k \in DOMAIN j.args : i = k
    BY <2>1, <2>2
  <2> QED
    BY <2>1, <2>3, Zenon
<1> QED
  BY <1>1, <1>2

\* Files taken as members are members, under their own names.
LEMMA AsMembersType ==
    ASSUME NEW d \in Disk, NEW names \in Seq(Named),
           \A i \in DOMAIN names : d[names[i]] # Missing
    PROVE  /\ AsMembers(d, names) \in Seq(Member)
           /\ Len(AsMembers(d, names)) = Len(names)
           /\ DOMAIN AsMembers(d, names) = DOMAIN names
           /\ \A i \in DOMAIN names : AsMembers(d, names)[i].name = names[i]
<1> DEFINE n == Len(names)
           f == AsMembers(d, names)
<1>1. n \in Nat /\ DOMAIN names = 1 .. n
  BY LenProperties
<1>2. \A i \in 1 .. n : f[i] = FromFile(d, names[i])
  BY <1>1 DEF AsMembers
<1>3. DOMAIN f = 1 .. n /\ f = [i \in 1 .. n |-> f[i]]
  BY <1>1 DEF AsMembers
<1>4. ASSUME NEW i \in 1 .. n PROVE f[i] \in Member /\ f[i].name = names[i]
  <2>1. names[i] \in Named
    BY ElementOfSeq
  <2>2. d[names[i]] \in OnDisk
    BY <1>1, <2>1 DEF Disk
  <2>3. f[i] = FromFile(d, names[i])
    BY <1>2
  <2> HIDE DEF f
  <2> QED
    BY <2>1, <2>2, <2>3 DEF FromFile, Member, OnDisk
<1> HIDE DEF f, n
<1>5. f \in [1 .. n -> Member]
  BY <1>3, <1>4
<1>6. f \in Seq(Member) /\ Len(f) = n
  BY <1>1, <1>5, FunctionIsSeq
<1> QED
  BY <1>1, <1>3, <1>4, <1>6 DEF f, n

\* The new members are members, under names asked for that are no members
\* yet, and no name comes twice.
LEMMA AddedType ==
    ASSUME NEW j \in Job, NEW a, NEW d \in Disk
    PROVE  /\ Added(j, a, d) \in Seq(Member)
           /\ Unique(Added(j, a, d))
           /\ \A i \in DOMAIN Added(j, a, d) :
                 /\ Added(j, a, d)[i].name \in NamedBy(j)
                 /\ Added(j, a, d)[i].name \notin NamesIn(a)
<1> DEFINE S == Readable(d) \ NamesIn(a)
           names == Only(j.args, S)
           key == [n \in Named |-> n]
<1>1. j.args \in Seq(Named) /\ \A i, k \in DOMAIN j.args : j.args[i] = j.args[k] => i = k
  BY JobType
<1> HIDE DEF S
<1>2. names \in Seq(Named)
  BY <1>1, OnlyNext
<1>3. ASSUME NEW i \in DOMAIN names
      PROVE  names[i] \in S /\ names[i] \in NamedBy(j) /\ names[i] \in Named
  <2>1. \E k \in DOMAIN j.args : Only(j.args, S)[i] = j.args[k] /\ j.args[k] \in S
    BY <1>1, OnlyElements
  <2>2. names[i] \in Named
    BY <1>2, ElementOfSeq, LenProperties
  <2> QED
    BY <2>1, <2>2 DEF NamedBy
<1>4. \A i, k \in DOMAIN names : names[i] = names[k] => i = k
  <2>1. \A i, k \in DOMAIN j.args : key[j.args[i]] = key[j.args[k]] => i = k
    BY <1>1, ElementOfSeq, LenProperties
  <2> HIDE DEF key
  <2>2. \A i, k \in DOMAIN names : key[names[i]] = key[names[k]] => i = k
    BY <1>1, <2>1, OnlyDistinct, Zenon
  <2> QED
    BY <1>3, <2>2 DEF key
<1> HIDE DEF names
<1>5. \A i \in DOMAIN names : d[names[i]] # Missing
  BY <1>3 DEF S, Readable
<1>6. /\ AsMembers(d, names) \in Seq(Member) /\ DOMAIN AsMembers(d, names) = DOMAIN names
      /\ \A i \in DOMAIN names : AsMembers(d, names)[i].name = names[i]
  BY <1>2, <1>5, AsMembersType
<1>7. Added(j, a, d) = AsMembers(d, names)
  BY DEF Added, names, S
<1>8. \A i \in DOMAIN names : names[i] \notin NamesIn(a)
  BY <1>3 DEF S
<1> HIDE DEF S
<1> QED
  BY <1>3, <1>4, <1>6, <1>7, <1>8 DEF Unique

\* Replacing leaves the number of members and their names.
LEMMA ReplacedType ==
    ASSUME NEW j \in Job, NEW a \in Seq(Member), NEW d \in Disk
    PROVE  /\ Replaced(j, a, d) \in Seq(Member)
           /\ Len(Replaced(j, a, d)) = Len(a)
           /\ DOMAIN Replaced(j, a, d) = DOMAIN a
           /\ \A i \in DOMAIN a : Replaced(j, a, d)[i].name = a[i].name
<1> DEFINE n == Len(a)
           r == Replaced(j, a, d)
<1>1. n \in Nat /\ DOMAIN a = 1 .. n
  BY LenProperties
<1>2. \A i \in 1 .. n : r[i] = IF Replaces(j, d, a[i]) THEN FromFile(d, a[i].name) ELSE a[i]
  BY <1>1 DEF Replaced
<1>3. DOMAIN r = 1 .. n /\ r = [i \in 1 .. n |-> r[i]]
  BY <1>1 DEF Replaced
<1>4. ASSUME NEW i \in 1 .. n PROVE r[i] \in Member /\ r[i].name = a[i].name
  <2>1. a[i] \in Member
    BY ElementOfSeq
  <2>2. a[i].name \in Named
    BY <2>1 DEF Member
  <2>3. CASE Replaces(j, d, a[i])
    <3>1. d[a[i].name] \in OnDisk
      BY <2>2, <2>3 DEF Disk, Replaces
    <3>2. r[i] = FromFile(d, a[i].name)
      BY <1>2, <2>3
    <3> QED
      BY <2>2, <3>1, <3>2 DEF FromFile, Member, OnDisk
  <2>4. CASE ~Replaces(j, d, a[i])
    BY <1>2, <2>1, <2>4
  <2> QED
    BY <2>3, <2>4
<1> HIDE DEF r, n
<1>5. r \in [1 .. n -> Member]
  BY <1>3, <1>4
<1>6. r \in Seq(Member) /\ Len(r) = n
  BY <1>1, <1>5, FunctionIsSeq
<1> QED
  BY <1>1, <1>3, <1>4, <1>6 DEF r, n

\* Where the new members go is a place of the archive or behind it.
LEMMA CutType ==
    ASSUME NEW j, NEW a \in Seq(Member)
    PROVE  /\ Cut(j, a) \in 1 .. (Len(a) + 1)
           /\ Cut(j, a) <= Len(a) => j.where = "b" /\ a[Cut(j, a)].name = j.at
           /\ j.where = "b" /\ Unique(a) =>
                 \A i \in DOMAIN a : a[i].name = j.at => i = Cut(j, a)
<1>1. Len(a) \in Nat /\ DOMAIN a = 1 .. Len(a)
  BY LenProperties
<1> DEFINE here == {i \in DOMAIN a : a[i].name = j.at}
<1>2. CASE j.where = "b" /\ here # {}
  <2>1. Cut(j, a) = CHOOSE i \in here : TRUE
    BY <1>2 DEF Cut
  <2>2. Cut(j, a) \in here
    BY <1>2, <2>1
  <2> QED
    BY <1>1, <1>2, <2>2 DEF Unique
<1>3. CASE ~(j.where = "b" /\ here # {})
  <2>1. Cut(j, a) = Len(a) + 1
    BY <1>3 DEF Cut
  <2> QED
    BY <1>1, <1>3, <2>1
<1> QED
  BY <1>2, <1>3
\* Two lists of members with no name in common, one after the other.
LEMMA UniqueConcat ==
    ASSUME NEW s \in Seq(Member), NEW t \in Seq(Member), Unique(s), Unique(t),
           \A i \in DOMAIN s, k \in DOMAIN t : s[i].name # t[k].name
    PROVE  s \o t \in Seq(Member) /\ Unique(s \o t)
<1> DEFINE m == Len(s)
           n == Len(t)
           c == s \o t
<1>1. m \in Nat /\ n \in Nat /\ DOMAIN s = 1 .. m /\ DOMAIN t = 1 .. n
  BY LenProperties
<1>2. c \in Seq(Member) /\ Len(c) = m + n
      /\ \A i \in 1 .. (m + n) : c[i] = IF i <= m THEN s[i] ELSE t[i - m]
  BY ConcatProperties
<1>3. DOMAIN c = 1 .. (m + n)
  BY <1>2, LenProperties
<1> HIDE DEF m, n, c
<1>4. ASSUME NEW i \in DOMAIN c, NEW k \in DOMAIN c, c[i].name = c[k].name PROVE i = k
  <2>1. /\ i <= m => i \in DOMAIN s /\ c[i] = s[i]
        /\ i > m => i - m \in DOMAIN t /\ c[i] = t[i - m]
    BY <1>1, <1>2, <1>3
  <2>2. /\ k <= m => k \in DOMAIN s /\ c[k] = s[k]
        /\ k > m => k - m \in DOMAIN t /\ c[k] = t[k - m]
    BY <1>1, <1>2, <1>3
  <2>3. i \in Int /\ k \in Int /\ (i <= m \/ i > m) /\ (k <= m \/ k > m)
    BY <1>1, <1>3
  <2>4. CASE i <= m /\ k <= m
    BY <1>4, <2>1, <2>2, <2>4 DEF Unique
  <2>5. CASE i > m /\ k > m
    <3>1. i - m = k - m
      BY <1>4, <2>1, <2>2, <2>5 DEF Unique
    <3> QED
      BY <1>1, <2>3, <3>1
  <2>6. CASE i <= m /\ k > m
    BY <1>4, <2>1, <2>2, <2>6
  <2>7. CASE i > m /\ k <= m
    BY <1>4, <2>1, <2>2, <2>7
  <2> QED
    BY <2>3, <2>4, <2>5, <2>6, <2>7
<1> QED
  BY <1>2, <1>4 DEF Unique, c

\* A part of an archive.
LEMMA Part ==
    ASSUME NEW s \in Seq(Member), Unique(s), NEW lo \in Nat, NEW hi \in Nat,
           1 <= lo, hi <= Len(s)
    PROVE  /\ SubSeq(s, lo, hi) \in Seq(Member)
           /\ Unique(SubSeq(s, lo, hi))
           /\ \A i \in DOMAIN SubSeq(s, lo, hi) :
                 \E k \in lo .. hi : k \in DOMAIN s /\ SubSeq(s, lo, hi)[i] = s[k]
<1> DEFINE p == SubSeq(s, lo, hi)
<1>1. Len(s) \in Nat /\ DOMAIN s = 1 .. Len(s)
  BY LenProperties
<1>2. \A i \in lo .. hi : i \in DOMAIN s /\ s[i] \in Member
  BY <1>1, ElementOfSeq
<1>3. p \in Seq(Member)
  BY <1>2, SubSeqProperties
<1>4. Len(p) = IF lo <= hi THEN hi - lo + 1 ELSE 0
  BY <1>2, SubSeqProperties
<1>5. \A i \in 1 .. (hi - lo + 1) : p[i] = s[lo + i - 1]
  BY <1>2, SubSeqProperties
<1>6. DOMAIN p = 1 .. Len(p)
  BY <1>3, LenProperties
<1> HIDE DEF p
<1>7. \A i \in DOMAIN p : /\ i \in Int /\ lo + i - 1 \in lo .. hi
                          /\ lo + i - 1 \in DOMAIN s /\ p[i] = s[lo + i - 1]
  BY <1>2, <1>4, <1>5, <1>6
<1>8. Unique(p)
  <2> SUFFICES ASSUME NEW i \in DOMAIN p, NEW k \in DOMAIN p, p[i].name = p[k].name
               PROVE  i = k
    BY DEF Unique
  <2>1. lo + i - 1 = lo + k - 1
    BY <1>7 DEF Unique
  <2> QED
    BY <1>7, <2>1
<1> QED
  BY <1>3, <1>7, <1>8 DEF p

\* What a job makes of an archive is an archive, and repeats no name.
LEMMA AskedType ==
    ASSUME NEW j \in Job, NEW a \in Seq(Member), Unique(a), NEW d \in Disk
    PROVE  Asked(j, a, d) \in Seq(Member) /\ Unique(Asked(j, a, d))
<1>1. CASE j.op = "d"
  <2> DEFINE S == NotNamed(j, a)
  <2>1. Asked(j, a, d) = Only(a, S)
    BY <1>1 DEF Asked
  <2> HIDE DEF S
  <2>2. Only(a, S) \in Seq(Member)
    BY OnlyNext
  <2>3. \A i \in DOMAIN Only(a, S) : Only(a, S)[i] \in Member
    BY <2>2, ElementOfSeq, LenProperties
  <2>4. \A i \in DOMAIN a : a[i] \in Member
    BY ElementOfSeq, LenProperties
  <2>5. \A i, k \in DOMAIN a : NameOf[a[i]] = NameOf[a[k]] => i = k
    BY <2>4 DEF Unique, NameOf
  <2>6. \A i, k \in DOMAIN Only(a, S) :
           NameOf[Only(a, S)[i]] = NameOf[Only(a, S)[k]] => i = k
    BY <2>5, OnlyDistinct, Zenon
  <2>7. Unique(Only(a, S))
    BY <2>3, <2>6 DEF Unique, NameOf
  <2> QED
    BY <2>1, <2>2, <2>7
<1>2. CASE j.op = "r"
  <2> DEFINE r == Replaced(j, a, d)
             c == Cut(j, a)
             x == Added(j, a, d)
             p == SubSeq(r, 1, c - 1)
             q == SubSeq(r, c, Len(a))
  <2>1. Asked(j, a, d) = p \o x \o q
    BY <1>2 DEF Asked
  <2>2. Len(a) \in Nat /\ DOMAIN a = 1 .. Len(a)
    BY LenProperties
  <2>3. c \in 1 .. (Len(a) + 1)
    BY CutType
  <2>4. /\ r \in Seq(Member) /\ Len(r) = Len(a) /\ DOMAIN r = DOMAIN a
        /\ \A i \in DOMAIN a : r[i].name = a[i].name
    BY ReplacedType
  <2>5. /\ x \in Seq(Member) /\ Unique(x)
        /\ \A i \in DOMAIN x : x[i].name \notin NamesIn(a)
    BY AddedType
  <2> HIDE DEF r, c, x
  <2>6. Unique(r)
    BY <2>4 DEF Unique
  <2>7. c \in Nat /\ c - 1 \in Nat /\ 1 <= c /\ c - 1 <= Len(r) /\ Len(r) \in Nat
    BY <2>2, <2>3, <2>4
  <2>7a. r \in Seq(Member) /\ 1 \in Nat /\ 1 <= 1 /\ Len(a) \in Nat /\ Len(a) <= Len(r)
    BY <2>2, <2>4
  <2>8. /\ p \in Seq(Member) /\ Unique(p)
        /\ \A i \in DOMAIN p : \E k \in 1 .. (c - 1) : k \in DOMAIN r /\ p[i] = r[k]
    BY <2>6, <2>7, <2>7a, Part, Zenon
  <2>9. /\ q \in Seq(Member) /\ Unique(q)
        /\ \A i \in DOMAIN q : \E k \in c .. Len(a) : k \in DOMAIN r /\ q[i] = r[k]
    BY <2>6, <2>7, <2>7a, Part, Zenon
  <2> HIDE DEF p, q
  <2>10. \A i \in DOMAIN p : p[i].name \in NamesIn(a)
    BY <2>4, <2>8 DEF NamesIn
  <2>11. \A i \in DOMAIN q : q[i].name \in NamesIn(a)
    BY <2>4, <2>9 DEF NamesIn
  <2>12. \A i \in DOMAIN p, k \in DOMAIN x : p[i].name # x[k].name
    BY <2>5, <2>10
  <2>13. p \o x \in Seq(Member) /\ Unique(p \o x)
    BY <2>5, <2>8, <2>12, UniqueConcat
  <2>14. ASSUME NEW i \in DOMAIN (p \o x), NEW k \in DOMAIN q
         PROVE  (p \o x)[i].name # q[k].name
    <3>1. /\ Len(p) \in Nat /\ DOMAIN p = 1 .. Len(p)
          /\ Len(x) \in Nat /\ DOMAIN x = 1 .. Len(x)
      BY <2>5, <2>8, LenProperties
    <3>2. DOMAIN (p \o x) = 1 .. (Len(p) + Len(x))
      BY <2>5, <2>8, <2>13, ConcatProperties, LenProperties
    <3>3. (p \o x)[i] = IF i <= Len(p) THEN p[i] ELSE x[i - Len(p)]
      BY <2>5, <2>8, <3>2, ConcatProperties
    <3>4. CASE i <= Len(p)
      <4>1. i \in DOMAIN p /\ (p \o x)[i] = p[i]
        BY <3>1, <3>2, <3>3, <3>4
      <4>2. PICK l \in 1 .. (c - 1) : l \in DOMAIN r /\ p[i] = r[l]
        BY <2>8, <4>1
      <4>3. PICK h \in c .. Len(a) : h \in DOMAIN r /\ q[k] = r[h]
        BY <2>9
      <4>4. l # h
        BY <2>7
      <4> QED
        BY <2>6, <4>1, <4>2, <4>3, <4>4 DEF Unique
    <3>5. CASE i > Len(p)
      <4>1. i - Len(p) \in DOMAIN x /\ (p \o x)[i] = x[i - Len(p)]
        BY <3>1, <3>2, <3>3, <3>5
      <4> QED
        BY <2>5, <2>11, <4>1
    <3> QED
      BY <3>1, <3>2, <3>4, <3>5
  <2>15. (p \o x) \o q \in Seq(Member) /\ Unique((p \o x) \o q)
    BY <2>9, <2>13, <2>14, UniqueConcat
  <2> QED
    BY <2>1, <2>15
<1>3. CASE j.op \notin {"d", "r"}
  BY <1>3 DEF Asked
<1> QED
  BY <1>1, <1>2, <1>3
---------------------------------------------------------------------------
(* The symbol directory *)

ExportsOf(x) == IF IsObjectContent(x) THEN Exports[x] ELSE << >>

\* The entries of member i.
EntriesOf(a, i) ==
    [k \in DOMAIN ExportsOf(a[i].content) |->
        [name |-> ExportsOf(a[i].content)[k], file |-> a[i].name, position |-> Offset(a, i)]]

LEMMA BytesType ==
    ASSUME NEW x \in Content
    PROVE  Padded(Bytes(x)) \in Nat
<1>1. CASE x \in Object
  <2>1. Bytes(x) \in Nat
    BY <1>1, ArchiverAssumption DEF Bytes, IsObjectContent
  <2> QED
    BY <2>1 DEF Padded
<1>2. CASE x \notin Object
  <2>1. Len(x) \in Nat /\ StringSize \in Nat
    BY <1>2, ArchiverAssumption, LenProperties DEF Content
  <2>2. Bytes(x) = 4 + Len(x) * (16 + StringSize)
    BY <1>2 DEF Bytes, IsObjectContent, MAGIC, ENTRY
  <2>3. Len(x) * (16 + StringSize) \in Nat
    <3> DEFINE l == Len(x)
               w == 16 + StringSize
    <3>1. l \in Nat /\ w \in Nat
      BY <2>1
    <3> HIDE DEF l, w
    <3>2. l * w \in Nat
      BY <3>1
    <3> QED
      BY <3>2 DEF l, w
  <2>4. Bytes(x) \in Nat
    BY <2>2, <2>3
  <2> QED
    BY <2>4 DEF Padded
<1> QED
  BY <1>1, <1>2

\* The member after another lies behind it.
LEMMA OffsetType ==
    ASSUME NEW a \in Seq(Member), NEW i \in DOMAIN a
    PROVE  Offset(a, i) \in Nat
<1> DEFINE n == Len(a)
           w(k) == HEADER + Padded(Bytes(a[k].content))
           Step == [p \in ((1 + 1) .. n) \X Nat |-> p[2] + w(p[1] - 1)]
           Places(f) == f = [k \in 1 .. n |-> IF k = 1 THEN MAGIC
                                               ELSE f[k - 1] + HEADER + Padded(Bytes(a[k - 1].content))]
           at == CHOOSE f : Places(f)
           Good == {k \in 1 .. n : at[k] \in Nat}
<1>1. n \in Nat /\ DOMAIN a = 1 .. n /\ 1 <= n /\ i \in 1 .. n
  BY LenProperties
<1>2. \A k \in 1 .. n : a[k].content \in Content
  <2>1. \A k \in 1 .. n : a[k] \in Member
    BY ElementOfSeq
  <2> QED
    BY <2>1 DEF Member
<1>3. \A k \in 1 .. n : w(k) \in Nat /\ Padded(Bytes(a[k].content)) \in Nat
  BY <1>2, BytesType DEF HEADER
<1>4. MAGIC \in Nat /\ HEADER \in Nat
  BY DEF MAGIC, HEADER
<1>5. Step \in [((1 + 1) .. n) \X Nat -> Nat]
  <2> HIDE DEF w
  <2>1. ASSUME NEW p \in ((1 + 1) .. n) \X Nat PROVE p[2] + w(p[1] - 1) \in Nat
    <3>1. p[1] - 1 \in 1 .. n /\ p[2] \in Nat
      BY <1>1
    <3>2. w(p[1] - 1) \in Nat
      BY <1>3, <3>1
    <3> QED
      BY <3>1, <3>2
  <2> QED
    BY <2>1
<1>6. PICK f \in [1 .. n -> Nat] : Follows(f, 1, n, MAGIC, Step)
  <2> HIDE DEF Step, n
  <2>1. 1 \in Nat
    OBVIOUS
  <2> QED
    BY <1>1, <1>4, <1>5, <2>1, RecursionExists, Zenon
<1>7. Places(f)
  <2>1. ASSUME NEW k \in 1 .. n
        PROVE  f[k] = IF k = 1 THEN MAGIC
                      ELSE f[k - 1] + HEADER + Padded(Bytes(a[k - 1].content))
    <3>1. CASE k = 1
      BY <1>6, <3>1 DEF Follows
    <3>2. CASE k # 1
      <4>1. k \in (1 + 1) .. n /\ k - 1 \in 1 .. n
        BY <1>1, <3>2
      <4>2. f[k] = Step[<<k, f[k - 1]>>] /\ f[k - 1] \in Nat
        BY <1>6, <4>1 DEF Follows
      <4>3. f[k] = f[k - 1] + w(k - 1)
        <5> HIDE DEF w
        <5> QED
          BY <4>1, <4>2
      <4>4. w(k - 1) = HEADER + Padded(Bytes(a[k - 1].content)) /\ Padded(Bytes(a[k - 1].content)) \in Nat
        BY <1>3, <4>1
      <4> HIDE DEF w
      <4> QED
        BY <1>4, <3>2, <4>2, <4>3, <4>4
    <3> QED
      BY <3>1, <3>2
  <2> QED
    BY <2>1
<1>8. Places(at)
  BY <1>7
<1>9. Offset(a, i) = at[i]
  BY DEF Offset
<1> HIDE DEF at
<1>10. \A k \in 1 .. n : at[k] = IF k = 1 THEN MAGIC
                                 ELSE at[k - 1] + HEADER + Padded(Bytes(a[k - 1].content))
  BY <1>8, Zenon
<1>11. 1 \in Good
  BY <1>1, <1>4, <1>10
<1>12. ASSUME NEW k \in 1 .. (n - 1), k \in Good PROVE k + 1 \in Good
  <2>1. k + 1 \in 1 .. n /\ k + 1 # 1 /\ k + 1 - 1 = k /\ k \in 1 .. n
    BY <1>1
  <2>2. at[k + 1] = at[k] + HEADER + Padded(Bytes(a[k].content))
    BY <1>10, <2>1
  <2>3. at[k] \in Nat
    BY <1>12
  <2>4. Padded(Bytes(a[k].content)) \in Nat /\ HEADER \in Nat
    BY <1>3, <1>4, <2>1
  <2>5. at[k + 1] \in Nat
    <3> HIDE DEF Good, w, Step, Places
    <3> QED
      BY <2>2, <2>3, <2>4
  <2> QED
    BY <2>1, <2>5
<1> HIDE DEF Good
<1>13. \A k \in 1 .. n : k \in Good
  <2>1. 1 \in Nat
    OBVIOUS
  <2> QED
    BY <1>1, <1>11, <1>12, <2>1, UpTo, Zenon
<1> QED
  BY <1>1, <1>9, <1>13 DEF Good

LEMMA EntriesType ==
    ASSUME NEW a \in Seq(Member), NEW i \in DOMAIN a
    PROVE  EntriesOf(a, i) \in Seq(Entry)
<1> DEFINE e == ExportsOf(a[i].content)
<1>1. a[i] \in Member
  BY ElementOfSeq, LenProperties
<1>2. a[i].name \in Named /\ Offset(a, i) \in Nat
  BY <1>1, OffsetType DEF Member
<1>3. e \in Seq(Symbol)
  BY ArchiverAssumption, EmptySeq DEF ExportsOf, IsObjectContent
<1>4. EntriesOf(a, i) = [k \in DOMAIN e |-> [name |-> e[k], file |-> a[i].name,
                                             position |-> Offset(a, i)]]
  BY DEF EntriesOf
<1> HIDE DEF e
<1>5. Len(e) \in Nat /\ DOMAIN e = 1 .. Len(e) /\ \A k \in 1 .. Len(e) : e[k] \in Symbol
  BY <1>3, LenProperties, ElementOfSeq
<1>6. \A k \in 1 .. Len(e) :
         [name |-> e[k], file |-> a[i].name, position |-> Offset(a, i)] \in Entry
  BY <1>2, <1>5 DEF Entry
<1>7. EntriesOf(a, i) \in [1 .. Len(e) -> Entry]
  BY <1>4, <1>5, <1>6
<1> QED
  BY <1>5, <1>7, FunctionIsSeq

\* f gives the directory of the first members of a.
Lists(f, a) ==
    /\ f[0] = << >>
    /\ \A k \in 0 .. (Len(a) - 1) : f[k + 1] = f[k] \o EntriesOf(a, k + 1)
    /\ Directory(a) = f[Len(a)]

LEMMA DirectoryLists ==
    ASSUME NEW a \in Seq(Member)
    PROVE  /\ \E f \in [0 .. Len(a) -> Seq(Entry)] : Lists(f, a)
           /\ Directory(a) \in Seq(Entry)
<1> DEFINE n == Len(a)
           entries(i) == EntriesOf(a, i)
           Step == [p \in ((0 + 1) .. n) \X Seq(Entry) |-> p[2] \o entries(p[1])]
           Grows(f) == f = [i \in 0 .. n |-> IF i = 0 THEN << >> ELSE f[i - 1] \o entries(i)]
           upto == CHOOSE f : Grows(f)
           Same(f) == {k \in 0 .. n : upto[k] = f[k]}
<1>1. n \in Nat /\ 0 <= n /\ DOMAIN a = 1 .. n /\ 0 \in Nat
  BY LenProperties
<1>2. \A k \in 1 .. n : entries(k) \in Seq(Entry)
  BY <1>1, EntriesType
<1>3. Directory(a) = upto[n]
  BY DEF Directory, EntriesOf, ExportsOf
<1> HIDE DEF entries
<1>4. Step \in [((0 + 1) .. n) \X Seq(Entry) -> Seq(Entry)]
  <2>1. ASSUME NEW p \in ((0 + 1) .. n) \X Seq(Entry)
        PROVE  p[2] \o entries(p[1]) \in Seq(Entry)
    <3>1. p[2] \in Seq(Entry) /\ entries(p[1]) \in Seq(Entry)
      BY <1>1, <1>2
    <3> QED
      BY <3>1, ConcatProperties
  <2> QED
    BY <2>1
<1>5. << >> \in Seq(Entry)
  BY EmptySeq
<1>6. PICK f \in [0 .. n -> Seq(Entry)] : Follows(f, 0, n, << >>, Step)
  <2> HIDE DEF Step, n
  <2> QED
    BY <1>1, <1>4, <1>5, RecursionExists, Zenon
<1>7. f[0] = << >>
  BY <1>6 DEF Follows
<1>8. ASSUME NEW k \in 1 .. n PROVE f[k] = f[k - 1] \o entries(k)
  <2>1. k \in (0 + 1) .. n /\ k - 1 \in 0 .. n
    BY <1>1
  <2>2. f[k] = Step[<<k, f[k - 1]>>] /\ f[k - 1] \in Seq(Entry)
    BY <1>6, <2>1 DEF Follows
  <2> QED
    BY <2>1, <2>2
<1>9. Grows(f)
  <2>1. ASSUME NEW i \in 0 .. n
        PROVE  f[i] = IF i = 0 THEN << >> ELSE f[i - 1] \o entries(i)
    <3>1. i = 0 \/ i \in 1 .. n
      BY <1>1
    <3> QED
      BY <1>7, <1>8, <3>1
  <2> QED
    BY <2>1
<1>10. Grows(upto)
  BY <1>9
<1> HIDE DEF upto
<1>11. \A i \in 0 .. n : upto[i] = IF i = 0 THEN << >> ELSE upto[i - 1] \o entries(i)
  BY <1>10, Zenon
<1>12. \A k \in 0 .. (n - 1) : f[k + 1] = f[k] \o entries(k + 1)
  <2> SUFFICES ASSUME NEW k \in 0 .. (n - 1) PROVE f[k + 1] = f[k] \o entries(k + 1)
    OBVIOUS
  <2> DEFINE m == k + 1
  <2>1. m \in 1 .. n /\ m - 1 = k
    BY <1>1
  <2> HIDE DEF m
  <2>2. f[m] = f[m - 1] \o entries(m)
    BY <1>8, <2>1
  <2>3. f[m] = f[k] \o entries(m)
    BY <2>1, <2>2
  <2> QED
    BY <2>3 DEF m
<1>13. 0 \in Same(f)
  BY <1>1, <1>7, <1>11
<1>14. ASSUME NEW k \in 0 .. (n - 1), k \in Same(f) PROVE k + 1 \in Same(f)
  <2> DEFINE m == k + 1
  <2>1. m \in 0 .. n /\ m - 1 = k /\ m # 0
    BY <1>1
  <2> HIDE DEF m
  <2>2. upto[m] = upto[m - 1] \o entries(m)
    BY <1>11, <2>1
  <2>3. upto[k + 1] = upto[k] \o entries(k + 1)
    BY <2>1, <2>2 DEF m
  <2>4. f[k + 1] = f[k] \o entries(k + 1) /\ upto[k] = f[k] /\ k + 1 \in 0 .. n
    BY <1>12, <1>14, <2>1 DEF m
  <2> QED
    BY <2>3, <2>4
<1>15. upto[n] = f[n]
  <2> DEFINE S == Same(f)
  <2>1. 0 \in S /\ \A k \in 0 .. (n - 1) : k \in S => k + 1 \in S
    BY <1>13, <1>14
  <2> HIDE DEF S
  <2>2. \A k \in 0 .. n : k \in S
    BY <1>1, <2>1, UpTo, Zenon
  <2> QED
    BY <1>1, <2>2 DEF S
<1>16. Lists(f, a)
  BY <1>3, <1>7, <1>12, <1>15 DEF Lists, entries
<1>17. f \in [0 .. Len(a) -> Seq(Entry)] /\ Directory(a) \in Seq(Entry)
  BY <1>1, <1>3, <1>6, <1>15
<1> QED
  BY <1>16, <1>17
---------------------------------------------------------------------------
(***************************************************************************)
(* The inductive invariant: the types, and what the files and variables of *)
(* a job hold at each moment of it.                                        *)
(***************************************************************************)
Status == {"ok", "no archive", "not created", "write error", "not found", "overflow",
           "no directory", "crash", "killed"}

TypeOK ==
    /\ archive \in Seq(Member) \cup {Missing, Damaged}
    /\ disk \in Disk
    /\ now \in Nat
    /\ cmd \in Command /\ job \in Job
    /\ pc \in {"idle", "scan", "append", "install", "copy", "finish", "update"}
    /\ args \in Seq(Named \cup {Missing})
    /\ next \in Nat \ {0}
    /\ tmp0 \in Seq(Member) \cup {Missing}
    /\ tmp1 \in Seq(Member) \cup {Missing}
    /\ status \in Status
    /\ before.archive \in Seq(Member) \cup {Missing}
    /\ before.disk \in Disk

NamesUnique ==
    /\ Unique(Before)
    /\ archive \notin {Missing, Damaged} => Unique(archive)

\* Which job runs where, and what it has not touched yet.
Running == pc \in {"scan", "append", "install", "copy", "finish"}
JobRuns ==
    /\ Running => job.op # "none" /\ (before.archive = Missing => job.op = "r")
    /\ pc \in {"scan", "append", "install"} => archive = before.archive
    /\ pc \in {"install", "copy"} => job.op \in {"d", "r"}
    /\ pc = "append" => job.op = "r" /\ next = Len(Before) + 1
    /\ pc = "scan" => next <= Len(Before) + 1
    /\ pc \in {"scan", "append"} /\ job.op \in {"d", "r"} => disk = before.disk
    /\ archive = Damaged =>
          pc = "copy" \/ (pc = "idle" /\ status \in {"killed", "write error"})

\* The names of the first k members of a; matchargs has consumed the names
\* of the members seen so far.
NamesTo(a, k) == {a[i].name : i \in 1 .. k}
ArgsConsumed ==
    pc \in {"scan", "append"} =>
        /\ DOMAIN args = DOMAIN job.args
        /\ \A i \in DOMAIN args :
              args[i] = IF job.args[i] \in NamesTo(Before, next - 1) THEN Missing ELSE job.args[i]

\* The temporary files hold what the job makes of the members seen so far:
\* the second one has been started once the place for new members is passed.
ScanFiles(r, cut, k) ==
    /\ k < cut => tmp0 = SubSeq(r, 1, k) /\ tmp1 = Missing
    /\ k >= cut => tmp0 = SubSeq(r, 1, cut - 1) /\ tmp1 = SubSeq(r, cut, k)
Temps == IF tmp1 = Missing THEN tmp0 ELSE tmp0 \o tmp1
TempsHold ==
    /\ pc = "scan" /\ job.op = "d" =>
          tmp0 = Only(SubSeq(Before, 1, next - 1), NotNamed(job, Before)) /\ tmp1 = Missing
    /\ pc \in {"scan", "append"} /\ job.op = "r" =>
          ScanFiles(Replaced(job, Before, before.disk), Cut(job, Before), next - 1)
    /\ pc \in {"install", "copy"} => tmp0 # Missing /\ Result = Temps

\* x has left copies of the members seen so far, or has said that it cannot.
Extracted ==
    pc = "scan" /\ job.op = "x" /\ status # "not created" =>
        \A i \in 1 .. (next - 1) : job.args = << >> \/ Before[i].name \in NamedBy(job) =>
            disk[Before[i].name].content = Before[i].content

Inv == TypeOK /\ NamesUnique /\ JobRuns /\ ArgsConsumed /\ TempsHold /\ Extracted

\* The archive a job works on.
LEMMA WorkedOn ==
    ASSUME TypeOK, JobRuns
    PROVE  /\ Before \in Seq(Member) /\ Len(Before) \in Nat /\ DOMAIN Before = 1 .. Len(Before)
           /\ pc \in {"scan", "append", "install"} => Members = Before
<1>1. Before \in Seq(Member)
  BY EmptySeq DEF TypeOK, Before
<1>2. Len(Before) \in Nat /\ DOMAIN Before = 1 .. Len(Before)
  BY <1>1, LenProperties
<1>3. pc \in {"scan", "append", "install"} => Members = Before
  BY DEF JobRuns, Members, Before
<1> QED
  BY <1>1, <1>2, <1>3

\* The member a scan has come to.
LEMMA ThisMemberType ==
    ASSUME TypeOK, JobRuns, NEW ops, Scanning(ops)
    PROVE  /\ next \in 1 .. Len(Before) /\ next \in DOMAIN Before
           /\ ThisMember = Before[next] /\ ThisMember \in Member
           /\ ThisMember.name \in Named /\ ThisMember.content \in Content
<1>1. Members = Before /\ pc = "scan" /\ next <= Len(Members)
  BY WorkedOn DEF Scanning
<1>2. next \in 1 .. Len(Before)
  BY <1>1, WorkedOn DEF TypeOK
<1>3. Before[next] \in Member
  BY <1>2, WorkedOn, ElementOfSeq
<1>4. ThisMember = Before[next]
  BY <1>1 DEF ThisMember
<1>5. Before[next].name \in Named /\ Before[next].content \in Content
  BY <1>3 DEF Member
<1> QED
  BY <1>2, <1>3, <1>4, <1>5, WorkedOn

\* What is left of a member that could not be written; of a directory it is
\* a directory.
LEMMA PartsType ==
    ASSUME NEW x \in Content, NEW part \in Parts(x)
    PROVE  part \in Content /\ (x \notin Object => part \notin Object)
<1>1. CASE x \in Object
  BY <1>1 DEF Parts, Content
<1>2. CASE x \notin Object
  <2>1. x \in Seq(Entry) /\ Len(x) \in Nat
    BY <1>2, LenProperties DEF Content
  <2>2. PICK k \in 0 .. Len(x) : part = SubSeq(x, 1, k)
    BY <1>2 DEF Parts
  <2>3. \A i \in 1 .. k : x[i] \in Entry
    BY <2>1, ElementOfSeq
  <2>4. part \in Seq(Entry)
    BY <2>1, <2>2, <2>3, SubSeqProperties
  <2> QED
    BY <2>4, ArchiverAssumption DEF Content
<1> QED
  BY <1>1, <1>2

\* matchargs consumes one of the names equal to n.
LEMMA MatchArgsOne ==
    ASSUME NEW n, Wanted(n), args \in Seq(Named \cup {Missing}), MatchArgs(n)
    PROVE  /\ args' \in Seq(Named \cup {Missing}) /\ DOMAIN args' = DOMAIN args
           /\ \E i \in DOMAIN args : args[i] = n /\ args' = [args EXCEPT ![i] = Missing]
<1>1. DOMAIN args = 1 .. Len(args) /\ Len(args) \in Nat
  BY LenProperties
<1> DEFINE I == ArgsFor(n)
           Least(i) == \A k \in I : i <= k
<1>2. \E i \in I : Least(i)
  <2>1. I \subseteq Nat /\ I # {}
    BY <1>1 DEF ArgsFor, Wanted
  <2> HIDE DEF I
  <2> QED
    BY <2>1, LeastNumber
<1>3. PICK i \in I : args' = [args EXCEPT ![i] = Missing]
  BY <1>2 DEF MatchArgs
<1>4. i \in 1 .. Len(args) /\ args[i] = n
  BY <1>1 DEF ArgsFor
<1>5. args' \in Seq(Named \cup {Missing}) /\ DOMAIN args' = DOMAIN args
  <2>1. Missing \in Named \cup {Missing}
    OBVIOUS
  <2> QED
    BY <1>3, <1>4, <2>1, ExceptSeq
<1> QED
  BY <1>1, <1>3, <1>4, <1>5

\* A temporary file grows by one member.
LEMMA PutType ==
    ASSUME TypeOK, NEW m, NEW x \in Member, tmp0 # Missing, Put(m, x)
    PROVE  tmp0' \in Seq(Member) \cup {Missing} /\ tmp1' \in Seq(Member) \cup {Missing}
<1>1. Open2(m) \in Seq(Member) \cup {Missing}
  BY EmptySeq DEF Open2, TypeOK
<1>2. CASE Open2(m) = Missing
  <2>1. tmp0 \in Seq(Member)
    BY DEF TypeOK
  <2>2. tmp0' = Append(tmp0, x) /\ tmp1' = tmp1
    BY <1>2 DEF Put
  <2> QED
    BY <2>1, <2>2, AppendProperties DEF TypeOK
<1>3. CASE Open2(m) # Missing
  <2>1. tmp1' = Append(Open2(m), x) /\ tmp0' = tmp0
    BY <1>3 DEF Put
  <2> QED
    BY <1>1, <1>3, <2>1, AppendProperties DEF TypeOK
<1> QED
  BY <1>2, <1>3
\* While it is written, the first temporary file exists.
LEMMA FirstFileExists ==
    ASSUME Inv, pc \in {"scan", "append", "install", "copy"}, job.op \in {"d", "r"}
    PROVE  tmp0 \in Seq(Member)
<1>1. Before \in Seq(Member) /\ Len(Before) \in Nat
  BY WorkedOn DEF Inv
<1>2. next \in Nat /\ next - 1 \in Nat
  BY DEF Inv, TypeOK
<1>3. pc \in {"scan", "append"} => next - 1 \in 0 .. Len(Before)
  <2>1. (pc = "append" => next = Len(Before) + 1) /\ (pc = "scan" => next <= Len(Before) + 1)
    BY DEF Inv, JobRuns
  <2> HIDE DEF Before
  <2>2. next \in Nat \ {0}
    BY DEF Inv, TypeOK
  <2> QED
    BY <1>1, <2>1, <2>2
<1>4. tmp0 \in Seq(Member) \cup {Missing} /\ Missing \notin Seq(Member)
  BY ArchiverAssumption DEF Inv, TypeOK
<1>5. CASE pc \in {"install", "copy"}
  BY <1>4, <1>5 DEF Inv, TempsHold
<1>6. CASE pc = "scan" /\ job.op = "d"
  <2> DEFINE S == NotNamed(job, Before)
             P(k) == Only(SubSeq(Before, 1, k), S)
  <2>1. tmp0 = P(next - 1)
    BY <1>6 DEF Inv, TempsHold
  <2>2. \A k \in 0 .. Len(Before) : P(k) \in Seq(Member)
    BY <1>1, OnlyNext
  <2> HIDE DEF P
  <2> QED
    BY <1>3, <1>6, <2>1, <2>2
<1>7. CASE pc \in {"scan", "append"} /\ job.op = "r"
  <2> DEFINE r == Replaced(job, Before, before.disk)
             c == Cut(job, Before)
  <2>1. r \in Seq(Member) /\ Len(r) = Len(Before)
    BY <1>1, ReplacedType DEF Inv, TypeOK
  <2>2. c \in 1 .. (Len(Before) + 1)
    BY <1>1, CutType
  <2>3. ScanFiles(r, c, next - 1)
    BY <1>7 DEF Inv, TempsHold
  <2> HIDE DEF r, c
  <2>4. PICK k \in 0 .. Len(r) : tmp0 = SubSeq(r, 1, k)
    <3>1. c - 1 \in 0 .. Len(r) /\ next - 1 \in 0 .. Len(r)
      BY <1>1, <1>3, <1>7, <2>1, <2>2
    <3>2. next - 1 < c \/ next - 1 >= c
      BY <1>2, <2>2
    <3> QED
      BY <2>3, <3>1, <3>2 DEF ScanFiles
  <2> QED
    BY <2>1, <2>4, Prefix
<1>8. pc = "append" => job.op = "r"
  BY DEF Inv, JobRuns
<1> QED
  BY <1>5, <1>6, <1>7, <1>8

\* The file that takes the place of a member.
LEMMA FromFileType ==
    ASSUME NEW d \in Disk, NEW n \in Named, d[n] # Missing
    PROVE  FromFile(d, n) \in Member /\ FromFile(d, n).name = n
<1>1. d[n] \in OnDisk
  BY DEF Disk
<1> QED
  BY <1>1 DEF FromFile, Member, OnDisk

\* The files named that are left, as members.
LEMMA NewMembersType ==
    ASSUME TypeOK
    PROVE  NewMembers \in Seq(Member)
<1> DEFINE S == Readable(disk)
           names == Only(args, S)
<1>1. args \in Seq(Named \cup {Missing}) /\ disk \in Disk
  BY DEF TypeOK
<1>2. S \subseteq Named /\ \A n \in S : disk[n] # Missing
  BY DEF Readable
<1> HIDE DEF S
<1>3. names \in Seq(Named \cup {Missing})
  BY <1>1, OnlyNext
<1>4. \A i \in DOMAIN names : names[i] \in S
  BY <1>1, OnlyElements
<1> HIDE DEF names
<1>5. Len(names) \in Nat /\ DOMAIN names = 1 .. Len(names)
      /\ names \in [1 .. Len(names) -> Named \cup {Missing}]
  BY <1>3, LenProperties
<1>6. names \in [1 .. Len(names) -> Named]
  BY <1>2, <1>4, <1>5
<1>7. names \in Seq(Named)
  BY <1>5, <1>6, FunctionIsSeq
<1>8. \A i \in DOMAIN names : disk[names[i]] # Missing
  BY <1>2, <1>4
<1>9. AsMembers(disk, names) \in Seq(Member)
  BY <1>1, <1>7, <1>8, AsMembersType
<1> QED
  BY <1>9 DEF NewMembers, names, S

LEMMA TypeInit == Init => TypeOK /\ JobRuns
<1> SUFFICES ASSUME Init PROVE TypeOK /\ JobRuns
  OBVIOUS
<1>1. (CHOOSE c \in Command : TRUE) \in Command
  BY ArchiverAssumption
<1>2. cmd \in Command /\ job \in Job
  BY <1>1 DEF Init, Job
<1>3. disk \in Disk
  <2>1. disk \in [Named -> {Missing} \cup [content : Object, date : {0}]]
    BY DEF Init
  <2>2. [content : Object, date : {0}] \subseteq OnDisk
    BY DEF OnDisk, Content
  <2> QED
    BY <2>1, <2>2 DEF Disk
<1>4. /\ archive = Missing /\ now = 0 /\ pc = "idle" /\ args = << >> /\ next = 1
      /\ tmp0 = Missing /\ tmp1 = Missing /\ status = "ok"
      /\ before = [archive |-> Missing, disk |-> disk]
  BY DEF Init
<1>5. TypeOK
  BY <1>2, <1>3, <1>4, EmptySeq DEF TypeOK, Status
<1> QED
  BY <1>4, <1>5, ArchiverAssumption DEF JobRuns, Running
\* A job starts with its arguments, and nothing seen yet.
LEMMA StartType ==
    ASSUME TypeOK, NEW j \in Job, archive # Damaged, Start(j)
    PROVE  /\ job' \in Job /\ args' \in Seq(Named \cup {Missing}) /\ next' \in Nat \ {0}
           /\ pc' \in {"idle", "scan"} /\ status' \in Status
           /\ tmp0' \in Seq(Member) \cup {Missing} /\ tmp1' \in Seq(Member) \cup {Missing}
           /\ before'.archive \in Seq(Member) \cup {Missing} /\ before'.disk \in Disk
<1>1. j.args \in Seq(Named \cup {Missing})
  <2>1. j.args \in Seq(Named) /\ Named \subseteq Named \cup {Missing}
    BY JobType
  <2> QED
    BY <2>1, SeqMonotonic
<1>2. job' = j /\ args' = j.args /\ next' = 1 /\ before' = [archive |-> archive, disk |-> disk]
  BY DEF Start
<1>3. \/ pc' = "idle" /\ status' = "no archive" /\ tmp0' = Missing /\ tmp1' = Missing
      \/ pc' = "scan" /\ status' = "ok" /\ tmp0' \in {<< >>, Missing} /\ tmp1' = Missing
  BY DEF Start, Exit, Unlinked
<1>4. << >> \in Seq(Member)
  BY EmptySeq
<1>5. pc' \in {"idle", "scan"} /\ status' \in Status
  BY <1>3 DEF Status
<1>6. tmp0' \in Seq(Member) \cup {Missing} /\ tmp1' \in Seq(Member) \cup {Missing}
  BY <1>3, <1>4
<1>7. before'.archive \in Seq(Member) \cup {Missing} /\ before'.disk \in Disk
  BY <1>2 DEF TypeOK
<1>8. job' \in Job /\ args' \in Seq(Named \cup {Missing}) /\ next' \in Nat \ {0}
  BY <1>1, <1>2
<1> QED
  BY <1>5, <1>6, <1>7, <1>8

\* Writing a file of the directory fails: the command ends, and the archive
\* is as it was.
LEMMA FailsToWrite ==
    ASSUME Inv, ExtractionError \/ DirectoryNotWritten
    PROVE  /\ Exit("write error") \/ Exit("no directory")
           /\ UNCHANGED <<archive, now, commands, cmd, job, args, next, before>>
           /\ archive # Damaged /\ pc' = "idle" /\ status' # "ok"
           /\ disk' \in Disk
<1>0. TypeOK /\ JobRuns /\ disk \in Disk /\ now \in Nat
  BY DEF Inv, TypeOK
<1>1. CASE ExtractionError
  <2> DEFINE m == ThisMember
  <2>1. Scanning({"x"}) /\ pc = "scan"
    BY <1>1 DEF ExtractionError, Scanning
  <2>2. m.name \in Named /\ m.content \in Content
    BY <1>0, <2>1, ThisMemberType
  <2>3. PICK part \in Parts(m.content) :
           disk' = [disk EXCEPT ![m.name] = [content |-> part, date |-> now]]
    BY <1>1 DEF ExtractionError
  <2> HIDE DEF m
  <2>4. part \in Content
    BY <2>2, <2>3, PartsType
  <2>5. [content |-> part, date |-> now] \in OnDisk
    BY <1>0, <2>4 DEF OnDisk
  <2>6. disk' \in Disk
    BY <1>0, <2>2, <2>3, <2>5 DEF Disk
  <2>7. archive # Damaged
    BY <1>0, <2>1 DEF JobRuns
  <2> QED
    BY <1>1, <2>6, <2>7 DEF ExtractionError, Exit
<1>2. CASE DirectoryNotWritten
  <2>1. disk' \in Disk
    BY <1>0, <1>2 DEF DirectoryNotWritten, Disk
  <2>2. archive # Damaged
    BY <1>0, <1>2 DEF DirectoryNotWritten, JobRuns
  <2> QED
    BY <1>2, <2>1, <2>2 DEF DirectoryNotWritten, Exit
<1> QED
  BY <1>1, <1>2

LEMMA TypeStep ==
    ASSUME Inv, [Next]_vars
    PROVE  TypeOK'
<1>0. /\ TypeOK /\ JobRuns
      /\ archive \in Seq(Member) \cup {Missing, Damaged} /\ disk \in Disk /\ now \in Nat
      /\ cmd \in Command /\ job \in Job
      /\ pc \in {"idle", "scan", "append", "install", "copy", "finish", "update"}
      /\ args \in Seq(Named \cup {Missing}) /\ next \in Nat \ {0}
      /\ tmp0 \in Seq(Member) \cup {Missing} /\ tmp1 \in Seq(Member) \cup {Missing}
      /\ status \in Status
      /\ before.archive \in Seq(Member) \cup {Missing} /\ before.disk \in Disk
  BY DEF Inv, TypeOK
<1>00. next + 1 \in Nat \ {0}
  BY <1>0
<1>1. ASSUME NEW c \in Command, RunCommand(c) PROVE TypeOK'
  <2>1. /\ archive # Damaged /\ cmd' = c /\ c \in Job
        /\ archive' = archive /\ disk' = disk /\ now' = now
    BY <1>1 DEF RunCommand, files, Job
  <2>2. CASE c.op = "none"
    <3>1. /\ pc' = "update" /\ job' = c /\ args' = c.args /\ status' = "ok"
          /\ before' = [archive |-> archive, disk |-> disk]
          /\ next' = next /\ tmp0' = tmp0 /\ tmp1' = tmp1
      BY <1>1, <2>2 DEF RunCommand, temps
    <3>2. c.args \in Seq(Named) /\ Named \subseteq Named \cup {Missing}
      BY <2>1, JobType
    <3>3. c.args \in Seq(Named \cup {Missing})
      BY <3>2, SeqMonotonic
    <3> QED
      BY <1>0, <2>1, <3>1, <3>3 DEF TypeOK, Status
  <2>3. CASE c.op # "none"
    <3>1. Start(c)
      BY <1>1, <2>3 DEF RunCommand
    <3> QED
      BY <1>0, <2>1, <3>1, StartType DEF TypeOK
  <2> QED
    BY <2>2, <2>3
<1>2. CASE DeleteMember
  <2> DEFINE m == ThisMember
  <2>1. /\ pc = "scan" /\ job.op = "d" /\ next' = next + 1
        /\ archive' = archive /\ disk' = disk /\ now' = now /\ cmd' = cmd /\ job' = job
        /\ pc' = pc /\ status' = status /\ before' = before
    BY <1>2 DEF DeleteMember, Scanning, files
  <2>2. m \in Member /\ Scanning({"d"})
    BY <1>0, <1>2, ThisMemberType DEF DeleteMember
  <2>3. \/ Wanted(m.name) /\ MatchArgs(m.name) /\ tmp0' = tmp0 /\ tmp1' = tmp1
        \/ Put(m, m) /\ args' = args
    BY <1>2 DEF DeleteMember, temps
  <2>4. tmp0 \in Seq(Member) /\ tmp0 # Missing
    BY <2>1, FirstFileExists, ArchiverAssumption
  <2>5. args' \in Seq(Named \cup {Missing})
    BY <1>0, <2>3, MatchArgsOne
  <2>6. tmp0' \in Seq(Member) \cup {Missing} /\ tmp1' \in Seq(Member) \cup {Missing}
    BY <1>0, <2>2, <2>3, <2>4, PutType
  <2> QED
    BY <1>0, <1>00, <2>1, <2>5, <2>6 DEF TypeOK
<1>3. CASE ReplaceMember
  <2> DEFINE m == ThisMember
  <2>1. /\ pc = "scan" /\ job.op = "r" /\ next' = next + 1
        /\ archive' = archive /\ disk' = disk /\ now' = now /\ cmd' = cmd /\ job' = job
        /\ pc' = pc /\ status' = status /\ before' = before
    BY <1>3 DEF ReplaceMember, Scanning, files
  <2>2. m \in Member /\ m.name \in Named
    <3>1. Scanning({"r"})
      BY <1>3 DEF ReplaceMember
    <3> QED
      BY <1>0, <3>1, ThisMemberType
  <2>3. (Wanted(m.name) /\ MatchArgs(m.name)) \/ args' = args
    BY <1>3 DEF ReplaceMember
  <2>4. \/ disk[m.name] # Missing /\ Put(m, FromFile(disk, m.name))
        \/ Put(m, m)
    BY <1>3 DEF ReplaceMember
  <2>5. tmp0 \in Seq(Member) /\ tmp0 # Missing
    BY <2>1, FirstFileExists, ArchiverAssumption
  <2>6. args' \in Seq(Named \cup {Missing})
    BY <1>0, <2>3, MatchArgsOne
  <2>7. tmp0' \in Seq(Member) \cup {Missing} /\ tmp1' \in Seq(Member) \cup {Missing}
    BY <1>0, <2>2, <2>4, <2>5, PutType, FromFileType
  <2> QED
    BY <1>0, <1>00, <2>1, <2>6, <2>7 DEF TypeOK
<1>4. CASE ReadMember
  <2> DEFINE m == ThisMember
  <2>1. /\ pc = "scan" /\ next' = next + 1
        /\ archive' = archive /\ now' = now /\ cmd' = cmd /\ job' = job
        /\ tmp0' = tmp0 /\ tmp1' = tmp1 /\ before' = before
        /\ pc' \in {"scan", "finish"} /\ status' \in {status, "not created"}
    BY <1>4 DEF ReadMember, Scanning, temps
  <2>2. m.name \in Named /\ m.content \in Content
    <3>1. Scanning({"t", "x"})
      BY <1>4 DEF ReadMember
    <3> QED
      BY <1>0, <3>1, ThisMemberType
  <2>3. (Wanted(m.name) /\ MatchArgs(m.name)) \/ args' = args
    BY <1>4 DEF ReadMember
  <2>4. disk' = [disk EXCEPT ![m.name] = [content |-> m.content, date |-> now]] \/ disk' = disk
    BY <1>4 DEF ReadMember
  <2>5. [content |-> m.content, date |-> now] \in OnDisk
    BY <1>0, <2>2 DEF OnDisk
  <2>6. disk' \in Disk
    <3> HIDE DEF m
    <3> QED
      BY <1>0, <2>2, <2>4, <2>5 DEF Disk
  <2>7. args' \in Seq(Named \cup {Missing})
    BY <1>0, <2>3, MatchArgsOne
  <2>8. status' \in Status
    BY <1>0, <2>1 DEF Status
  <2> QED
    BY <1>0, <1>00, <2>1, <2>6, <2>7, <2>8 DEF TypeOK
<1>5. CASE ScanEnds
  <2>1. pc' \in {"append", "install", "finish"}
    BY <1>5 DEF ScanEnds
  <2> QED
    BY <1>0, <1>5, <2>1 DEF ScanEnds, TypeOK, files, temps
<1>6. CASE AppendArgs
  <2>1. /\ archive' = archive /\ disk' = disk /\ now' = now /\ cmd' = cmd /\ job' = job
        /\ pc' = "install" /\ status' = status /\ before' = before /\ next' = next
        /\ tmp1' = tmp1 /\ tmp0' = tmp0 \o NewMembers /\ pc = "append"
        /\ args' = [i \in DOMAIN args |-> Missing]
    BY <1>6 DEF AppendArgs, files
  <2>2. job.op = "r"
    BY <1>0, <2>1 DEF JobRuns
  <2>3. tmp0 \in Seq(Member)
    BY <2>1, <2>2, FirstFileExists
  <2>4. tmp0' \in Seq(Member)
    BY <1>0, <2>1, <2>3, NewMembersType, ConcatProperties
  <2>5. Len(args) \in Nat /\ DOMAIN args = 1 .. Len(args)
    BY <1>0, LenProperties
  <2>6. args' \in [1 .. Len(args) -> Named \cup {Missing}]
    BY <2>1, <2>5
  <2>7. args' \in Seq(Named \cup {Missing})
    BY <2>5, <2>6, FunctionIsSeq
  <2> QED
    BY <1>0, <2>1, <2>4, <2>7 DEF TypeOK
<1>7. CASE Truncate
  BY <1>0, <1>7 DEF Truncate, TypeOK, temps
<1>8. CASE CopyTemps
  <2>1. /\ disk' = disk /\ now' = now /\ cmd' = cmd /\ job' = job
        /\ pc' = "finish" /\ status' = status /\ before' = before /\ next' = next
        /\ tmp0' = tmp0 /\ tmp1' = tmp1 /\ args' = args /\ pc = "copy"
        /\ archive' = IF tmp1 = Missing THEN tmp0 ELSE tmp0 \o tmp1
    BY <1>8 DEF CopyTemps, temps
  <2>2. job.op \in {"d", "r"}
    BY <1>0, <2>1 DEF JobRuns
  <2>3. tmp0 \in Seq(Member)
    BY <2>1, <2>2, FirstFileExists
  <2>4. archive' \in Seq(Member)
    BY <1>0, <2>1, <2>3, ConcatProperties
  <2> QED
    BY <1>0, <2>1, <2>4 DEF TypeOK
<1>9. CASE Finish
  <2>1. /\ pc' \in {"idle", "update"} /\ status' \in Status
        /\ tmp0' = Missing /\ tmp1' = Missing
    BY <1>0, <1>9 DEF Finish, Unlinked, Status
  <2>2. UNCHANGED <<files, commands, cmd, job, args, next, before>>
    BY <1>9 DEF Finish
  <2> QED
    BY <1>0, <2>1, <2>2 DEF TypeOK, files
<1>10. CASE UpdateSymbols
  <2>1. archive' = archive /\ now' = now /\ cmd' = cmd /\ pc = "update"
    BY <1>10 DEF UpdateSymbols
  <2>2. archive # Damaged
    BY <1>0, <2>1 DEF JobRuns
  <2>3. CASE archive = Missing \/ archive = << >> \/ Overflow(Directory(archive))
    <3>1. \E how \in Status : Exit(how)
      BY <1>10, <2>3 DEF UpdateSymbols, Status
    <3>2. UNCHANGED <<disk, job, args, next, before>>
      BY <1>10, <2>3 DEF UpdateSymbols
    <3> QED
      BY <1>0, <2>1, <3>1, <3>2 DEF TypeOK, Exit, Unlinked
  <2>4. CASE ~(archive = Missing \/ archive = << >> \/ Overflow(Directory(archive)))
    <3> DEFINE d == Directory(archive)
    <3>1. archive \in Seq(Member)
      BY <1>0, <2>2, <2>4
    <3>2. d \in Seq(Entry)
      BY <3>1, DirectoryLists
    <3>3. 1 \in 1 .. Len(archive)
      BY <2>4, <3>1, EmptySeq
    <3>4. archive[1] \in Member
      BY <3>1, <3>3, ElementOfSeq
    <3>5. archive[1].name \in Named
      BY <3>4 DEF Member
    <3> HIDE DEF d
    <3>6. disk' = [disk EXCEPT ![SYMDEF] = [content |-> d, date |-> now]]
      BY <1>10, <2>4 DEF UpdateSymbols, d
    <3>7. [content |-> d, date |-> now] \in OnDisk /\ SYMDEF \in Named
      BY <1>0, <3>2 DEF OnDisk, Content, Named
    <3>8. disk' \in Disk
      BY <1>0, <3>6, <3>7 DEF Disk
    <3>9. CASE d = << >>
      <4>1. Exit("crash") /\ UNCHANGED <<job, args, next, before>>
        BY <1>10, <2>4, <3>9 DEF UpdateSymbols, d
      <4> QED
        BY <1>0, <2>1, <3>8, <4>1 DEF TypeOK, Exit, Unlinked, Status
    <3>10. CASE d # << >>
      <4>1. /\ job' = [op |-> "r", args |-> <<SYMDEF>>, where |-> "b",
                       at |-> archive[1].name, u |-> FALSE, s |-> FALSE]
            /\ args' = <<SYMDEF>> /\ next' = 1
            /\ before' = [archive |-> archive, disk |-> disk']
            /\ pc' = "scan" /\ tmp0' = << >> /\ tmp1' = Missing /\ status' = status
        BY <1>10, <2>4, <3>10 DEF UpdateSymbols, d
      <4>2. job' \in Job
        BY <3>5, <4>1 DEF Job
      <4>3. << >> \in Seq(Member) /\ <<SYMDEF>> \in Seq(Named \cup {Missing})
        BY <3>7
      <4> QED
        BY <1>0, <2>1, <3>1, <3>8, <4>1, <4>2, <4>3 DEF TypeOK
    <3> QED
      BY <3>9, <3>10
  <2> QED
    BY <2>3, <2>4
<1>11. CASE WriteError
  BY <1>0, <1>11 DEF WriteError, Exit, Unlinked, TypeOK, Status, files
<1>12. CASE Kill
  BY <1>0, <1>12 DEF Kill, TypeOK, Status, files, temps
<1>13. ASSUME NEW n \in File, NEW o \in Object \cup {Missing}, EditFile(n, o) PROVE TypeOK'
  <2>1. /\ archive # Damaged /\ before' = [archive |-> archive, disk |-> disk']
        /\ UNCHANGED <<archive, commands, cmd, job, pc, args, next, temps, status>>
    BY <1>13 DEF EditFile
  <2>2. PICK t \in {now, now + 1} :
           now' = t /\ disk' = [disk EXCEPT ![n] = IF o = Missing THEN Missing
                                                 ELSE [content |-> o, date |-> t]]
    BY <1>13 DEF EditFile
  <2>3. now' \in Nat
    BY <1>0, <2>2
  <2>4. (IF o = Missing THEN Missing ELSE [content |-> o, date |-> t]) \in OnDisk \cup {Missing}
    BY <2>2, <2>3 DEF OnDisk, Content
  <2>5. disk' \in Disk
    BY <1>0, <2>2, <2>4 DEF Disk
  <2> QED
    BY <1>0, <2>1, <2>3, <2>5 DEF TypeOK, temps
<1>14. CASE UNCHANGED vars
  BY <1>0, <1>14 DEF vars, files, temps, TypeOK
<1>15. CASE ExtractionError \/ DirectoryNotWritten
  <2>1. /\ Exit("write error") \/ Exit("no directory")
        /\ UNCHANGED <<archive, now, commands, cmd, job, args, next, before>>
        /\ disk' \in Disk
    BY <1>15, FailsToWrite DEF Inv
  <2> QED
    BY <1>0, <2>1 DEF TypeOK, Exit, Unlinked, Status
<1> QED
  BY <1>1, <1>2, <1>3, <1>4, <1>5, <1>6, <1>7, <1>8, <1>9, <1>10, <1>11, <1>12, <1>13, <1>14,
     <1>15
     DEF Next, Terminating
\* A job that starts: what it is, and that it has seen nothing yet.
LEMMA UpdateStarts ==
    ASSUME Inv, UpdateSymbols
    PROVE  /\ archive' = archive /\ archive # Damaged /\ cmd' = cmd
           /\ \/ pc' = "idle" /\ UNCHANGED <<job, args, next, before>>
              \/ /\ pc' = "scan" /\ tmp0' = << >> /\ tmp1' = Missing /\ next' = 1
                 /\ archive \in Seq(Member) /\ archive # << >>
                 /\ disk' = [disk EXCEPT ![SYMDEF] = [content |-> Directory(archive), date |-> now]]
                 /\ before' = [archive |-> archive, disk |-> disk']
                 /\ job' = [op |-> "r", args |-> <<SYMDEF>>, where |-> "b",
                            at |-> archive[1].name, u |-> FALSE, s |-> FALSE]
                 /\ args' = <<SYMDEF>> /\ status' = status
<1>1. archive' = archive /\ cmd' = cmd /\ pc = "update"
  BY DEF UpdateSymbols
<1>2. archive # Damaged
  BY <1>1 DEF Inv, JobRuns
<1>3. CASE archive = Missing \/ archive = << >> \/ Overflow(Directory(archive))
  <2>1. pc' = "idle" /\ UNCHANGED <<job, args, next, before>>
    BY <1>3 DEF UpdateSymbols, Exit
  <2> QED
    BY <1>1, <1>2, <2>1
<1>4. CASE ~(archive = Missing \/ archive = << >> \/ Overflow(Directory(archive)))
  <2>1. CASE Directory(archive) = << >>
    <3>1. pc' = "idle" /\ UNCHANGED <<job, args, next, before>>
      BY <1>4, <2>1 DEF UpdateSymbols, Exit
    <3> QED
      BY <1>1, <1>2, <3>1
  <2>2. CASE Directory(archive) # << >>
    <3>1. archive \in Seq(Member)
      BY <1>2, <1>4 DEF Inv, TypeOK
    <3>2. /\ pc' = "scan" /\ tmp0' = << >> /\ tmp1' = Missing /\ next' = 1
          /\ disk' = [disk EXCEPT ![SYMDEF] = [content |-> Directory(archive), date |-> now]]
          /\ before' = [archive |-> archive, disk |-> disk']
          /\ job' = [op |-> "r", args |-> <<SYMDEF>>, where |-> "b",
                     at |-> archive[1].name, u |-> FALSE, s |-> FALSE]
          /\ args' = <<SYMDEF>> /\ status' = status
      BY <1>4, <2>2 DEF UpdateSymbols
    <3> QED
      BY <1>1, <1>2, <1>4, <3>1, <3>2
  <2> QED
    BY <2>1, <2>2
<1> QED
  BY <1>3, <1>4

LEMMA CommandStarts ==
    ASSUME NEW c \in Command, RunCommand(c)
    PROVE  /\ archive' = archive /\ disk' = disk /\ archive # Damaged /\ status # "killed"
           /\ pc = "idle" /\ cmd' = c /\ job' = c
           /\ before' = [archive |-> archive, disk |-> disk] /\ args' = c.args
           /\ \/ c.op = "none" /\ pc' = "update" /\ UNCHANGED <<next, temps>>
              \/ c.op # "none" /\ pc' = "idle" /\ archive = Missing /\ status' = "no archive"
              \/ /\ c.op # "none" /\ pc' = "scan" /\ next' = 1 /\ tmp1' = Missing
                 /\ archive = Missing => c.op \notin {"d", "t", "x"}
                 /\ c.op \in {"d", "r"} => tmp0' = << >>
<1>1. /\ archive' = archive /\ disk' = disk /\ archive # Damaged /\ status # "killed"
      /\ pc = "idle" /\ cmd' = c
  BY DEF RunCommand, files
<1>2. CASE c.op = "none"
  BY <1>1, <1>2 DEF RunCommand
<1>3. CASE c.op # "none"
  <2>1. Start(c)
    BY <1>3 DEF RunCommand
  <2>2. /\ job' = c /\ args' = c.args /\ next' = 1
        /\ before' = [archive |-> archive, disk |-> disk]
    BY <2>1 DEF Start
  <2>3. CASE archive = Missing /\ c.op \in {"d", "t", "x"}
    BY <1>1, <1>3, <2>1, <2>2, <2>3 DEF Start, Exit
  <2>4. CASE ~(archive = Missing /\ c.op \in {"d", "t", "x"})
    <3>1. /\ pc' = "scan" /\ tmp1' = Missing
          /\ tmp0' = (IF c.op \in {"d", "r"} THEN << >> ELSE Missing)
      BY <2>1, <2>4 DEF Start
    <3> QED
      BY <1>1, <1>3, <2>2, <2>4, <3>1
  <2> QED
    BY <2>3, <2>4
<1> QED
  BY <1>2, <1>3

\* Every other step leaves the job, and what it started from.
LEMMA JobStays ==
    ASSUME \/ DeleteMember \/ ReplaceMember \/ ReadMember \/ ScanEnds \/ AppendArgs
           \/ Truncate \/ CopyTemps \/ Finish \/ WriteError \/ Kill \/ UNCHANGED vars
           \/ ExtractionError \/ DirectoryNotWritten
    PROVE  job' = job /\ before' = before /\ Before' = Before /\ Result' = Result /\ cmd' = cmd
<1>1. job' = job /\ before' = before /\ cmd' = cmd
  BY DEF DeleteMember, ReplaceMember, ReadMember, ScanEnds, AppendArgs, Truncate, CopyTemps,
         Finish, WriteError, Kill, vars, ExtractionError, DirectoryNotWritten
<1> QED
  BY <1>1 DEF Before, Result

LEMMA EditStarts ==
    ASSUME NEW n \in File, NEW o \in Object \cup {Missing}, EditFile(n, o)
    PROVE  /\ pc = "idle" /\ pc' = "idle" /\ archive' = archive /\ archive # Damaged
           /\ before' = [archive |-> archive, disk |-> disk'] /\ cmd' = cmd /\ job' = job
           /\ status' = status
           /\ \E y : disk' = [disk EXCEPT ![n] = y]
  BY DEF EditFile
LEMMA JobRunsStep ==
    ASSUME Inv, [Next]_vars
    PROVE  JobRuns'
<1>0. /\ TypeOK /\ JobRuns /\ next \in Nat \ {0} /\ Len(Before) \in Nat /\ job \in Job
      /\ pc \in {"idle", "scan", "append", "install", "copy", "finish", "update"}
      /\ archive = Damaged =>
            pc = "copy" \/ (pc = "idle" /\ status \in {"killed", "write error"})
      /\ pc = "scan" => archive = before.archive /\ next <= Len(Before) + 1 /\ Members = Before
                        /\ (job.op \in {"d", "r"} => disk = before.disk)
                        /\ job.op # "none" /\ (before.archive = Missing => job.op = "r")
  BY WorkedOn DEF Inv, TypeOK, JobRuns, Running
<1>00. Before' \in Seq(Member) /\ Len(Before') \in Nat
  <2>1. before'.archive \in Seq(Member) \cup {Missing}
    BY TypeStep DEF TypeOK
  <2>2. Before' \in Seq(Member)
    BY <2>1, EmptySeq DEF Before
  <2> QED
    BY <2>2, LenProperties
<1>1. ASSUME NEW c \in Command, RunCommand(c) PROVE JobRuns'
  <2>1. archive' = archive /\ disk' = disk /\ archive # Damaged /\ job' = c
        /\ before' = [archive |-> archive, disk |-> disk]
    BY <1>1, CommandStarts
  <2>2. \/ pc' \in {"update", "idle"}
        \/ pc' = "scan" /\ next' = 1 /\ c.op # "none"
           /\ (archive = Missing => c.op \notin {"d", "t", "x"})
    BY <1>1, CommandStarts
  <2>3. c.op \in {"d", "r", "t", "x", "none"}
    BY JobType DEF Job
  <2>4. CASE pc' \in {"update", "idle"}
    BY <2>1, <2>4 DEF JobRuns, Running
  <2>5. CASE pc' = "scan" /\ next' = 1 /\ c.op # "none"
                   /\ (archive = Missing => c.op \notin {"d", "t", "x"})
    BY <1>00, <2>1, <2>3, <2>5 DEF JobRuns, Running
  <2> QED
    BY <2>2, <2>4, <2>5
<1>2. CASE DeleteMember
  <2>1. /\ pc = "scan" /\ pc' = "scan" /\ next <= Len(Members) /\ next' = next + 1
        /\ archive' = archive /\ disk' = disk /\ job' = job /\ before' = before /\ Before' = Before
    BY <1>2, JobStays DEF DeleteMember, Scanning, files
  <2> QED
    BY <1>0, <2>1 DEF JobRuns, Running
<1>3. CASE ReplaceMember
  <2>1. /\ pc = "scan" /\ pc' = "scan" /\ next <= Len(Members) /\ next' = next + 1
        /\ archive' = archive /\ disk' = disk /\ job' = job /\ before' = before /\ Before' = Before
    BY <1>3, JobStays DEF ReplaceMember, Scanning, files
  <2> QED
    BY <1>0, <2>1 DEF JobRuns, Running
<1>4. CASE ReadMember
  <2>1. /\ pc = "scan" /\ pc' \in {"scan", "finish"} /\ next <= Len(Members) /\ next' = next + 1
        /\ archive' = archive /\ job' = job /\ before' = before /\ Before' = Before
        /\ job.op \in {"t", "x"}
    BY <1>4, JobStays DEF ReadMember, Scanning
  <2>2. /\ next' <= Len(Before') + 1 /\ archive' = before'.archive /\ archive' # Damaged
        /\ job'.op \notin {"d", "r", "none"} /\ before'.archive # Missing
    BY <1>0, <2>1
  <2> QED
    BY <2>1, <2>2 DEF JobRuns, Running
<1>5. CASE ScanEnds
  <2>1. /\ pc = "scan" /\ next > Len(Members) /\ next' = next
        /\ archive' = archive /\ disk' = disk /\ job' = job /\ before' = before /\ Before' = Before
        /\ \/ job.op = "r" /\ pc' = "append"
           \/ job.op = "d" /\ pc' = "install"
           \/ pc' = "finish"
    BY <1>5, JobStays DEF ScanEnds, files
  <2>2. next = Len(Before) + 1 /\ archive = before.archive /\ archive # Damaged
        /\ job.op # "none" /\ (before.archive = Missing => job.op = "r")
    BY <1>0, <2>1
  <2>3. Running' => job'.op # "none" /\ (before'.archive = Missing => job'.op = "r")
    BY <2>1, <2>2
  <2>4. pc' \in {"scan", "append", "install"} => archive' = before'.archive
    BY <2>1, <2>2
  <2>5. pc' = "append" => job'.op = "r" /\ next' = Len(Before') + 1
    BY <2>1, <2>2
  <2>6. pc' \in {"scan", "append"} /\ job'.op \in {"d", "r"} => disk' = before'.disk
    BY <1>0, <2>1
  <2>7. (pc' \in {"install", "copy"} => job'.op \in {"d", "r"}) /\ pc' # "scan" /\ archive' # Damaged
    BY <2>1, <2>2
  <2> QED
    BY <2>3, <2>4, <2>5, <2>6, <2>7 DEF JobRuns
<1>6. CASE AppendArgs
  <2>1. /\ pc = "append" /\ pc' = "install"
        /\ archive' = archive /\ job' = job /\ before' = before
    BY <1>6 DEF AppendArgs, files
  <2>2. job.op = "r" /\ archive = before.archive
    BY <1>0, <2>1 DEF JobRuns
  <2> QED
    BY <1>0, <2>1, <2>2 DEF JobRuns, Running
<1>7. CASE Truncate
  <2>1. pc = "install" /\ pc' = "copy" /\ job' = job /\ before' = before
    BY <1>7 DEF Truncate
  <2>2. job.op \in {"d", "r"} /\ (before.archive = Missing => job.op = "r")
    BY <1>0, <2>1 DEF JobRuns, Running
  <2> QED
    BY <2>1, <2>2 DEF JobRuns, Running
<1>8. CASE CopyTemps
  <2>1. /\ pc = "copy" /\ pc' = "finish" /\ job' = job /\ before' = before
        /\ archive' = Temps
    BY <1>8 DEF CopyTemps, Temps
  <2>2. job.op \in {"d", "r"} /\ (before.archive = Missing => job.op = "r")
    BY <1>0, <2>1 DEF JobRuns, Running
  <2>3. archive' # Damaged
    <3>1. tmp0 \in Seq(Member)
      BY <2>1, <2>2, FirstFileExists
    <3>2. Temps \in Seq(Member)
      BY <1>0, <3>1, ConcatProperties DEF Temps, TypeOK
    <3> QED
      BY <2>1, <3>2, ArchiverAssumption
  <2> QED
    BY <2>1, <2>2, <2>3 DEF JobRuns, Running
<1>9. CASE Finish
  <2>1. pc' \in {"idle", "update"} /\ archive' = archive /\ pc = "finish"
    BY <1>9 DEF Finish, files
  <2> QED
    BY <1>0, <2>1 DEF JobRuns, Running
<1>10. CASE UpdateSymbols
  <2>1. archive' = archive /\ archive # Damaged
    BY <1>10, UpdateStarts
  <2>2. \/ pc' = "idle"
        \/ pc' = "scan" /\ next' = 1 /\ job'.op = "r" /\ archive # Missing
           /\ before'.archive = archive /\ before'.disk = disk'
    <3>1. archive \in Seq(Member) => archive # Missing
      BY ArchiverAssumption
    <3>2. (pc' = "idle") \/
            /\ pc' = "scan" /\ next' = 1 /\ archive \in Seq(Member)
            /\ before' = [archive |-> archive, disk |-> disk']
            /\ job' = [op |-> "r", args |-> <<SYMDEF>>, where |-> "b",
                       at |-> archive[1].name, u |-> FALSE, s |-> FALSE]
      BY <1>10, UpdateStarts
    <3> QED
      BY <3>1, <3>2
  <2>3. CASE pc' = "idle"
    BY <2>1, <2>3 DEF JobRuns, Running
  <2>4. CASE pc' = "scan" /\ next' = 1 /\ job'.op = "r" /\ archive # Missing
             /\ before'.archive = archive /\ before'.disk = disk'
    BY <1>00, <2>1, <2>4 DEF JobRuns, Running
  <2> QED
    BY <2>2, <2>3, <2>4
<1>11. CASE WriteError
  <2>1. /\ pc' = "idle" /\ status' = "write error"
    BY <1>11 DEF WriteError, Exit
  <2> QED
    BY <2>1 DEF JobRuns, Running
<1>12. CASE Kill
  BY <1>12 DEF Kill, JobRuns, Running
<1>13. ASSUME NEW n \in File, NEW o \in Object \cup {Missing}, EditFile(n, o) PROVE JobRuns'
  <2>1. pc' = "idle" /\ archive' = archive /\ archive # Damaged
    BY <1>13, EditStarts
  <2> QED
    BY <2>1 DEF JobRuns, Running
<1>14. CASE UNCHANGED vars
  BY <1>0, <1>14 DEF vars, files, temps, JobRuns, Running, Before
<1>15. CASE ExtractionError \/ DirectoryNotWritten
  <2>1. pc' = "idle" /\ archive' # Damaged
    BY <1>15, FailsToWrite
  <2> QED
    BY <2>1 DEF JobRuns, Running
<1> QED
  BY <1>1, <1>2, <1>3, <1>4, <1>5, <1>6, <1>7, <1>8, <1>9, <1>10, <1>11, <1>12, <1>13, <1>14,
     <1>15
     DEF Next, Terminating

LEMMA NamesUniqueStep ==
    ASSUME Inv, [Next]_vars
    PROVE  NamesUnique'
<1>0. /\ TypeOK /\ JobRuns /\ Unique(Before) /\ Before \in Seq(Member)
      /\ archive \notin {Missing, Damaged} => Unique(archive)
  BY WorkedOn DEF Inv, NamesUnique
<1>1. Unique(<< >>)
  BY DEF Unique
<1>2. CASE archive' = archive /\ Before' = Before
  BY <1>0, <1>2 DEF NamesUnique
<1>3. CASE archive' = archive /\ archive # Damaged /\ before'.archive = archive
  <2>1. Before' = IF archive = Missing THEN << >> ELSE archive
    BY <1>3 DEF Before
  <2> QED
    BY <1>0, <1>1, <1>3, <2>1 DEF NamesUnique
<1>4. ASSUME NEW c \in Command, RunCommand(c) PROVE NamesUnique'
  <2>1. archive' = archive /\ archive # Damaged /\ before' = [archive |-> archive, disk |-> disk]
    BY <1>4, CommandStarts
  <2> QED
    BY <1>3, <2>1
<1>5. CASE DeleteMember \/ ReplaceMember \/ ReadMember \/ ScanEnds \/ AppendArgs \/ Finish
           \/ WriteError \/ ExtractionError \/ DirectoryNotWritten \/ Kill \/ UNCHANGED vars
  <2>1. archive' = archive
    BY <1>5 DEF DeleteMember, ReplaceMember, ReadMember, ScanEnds, AppendArgs, Finish,
                WriteError, ExtractionError, DirectoryNotWritten, Kill, vars, files
  <2> QED
    BY <1>2, <1>5, <2>1, JobStays
<1>6. CASE Truncate
  <2>1. archive' = Damaged /\ Before' = Before
    BY <1>6, JobStays DEF Truncate
  <2> QED
    BY <1>0, <2>1 DEF NamesUnique
<1>7. CASE CopyTemps
  <2>1. pc = "copy" /\ archive' = Temps /\ Before' = Before
    BY <1>7, JobStays DEF CopyTemps, Temps
  <2>2. Temps = Result
    BY <2>1 DEF Inv, TempsHold
  <2>3. Unique(Result)
    <3>1. job \in Job /\ before.disk \in Disk
      BY <1>0 DEF TypeOK
    <3> QED
      BY <1>0, <3>1, AskedType DEF Result
  <2> QED
    BY <1>0, <2>1, <2>2, <2>3 DEF NamesUnique
<1>8. CASE UpdateSymbols
  <2>1. archive' = archive /\ archive # Damaged /\ (before' = before \/ before'.archive = archive)
    BY <1>8, UpdateStarts
  <2>2. CASE before' = before
    BY <1>2, <2>1, <2>2 DEF Before
  <2> QED
    BY <1>3, <2>1, <2>2
<1>9. ASSUME NEW n \in File, NEW o \in Object \cup {Missing}, EditFile(n, o)
      PROVE  NamesUnique'
  <2>1. archive' = archive /\ archive # Damaged /\ before' = [archive |-> archive, disk |-> disk']
    BY <1>9 DEF EditFile
  <2> QED
    BY <1>3, <2>1
<1> QED
  BY <1>4, <1>5, <1>6, <1>7, <1>8, <1>9 DEF Next, Terminating
\* What is known of the arguments during a scan.
LEMMA ArgsNow ==
    ASSUME Inv, pc \in {"scan", "append"}
    PROVE  /\ DOMAIN args = DOMAIN job.args
           /\ \A i \in DOMAIN args : job.args[i] \in NamesTo(Before, next - 1) => args[i] = Missing
           /\ \A i \in DOMAIN args : job.args[i] \notin NamesTo(Before, next - 1) => args[i] = job.args[i]
           /\ \A i \in DOMAIN args : job.args[i] \in Named /\ job.args[i] # Missing
           /\ \A i, k \in DOMAIN args : job.args[i] = job.args[k] => i = k
<1>1. ArgsConsumed /\ job \in Job
  BY DEF Inv, TypeOK
<1>2. job.args \in Seq(Named) /\ \A i, k \in DOMAIN job.args : job.args[i] = job.args[k] => i = k
  BY <1>1, JobType
<1>3. \A i \in DOMAIN job.args : job.args[i] \in Named
  BY <1>2, ElementOfSeq, LenProperties
<1>4. Missing \notin Named
  BY ArchiverAssumption
<1> QED
  BY <1>1, <1>2, <1>3, <1>4 DEF ArgsConsumed

\* A name is left among the arguments exactly if the job names it, as no
\* earlier member has it.
LEMMA WantedIsNamed ==
    ASSUME Inv, NEW ops, Scanning(ops)
    PROVE  Wanted(ThisMember.name) <=> ThisMember.name \in NamedBy(job)
<1> DEFINE n == ThisMember.name
           seen == NamesTo(Before, next - 1)
<1>1. /\ next \in 1 .. Len(Before) /\ n = Before[next].name /\ n \in Named
      /\ DOMAIN Before = 1 .. Len(Before) /\ Len(Before) \in Nat
  BY ThisMemberType, WorkedOn DEF Inv
<1>2. n \notin seen
  <2> SUFFICES ASSUME NEW i \in 1 .. (next - 1), Before[i].name = n PROVE FALSE
    BY DEF NamesTo
  <2>1. i \in DOMAIN Before /\ i # next
    BY <1>1
  <2> QED
    BY <1>1, <2>1 DEF Inv, NamesUnique, Unique
<1> HIDE DEF n, seen
<1>3. /\ DOMAIN args = DOMAIN job.args
      /\ \A i \in DOMAIN args : job.args[i] \in seen => args[i] = Missing
      /\ \A i \in DOMAIN args : job.args[i] \notin seen => args[i] = job.args[i]
  BY ArgsNow DEF Scanning, seen
<1>4. Wanted(n) <=> \E i \in DOMAIN args : args[i] = n
  BY DEF Wanted, ArgsFor
<1>5. n \in NamedBy(job) <=> \E i \in DOMAIN job.args : job.args[i] = n
  BY DEF NamedBy
<1>6. n # Missing
  BY <1>1, ArchiverAssumption
<1> QED
  BY <1>2, <1>3, <1>4, <1>5, <1>6 DEF n

\* One member more is seen.
LEMMA ConsumedNext ==
    ASSUME Inv, NEW ops, Scanning(ops), next' = next + 1, job' = job, Before' = Before,
           \/ Wanted(ThisMember.name) /\ MatchArgs(ThisMember.name)
           \/ ~Wanted(ThisMember.name) /\ args' = args
    PROVE  ArgsConsumed'
<1> DEFINE n == ThisMember.name
           seen == NamesTo(Before, next - 1)
           now_seen == NamesTo(Before, next)
<1>1. /\ next \in 1 .. Len(Before) /\ n = Before[next].name /\ n \in Named
      /\ Len(Before) \in Nat
  BY ThisMemberType, WorkedOn DEF Inv
<1>2. now_seen = seen \cup {n}
  <2>1. 1 .. next = (1 .. (next - 1)) \cup {next}
    BY <1>1
  <2> QED
    BY <1>1, <2>1 DEF NamesTo
<1>3. next' - 1 = next
  BY <1>1
<1> HIDE DEF n, seen
<1>4. /\ DOMAIN args = DOMAIN job.args
      /\ \A i \in DOMAIN args : job.args[i] \in seen => args[i] = Missing
      /\ \A i \in DOMAIN args : job.args[i] \notin seen => args[i] = job.args[i]
      /\ \A i \in DOMAIN args : job.args[i] # Missing
      /\ \A i, k \in DOMAIN args : job.args[i] = job.args[k] => i = k
  BY ArgsNow DEF Scanning, seen
<1>5. n # Missing
  BY <1>1, ArchiverAssumption
<1>6. Wanted(n) <=> \E i \in DOMAIN args : args[i] = n
  BY DEF Wanted, ArgsFor
<1>7. CASE Wanted(n) /\ MatchArgs(n)
  <2>1. args \in Seq(Named \cup {Missing})
    BY DEF Inv, TypeOK
  <2>2. /\ DOMAIN args' = DOMAIN args
        /\ \E i \in DOMAIN args : args[i] = n /\ args' = [args EXCEPT ![i] = Missing]
    BY <1>7, <2>1, MatchArgsOne
  <2>3. PICK i \in DOMAIN args : args[i] = n /\ args' = [args EXCEPT ![i] = Missing]
    BY <2>2
  <2>4. job.args[i] = n
    BY <1>4, <1>5, <2>3
  <2>5. ASSUME NEW k \in DOMAIN args
        PROVE  args'[k] = IF job.args[k] \in now_seen THEN Missing ELSE job.args[k]
    <3>1. CASE k = i
      BY <1>2, <2>3, <2>4, <3>1
    <3>2. CASE k # i
      <4>1. args'[k] = args[k] /\ job.args[k] # n
        BY <1>4, <2>3, <2>4, <3>2
      <4> QED
        BY <1>2, <1>4, <4>1
    <3> QED
      BY <3>1, <3>2
  <2> QED
    BY <1>3, <1>4, <2>2, <2>5 DEF ArgsConsumed
<1>8. CASE ~Wanted(n) /\ args' = args
  <2>1. ASSUME NEW k \in DOMAIN args
        PROVE  args[k] = IF job.args[k] \in now_seen THEN Missing ELSE job.args[k]
    BY <1>2, <1>4, <1>6, <1>8
  <2> QED
    BY <1>3, <1>4, <1>8, <2>1 DEF ArgsConsumed
<1> QED
  BY <1>7, <1>8 DEF n

LEMMA ArgsConsumedStep ==
    ASSUME Inv, [Next]_vars
    PROVE  ArgsConsumed'
<1>1. CASE pc' \notin {"scan", "append"}
  BY <1>1 DEF ArgsConsumed
<1>2. CASE args' = job'.args /\ next' = 1
  <2>1. NamesTo(Before', next' - 1) = {}
    <3>1. 1 .. (next' - 1) = {}
      BY <1>2
    <3> QED
      BY <3>1 DEF NamesTo
  <2> QED
    BY <1>2, <2>1 DEF ArgsConsumed
<1>3. CASE /\ pc \in {"scan", "append"}
           /\ args' = args /\ job' = job /\ next' = next /\ Before' = Before
  BY <1>3 DEF ArgsConsumed, Inv
<1>4. ASSUME NEW c \in Command, RunCommand(c) PROVE ArgsConsumed'
  <2>1. pc' \in {"update", "idle"} \/ (args' = job'.args /\ next' = 1)
    BY <1>4, CommandStarts
  <2> QED
    BY <1>1, <1>2, <2>1
<1>5. CASE DeleteMember
  <2>1. /\ Scanning({"d"}) /\ next' = next + 1
        /\ \/ Wanted(ThisMember.name) /\ MatchArgs(ThisMember.name)
           \/ ~Wanted(ThisMember.name) /\ args' = args
    BY <1>5 DEF DeleteMember
  <2> QED
    BY <1>5, <2>1, ConsumedNext, JobStays
<1>6. CASE ReplaceMember
  <2>1. Scanning({"r"}) /\ next' = next + 1
    BY <1>6 DEF ReplaceMember
  <2>2. \/ job.args # << >> /\ Wanted(ThisMember.name) /\ MatchArgs(ThisMember.name)
        \/ ~(job.args # << >> /\ Wanted(ThisMember.name)) /\ args' = args
    BY <1>6 DEF ReplaceMember
  <2>3. job.args = << >> => ~Wanted(ThisMember.name)
    <3>1. job.args = << >> => NamedBy(job) = {}
      BY DEF NamedBy
    <3> QED
      BY <2>1, <3>1, WantedIsNamed
  <2> QED
    BY <1>6, <2>1, <2>2, <2>3, ConsumedNext, JobStays
<1>7. CASE ReadMember
  <2>1. /\ Scanning({"t", "x"}) /\ next' = next + 1
        /\ \/ Wanted(ThisMember.name) /\ MatchArgs(ThisMember.name)
           \/ ~Wanted(ThisMember.name) /\ args' = args
    BY <1>7 DEF ReadMember
  <2> QED
    BY <1>7, <2>1, ConsumedNext, JobStays
<1>8. CASE ScanEnds
  <2>1. pc = "scan" /\ args' = args /\ next' = next
    BY <1>8 DEF ScanEnds
  <2> QED
    BY <1>3, <1>8, <2>1, JobStays
<1>9. CASE AppendArgs \/ Truncate \/ CopyTemps \/ Finish \/ WriteError \/ Kill
           \/ ExtractionError \/ DirectoryNotWritten
  <2>1. pc' \notin {"scan", "append"}
    BY <1>9, FailsToWrite DEF AppendArgs, Truncate, CopyTemps, Finish, WriteError, Kill, Exit
  <2> QED
    BY <1>1, <2>1
<1>10. CASE UpdateSymbols
  <2>1. pc' = "idle" \/ (args' = job'.args /\ next' = 1)
    <3>1. \/ pc' = "idle"
          \/ /\ next' = 1 /\ args' = <<SYMDEF>>
             /\ job' = [op |-> "r", args |-> <<SYMDEF>>, where |-> "b",
                        at |-> archive[1].name, u |-> FALSE, s |-> FALSE]
      BY <1>10, UpdateStarts
    <3> QED
      BY <3>1
  <2> QED
    BY <1>1, <1>2, <2>1
<1>11. ASSUME NEW n \in File, NEW o \in Object \cup {Missing}, EditFile(n, o)
       PROVE  ArgsConsumed'
  <2>1. pc' = "idle"
    BY <1>11 DEF EditFile
  <2> QED
    BY <1>1, <2>1
<1>12. CASE UNCHANGED vars
  BY <1>1, <1>3, <1>12 DEF vars, Before
<1> QED
  BY <1>4, <1>5, <1>6, <1>7, <1>8, <1>9, <1>10, <1>11, <1>12 DEF Next, Terminating
---------------------------------------------------------------------------
(* The temporary files *)

\* A part of a sequence, one element longer.
LEMMA PartNext ==
    ASSUME NEW T, NEW s \in Seq(T), NEW lo \in Nat, NEW hi \in Nat,
           1 <= lo, lo <= hi + 1, hi + 1 <= Len(s)
    PROVE  /\ SubSeq(s, lo, hi) \in Seq(T)
           /\ SubSeq(s, lo, hi + 1) = Append(SubSeq(s, lo, hi), s[hi + 1])
<1> DEFINE p == SubSeq(s, lo, hi)
           q == SubSeq(s, lo, hi + 1)
           x == s[hi + 1]
           b == Append(p, x)
<1>1. Len(s) \in Nat /\ DOMAIN s = 1 .. Len(s)
  BY LenProperties
<1>2. \A i \in lo .. (hi + 1) : s[i] \in T
  BY <1>1, ElementOfSeq
<1>3. (\A i \in lo .. hi : s[i] \in T) /\ x \in T
  BY <1>2
<1>4. /\ p \in Seq(T) /\ Len(p) = hi - lo + 1
      /\ \A i \in 1 .. (hi - lo + 1) : p[i] = s[lo + i - 1]
  BY <1>3, SubSeqProperties
<1>5. /\ q \in Seq(T) /\ Len(q) = hi + 1 - lo + 1
      /\ \A i \in 1 .. (hi + 1 - lo + 1) : q[i] = s[lo + i - 1]
  <2>1. hi + 1 \in Int /\ lo \in Int /\ lo <= hi + 1
    OBVIOUS
  <2> QED
    BY <1>2, <2>1, SubSeqProperties
<1> HIDE DEF p, q, x
<1>6. /\ b \in Seq(T) /\ Len(b) = Len(p) + 1
      /\ \A i \in 1 .. Len(p) : b[i] = p[i]
      /\ b[Len(p) + 1] = x
  <2>1. p \in Seq(T) /\ x \in T
    BY <1>3, <1>4
  <2> QED
    BY <2>1, AppendProperties
<1> HIDE DEF b
<1>7. Len(q) = Len(b)
  BY <1>4, <1>5, <1>6
<1>8. ASSUME NEW i \in 1 .. Len(q) PROVE q[i] = b[i]
  <2>1. i \in 1 .. Len(p) \/ i = Len(p) + 1
    BY <1>4, <1>5
  <2>2. CASE i \in 1 .. Len(p)
    <3>1. q[i] = s[lo + i - 1] /\ p[i] = s[lo + i - 1]
      BY <1>4, <1>5, <2>2
    <3> QED
      BY <1>6, <2>2, <3>1
  <2>3. CASE i = Len(p) + 1
    <3>1. lo + i - 1 = hi + 1
      BY <1>4, <2>3
    <3>2. q[i] = s[lo + i - 1]
      BY <1>5
    <3> QED
      BY <1>6, <2>3, <3>1, <3>2 DEF x
  <2> QED
    BY <2>1, <2>2, <2>3
<1>9. q = b
  BY <1>5, <1>6, <1>7, <1>8, SeqEqual
<1> QED
  BY <1>4, <1>9 DEF p, q, b, x

\* d drops the member, or the first file gets it.
LEMMA DeleteMemberHolds ==
    ASSUME Inv, DeleteMember
    PROVE  TempsHold'
<1> DEFINE m == ThisMember
           S == NotNamed(job, Before)
           P(k) == Only(SubSeq(Before, 1, k), S)
<1>1. Scanning({"d"}) /\ pc = "scan" /\ pc' = "scan" /\ job.op = "d" /\ next' = next + 1
  BY DEF DeleteMember, Scanning
<1>2. /\ next \in 1 .. Len(Before) /\ next \in DOMAIN Before /\ m = Before[next]
      /\ Before \in Seq(Member) /\ Len(Before) \in Nat
  BY <1>1, ThisMemberType, WorkedOn DEF Inv
<1>3. job' = job /\ Before' = Before /\ Result' = Result
  BY JobStays
<1>4. tmp0 = P(next - 1) /\ tmp1 = Missing
  BY <1>1 DEF Inv, TempsHold
<1>5. m \in S <=> m.name \notin NamedBy(job)
  BY <1>2 DEF NotNamed
<1>6. \/ m.name \in NamedBy(job) /\ tmp0' = tmp0 /\ tmp1' = tmp1
      \/ m.name \notin NamedBy(job) /\ Put(m, m)
  <2>1. Wanted(m.name) <=> m.name \in NamedBy(job)
    BY <1>1, WantedIsNamed
  <2> QED
    BY <2>1 DEF DeleteMember, temps
<1>7. Put(m, m) => tmp0' = Append(tmp0, m) /\ tmp1' = Missing
  BY <1>1, <1>4 DEF Put, Open2
<1> HIDE DEF m, S
<1>8. next - 1 \in 0 .. (Len(Before) - 1) /\ next - 1 + 1 = next
  BY <1>2
<1>9. \A k \in 0 .. (Len(Before) - 1) :
         /\ Before[k + 1] \in S => P(k + 1) = Append(P(k), Before[k + 1])
         /\ Before[k + 1] \notin S => P(k + 1) = P(k)
  BY <1>2, OnlyNext
<1> HIDE DEF P
<1>10. /\ m \in S => P(next) = Append(P(next - 1), m)
       /\ m \notin S => P(next) = P(next - 1)
  BY <1>2, <1>8, <1>9
<1>11. tmp0' = P(next) /\ tmp1' = Missing
  BY <1>4, <1>5, <1>6, <1>7, <1>10
<1>12. next' - 1 = next
  BY <1>1, <1>2
<1> QED
  BY <1>1, <1>3, <1>11, <1>12 DEF TempsHold, P, S

\* The place for new members is the place of the member given with -b.
LEMMA CutHere ==
    ASSUME Inv, Scanning({"r"})
    PROVE  /\ (job.where = "b" /\ job.at = ThisMember.name) <=> next = Cut(job, Before)
           /\ Cut(job, Before) \in 1 .. (Len(Before) + 1)
<1>1. /\ next \in 1 .. Len(Before) /\ next \in DOMAIN Before /\ ThisMember = Before[next]
      /\ Before \in Seq(Member) /\ Len(Before) \in Nat
  BY ThisMemberType, WorkedOn DEF Inv
<1>2. Unique(Before)
  BY DEF Inv, NamesUnique
<1> DEFINE c == Cut(job, Before)
<1>3. /\ c \in 1 .. (Len(Before) + 1)
      /\ c <= Len(Before) => job.where = "b" /\ Before[c].name = job.at
      /\ job.where = "b" => \A i \in DOMAIN Before : Before[i].name = job.at => i = c
  BY <1>1, <1>2, CutType
<1> HIDE DEF c
<1> QED
  BY <1>1, <1>3 DEF c

\* r puts the file or the member behind the ones before it, in the second
\* file from the place for new members on.
LEMMA ReplaceMemberHolds ==
    ASSUME Inv, ReplaceMember
    PROVE  TempsHold'
<1> DEFINE m == ThisMember
           r == Replaced(job, Before, before.disk)
           c == Cut(job, Before)
<1>1. Scanning({"r"}) /\ pc = "scan" /\ pc' = "scan" /\ job.op = "r" /\ next' = next + 1
  BY DEF ReplaceMember, Scanning
<1>2. /\ next \in 1 .. Len(Before) /\ next \in DOMAIN Before /\ m = Before[next]
      /\ Before \in Seq(Member) /\ Len(Before) \in Nat
  BY <1>1, ThisMemberType, WorkedOn DEF Inv
<1>3. job' = job /\ Before' = Before /\ before' = before
  BY JobStays
<1>4. disk = before.disk
  BY <1>1 DEF Inv, JobRuns
<1>5. Put(m, r[next])
  <2>1. Wanted(m.name) <=> m.name \in NamedBy(job)
    BY <1>1, WantedIsNamed
  <2>2. r[next] = IF Replaces(job, before.disk, m) THEN FromFile(before.disk, m.name) ELSE m
    BY <1>2 DEF Replaced
  <2>3. Replaces(job, before.disk, m) <=>
           /\ job.args = << >> \/ Wanted(m.name)
           /\ disk[m.name] # Missing
           /\ ~job.u \/ Newer(m)
    BY <1>4, <2>1 DEF Replaces, Newer
  <2>4. \/ Replaces(job, before.disk, m) /\ Put(m, FromFile(disk, m.name))
        \/ ~Replaces(job, before.disk, m) /\ Put(m, m)
    BY <2>3 DEF ReplaceMember
  <2> HIDE DEF m, r
  <2> QED
    BY <1>4, <2>2, <2>4
<1>6. r \in Seq(Member) /\ Len(r) = Len(Before)
  BY <1>2, ReplacedType DEF Inv, TypeOK
<1>7. /\ (job.where = "b" /\ job.at = m.name) <=> next = c
      /\ c \in 1 .. (Len(Before) + 1)
  BY <1>1, CutHere
<1>8. ScanFiles(r, c, next - 1)
  BY <1>1 DEF Inv, TempsHold
<1> DEFINE here == job.where = "b" /\ job.at = m.name
           o == Open2(m)
<1>9. o = IF tmp1 = Missing /\ here THEN << >> ELSE tmp1
  BY <1>1 DEF Open2, SecondFile
<1>10. /\ o = Missing => tmp0' = Append(tmp0, r[next]) /\ tmp1' = tmp1
       /\ o # Missing => tmp1' = Append(o, r[next]) /\ tmp0' = tmp0
  BY <1>5 DEF Put
<1>11. \A q \in Seq(Member) : q # Missing
  BY ArchiverAssumption
<1> HIDE DEF m, r, c, here, o
<1>12. here <=> next = c
  BY <1>7 DEF here
<1>13. /\ next - 1 \in Nat /\ next - 1 + 1 = next /\ next' - 1 = next /\ 1 <= next
       /\ next <= Len(r) /\ c \in Nat /\ 1 <= c /\ c - 1 \in Nat
  BY <1>1, <1>2, <1>6, <1>7
<1>14. /\ next < c => tmp0' = SubSeq(r, 1, next) /\ tmp1' = Missing
       /\ next >= c => tmp0' = SubSeq(r, 1, c - 1) /\ tmp1' = SubSeq(r, c, next)
  <2>1. CASE next < c
    <3>1. next - 1 < c /\ next # c /\ ~(next >= c)
      BY <1>2, <1>13, <2>1
    <3>2. tmp0 = SubSeq(r, 1, next - 1) /\ tmp1 = Missing
      BY <1>8, <3>1 DEF ScanFiles
    <3>3. o = Missing
      BY <1>9, <1>12, <3>1, <3>2
    <3>4. SubSeq(r, 1, next) = Append(SubSeq(r, 1, next - 1), r[next])
      <4>1. SubSeq(r, 1, next - 1 + 1) = Append(SubSeq(r, 1, next - 1), r[next - 1 + 1])
        BY <1>6, <1>13, PartNext
      <4> QED
        BY <1>13, <4>1
    <3> QED
      BY <1>10, <3>1, <3>2, <3>3, <3>4
  <2>2. CASE next = c
    <3>1. next - 1 < c /\ c - 1 = next - 1 /\ ~(next < c) /\ next >= c
      BY <1>2, <1>13, <2>2
    <3>2. tmp0 = SubSeq(r, 1, c - 1) /\ tmp1 = Missing
      BY <1>8, <3>1 DEF ScanFiles
    <3>3. o = << >> /\ o # Missing
      BY <1>9, <1>11, <1>12, <2>2, <3>2, EmptySeq
    <3>4. SubSeq(r, next, next) = Append(<< >>, r[next])
      <4>1. SubSeq(r, next, next - 1 + 1) = Append(SubSeq(r, next, next - 1), r[next - 1 + 1])
        BY <1>2, <1>6, <1>13, PartNext
      <4>2. SubSeq(r, next, next - 1) = << >>
        BY <1>2, <1>13, SubSeqEmpty
      <4> QED
        BY <1>13, <4>1, <4>2
    <3> QED
      BY <1>10, <2>2, <3>1, <3>2, <3>3, <3>4
  <2>3. CASE next > c
    <3>1. next - 1 >= c /\ next # c /\ ~(next < c) /\ ~(next - 1 < c) /\ next >= c
      BY <1>2, <1>13, <2>3
    <3>2. tmp0 = SubSeq(r, 1, c - 1) /\ tmp1 = SubSeq(r, c, next - 1)
      BY <1>8, <3>1 DEF ScanFiles
    <3>3. /\ SubSeq(r, c, next - 1) \in Seq(Member)
          /\ SubSeq(r, c, next) = Append(SubSeq(r, c, next - 1), r[next])
      <4>0. c <= next - 1 + 1 /\ next - 1 + 1 <= Len(r)
        BY <1>2, <1>13, <2>3
      <4>1. /\ SubSeq(r, c, next - 1) \in Seq(Member)
            /\ SubSeq(r, c, next - 1 + 1) = Append(SubSeq(r, c, next - 1), r[next - 1 + 1])
        BY <1>6, <1>13, <4>0, PartNext
      <4> QED
        BY <1>13, <4>1
    <3>4. o = tmp1 /\ o # Missing
      BY <1>9, <1>11, <3>2, <3>3
    <3> QED
      BY <1>10, <3>1, <3>2, <3>3, <3>4
  <2> QED
    BY <1>2, <1>13, <2>1, <2>2, <2>3
<1>15. ScanFiles(Replaced(job, Before, before.disk), Cut(job, Before), next - 1)'
  BY <1>3, <1>13, <1>14 DEF ScanFiles, r, c
<1> QED
  BY <1>1, <1>3, <1>15 DEF TempsHold
\* What is left of the arguments is what is to be added.
LEMMA NewMembersAdded ==
    ASSUME Inv, pc = "append"
    PROVE  NewMembers = Added(job, Before, before.disk)
<1> DEFINE S == Readable(disk)
           R == Readable(disk) \ NamesIn(Before)
           T == Named \cup {Missing}
<1>1. /\ job.op = "r" /\ next - 1 = Len(Before) /\ disk = before.disk
      /\ Before \in Seq(Member) /\ Len(Before) \in Nat /\ DOMAIN Before = 1 .. Len(Before)
  <2>1. job.op = "r" /\ next = Len(Before) + 1
    BY DEF Inv, JobRuns
  <2>2. disk = before.disk
    BY <2>1 DEF Inv, JobRuns
  <2> QED
    BY <2>1, <2>2, WorkedOn DEF Inv
<1>2. NamesTo(Before, next - 1) = NamesIn(Before)
  BY <1>1 DEF NamesTo, NamesIn
<1>3. /\ DOMAIN args = DOMAIN job.args
      /\ \A i \in DOMAIN args : job.args[i] \in NamesIn(Before) => args[i] = Missing
      /\ \A i \in DOMAIN args : job.args[i] \notin NamesIn(Before) => args[i] = job.args[i]
      /\ \A i \in DOMAIN args : job.args[i] \in Named
  BY <1>2, ArgsNow
<1>4. args \in Seq(T) /\ job.args \in Seq(Named) /\ Named \subseteq T
  BY JobType DEF Inv, TypeOK
<1>5. job.args \in Seq(T)
  BY <1>4, SeqMonotonic
<1>6. Len(args) = Len(job.args)
  <2>1. /\ DOMAIN args = 1 .. Len(args) /\ Len(args) \in Nat
        /\ DOMAIN job.args = 1 .. Len(job.args) /\ Len(job.args) \in Nat
    BY <1>4, <1>5, LenProperties
  <2> DEFINE m == Len(args)
             n == Len(job.args)
  <2>2. m \in Nat /\ n \in Nat /\ 1 .. m = 1 .. n
    BY <1>3, <2>1
  <2> HIDE DEF m, n
  <2>3. (m \in 1 .. m \/ m = 0) /\ (n \in 1 .. n \/ n = 0)
    BY <2>2
  <2>4. m <= n /\ n <= m
    BY <2>2, <2>3
  <2>5. m = n
    BY <2>2, <2>4
  <2> QED
    BY <2>5 DEF m, n
<1>7. Missing \notin S
  BY ArchiverAssumption DEF Readable
<1>8. \A i \in DOMAIN args :
         (args[i] \in S <=> job.args[i] \in R) /\ (args[i] \in S => args[i] = job.args[i])
  <2> SUFFICES ASSUME NEW i \in DOMAIN args
               PROVE  /\ args[i] \in S <=> job.args[i] \in R
                      /\ args[i] \in S => args[i] = job.args[i]
    OBVIOUS
  <2> HIDE DEF S
  <2>1. job.args[i] \in R <=> job.args[i] \in S /\ job.args[i] \notin NamesIn(Before)
    BY DEF S
  <2> HIDE DEF R
  <2> QED
    BY <1>3, <1>7, <2>1
<1> HIDE DEF S, R, T
<1>9. Only(args, S) = Only(job.args, R)
  BY <1>4, <1>5, <1>6, <1>8, OnlyAgree
<1> QED
  BY <1>1, <1>9 DEF NewMembers, Added, S, R

\* With the new members behind the first file, the files hold the result.
LEMMA AppendArgsHolds ==
    ASSUME Inv, AppendArgs
    PROVE  TempsHold'
<1> DEFINE r == Replaced(job, Before, before.disk)
           c == Cut(job, Before)
           n == Len(Before)
           x == Added(job, Before, before.disk)
           p == SubSeq(r, 1, c - 1)
           q == SubSeq(r, c, n)
<1>1. pc = "append" /\ pc' = "install" /\ tmp0' = tmp0 \o NewMembers /\ tmp1' = tmp1
  BY DEF AppendArgs
<1>2. job.op = "r" /\ next - 1 = n /\ Before \in Seq(Member) /\ n \in Nat
  <2>1. job.op = "r" /\ next = n + 1
    BY <1>1 DEF Inv, JobRuns
  <2> QED
    BY <2>1, WorkedOn DEF Inv
<1>3. Result' = Result
  BY JobStays
<1>4. NewMembers = x
  BY <1>1, NewMembersAdded
<1>5. /\ r \in Seq(Member) /\ Len(r) = n /\ x \in Seq(Member) /\ c \in 1 .. (n + 1)
  BY <1>2, ReplacedType, AddedType, CutType DEF Inv, TypeOK
<1>6. ScanFiles(r, c, n)
  BY <1>1, <1>2 DEF Inv, TempsHold
<1>7. Result = p \o x \o q
  BY <1>2 DEF Result, Asked
<1>8. \A v \in Seq(Member) : v # Missing
  BY ArchiverAssumption
<1> HIDE DEF r, c, n, x
<1>9. p \in Seq(Member)
  <2>1. c - 1 \in 0 .. Len(r)
    BY <1>2, <1>5
  <2> QED
    BY <1>5, <2>1, Prefix
<1>10. p \o x \in Seq(Member) /\ p \o x # Missing
  BY <1>5, <1>8, <1>9, ConcatProperties
<1>11. tmp0' = p \o x /\ Result = IF tmp1' = Missing THEN tmp0' ELSE tmp0' \o tmp1'
  <2>1. CASE c = n + 1
    <3>1. n < c /\ c - 1 = n
      BY <1>2, <2>1
    <3>2. tmp0 = p /\ tmp1 = Missing
      BY <1>6, <3>1 DEF ScanFiles
    <3>3. q = << >>
      BY <1>2, <1>5, <3>1, SubSeqEmpty
    <3> HIDE DEF p, q
    <3>4. (p \o x) \o << >> = p \o x
      BY <1>10, ConcatEmptySeq
    <3> QED
      BY <1>1, <1>4, <1>7, <3>2, <3>3, <3>4
  <2>2. CASE c # n + 1
    <3>1. n >= c /\ c <= n
      BY <1>2, <1>5, <2>2
    <3>2. tmp0 = p /\ tmp1 = q
      BY <1>6, <3>1 DEF ScanFiles
    <3>3. q \in Seq(Member)
      <4>1. \A i \in c .. n : r[i] \in Member
        BY <1>2, <1>5, ElementOfSeq
      <4>2. c \in Int /\ n \in Int
        BY <1>2, <1>5
      <4> QED
        BY <4>1, <4>2, SubSeqProperties
    <3>4. q # Missing
      BY <1>8, <3>3
    <3> HIDE DEF p, q
    <3> QED
      BY <1>1, <1>4, <1>7, <3>2, <3>4
  <2> QED
    BY <2>1, <2>2
<1> QED
  BY <1>1, <1>3, <1>10, <1>11 DEF TempsHold, Temps

\* At the end of d's scan the first file holds the result.
LEMMA ScanEndsHolds ==
    ASSUME Inv, ScanEnds
    PROVE  TempsHold'
<1>1. /\ pc = "scan" /\ next > Len(Members) /\ next' = next /\ tmp0' = tmp0 /\ tmp1' = tmp1
      /\ job' = job /\ Before' = Before /\ before' = before /\ Result' = Result
      /\ \/ job.op = "r" /\ pc' = "append"
         \/ job.op = "d" /\ pc' = "install"
         \/ pc' = "finish"
  BY JobStays DEF ScanEnds, temps
<1>2. next = Len(Before) + 1 /\ next - 1 = Len(Before) /\ Before \in Seq(Member)
  <2>1. next <= Len(Before) + 1 /\ Members = Before /\ Before \in Seq(Member)
        /\ next \in Nat /\ Len(Before) \in Nat
    BY <1>1, WorkedOn DEF Inv, JobRuns, TypeOK
  <2> QED
    BY <1>1, <2>1
<1>3. CASE job.op = "r" /\ pc' = "append"
  <2>1. ScanFiles(Replaced(job, Before, before.disk), Cut(job, Before), next - 1)
    BY <1>1, <1>3 DEF Inv, TempsHold
  <2>2. ScanFiles(Replaced(job, Before, before.disk), Cut(job, Before), next - 1)'
    BY <1>1, <2>1 DEF ScanFiles
  <2> QED
    BY <1>3, <2>2 DEF TempsHold
<1>4. CASE job.op = "d" /\ pc' = "install"
  <2>1. /\ tmp0 = Only(SubSeq(Before, 1, next - 1), NotNamed(job, Before))
        /\ tmp1 = Missing
    BY <1>1, <1>4 DEF Inv, TempsHold
  <2>2. SubSeq(Before, 1, next - 1) = Before
    BY <1>2, WholePrefix
  <2>3. tmp0 = Result
    BY <1>4, <2>1, <2>2 DEF Result, Asked
  <2>4. tmp0 # Missing
    <3>1. tmp0 \in Seq(Member)
      BY <1>1, <1>4, FirstFileExists
    <3> QED
      BY <3>1, ArchiverAssumption
  <2> QED
    BY <1>1, <1>4, <2>1, <2>3, <2>4 DEF TempsHold, Temps
<1>5. CASE pc' = "finish"
  BY <1>5 DEF TempsHold
<1> QED
  BY <1>1, <1>3, <1>4, <1>5

LEMMA TempsHoldStep ==
    ASSUME Inv, [Next]_vars
    PROVE  TempsHold'
<1>1. CASE pc' \notin {"scan", "append", "install", "copy"}
  BY <1>1 DEF TempsHold
<1>2. CASE /\ pc' = pc /\ tmp0' = tmp0 /\ tmp1' = tmp1 /\ next' = next
           /\ job' = job /\ before' = before
  BY <1>2 DEF TempsHold, Inv, ScanFiles, Temps, Result, Before
<1>3. TypeOK' /\ JobRuns'
  BY TypeStep, JobRunsStep
<1>3a. Before' \in Seq(Member)
  BY <1>3, EmptySeq DEF TypeOK, Before
<1>4. CASE pc' = "scan" /\ next' = 1 /\ tmp1' = Missing /\ (job'.op \in {"d", "r"} => tmp0' = << >>)
  <2>1. next' - 1 = 0
    BY <1>4
  <2>2. SubSeq(Before', 1, 0) = << >> /\ Only(SubSeq(Before', 1, 0), NotNamed(job', Before')) = << >>
    BY <1>3a, WholePrefix, OnlyNext
  <2>3. job'.op = "d" => tmp0' = Only(SubSeq(Before', 1, next' - 1), NotNamed(job', Before'))
                        /\ tmp1' = Missing
    BY <1>4, <2>1, <2>2
  <2>4. ScanFiles(Replaced(job, Before, before.disk), Cut(job, Before), next - 1)' \/ job'.op # "r"
    <3>1. Cut(job', Before') \in 1 .. (Len(Before') + 1)
      BY <1>3a, CutType
    <3>2. Len(Before') \in Nat
      BY <1>3a, LenProperties
    <3>3. 0 < Cut(job', Before') /\ ~(0 >= Cut(job', Before'))
      BY <3>1, <3>2
    <3>4. SubSeq(Replaced(job', Before', before'.disk), 1, 0) = << >>
      BY SubSeqEmpty
    <3> QED
      BY <1>4, <2>1, <3>3, <3>4 DEF ScanFiles
  <2> QED
    BY <1>4, <2>3, <2>4 DEF TempsHold
<1>5. ASSUME NEW c \in Command, RunCommand(c) PROVE TempsHold'
  <2>1. \/ pc' \in {"update", "idle"}
        \/ /\ pc' = "scan" /\ next' = 1 /\ tmp1' = Missing /\ job' = c
           /\ c.op \in {"d", "r"} => tmp0' = << >>
    BY <1>5, CommandStarts
  <2> QED
    BY <1>1, <1>4, <2>1
<1>6. CASE ReadMember
  <2>1. job.op \in {"t", "x"} /\ job' = job /\ pc' \in {"scan", "finish"}
    BY <1>6, JobStays DEF ReadMember, Scanning
  <2> QED
    BY <2>1 DEF TempsHold
<1>7. CASE Truncate
  <2>1. /\ pc = "install" /\ pc' = "copy" /\ tmp0' = tmp0 /\ tmp1' = tmp1
        /\ Result' = Result
    BY <1>7, JobStays DEF Truncate, temps
  <2>2. tmp0 # Missing /\ Result = Temps
    BY <2>1 DEF Inv, TempsHold
  <2> QED
    BY <2>1, <2>2 DEF TempsHold, Temps
<1>8. CASE CopyTemps \/ Finish \/ WriteError \/ Kill \/ ExtractionError
           \/ DirectoryNotWritten
  <2>1. pc' \in {"finish", "idle", "update"}
    BY <1>8, FailsToWrite DEF CopyTemps, Finish, WriteError, Kill, Exit
  <2> QED
    BY <1>1, <2>1
<1>9. CASE UpdateSymbols
  <2>1. \/ pc' = "idle"
        \/ /\ pc' = "scan" /\ next' = 1 /\ tmp1' = Missing /\ tmp0' = << >>
    BY <1>9, UpdateStarts
  <2> QED
    BY <1>1, <1>4, <2>1
<1>10. ASSUME NEW n \in File, NEW o \in Object \cup {Missing}, EditFile(n, o)
       PROVE  TempsHold'
  <2>1. pc' = "idle"
    BY <1>10 DEF EditFile
  <2> QED
    BY <1>1, <2>1
<1>11. CASE UNCHANGED vars
  BY <1>2, <1>11 DEF vars, temps
<1> QED
  BY <1>5, <1>6, <1>7, <1>8, <1>9, <1>10, <1>11, DeleteMemberHolds, ReplaceMemberHolds,
     AppendArgsHolds, ScanEndsHolds
     DEF Next, Terminating
---------------------------------------------------------------------------
(* Extraction, and the invariants *)

LEMMA ExtractedStep ==
    ASSUME Inv, [Next]_vars
    PROVE  Extracted'
<1>1. CASE ~(pc' = "scan" /\ job'.op = "x" /\ status' # "not created")
  BY <1>1 DEF Extracted
<1>2. CASE next' = 1
  <2>1. 1 .. (next' - 1) = {}
    BY <1>2
  <2> QED
    BY <2>1 DEF Extracted
<1>3. ASSUME NEW c \in Command, RunCommand(c) PROVE Extracted'
  <2>1. pc' \in {"update", "idle"} \/ next' = 1
    BY <1>3, CommandStarts
  <2> QED
    BY <1>1, <1>2, <2>1
<1>4. CASE DeleteMember \/ ReplaceMember
  <2>1. job'.op # "x"
    BY <1>4, JobStays DEF DeleteMember, ReplaceMember, Scanning
  <2> QED
    BY <1>1, <2>1
<1>5. CASE ReadMember
  <2> DEFINE m == ThisMember
  <2>1. /\ Scanning({"t", "x"}) /\ pc = "scan" /\ next' = next + 1
        /\ job' = job /\ Before' = Before
    BY <1>5, JobStays DEF ReadMember, Scanning
  <2>1a. next' - 1 = next
    BY <2>1 DEF Inv, TypeOK
  <2>1b. Extracted' <=>
            (pc' = "scan" /\ job.op = "x" /\ status' # "not created" =>
                \A i \in 1 .. next : job.args = << >> \/ Before[i].name \in NamedBy(job)
                    => disk'[Before[i].name].content = Before[i].content)
    BY <2>1, <2>1a DEF Extracted, NamedBy
  <2>2. SUFFICES ASSUME job.op = "x", status' # "not created", NEW i \in 1 .. next,
                        job.args = << >> \/ Before[i].name \in NamedBy(job)
                 PROVE  disk'[Before[i].name].content = Before[i].content
    BY <2>1b, Zenon
  <2>3. /\ next \in 1 .. Len(Before) /\ next \in DOMAIN Before /\ m = Before[next]
        /\ m.name \in Named /\ Before \in Seq(Member)
        /\ DOMAIN Before = 1 .. Len(Before) /\ Len(Before) \in Nat
    BY <2>1, ThisMemberType, WorkedOn DEF Inv
  <2>4. Wanted(m.name) <=> m.name \in NamedBy(job)
    BY <2>1, WantedIsNamed
  <2>4a. status # "not created"
    BY <1>5, <2>2 DEF ReadMember
  <2>5. IF job.args = << >> \/ Wanted(m.name)
        THEN disk' = [disk EXCEPT ![m.name] = [content |-> m.content, date |-> now]]
        ELSE disk' = disk
    BY <1>5, <2>2 DEF ReadMember
  <2>6. DOMAIN disk = Named
    BY DEF Inv, TypeOK, Disk
  <2>7. CASE i = next
    <3>1. disk' = [disk EXCEPT ![m.name] = [content |-> m.content, date |-> now]]
      BY <2>2, <2>3, <2>4, <2>5, <2>7
    <3> HIDE DEF m
    <3> QED
      BY <2>3, <2>6, <2>7, <3>1
  <2>8. CASE i # next
    <3>1. i \in 1 .. (next - 1) /\ i \in DOMAIN Before
      BY <2>3, <2>8
    <3>2. disk[Before[i].name].content = Before[i].content
      BY <2>1, <2>2, <2>4a, <3>1 DEF Inv, Extracted
    <3>3. Before[i].name # m.name
      BY <2>3, <2>8, <3>1 DEF Inv, NamesUnique, Unique
    <3>4. Before[i].name \in Named
      <4>1. Before[i] \in Member
        BY <2>3, <3>1, ElementOfSeq
      <4> QED
        BY <4>1 DEF Member
    <3> HIDE DEF m
    <3>5. disk'[Before[i].name] = disk[Before[i].name]
      BY <2>5, <2>6, <3>3, <3>4
    <3> QED
      BY <3>2, <3>5
  <2> QED
    BY <2>7, <2>8
<1>6. CASE ScanEnds \/ AppendArgs \/ Truncate \/ CopyTemps \/ Finish \/ WriteError \/ Kill
           \/ ExtractionError \/ DirectoryNotWritten
  <2>1. pc' # "scan"
    BY <1>6, FailsToWrite DEF ScanEnds, AppendArgs, Truncate, CopyTemps, Finish, WriteError, Kill, Exit
  <2> QED
    BY <1>1, <2>1
<1>7. CASE UpdateSymbols
  <2>1. pc' = "idle" \/ next' = 1
    BY <1>7, UpdateStarts
  <2> QED
    BY <1>1, <1>2, <2>1
<1>8. ASSUME NEW n \in File, NEW o \in Object \cup {Missing}, EditFile(n, o)
      PROVE  Extracted'
  <2>1. pc' = "idle"
    BY <1>8 DEF EditFile
  <2> QED
    BY <1>1, <2>1
<1>9. CASE UNCHANGED vars
  BY <1>9 DEF vars, files, Extracted, Before, Inv
<1> QED
  BY <1>3, <1>4, <1>5, <1>6, <1>7, <1>8, <1>9 DEF Next, Terminating

LEMMA InvInit == Init => Inv
<1> SUFFICES ASSUME Init PROVE Inv
  OBVIOUS
<1>1. pc = "idle" /\ archive = Missing /\ before.archive = Missing
  BY DEF Init
<1>2. NamesUnique
  BY <1>1 DEF NamesUnique, Unique, Before
<1> QED
  BY <1>1, <1>2, TypeInit DEF Inv, ArgsConsumed, TempsHold, Extracted

\* The invariant holds in every state: what a job works on, what it has
\* consumed, and what its temporary files hold.
THEOREM ArchiverInvariant == Spec => []Inv
<1>1. Inv /\ [Next]_vars => Inv'
  <2> SUFFICES ASSUME Inv, [Next]_vars PROVE Inv'
    OBVIOUS
  <2>1. TypeOK' /\ NamesUnique' /\ JobRuns' /\ ArgsConsumed' /\ TempsHold' /\ Extracted'
    BY TypeStep, NamesUniqueStep, JobRunsStep, ArgsConsumedStep, TempsHoldStep, ExtractedStep
  <2> QED
    BY <2>1 DEF Inv
<1> QED
  BY <1>1, InvInit, PTL DEF Spec

LEMMA AskedForStep ==
    ASSUME Inv, AskedFor, [Next]_vars
    PROVE  AskedFor'
<1>0. SUFFICES ASSUME pc' = "finish" PROVE AskedFor'
  BY DEF AskedFor
<1>1. CASE CopyTemps
  <2>1. pc = "copy" /\ archive' = Temps /\ Result' = Result /\ job' = job
    BY <1>1, JobStays DEF CopyTemps, Temps
  <2>2. job.op \in {"d", "r"} /\ Temps = Result
    BY <2>1 DEF Inv, JobRuns, TempsHold
  <2> QED
    BY <2>1, <2>2 DEF AskedFor
<1>2. CASE ScanEnds \/ ReadMember
  <2>1. /\ pc = "scan" /\ job' = job /\ archive' = archive /\ Before' = Before
        /\ job.op \in {"t", "x"}
    <3>1. pc = "scan" /\ job' = job /\ archive' = archive /\ Before' = Before
      BY <1>2, JobStays DEF ScanEnds, ReadMember, Scanning, files
    <3>2. ScanEnds => job.op \notin {"d", "r"}
      BY <1>0 DEF ScanEnds
    <3>3. ReadMember => job.op \in {"t", "x"}
      BY DEF ReadMember, Scanning
    <3>4. job.op \in {"d", "r", "t", "x"}
      <4>1. job \in Job /\ job.op # "none"
        BY <3>1 DEF Inv, TypeOK, JobRuns, Running
      <4> QED
        BY <4>1, JobType
    <3> QED
      BY <1>2, <3>1, <3>2, <3>3, <3>4
  <2>2. archive = Before /\ DOMAIN Before = 1 .. Len(Before) /\ Len(Before) \in Nat
        /\ next \in Nat /\ Members = Before
    <3>1. archive = before.archive /\ before.archive # Missing
      BY <2>1 DEF Inv, JobRuns, Running
    <3> QED
      BY <2>1, <3>1, WorkedOn DEF Inv, Before, TypeOK
  <2>3. SUFFICES ASSUME job.op = "x", status' # "not created", NEW i \in DOMAIN Before,
                        job.args = << >> \/ Before[i].name \in NamedBy(job)
                 PROVE  disk'[Before[i].name].content = Before[i].content
    BY <2>1, <2>2 DEF AskedFor
  <2>3a. status # "not created"
    BY <1>2, <2>3 DEF ScanEnds, ReadMember
  <2>4. ASSUME disk' = disk, i \in 1 .. (next - 1)
        PROVE  disk'[Before[i].name].content = Before[i].content
    BY <2>1, <2>3, <2>3a, <2>4 DEF Inv, Extracted
  <2>5. CASE ScanEnds
    <3>1. disk' = disk /\ next > Len(Members)
      BY <2>5 DEF ScanEnds, files
    <3> QED
      BY <2>2, <2>4, <3>1
  <2>6. CASE ReadMember
    <3> DEFINE wanted == job.args = << >> \/ Wanted(ThisMember.name)
    <3>0. ~wanted /\ args' = args
      BY <1>0, <2>1, <2>3, <2>6 DEF ReadMember
    <3>1. ~wanted /\ \A k \in DOMAIN args : args[k] = Missing
      BY <1>0, <2>1, <2>3, <2>6, <3>0 DEF ReadMember
    <3>2. disk' = disk
      BY <2>6, <3>1 DEF ReadMember
    <3>3. PICK l \in DOMAIN job.args : job.args[l] = Before[i].name
      BY <2>3, <3>1 DEF NamedBy
    <3>4. job.args[l] \in NamesTo(Before, next - 1)
      <4>1. l \in DOMAIN args /\ job.args[l] # Missing
        BY <2>1, <3>3, ArgsNow
      <4>2. job.args[l] \notin NamesTo(Before, next - 1) => args[l] = job.args[l]
        BY <2>1, <4>1, ArgsNow
      <4> QED
        BY <3>1, <4>1, <4>2
    <3>5. PICK h \in 1 .. (next - 1) : Before[h].name = Before[i].name
      BY <3>3, <3>4 DEF NamesTo
    <3>6. h \in DOMAIN Before
      <4>1. next <= Len(Before) + 1
        BY <2>1 DEF Inv, JobRuns
      <4> QED
        BY <2>2, <4>1
    <3>7. h = i
      BY <3>5, <3>6 DEF Inv, NamesUnique, Unique
    <3> QED
      BY <2>4, <3>2, <3>5, <3>7
  <2> QED
    BY <1>2, <2>5, <2>6
<1>3. ASSUME NEW c \in Command, RunCommand(c) PROVE FALSE
  <2>1. pc' \in {"update", "idle", "scan"}
    BY <1>3, CommandStarts
  <2> QED
    BY <1>0, <2>1
<1>4. CASE DeleteMember \/ ReplaceMember
  <2>1. pc' = "scan"
    BY <1>4 DEF DeleteMember, ReplaceMember, Scanning
  <2> QED
    BY <1>0, <2>1
<1>5. CASE AppendArgs \/ Truncate \/ Finish \/ WriteError \/ Kill \/ ExtractionError
           \/ DirectoryNotWritten
  BY <1>0, <1>5, FailsToWrite DEF AppendArgs, Truncate, Finish, WriteError, Kill, Exit
<1>6. CASE UpdateSymbols
  <2>1. pc' \in {"idle", "scan"}
    BY <1>6, UpdateStarts
  <2> QED
    BY <1>0, <2>1
<1>7. ASSUME NEW n \in File, NEW o \in Object \cup {Missing}, EditFile(n, o) PROVE FALSE
  <2>1. pc' = "idle"
    BY <1>7, EditStarts
  <2> QED
    BY <1>0, <2>1
<1>8. CASE UNCHANGED vars
  BY <1>8 DEF vars, files, AskedFor, Result, Before
<1> QED
  BY <1>1, <1>2, <1>3, <1>4, <1>5, <1>6, <1>7, <1>8 DEF Next, Terminating

\* dCmd, rCmd, xCmd: whatever archive, files and command, a job that comes
\* to its end has made the archive asked for, or left the copies asked for.
THEOREM MakesWhatIsAskedFor == Spec => []AskedFor
<1>1. Init => AskedFor
  BY DEF Init, AskedFor
<1>2. Inv /\ AskedFor /\ [Next]_vars => AskedFor'
  BY AskedForStep
<1> QED
  BY <1>1, <1>2, ArchiverInvariant, PTL DEF Spec

LEMMA RecoverableStep ==
    ASSUME Inv, ContentsRecoverable, [Next]_vars
    PROVE  ContentsRecoverable'
<1>0. /\ archive = Damaged =>
            pc = "copy" \/ (pc = "idle" /\ status \in {"killed", "write error"})
      /\ pc \in {"scan", "append", "install"} => archive = before.archive
      /\ pc \in {"install", "copy"} => Result = Temps
  BY DEF Inv, JobRuns, TempsHold
<1>1. CASE archive' = before'.archive
  BY <1>1 DEF ContentsRecoverable
<1>2. ASSUME NEW c \in Command, RunCommand(c) PROVE ContentsRecoverable'
  <2>1. archive' = archive /\ before' = [archive |-> archive, disk |-> disk]
    BY <1>2, CommandStarts
  <2> QED
    BY <1>1, <2>1
<1>3. CASE DeleteMember \/ ReplaceMember \/ ReadMember \/ ScanEnds \/ AppendArgs
  <2>1. pc \in {"scan", "append"} /\ archive' = archive /\ before' = before
    BY <1>3, JobStays DEF DeleteMember, ReplaceMember, ReadMember, ScanEnds, AppendArgs,
       Scanning, files
  <2> QED
    BY <1>0, <1>1, <2>1
<1>4. CASE Truncate
  <2>1. pc = "install" /\ archive' = Damaged /\ tmp0' = tmp0 /\ tmp1' = tmp1 /\ Result' = Result
    BY <1>4, JobStays DEF Truncate, temps
  <2> QED
    BY <1>0, <2>1 DEF ContentsRecoverable, Temps
<1>5. CASE CopyTemps
  <2>1. pc = "copy" /\ archive' = Temps /\ Result' = Result
    BY <1>5, JobStays DEF CopyTemps, Temps
  <2> QED
    BY <1>0, <2>1 DEF ContentsRecoverable
<1>6. CASE Finish
  <2>1. pc = "finish" /\ archive' = archive /\ before' = before /\ Result' = Result
    BY <1>6, JobStays DEF Finish, files
  <2>2. archive # Damaged
    BY <1>0, <2>1
  <2> QED
    BY <2>1, <2>2 DEF ContentsRecoverable
<1>7. CASE WriteError
  <2>1. archive' = archive /\ before' = before /\ Result' = Result /\ status' = "write error"
    BY <1>7, JobStays DEF WriteError, files, Exit
  <2> QED
    BY <2>1 DEF ContentsRecoverable
<1>8. CASE Kill
  <2>1. /\ pc # "idle" /\ archive' = archive /\ before' = before /\ Result' = Result
        /\ tmp0' = tmp0 /\ tmp1' = tmp1
    BY <1>8, JobStays DEF Kill, files, temps
  <2>2. archive = Damaged => Result = Temps
    BY <1>0, <2>1
  <2> QED
    BY <2>1, <2>2 DEF ContentsRecoverable, Temps
<1>9. CASE UpdateSymbols
  <2>1. archive' = archive /\ archive # Damaged
    BY <1>9, UpdateStarts
  <2>2. UNCHANGED <<job, before>> \/ before' = [archive |-> archive, disk |-> disk']
    BY <1>9, UpdateStarts
  <2>3. CASE UNCHANGED <<job, before>>
    <3>1. Result' = Result
      BY <2>3 DEF Result, Before
    <3> QED
      BY <2>1, <2>3, <3>1 DEF ContentsRecoverable
  <2>4. CASE before' = [archive |-> archive, disk |-> disk']
    BY <1>1, <2>1, <2>4
  <2> QED
    BY <2>2, <2>3, <2>4
<1>10. ASSUME NEW n \in File, NEW o \in Object \cup {Missing}, EditFile(n, o)
       PROVE  ContentsRecoverable'
  <2>1. archive' = archive /\ before' = [archive |-> archive, disk |-> disk']
    BY <1>10 DEF EditFile
  <2> QED
    BY <1>1, <2>1
<1>11. CASE UNCHANGED vars
  BY <1>11 DEF vars, files, temps, ContentsRecoverable, Result, Before
<1>12. CASE ExtractionError \/ DirectoryNotWritten
  <2>1. archive' = archive /\ archive # Damaged /\ before' = before /\ Result' = Result
    BY <1>12, FailsToWrite, JobStays
  <2> QED
    BY <2>1 DEF ContentsRecoverable
<1> QED
  BY <1>2, <1>3, <1>4, <1>5, <1>6, <1>7, <1>8, <1>9, <1>10, <1>11, <1>12 DEF Next, Terminating

\* install: at every moment the old archive, the new one, or all of the new
\* one in the temporary files is on the disk, unless install itself failed
\* to write.
THEOREM KillLosesNothing == Spec => []ContentsRecoverable
<1>1. Init => ContentsRecoverable
  BY DEF Init, ContentsRecoverable
<1>2. Inv /\ ContentsRecoverable /\ [Next]_vars => ContentsRecoverable'
  BY RecoverableStep
<1> QED
  BY <1>1, <1>2, ArchiverInvariant, PTL DEF Spec

\* unlinkTempFiles: only a kill leaves temporary files behind.
THEOREM CleansUp == Spec => []NoTempFilesLeft
<1>1. Init => NoTempFilesLeft
  BY DEF Init, NoTempFilesLeft
<1>2. NoTempFilesLeft /\ [Next]_vars => NoTempFilesLeft'
  <2> SUFFICES ASSUME NoTempFilesLeft, [Next]_vars PROVE NoTempFilesLeft'
    OBVIOUS
  <2>1. ASSUME NEW c \in Command, RunCommand(c) PROVE NoTempFilesLeft'
    BY <2>1 DEF RunCommand, Start, Exit, Unlinked, NoTempFilesLeft
  <2>2. CASE DeleteMember \/ ReplaceMember \/ ReadMember \/ ScanEnds \/ AppendArgs
             \/ Truncate \/ CopyTemps
    <3>1. pc' # "idle"
      BY <2>2 DEF DeleteMember, ReplaceMember, ReadMember, ScanEnds, AppendArgs, Truncate,
                  CopyTemps, Scanning
    <3> QED
      BY <3>1 DEF NoTempFilesLeft
  <2>3. CASE Finish \/ WriteError \/ ExtractionError \/ DirectoryNotWritten \/ Kill
    BY <2>3 DEF Finish, WriteError, ExtractionError, DirectoryNotWritten, Kill, Exit, Unlinked,
                NoTempFilesLeft
  <2>4. CASE UpdateSymbols
    BY <2>4 DEF UpdateSymbols, Exit, Unlinked, NoTempFilesLeft
  <2>5. ASSUME NEW n \in File, NEW o \in Object \cup {Missing}, EditFile(n, o)
        PROVE  NoTempFilesLeft'
    BY <2>5 DEF EditFile, temps, NoTempFilesLeft
  <2>6. CASE UNCHANGED vars
    BY <2>6 DEF vars, temps, NoTempFilesLeft
  <2> QED
    BY <2>1, <2>2, <2>3, <2>4, <2>5, <2>6 DEF Next, Terminating
<1> QED
  BY <1>1, <1>2, PTL DEF Spec
---------------------------------------------------------------------------
(* What the directory lists *)

Listed == [name : Symbol, file : Named]

\* Leaving out the positions keeps the order, and goes through a
\* concatenation.
LEMMA WithoutPositionType ==
    ASSUME NEW d \in Seq(Entry)
    PROVE  /\ WithoutPosition(d) \in Seq(Listed) /\ Len(WithoutPosition(d)) = Len(d)
           /\ \A i \in 1 .. Len(d) : WithoutPosition(d)[i] = [name |-> d[i].name, file |-> d[i].file]
<1> DEFINE w == WithoutPosition(d)
           n == Len(d)
<1>1. n \in Nat /\ DOMAIN d = 1 .. n /\ \A i \in 1 .. n : d[i] \in Entry
  BY LenProperties, ElementOfSeq
<1>2. DOMAIN w = 1 .. n /\ w = [i \in 1 .. n |-> w[i]]
      /\ \A i \in 1 .. n : w[i] = [name |-> d[i].name, file |-> d[i].file]
  BY <1>1 DEF WithoutPosition
<1>3. \A i \in 1 .. n : [name |-> d[i].name, file |-> d[i].file] \in Listed
  BY <1>1 DEF Entry, Listed
<1> HIDE DEF w, n
<1>4. w \in [1 .. n -> Listed]
  BY <1>2, <1>3
<1> QED
  BY <1>1, <1>2, <1>4, FunctionIsSeq DEF w, n

LEMMA WithoutPositionConcat ==
    ASSUME NEW d \in Seq(Entry), NEW e \in Seq(Entry)
    PROVE  WithoutPosition(d \o e) = WithoutPosition(d) \o WithoutPosition(e)
<1> DEFINE l == WithoutPosition(d \o e)
           v == WithoutPosition(d)
           w == WithoutPosition(e)
           r == v \o w
           c == d \o e
<1>1. Len(d) \in Nat /\ Len(e) \in Nat
  BY LenProperties
<1>2. /\ c \in Seq(Entry) /\ Len(c) = Len(d) + Len(e)
      /\ \A i \in 1 .. (Len(d) + Len(e)) : c[i] = IF i <= Len(d) THEN d[i] ELSE e[i - Len(d)]
  BY ConcatProperties
<1>3. /\ v \in Seq(Listed) /\ Len(v) = Len(d)
      /\ \A i \in 1 .. Len(d) : v[i] = [name |-> d[i].name, file |-> d[i].file]
  BY WithoutPositionType
<1>4. /\ w \in Seq(Listed) /\ Len(w) = Len(e)
      /\ \A i \in 1 .. Len(e) : w[i] = [name |-> e[i].name, file |-> e[i].file]
  BY WithoutPositionType
<1> HIDE DEF v, w
<1>5. /\ r \in Seq(Listed) /\ Len(r) = Len(d) + Len(e)
      /\ \A i \in 1 .. (Len(d) + Len(e)) : r[i] = IF i <= Len(d) THEN v[i] ELSE w[i - Len(d)]
  <2>1. v \in Seq(Listed) /\ w \in Seq(Listed) /\ Len(v) = Len(d) /\ Len(w) = Len(e)
    BY <1>3, <1>4
  <2>2. /\ v \o w \in Seq(Listed) /\ Len(v \o w) = Len(v) + Len(w)
        /\ \A i \in 1 .. (Len(v) + Len(w)) :
              (v \o w)[i] = IF i <= Len(v) THEN v[i] ELSE w[i - Len(v)]
    BY <2>1, ConcatProperties
  <2> QED
    BY <2>1, <2>2
<1> HIDE DEF c, r
<1>6. /\ l \in Seq(Listed) /\ Len(l) = Len(c)
      /\ \A i \in 1 .. Len(c) : l[i] = [name |-> c[i].name, file |-> c[i].file]
  BY <1>2, WithoutPositionType DEF c
<1> HIDE DEF l
<1>7. ASSUME NEW i \in 1 .. Len(l) PROVE l[i] = r[i]
  <2>1. i \in 1 .. (Len(d) + Len(e)) /\ i \in 1 .. Len(c)
    BY <1>2, <1>6
  <2>2. CASE i <= Len(d)
    <3>1. i \in 1 .. Len(d) /\ c[i] = d[i] /\ r[i] = v[i]
      BY <1>1, <1>2, <1>5, <2>1, <2>2
    <3> QED
      BY <1>3, <1>6, <2>1, <3>1
  <2>3. CASE i > Len(d)
    <3>1. i - Len(d) \in 1 .. Len(e) /\ c[i] = e[i - Len(d)] /\ r[i] = w[i - Len(d)]
      BY <1>1, <1>2, <1>5, <2>1, <2>3
    <3> QED
      BY <1>4, <1>6, <2>1, <3>1
  <2> QED
    BY <1>1, <2>1, <2>2, <2>3
<1>8. Len(l) = Len(r)
  BY <1>2, <1>5, <1>6
<1>9. l = r
  BY <1>5, <1>6, <1>7, <1>8, SeqEqual
<1> QED
  BY <1>9 DEF l, r, v, w

\* What a member adds to the listing are its exports and its name.
LEMMA EntriesListed ==
    ASSUME NEW a \in Seq(Member), NEW i \in DOMAIN a,
           NEW b \in Seq(Member), NEW k \in DOMAIN b,
           a[i].name = b[k].name, ExportsOf(a[i].content) = ExportsOf(b[k].content)
    PROVE  WithoutPosition(EntriesOf(a, i)) = WithoutPosition(EntriesOf(b, k))
<1> DEFINE e == ExportsOf(a[i].content)
           f == ExportsOf(b[k].content)
<1>1. e = f
  OBVIOUS
<1>2. EntriesOf(a, i) = [l \in DOMAIN e |-> [name |-> e[l], file |-> a[i].name, position |-> Offset(a, i)]]
  BY DEF EntriesOf
<1>3. EntriesOf(b, k) = [l \in DOMAIN e |-> [name |-> e[l], file |-> a[i].name, position |-> Offset(b, k)]]
  BY <1>1 DEF EntriesOf
<1> HIDE DEF e, f
<1>4. WithoutPosition(EntriesOf(a, i)) = [l \in DOMAIN e |-> [name |-> e[l], file |-> a[i].name]]
  BY <1>2 DEF WithoutPosition
<1>5. WithoutPosition(EntriesOf(b, k)) = [l \in DOMAIN e |-> [name |-> e[l], file |-> a[i].name]]
  BY <1>3 DEF WithoutPosition
<1> QED
  BY <1>4, <1>5

\* Archives whose members agree, but for sh members in front that export
\* nothing, have directories that list the same.
LEMMA SameListing ==
    ASSUME NEW a \in Seq(Member), NEW b \in Seq(Member), NEW sh \in {0, 1},
           Len(b) = Len(a) + sh,
           \A i \in 1 .. Len(a) : /\ a[i].name = b[i + sh].name
                                  /\ ExportsOf(a[i].content) = ExportsOf(b[i + sh].content),
           sh = 1 => ExportsOf(b[1].content) = << >>
    PROVE  WithoutPosition(Directory(a)) = WithoutPosition(Directory(b))
<1>1. PICK f \in [0 .. Len(a) -> Seq(Entry)] : Lists(f, a)
  BY DirectoryLists
<1>2. PICK g \in [0 .. Len(b) -> Seq(Entry)] : Lists(g, b)
  BY DirectoryLists
<1> DEFINE n == Len(a)
           Good == {k \in 0 .. n : WithoutPosition(f[k]) = WithoutPosition(g[k + sh])}
<1>3. /\ n \in Nat /\ DOMAIN a = 1 .. n /\ Len(b) = n + sh /\ DOMAIN b = 1 .. (n + sh)
      /\ sh \in Nat
  BY LenProperties
<1>4. /\ f[0] = << >> /\ Directory(a) = f[n]
      /\ \A k \in 0 .. (n - 1) : f[k + 1] = f[k] \o EntriesOf(a, k + 1)
  BY <1>1 DEF Lists
<1> HIDE DEF n
<1>5. /\ g[0] = << >> /\ Directory(b) = g[n + sh]
      /\ \A k \in 0 .. (n + sh - 1) : g[k + 1] = g[k] \o EntriesOf(b, k + 1)
  <2>1. /\ g[0] = << >> /\ Directory(b) = g[Len(b)]
        /\ \A k \in 0 .. (Len(b) - 1) : g[k + 1] = g[k] \o EntriesOf(b, k + 1)
    BY <1>2 DEF Lists
  <2>2. Len(b) = n + sh
    BY <1>3
  <2>3. Directory(b) = g[n + sh]
    BY <2>1, <2>2
  <2>4. ASSUME NEW k \in 0 .. (n + sh - 1) PROVE g[k + 1] = g[k] \o EntriesOf(b, k + 1)
    <3>1. k \in 0 .. (Len(b) - 1)
      BY <1>3, <2>2
    <3> QED
      BY <2>1, <3>1, Zenon
  <2> QED
    BY <2>1, <2>3, <2>4
<1>6. 0 \in Good
  <2>1. CASE sh = 0
    BY <1>3, <1>4, <1>5, <2>1
  <2>2. CASE sh = 1
    <3>1. 0 \in 0 .. (n + sh - 1) /\ 0 + 1 = 1
      BY <1>3, <2>2
    <3>2. g[1] = g[0] \o EntriesOf(b, 1)
      BY <1>5, <3>1
    <3>3. EntriesOf(b, 1) = << >>
      <4>1. DOMAIN ExportsOf(b[1].content) = {}
        BY <2>2
      <4> QED
        BY <4>1 DEF EntriesOf
    <3>4. << >> \o << >> = << >>
      <4>1. << >> \in Seq(Entry)
        BY EmptySeq
      <4> QED
        BY <4>1, ConcatEmptySeq
    <3> QED
      BY <1>3, <1>4, <1>5, <2>2, <3>2, <3>3, <3>4
  <2> QED
    BY <2>1, <2>2
<1>7. ASSUME NEW k \in 0 .. (n - 1), k \in Good PROVE k + 1 \in Good
  <2> DEFINE j == k + sh
  <2>1. /\ k \in 0 .. n /\ k + 1 \in 0 .. n /\ k + 1 \in DOMAIN a
        /\ j \in 0 .. (n + sh - 1) /\ j \in 0 .. (n + sh) /\ j + 1 \in DOMAIN b
        /\ k + 1 + sh = j + 1
    BY <1>3
  <2>2. WithoutPosition(f[k]) = WithoutPosition(g[j])
    BY <1>7
  <2>3. a[k + 1].name = b[j + 1].name /\ ExportsOf(a[k + 1].content) = ExportsOf(b[j + 1].content)
    <3>1. k + 1 \in 1 .. Len(a)
      BY <1>3, <2>1 DEF n
    <3>2. /\ a[k + 1].name = b[k + 1 + sh].name
          /\ ExportsOf(a[k + 1].content) = ExportsOf(b[k + 1 + sh].content)
      BY <3>1
    <3> QED
      BY <2>1, <3>2
  <2> HIDE DEF j
  <2>4. f[k] \in Seq(Entry) /\ g[j] \in Seq(Entry)
    BY <1>3, <2>1 DEF n
  <2>5. EntriesOf(a, k + 1) \in Seq(Entry) /\ EntriesOf(b, j + 1) \in Seq(Entry)
    BY <2>1, EntriesType
  <2>6. WithoutPosition(EntriesOf(a, k + 1)) = WithoutPosition(EntriesOf(b, j + 1))
    BY <2>1, <2>3, EntriesListed
  <2>7. f[k + 1] = f[k] \o EntriesOf(a, k + 1) /\ g[j + 1] = g[j] \o EntriesOf(b, j + 1)
    BY <1>4, <1>5, <2>1
  <2>8. WithoutPosition(f[k + 1]) = WithoutPosition(g[j + 1])
    BY <2>2, <2>4, <2>5, <2>6, <2>7, WithoutPositionConcat, ZenonT(60)
  <2> QED
    BY <2>1, <2>8
<1> HIDE DEF Good
<1>8. n \in Good
  <2>1. 0 \in Nat /\ n \in 0 .. n
    BY <1>3
  <2> QED
    BY <1>3, <1>6, <1>7, <2>1, UpTo, Zenon
<1> QED
  BY <1>4, <1>5, <1>8 DEF Good

---------------------------------------------------------------------------
(* The directory is the first member *)

First(a) == \A i \in DOMAIN a : a[i].name = SYMDEF => i = 1 /\ a[i].content \notin Object
Plain(d) == d[SYMDEF] # Missing => d[SYMDEF].content \notin Object

\* The job with which updateSymbols puts the directory into archive a.
Adding(a) == [op |-> "r", args |-> <<SYMDEF>>, where |-> "b", at |-> a[1].name,
              u |-> FALSE, s |-> FALSE]

\* Members of other names behind change nothing.
LEMMA FirstConcat ==
    ASSUME NEW s \in Seq(Member), NEW t \in Seq(Member), First(s),
           \A k \in DOMAIN t : t[k].name # SYMDEF
    PROVE  First(s \o t)
<1> DEFINE c == s \o t
           m == Len(s)
           n == Len(t)
<1>1. m \in Nat /\ n \in Nat /\ DOMAIN s = 1 .. m /\ DOMAIN t = 1 .. n
  BY LenProperties
<1>2. c \in Seq(Member) /\ Len(c) = m + n
      /\ \A i \in 1 .. (m + n) : c[i] = IF i <= m THEN s[i] ELSE t[i - m]
  BY ConcatProperties
<1>3. DOMAIN c = 1 .. (m + n)
  BY <1>2, LenProperties
<1> HIDE DEF m, n, c
<1>4. ASSUME NEW i \in DOMAIN c, c[i].name = SYMDEF PROVE i = 1 /\ c[i].content \notin Object
  <2>1. CASE i <= m
    <3>1. i \in DOMAIN s /\ c[i] = s[i]
      BY <1>1, <1>2, <1>3, <2>1
    <3> QED
      BY <1>4, <3>1 DEF First
  <2>2. CASE i > m
    <3>1. i - m \in DOMAIN t /\ c[i] = t[i - m]
      BY <1>1, <1>2, <1>3, <2>2
    <3> QED
      BY <1>4, <3>1
  <2> QED
    BY <1>1, <1>3, <2>1, <2>2
<1> QED
  BY <1>4 DEF First, c

\* No command names the directory, so none moves it.
LEMMA CommandKeepsFirst ==
    ASSUME NEW j \in Command, NEW a \in Seq(Member), Unique(a), First(a), NEW d \in Disk, Plain(d)
    PROVE  First(Asked(j, a, d))
<1>0. /\ IsCommand(j) /\ j \in Job /\ SYMDEF \notin File
      /\ j.args \in Seq(File) /\ j.at \in File
  BY ArchiverAssumption DEF IsCommand, Job
<1>1. SYMDEF \notin NamedBy(j)
  <2>1. \A i \in DOMAIN j.args : j.args[i] \in File
    BY <1>0, ElementOfSeq, LenProperties
  <2> QED
    BY <1>0, <2>1 DEF NamedBy
<1>2. Len(a) \in Nat /\ DOMAIN a = 1 .. Len(a)
  BY LenProperties
<1>3. CASE j.op = "d"
  <2> DEFINE S == NotNamed(j, a)
             k == Only(a, S)
  <2>1. Asked(j, a, d) = k
    BY <1>3 DEF Asked
  <2>2. k \in Seq(Member) /\ Unique(k)
    BY <1>0, <2>1, AskedType
  <2>3. SUFFICES ASSUME NEW i \in DOMAIN k, k[i].name = SYMDEF
                 PROVE  i = 1 /\ k[i].content \notin Object
    BY <2>1 DEF First
  <2> HIDE DEF S
  <2>4. PICK l \in DOMAIN a : k[i] = a[l] /\ a[l] \in S
    BY OnlyElements
  <2>5. l = 1 /\ a[1].content \notin Object /\ a[1] \in S
    BY <2>3, <2>4 DEF First
  <2>6. a # << >>
    BY <2>4, <2>5
  <2>7. 1 \in DOMAIN k /\ k[1] = a[1]
    BY <2>5, <2>6, OnlyFirst
  <2> HIDE DEF k
  <2> QED
    BY <2>2, <2>3, <2>4, <2>5, <2>7 DEF Unique
<1>4. CASE j.op = "r"
  <2> DEFINE r == Replaced(j, a, d)
             c == Cut(j, a)
             x == Added(j, a, d)
             p == SubSeq(r, 1, c - 1)
             q == SubSeq(r, c, Len(a))
  <2>1. Asked(j, a, d) = p \o x \o q
    BY <1>4 DEF Asked
  <2>2. /\ r \in Seq(Member) /\ Len(r) = Len(a) /\ DOMAIN r = DOMAIN a
        /\ \A i \in DOMAIN a : r[i].name = a[i].name
    BY <1>0, ReplacedType
  <2>3. \A i \in DOMAIN a : \/ r[i] = FromFile(d, a[i].name) /\ d[a[i].name] # Missing
                           \/ r[i] = a[i]
    BY DEF Replaced, Replaces
  <2>4. First(r)
    <3> SUFFICES ASSUME NEW i \in DOMAIN a, a[i].name = SYMDEF
                 PROVE  i = 1 /\ r[i].content \notin Object
      BY <2>2 DEF First
    <3>1. i = 1 /\ a[i].content \notin Object
      BY DEF First
    <3>2. CASE r[i] = FromFile(d, a[i].name) /\ d[a[i].name] # Missing
      BY <3>1, <3>2 DEF FromFile, Plain
    <3> QED
      BY <2>3, <3>1, <3>2
  <2>5. c \in 1 .. (Len(a) + 1) /\ (c <= Len(a) => a[c].name = j.at)
    BY CutType
  <2>6. /\ x \in Seq(Member) /\ \A i \in DOMAIN x : x[i].name # SYMDEF
    BY <1>0, <1>1, AddedType
  <2>7. Unique(r)
    BY <2>2 DEF Unique
  <2> HIDE DEF r, c, x
  <2>8. /\ c - 1 \in 0 .. Len(r) /\ c \in Nat /\ 1 <= c /\ Len(a) <= Len(r)
    BY <1>2, <2>2, <2>5
  <2>9. p \in Seq(Member) /\ Len(p) = c - 1 /\ \A i \in 1 .. (c - 1) : p[i] = r[i]
    BY <2>2, <2>8, Prefix
  <2>10. /\ q \in Seq(Member)
         /\ \A i \in DOMAIN q : \E k \in c .. Len(a) : k \in DOMAIN r /\ q[i] = r[k]
    BY <1>2, <2>2, <2>7, <2>8, Part, Zenon
  <2>11. DOMAIN p = 1 .. (c - 1)
    BY <2>9, LenProperties
  <2> HIDE DEF p, q
  <2>12. First(p)
    <3> SUFFICES ASSUME NEW i \in DOMAIN p, p[i].name = SYMDEF
                 PROVE  i = 1 /\ p[i].content \notin Object
      BY DEF First
    <3>1. i \in DOMAIN r /\ p[i] = r[i]
      BY <1>2, <2>2, <2>8, <2>9, <2>11
    <3> QED
      BY <2>4, <3>1 DEF First
  <2>13. \A i \in DOMAIN q : q[i].name # SYMDEF
    <3> SUFFICES ASSUME NEW i \in DOMAIN q, q[i].name = SYMDEF PROVE FALSE
      OBVIOUS
    <3>1. PICK k \in c .. Len(a) : k \in DOMAIN r /\ q[i] = r[k]
      BY <2>10
    <3>2. k = 1
      BY <2>4, <3>1 DEF First
    <3>3. c = 1 /\ c <= Len(a)
      BY <1>2, <2>5, <3>1, <3>2
    <3>4. a[1].name = SYMDEF
      BY <2>2, <3>1, <3>2
    <3> QED
      BY <1>0, <2>5, <3>3, <3>4
  <2>14. p \o x \in Seq(Member) /\ First(p \o x)
    BY <2>6, <2>9, <2>12, FirstConcat, ConcatProperties
  <2>15. First((p \o x) \o q)
    BY <2>10, <2>13, <2>14, FirstConcat
  <2> QED
    BY <2>1, <2>15
<1>5. CASE j.op \notin {"d", "r"}
  BY <1>5 DEF Asked
<1> QED
  BY <1>3, <1>4, <1>5

\* The job of updateSymbols leaves the directory in front, and a directory
\* of the archive it leaves lists the same.
LEMMA AddingPlaces ==
    ASSUME NEW a \in Seq(Member), a # << >>, Unique(a), First(a), NEW d \in Disk,
           d[SYMDEF] # Missing, d[SYMDEF].content = Directory(a)
    PROVE  LET r == Asked(Adding(a), a, d) IN
           /\ First(r) /\ r[1].name = SYMDEF /\ r[1].content = Directory(a)
           /\ WithoutPosition(Directory(r)) = WithoutPosition(Directory(a))
<1> DEFINE j == Adding(a)
           n == Len(a)
           r == Replaced(j, a, d)
           c == Cut(j, a)
           x == Added(j, a, d)
           p == SubSeq(r, 1, c - 1)
           q == SubSeq(r, c, Len(a))
           t == FromFile(d, SYMDEF)
<1>1. n \in Nat /\ n # 0 /\ DOMAIN a = 1 .. n /\ \A i \in 1 .. n : a[i] \in Member
  BY LenProperties, ElementOfSeq, EmptySeq
<1>2. /\ j.op = "r" /\ j.args = <<SYMDEF>> /\ j.where = "b" /\ j.at = a[1].name /\ j.u = FALSE
      /\ NamedBy(j) = {SYMDEF}
  BY DEF Adding, NamedBy
<1>3. j \in Job
  <2>1. a[1].name \in Named
    BY <1>1 DEF Member
  <2> QED
    BY <2>1 DEF Adding, Job
<1> HIDE DEF j, n
<1>4. Asked(j, a, d) = p \o x \o q
  BY <1>2 DEF Asked
<1>5. c = 1
  <2>1. 1 \in DOMAIN a /\ a[1].name = j.at /\ j.where = "b"
    BY <1>1, <1>2
  <2> QED
    BY <2>1, CutType
<1>6. /\ r \in Seq(Member) /\ Len(r) = n /\ DOMAIN r = DOMAIN a
      /\ \A i \in DOMAIN a : r[i].name = a[i].name
  BY <1>3, ReplacedType DEF n
<1>7. \A i \in 1 .. n : /\ a[i].name = SYMDEF => r[i] = t
                        /\ a[i].name # SYMDEF => r[i] = a[i]
  <2> SUFFICES ASSUME NEW i \in 1 .. n
               PROVE  /\ a[i].name = SYMDEF => r[i] = t
                      /\ a[i].name # SYMDEF => r[i] = a[i]
    OBVIOUS
  <2>1. r[i] = IF Replaces(j, d, a[i]) THEN FromFile(d, a[i].name) ELSE a[i]
    BY <1>1 DEF Replaced
  <2>2. j.args # << >>
    BY <1>2
  <2>3. Replaces(j, d, a[i]) <=> a[i].name = SYMDEF
    BY <1>2, <2>2 DEF Replaces
  <2> QED
    BY <2>1, <2>3
<1>8. t.name = SYMDEF /\ t.content = Directory(a) /\ t.content \notin Object
  <2>1. Directory(a) \in Seq(Entry)
    BY DirectoryLists
  <2> QED
    BY <2>1, ArchiverAssumption DEF FromFile
<1>9. p = << >> /\ q = r
  BY <1>5, <1>6, WholePrefix DEF n
<1>10. /\ x \in Seq(Member) /\ Unique(x)
       /\ \A i \in DOMAIN x : x[i].name = SYMDEF /\ x[i].name \notin NamesIn(a)
  BY <1>2, <1>3, AddedType
<1>11. ExportsOf(t.content) = << >>
  BY <1>8 DEF ExportsOf, IsObjectContent
<1>12. CASE SYMDEF \in NamesIn(a)
  <2>1. a[1].name = SYMDEF /\ a[1].content \notin Object
        /\ \A i \in 1 .. n : a[i].name = SYMDEF => i = 1
    BY <1>1, <1>12 DEF NamesIn, First
  <2>2. x = << >>
    <3>1. DOMAIN x = {}
      BY <1>10, <1>12
    <3>2. Len(x) \in Nat /\ DOMAIN x = 1 .. Len(x)
      BY <1>10, LenProperties
    <3>3. Len(x) = 0
      BY <3>1, <3>2
    <3> QED
      BY <1>10, <3>3, EmptySeq
  <2>3. Asked(j, a, d) = r
    <3>1. << >> \o << >> = << >> /\ << >> \o r = r
      <4>1. << >> \in Seq(Member)
        BY EmptySeq
      <4> QED
        BY <1>6, <4>1, ConcatEmptySeq
    <3> HIDE DEF p, x, q, r
    <3> QED
      BY <1>4, <1>9, <2>2, <3>1
  <2> HIDE DEF r, t
  <2>4. r[1] = t /\ \A i \in 1 .. n : i # 1 => r[i] = a[i]
    BY <1>1, <1>7, <2>1
  <2>5. First(r)
    BY <1>1, <1>6, <1>8, <2>1, <2>4 DEF First
  <2>6. ExportsOf(a[1].content) = << >>
    BY <2>1 DEF ExportsOf, IsObjectContent
  <2>7. \A i \in 1 .. n : a[i].name = r[i].name /\ ExportsOf(a[i].content) = ExportsOf(r[i].content)
    BY <1>8, <1>11, <2>1, <2>4, <2>6
  <2>8. WithoutPosition(Directory(a)) = WithoutPosition(Directory(r))
    <3> DEFINE sh == 0
    <3>1. sh \in {0, 1} /\ sh # 1 /\ Len(r) = Len(a) + sh
      BY <1>1, <1>6 DEF n
    <3>2. \A i \in 1 .. Len(a) : /\ a[i].name = r[i + sh].name
                                 /\ ExportsOf(a[i].content) = ExportsOf(r[i + sh].content)
      BY <1>1, <2>7 DEF n
    <3> HIDE DEF sh
    <3> QED
      BY <1>6, <3>1, <3>2, SameListing
  <2> QED
    BY <1>8, <2>3, <2>4, <2>5, <2>8 DEF j
<1>13. CASE SYMDEF \notin NamesIn(a)
  <2>1. \A i \in 1 .. n : a[i].name # SYMDEF
    BY <1>1, <1>13 DEF NamesIn
  <2>2. \A i \in 1 .. n : r[i] = a[i]
    BY <1>7, <2>1
  <2>3. Len(x) = 1 /\ x[1] = t
    <3> DEFINE S == Readable(d) \ NamesIn(a)
               names == Only(j.args, S)
    <3>1. SYMDEF \in S
      BY <1>13 DEF Readable, Named
    <3> HIDE DEF S
    <3>2. j.args \in Seq(Named) /\ j.args # << >> /\ j.args[1] = SYMDEF
      <4>1. j.args \in Seq(Named)
        BY <1>3, JobType
      <4>2. j.args = <<SYMDEF>>
        BY <1>2
      <4> QED
        BY <4>1, <4>2
    <3>3. 1 \in DOMAIN names /\ names[1] = SYMDEF
      BY <3>1, <3>2, OnlyFirst
    <3>4. x = AsMembers(d, names)
      BY DEF Added, S
    <3> HIDE DEF names, x
    <3>5. 1 \in DOMAIN x /\ x[1] = t
      BY <3>3, <3>4 DEF AsMembers
    <3>6. \A i \in DOMAIN x : i = 1
      BY <1>10, <3>5 DEF Unique
    <3>7. Len(x) \in Nat /\ DOMAIN x = 1 .. Len(x)
      BY <1>10, LenProperties
    <3>8. Len(x) \in 1 .. Len(x)
      BY <3>5, <3>7
    <3> QED
      BY <3>5, <3>6, <3>7, <3>8
  <2> DEFINE y == x \o r
  <2>4. Asked(j, a, d) = y
    <3>1. << >> \o x = x
      <4>1. << >> \in Seq(Member)
        BY EmptySeq
      <4> QED
        BY <1>10, <4>1, ConcatEmptySeq
    <3> HIDE DEF p, x, q, r
    <3> QED
      BY <1>4, <1>9, <3>1
  <2> HIDE DEF x, r, t
  <2>5. /\ y \in Seq(Member) /\ Len(y) = Len(x) + Len(r)
        /\ \A i \in 1 .. (Len(x) + Len(r)) : y[i] = IF i <= Len(x) THEN x[i] ELSE r[i - Len(x)]
    BY <1>6, <1>10, ConcatProperties
  <2> HIDE DEF y
  <2>6. /\ Len(y) = n + 1 /\ y[1] = t /\ DOMAIN y = 1 .. (n + 1)
    BY <1>1, <1>6, <2>3, <2>5, LenProperties
  <2>7. \A i \in 1 .. n : y[i + 1] = a[i]
    <3> SUFFICES ASSUME NEW i \in 1 .. n PROVE y[i + 1] = a[i]
      OBVIOUS
    <3>1. i + 1 \in 1 .. (Len(x) + Len(r)) /\ ~(i + 1 <= Len(x)) /\ i + 1 - Len(x) = i
      BY <1>1, <1>6, <2>3
    <3>2. y[i + 1] = r[i]
      BY <2>5, <3>1
    <3> QED
      BY <2>2, <3>2
  <2>8. First(y)
    <3> SUFFICES ASSUME NEW i \in 1 .. (n + 1), y[i].name = SYMDEF
                 PROVE  i = 1 /\ y[i].content \notin Object
      BY <2>6 DEF First
    <3>1. i = 1
      <4>1. SUFFICES ASSUME i # 1 PROVE FALSE
        OBVIOUS
      <4>2. i - 1 \in 1 .. n /\ (i - 1) + 1 = i
        BY <1>1, <4>1
      <4>3. y[i] = a[i - 1]
        BY <2>7, <4>2
      <4> QED
        BY <2>1, <4>2, <4>3
    <3> QED
      BY <1>8, <2>6, <3>1
  <2>9. WithoutPosition(Directory(a)) = WithoutPosition(Directory(y))
    <3> DEFINE sh == 1
    <3>1. sh \in {0, 1} /\ Len(y) = Len(a) + sh /\ ExportsOf(y[1].content) = << >>
      BY <1>1, <1>11, <2>6 DEF n
    <3>2. \A i \in 1 .. Len(a) : /\ a[i].name = y[i + sh].name
                                 /\ ExportsOf(a[i].content) = ExportsOf(y[i + sh].content)
      BY <2>7 DEF n
    <3> HIDE DEF sh
    <3> QED
      BY <2>5, <3>1, <3>2, SameListing
  <2> QED
    BY <1>8, <2>4, <2>6, <2>8, <2>9 DEF j
<1> QED
  BY <1>12, <1>13

DirectoryFirst ==
    /\ First(Before)
    /\ archive \notin {Missing, Damaged} => First(archive)
    /\ Plain(disk) /\ Plain(before.disk)
    /\ Running /\ job # cmd =>
          /\ Before # << >> /\ job = Adding(Before)
          /\ before.disk[SYMDEF] # Missing
          /\ before.disk[SYMDEF].content = Directory(Before)

\* The archive a running job is to make.
LEMMA ResultFirst ==
    ASSUME Inv, DirectoryFirst, Running
    PROVE  First(Result)
<1>1. /\ Before \in Seq(Member) /\ Unique(Before) /\ First(Before)
      /\ before.disk \in Disk /\ Plain(before.disk) /\ cmd \in Command
  BY WorkedOn DEF Inv, TypeOK, NamesUnique, DirectoryFirst
<1>2. CASE job = cmd
  <2>1. job \in Command
    BY <1>1, <1>2
  <2>2. First(Asked(job, Before, before.disk))
    BY <1>1, <2>1, CommandKeepsFirst
  <2> QED
    BY <2>2 DEF Result
<1>3. CASE job # cmd
  <2>1. /\ Before # << >> /\ job = Adding(Before)
        /\ before.disk[SYMDEF] # Missing
        /\ before.disk[SYMDEF].content = Directory(Before)
    BY <1>3 DEF DirectoryFirst
  <2>2. First(Asked(Adding(Before), Before, before.disk))
    BY <1>1, <2>1, AddingPlaces
  <2> QED
    BY <2>1, <2>2 DEF Result
<1> QED
  BY <1>2, <1>3

\* The steps that leave the job and its beginning.
LEMMA DirectoryFirstJobStays ==
    ASSUME Inv, DirectoryFirst, job' = job, cmd' = cmd, before' = before,
           Running' => Running,
           archive' \notin {Missing, Damaged} => First(archive'), Plain(disk')
    PROVE  DirectoryFirst'
<1>1. Before' = Before
  BY DEF Before
<1> QED
  BY <1>1 DEF DirectoryFirst

\* What is left of a file that could not be written is no object module
\* under the name of the directory.
LEMMA FailsToWritePlain ==
    ASSUME Inv, DirectoryFirst, ExtractionError \/ DirectoryNotWritten
    PROVE  Plain(disk')
<1>1. Plain(disk) /\ disk \in Disk /\ SYMDEF \in Named /\ Missing \notin OnDisk
  BY ArchiverAssumption DEF DirectoryFirst, Inv, TypeOK, Named
<1>2. CASE ExtractionError
  <2> DEFINE m == ThisMember
  <2>1. /\ m.name \in Named /\ m.content \in Content
        /\ next \in DOMAIN Before /\ m = Before[next]
    <3>1. Scanning({"x"})
      BY <1>2 DEF ExtractionError
    <3> QED
      BY <3>1, ThisMemberType DEF Inv
  <2>2. PICK part \in Parts(m.content) :
           disk' = [disk EXCEPT ![m.name] = [content |-> part, date |-> now]]
    BY <1>2 DEF ExtractionError
  <2>3. m.name = SYMDEF => m.content \notin Object
    BY <2>1 DEF DirectoryFirst, First
  <2> HIDE DEF m
  <2>4. m.name = SYMDEF => part \notin Object
    BY <2>1, <2>2, <2>3, PartsType
  <2>5. CASE m.name = SYMDEF
    <3>1. disk'[SYMDEF].content = part
      BY <1>1, <2>1, <2>2, <2>5 DEF Disk
    <3> QED
      BY <2>4, <2>5, <3>1 DEF Plain
  <2>6. CASE m.name # SYMDEF
    <3>1. disk'[SYMDEF] = disk[SYMDEF]
      BY <1>1, <2>1, <2>2, <2>6 DEF Disk
    <3> QED
      BY <1>1, <3>1 DEF Plain
  <2> QED
    BY <2>5, <2>6
<1>3. CASE DirectoryNotWritten
  <2>1. disk' = disk \/ disk'[SYMDEF] = Missing
    BY <1>1, <1>3 DEF DirectoryNotWritten, Disk
  <2> QED
    BY <1>1, <2>1 DEF Plain
<1> QED
  BY <1>2, <1>3

LEMMA DirectoryFirstStep ==
    ASSUME Inv, DirectoryFirst, [Next]_vars
    PROVE  DirectoryFirst'
<1>0. /\ archive \notin {Missing, Damaged} => First(archive)
      /\ Plain(disk) /\ Plain(before.disk) /\ SYMDEF \in Named /\ SYMDEF \notin File
      /\ disk \in Disk /\ archive \in Seq(Member) \cup {Missing, Damaged} /\ cmd \in Command
  BY ArchiverAssumption DEF DirectoryFirst, Inv, TypeOK, Named
<1>1. ASSUME NEW c \in Command, RunCommand(c) PROVE DirectoryFirst'
  <2>1. /\ archive' = archive /\ disk' = disk /\ archive # Damaged /\ cmd' = c /\ job' = c
        /\ before' = [archive |-> archive, disk |-> disk]
    BY <1>1, CommandStarts
  <2>2. before'.archive = archive /\ before'.disk = disk
    BY <2>1
  <2>3. First(Before')
    BY <1>0, <2>1, <2>2 DEF Before, First
  <2> QED
    BY <1>0, <2>1, <2>2, <2>3 DEF DirectoryFirst
<1>2. CASE DeleteMember \/ ReplaceMember \/ ScanEnds \/ AppendArgs \/ Truncate
           \/ Finish \/ WriteError \/ Kill
  <2>1. job' = job /\ before' = before /\ cmd' = cmd
    BY <1>2, JobStays
  <2>2. disk' = disk /\ (archive' = archive \/ archive' = Damaged)
    BY <1>2 DEF DeleteMember, ReplaceMember, ScanEnds, AppendArgs, Truncate, Finish,
                WriteError, Kill, files
  <2>3. Running' => Running
    BY <1>2 DEF DeleteMember, ReplaceMember, ScanEnds, AppendArgs, Truncate, Finish,
                WriteError, Kill, Scanning, Exit, Running
  <2> QED
    BY <1>0, <2>1, <2>2, <2>3, DirectoryFirstJobStays
<1>3. CASE ReadMember
  <2>1. job' = job /\ before' = before /\ cmd' = cmd /\ archive' = archive /\ pc = "scan"
    BY <1>3, JobStays DEF ReadMember, Scanning
  <2>2. Running
    BY <2>1 DEF Running
  <2>3. Plain(disk')
    <3>1. ThisMember \in Member /\ next \in DOMAIN Before /\ ThisMember = Before[next]
      <4>1. Scanning({"t", "x"})
        BY <1>3 DEF ReadMember
      <4> QED
        BY <4>1, ThisMemberType DEF Inv
    <3> DEFINE m == ThisMember
    <3>2. disk' = disk \/ disk' = [disk EXCEPT ![m.name] = [content |-> m.content, date |-> now]]
      BY <1>3 DEF ReadMember
    <3>3. m.name = SYMDEF => m.content \notin Object
      BY <3>1 DEF DirectoryFirst, First
    <3>4. m.name \in Named /\ DOMAIN disk = Named
      BY <1>0, <3>1 DEF Member, Disk
    <3> HIDE DEF m
    <3>5. CASE disk' = [disk EXCEPT ![m.name] = [content |-> m.content, date |-> now]]
      <4>1. m.name # SYMDEF => disk'[SYMDEF] = disk[SYMDEF]
        BY <1>0, <3>4, <3>5
      <4>2. m.name = SYMDEF => disk'[SYMDEF].content = m.content
        BY <1>0, <3>4, <3>5
      <4> QED
        BY <1>0, <3>3, <4>1, <4>2 DEF Plain
    <3> QED
      BY <1>0, <3>2, <3>5 DEF Plain
  <2> QED
    BY <1>0, <2>1, <2>2, <2>3, DirectoryFirstJobStays
<1>4. CASE CopyTemps
  <2>1. /\ job' = job /\ before' = before /\ cmd' = cmd /\ pc = "copy" /\ disk' = disk
        /\ archive' = Temps
    BY <1>4, JobStays DEF CopyTemps, Temps
  <2>2. Running /\ Result = Temps
    BY <2>1 DEF Running, Inv, TempsHold
  <2>3. First(archive')
    BY <2>1, <2>2, ResultFirst
  <2> QED
    BY <1>0, <2>1, <2>2, <2>3, DirectoryFirstJobStays
<1>5. CASE UpdateSymbols
  <2>1. archive' = archive /\ archive # Damaged /\ cmd' = cmd
    BY <1>5, UpdateStarts
  <2> DEFINE d == Directory(archive)
  <2>2. \/ disk' = disk
        \/ /\ archive \in Seq(Member)
           /\ disk' = [disk EXCEPT ![SYMDEF] = [content |-> d, date |-> now]]
    <3>1. archive \notin {Missing, << >>} => archive \in Seq(Member)
      BY <1>0, <2>1
    <3> QED
      BY <1>5, <3>1 DEF UpdateSymbols
  <2>3. archive \in Seq(Member) => d \notin Object
    BY DirectoryLists, ArchiverAssumption
  <2> HIDE DEF d
  <2>4. Plain(disk')
    BY <1>0, <2>2, <2>3 DEF Plain, Disk
  <2>5. CASE pc' = "idle" /\ UNCHANGED <<job, args, next, before>>
    BY <1>0, <2>1, <2>4, <2>5, DirectoryFirstJobStays DEF Running
  <2>6. CASE /\ archive \in Seq(Member) /\ archive # << >>
             /\ disk' = [disk EXCEPT ![SYMDEF] = [content |-> d, date |-> now]]
             /\ before' = [archive |-> archive, disk |-> disk']
             /\ job' = Adding(archive)
    <3>1. before'.archive = archive /\ before'.disk = disk' /\ archive # Missing
      BY <2>6, ArchiverAssumption
    <3>2. Before' = archive
      BY <3>1 DEF Before
    <3>3. disk'[SYMDEF] = [content |-> d, date |-> now]
      BY <1>0, <2>6 DEF Disk
    <3>4. disk'[SYMDEF].content = d
      BY <3>3
    <3>5. disk'[SYMDEF] # Missing
      <4>1. d \in Content /\ now \in Nat
        BY <2>6, DirectoryLists DEF d, Content, Inv, TypeOK
      <4>2. disk'[SYMDEF] \in OnDisk
        BY <3>3, <4>1 DEF OnDisk
      <4> QED
        BY <4>2, ArchiverAssumption
    <3>6. First(archive)
      BY <1>0, <2>1, <3>1
    <3> QED
      BY <2>1, <2>4, <2>6, <3>1, <3>2, <3>4, <3>5, <3>6 DEF DirectoryFirst, d
  <2>7. \/ pc' = "idle" /\ UNCHANGED <<job, args, next, before>>
        \/ /\ archive \in Seq(Member) /\ archive # << >>
           /\ disk' = [disk EXCEPT ![SYMDEF] = [content |-> d, date |-> now]]
           /\ before' = [archive |-> archive, disk |-> disk']
           /\ job' = Adding(archive)
    BY <1>5, UpdateStarts DEF Adding, d
  <2> QED
    BY <2>5, <2>6, <2>7
<1>6. ASSUME NEW n \in File, NEW o \in Object \cup {Missing}, EditFile(n, o)
      PROVE  DirectoryFirst'
  <2>1. /\ pc' = "idle" /\ archive' = archive /\ archive # Damaged
        /\ before' = [archive |-> archive, disk |-> disk']
    BY <1>6, EditStarts
  <2>2. PICK y : disk' = [disk EXCEPT ![n] = y]
    BY <1>6, EditStarts
  <2>3. disk'[SYMDEF] = disk[SYMDEF]
    BY <1>0, <2>2 DEF Disk
  <2>4. before'.archive = archive /\ before'.disk = disk'
    BY <2>1
  <2>5. First(Before')
    BY <1>0, <2>1, <2>4 DEF Before, First
  <2> QED
    BY <1>0, <2>1, <2>3, <2>4, <2>5 DEF DirectoryFirst, Plain, Running
<1>7. CASE UNCHANGED vars
  BY <1>7 DEF vars, files, DirectoryFirst, Before, Running
<1>8. CASE ExtractionError \/ DirectoryNotWritten
  <2>1. /\ job' = job /\ before' = before /\ cmd' = cmd /\ archive' = archive
        /\ archive # Damaged /\ pc' = "idle"
    BY <1>8, FailsToWrite
  <2>2. Plain(disk')
    BY <1>8, FailsToWritePlain
  <2> QED
    BY <1>0, <2>1, <2>2, DirectoryFirstJobStays DEF Running
<1> QED
  BY <1>1, <1>2, <1>3, <1>4, <1>5, <1>6, <1>7, <1>8 DEF Next, Terminating

\* An archive that repeats no name has as many names as members.
LEMMA UniqueCounts ==
    ASSUME NEW a \in Seq(Member), Unique(a)
    PROVE  Cardinality(NamesIn(a)) = Len(a)
<1> DEFINE f == [i \in 1 .. Len(a) |-> a[i].name]
<1>1. Len(a) \in Nat /\ DOMAIN a = 1 .. Len(a)
  BY LenProperties
<1>2. \A i \in 1 .. Len(a) : f[i] = a[i].name
  OBVIOUS
<1>3. f \in [1 .. Len(a) -> NamesIn(a)]
  BY <1>1 DEF NamesIn
<1> HIDE DEF f
<1>4. f \in Bijection(1 .. Len(a), NamesIn(a))
  <2>1. \A i, k \in 1 .. Len(a) : f[i] = f[k] => i = k
    BY <1>1, <1>2 DEF Unique
  <2>2. \A n \in NamesIn(a) : \E i \in 1 .. Len(a) : f[i] = n
    BY <1>1, <1>2 DEF NamesIn
  <2> QED
    BY <1>3, <2>1, <2>2 DEF Bijection, Injection, Surjection, IsInjective
<1>5. IsFiniteSet(1 .. Len(a)) /\ Cardinality(1 .. Len(a)) = Len(a)
  BY <1>1, FS_Interval
<1>6. ExistsBijection(1 .. Len(a), NamesIn(a))
  BY <1>4 DEF ExistsBijection
<1> QED
  BY <1>5, <1>6, FS_Bijection

\* A command that ends well without another one begun.
LEMMA FinishLinkable ==
    ASSUME Inv, AskedFor, DirectoryFirst, Finish, pc' = "idle", status' = "ok",
           archive \notin {Missing, << >>}, cmd.op \in {"d", "r", "none"}
    PROVE  /\ cmd.s => archive[1].name = SYMDEF
           /\ archive[1].name = SYMDEF =>
                 WithoutPosition(archive[1].content) = WithoutPosition(Directory(archive))
<1>1. pc = "finish" /\ Running
  BY DEF Finish, Running
<1>2. job # cmd \/ ~(cmd.s \/ (cmd.op \in {"d", "r"} /\ HasSymbols(archive)))
  BY <1>1 DEF Finish
<1>3. CASE job # cmd
  <2>1. /\ Before # << >> /\ job = Adding(Before)
        /\ before.disk[SYMDEF] # Missing
        /\ before.disk[SYMDEF].content = Directory(Before)
    BY <1>1, <1>3 DEF DirectoryFirst
  <2>2. /\ Before \in Seq(Member) /\ Unique(Before) /\ First(Before) /\ before.disk \in Disk
    BY WorkedOn DEF Inv, TypeOK, NamesUnique, DirectoryFirst
  <2>3. job.op = "r"
    BY <2>1 DEF Adding
  <2>4. archive = Asked(Adding(Before), Before, before.disk)
    BY <1>1, <2>1, <2>3 DEF AskedFor, Result
  <2>5. LET r == Asked(Adding(Before), Before, before.disk) IN
           /\ First(r) /\ r[1].name = SYMDEF /\ r[1].content = Directory(Before)
           /\ WithoutPosition(Directory(r)) = WithoutPosition(Directory(Before))
    BY <2>1, <2>2, AddingPlaces
  <2> QED
    BY <2>4, <2>5
<1>4. CASE ~(cmd.s \/ (cmd.op \in {"d", "r"} /\ HasSymbols(archive)))
  <2>1. cmd.op # "none"
    <3>1. cmd.op = "none" => cmd.s
      BY ArchiverAssumption DEF Inv, TypeOK, IsCommand
    <3> QED
      BY <1>4, <3>1
  <2>2. ~HasSymbols(archive)
    BY <1>4, <2>1
  <2> QED
    BY <1>4, <2>2 DEF HasSymbols
<1> QED
  BY <1>2, <1>3, <1>4

LEMMA LinkableStep ==
    ASSUME Inv, AskedFor, DirectoryFirst, LinkableArchive, [Next]_vars
    PROVE  LinkableArchive'
<1>0. SUFFICES ASSUME pc' = "idle", commands' > 0, status' = "ok",
                      cmd'.op \in {"d", "r", "none"}, archive' \notin {Missing, << >>}
               PROVE  /\ Cardinality(NamesIn(archive')) = Len(archive')
                      /\ cmd'.s => archive'[1].name = SYMDEF
                      /\ archive'[1].name = SYMDEF =>
                            WithoutPosition(archive'[1].content)
                              = WithoutPosition(Directory(archive'))
  BY DEF LinkableArchive
<1>1. Inv'
  BY TypeStep, NamesUniqueStep, JobRunsStep, ArgsConsumedStep, TempsHoldStep, ExtractedStep
     DEF Inv
<1>2. archive' # Damaged
  BY <1>0, <1>1 DEF Inv, JobRuns
<1>3. archive' \in Seq(Member) /\ Unique(archive')
  BY <1>0, <1>1, <1>2 DEF Inv, TypeOK, NamesUnique
<1>4. Cardinality(NamesIn(archive')) = Len(archive')
  BY <1>3, UniqueCounts
<1>5. CASE Finish
  <2>1. archive' = archive /\ cmd' = cmd
    BY <1>5 DEF Finish, files
  <2> QED
    BY <1>0, <1>4, <1>5, <2>1, FinishLinkable
<1>6. CASE pc = "idle" /\ UNCHANGED <<archive, commands, cmd, status>>
  BY <1>0, <1>6 DEF LinkableArchive
<1>7. ASSUME NEW n \in File, NEW o \in Object \cup {Missing}, EditFile(n, o)
      PROVE  pc = "idle" /\ UNCHANGED <<archive, commands, cmd, status>>
  BY <1>7 DEF EditFile
<1>8. CASE UNCHANGED vars
  BY <1>0, <1>6, <1>8 DEF vars, files
<1>9. ASSUME NEW c \in Command, RunCommand(c) PROVE FALSE
  BY <1>0, <1>9, CommandStarts DEF RunCommand, Start, Exit
<1>10. CASE UpdateSymbols
  <2>1. archive' = archive
    BY <1>10 DEF UpdateSymbols
  <2>2. archive # Missing /\ archive # << >>
    BY <1>0, <2>1
  <2> QED
    BY <1>0, <1>10, <2>2 DEF UpdateSymbols, Exit
<1>11. CASE DeleteMember \/ ReplaceMember \/ ReadMember \/ ScanEnds \/ AppendArgs \/ Truncate
            \/ CopyTemps
  BY <1>0, <1>11 DEF DeleteMember, ReplaceMember, ReadMember, ScanEnds, AppendArgs, Truncate,
                     CopyTemps, Scanning
<1>12. CASE WriteError \/ ExtractionError \/ DirectoryNotWritten \/ Kill
  BY <1>0, <1>12 DEF WriteError, ExtractionError, DirectoryNotWritten, Kill, Exit
<1> QED
  BY <1>5, <1>6, <1>7, <1>8, <1>9, <1>10, <1>11, <1>12 DEF Next, Terminating

\* rCmd, updateSymbols: __.SYMDEF is the first member or none, no command
\* displaces it or puts an object in its place, and the job that updates it
\* works on the archive whose exports it lists.
THEOREM DirectoryStaysFirst == Spec => []DirectoryFirst
<1>1. Init => DirectoryFirst
  <2> SUFFICES ASSUME Init PROVE DirectoryFirst
    OBVIOUS
  <2>1. archive = Missing /\ pc = "idle" /\ before.archive = Missing /\ before.disk = disk
        /\ disk[SYMDEF] = Missing
    BY DEF Init
  <2> QED
    BY <2>1 DEF DirectoryFirst, Before, First, Plain, Running
<1> QED
  BY <1>1, DirectoryFirstStep, ArchiverInvariant, PTL DEF Spec

\* main, hasSymbols, updateSymbols: after every successful d, r or s the
\* archive repeats no name, and a directory in it lists what ld must find.
THEOREM LeavesLinkable == Spec => []LinkableArchive
<1>1. Init => LinkableArchive
  BY DEF Init, LinkableArchive
<1> QED
  BY <1>1, LinkableStep, DirectoryStaysFirst, MakesWhatIsAskedFor, ArchiverInvariant, PTL
     DEF Spec
===========================================================================
