------------------------------ MODULE Switch ------------------------------
(***************************************************************************)
(* How lcc compiles one switch statement (src/lcc/src/stmt.c).             *)
(*                                                                         *)
(* While the body is parsed, caselabel() keeps the case constants sorted,  *)
(* with the label of each.  At the end of the body swgen() groups the      *)
(* constants into buckets that are dense enough for a jump table, and      *)
(* swcode() writes a binary search over the buckets: a bucket of at most   *)
(* three constants becomes a list of comparisons, a larger one a jump      *)
(* table, which emitcode() of dag.c fills in.                              *)
(*                                                                         *)
(* Every case has a label of its own here; `case 1: case 2:' gives two     *)
(* cases one label, which can only hide a wrong jump.                      *)
(***************************************************************************)
EXTENDS Integers, Sequences, FiniteSets, SequencesExt

CONSTANTS
    Width,        \* bits of the promoted type of the switch expression
    Constants,    \* the constants that case labels may have
    InitialSize,  \* SWSIZE, the first size of the two arrays
    Densities,    \* densities given with -d (0.5 otherwise), as fractions
    MaxCases,     \* bound: case labels of one switch
    MaxErrors     \* bound: errors reported in one switch

ASSUME SizesAssumption ==
    /\ Width \in Nat \ {0}
    /\ InitialSize \in Nat \ {0}
    /\ MaxCases \in Nat
    /\ MaxErrors \in Nat

ASSUME DensityAssumption ==
    \A d \in Densities : d.num \in Nat /\ d.den \in Nat \ {0}

ASSUME ConstantsAssumption == Constants \subseteq Int

VARIABLES
    density,  \* density
    phase,    \* "body", "buckets", "code" or "done"
    values,   \* sw.values[0 .. ncases-1]
    labels,   \* sw.labels[0 .. ncases-1]
    size,     \* sw.size
    deflab,   \* sw.deflab, or NoLabel
    dups,     \* errors "duplicate case label" reported
    extras,   \* errors "extra default label" reported
    cases,    \* history: the constants of the case labels
    repeated, \* history: how many had the value of an earlier one
    buckets,  \* the first case of each bucket swgen has so far
    next,     \* the case swgen takes next
    pending,  \* the calls of swcode that are still to come, innermost first
    code,     \* the instructions of the dispatch
    genlabs   \* labels swcode has taken from genlabel

vars == <<density, phase, values, labels, size, deflab, dups, extras, cases, repeated,
          buckets, next, pending, code, genlabs>>

-----------------------------------------------------------------------------
(* Labels and values *)

NoLabel == <<"none">>
ExitLabel == <<"lab">>           \* findlabel(lab) of swstmt
CaseLabelOf(c) == <<"case", c>>
SearchLabel(n) == <<"search", n>>

\* The value of constant c once it is cast to the type of the switch and,
\* when that is unsigned, sign extended: comparisons are made as signed.
Modulus == 2 ^ Width

ASSUME ModulusAssumption == Modulus \in Nat \ {0}

Extended(c) ==
    LET low == c % Modulus
    IN  IF low >= Modulus \div 2 THEN low - Modulus ELSE low

SameValue(c, d) == (c - d) % Modulus = 0

Word == (-(Modulus \div 2)) .. (Modulus \div 2 - 1)

ncases == Len(values)

-----------------------------------------------------------------------------
Init ==
    /\ density \in Densities
    /\ phase = "body"
    /\ values = << >>
    /\ labels = << >>
    /\ size = InitialSize
    /\ deflab = NoLabel
    /\ dups = 0
    /\ extras = 0
    /\ cases = {}
    /\ repeated = 0
    /\ buckets = << >>
    /\ next = 1
    /\ pending = << >>
    /\ code = << >>
    /\ genlabs = 0

\* Mutant: the shift stops behind the last value that is not greater.
PlaceBehindEqual(vals, val) ==
    CHOOSE k \in 0 .. Len(vals) :
        /\ k > 0 => vals[k] <= val
        /\ \A j \in k+1 .. Len(vals) : vals[j] > val

\* The shift of caselabel stops behind the last value smaller than val.
Place(vals, val) ==
    CHOOSE k \in 0 .. Len(vals) :
        /\ k > 0 => vals[k] < val
        /\ \A j \in k+1 .. Len(vals) : vals[j] >= val

\* Mutant: the value is compared with the one before its place.
IsDuplicateBefore(vals, val) ==
    LET k == Place(vals, val) IN k > 0 /\ vals[k] = val

IsDuplicate(vals, val) ==
    LET k == Place(vals, val) IN k < Len(vals) /\ vals[k+1] = val

Grown(s) == IF ncases >= s THEN 2 * s ELSE s

\* A case label in the body.
CaseLabel(c) ==
    LET val == Extended(c)
        k   == Place(values, val)
    IN  /\ phase = "body"
        /\ ncases < MaxCases
        /\ IsDuplicate(values, val) => dups + extras < MaxErrors
        /\ size' = Grown(size)
        /\ values' = InsertAt(values, k + 1, val)
        /\ labels' = InsertAt(labels, k + 1, CaseLabelOf(c))
        /\ dups' = IF IsDuplicate(values, val) THEN dups + 1 ELSE dups
        /\ cases' = cases \cup {c}
        /\ repeated' = IF \E d \in cases : SameValue(c, d) THEN repeated + 1
                       ELSE repeated
        /\ UNCHANGED <<phase, deflab, extras, buckets, next, pending, code, genlabs>>

\* A default label in the body: the first one takes the label of the switch.
DefaultLabel ==
    /\ phase = "body"
    /\ \/ deflab = NoLabel /\ deflab' = ExitLabel /\ UNCHANGED extras
       \/ /\ deflab # NoLabel
          /\ dups + extras < MaxErrors
          /\ extras' = extras + 1
          /\ UNCHANGED deflab
    /\ UNCHANGED <<phase, values, labels, size, dups, cases, repeated, buckets,
                   next, pending, code, genlabs>>

\* swstmt after statement(): without a default the label is defined behind
\* the body, and without a case there is nothing to search.
EndOfBody ==
    /\ phase = "body"
    /\ deflab' = ExitLabel
    /\ phase' = IF ncases > 0 THEN "buckets" ELSE "done"
    /\ code' = IF ncases > 0 THEN code
               ELSE <<[op |-> "BRANCH", to |-> ExitLabel]>>
    /\ UNCHANGED <<values, labels, size, dups, extras, cases, repeated, buckets,
                   next, pending, genlabs>>

-----------------------------------------------------------------------------
(* swgen *)

\* Mutant: the distance is taken for the number of values.
DenseDistance(vals, first, last) ==
    (last - first + 1) * density.den >= density.num * (vals[last] - vals[first])

\* den(i,j) >= density for the cases from first to last.
Dense(vals, first, last) ==
    (last - first + 1) * density.den
        >= density.num * (vals[last] - vals[first] + 1)

\* A new bucket for case k, merged with those before it as long as the result
\* is dense: m is n when the inner loop ends.
Merged(b, vals, k) ==
    LET open == Append(b, k)
        m    == CHOOSE m \in 1 .. Len(open) :
                    /\ \A j \in m .. Len(open) - 1 : Dense(vals, open[j], k)
                    /\ m > 1 => ~ Dense(vals, open[m-1], k)
    IN  SubSeq(open, 1, m)

Bucket ==
    /\ phase = "buckets"
    /\ next <= ncases
    /\ buckets' = Merged(buckets, values, next)
    /\ next' = next + 1
    /\ UNCHANGED <<phase, values, labels, size, deflab, dups, extras, cases,
                   repeated, pending, code, genlabs>>

StartSearch ==
    /\ phase = "buckets"
    /\ next > ncases
    /\ phase' = "code"
    /\ pending' = <<[lb |-> 1, ub |-> Len(buckets), lab |-> NoLabel]>>
    /\ UNCHANGED <<values, labels, size, deflab, dups, extras, cases, repeated,
                   buckets, next, code, genlabs>>

-----------------------------------------------------------------------------
(* swcode *)

Lowest(k) == buckets[k]
Highest(k) == IF k = Len(buckets) THEN ncases ELSE buckets[k+1] - 1

\* Mutant: the lowest bucket is searched first.
MiddleLowest(lb, ub) == lb

\* The middle bucket is searched first.
Middle(lb, ub) == (lb + ub) \div 2

Test(op, i, to) == [op |-> op, val |-> values[i], to |-> to]

\* At most three cases are compared one by one.
Comparisons(lb, k, ub, lolab, hilab) ==
    [i \in 1 .. Highest(k) - Lowest(k) + 1 |->
        Test("EQ", Lowest(k) + i - 1, labels[Lowest(k) + i - 1])]
    \o IF k > lb THEN <<Test("GT", Highest(k), hilab)>>
       ELSE IF k < ub THEN <<Test("LT", Lowest(k), lolab)>>
       ELSE <<[op |-> "BRANCH", to |-> lolab]>>

\* Mutant: a gap is one entry however many values are missing.
EntriesGapsOnce(j) ==
    [g \in 1 .. (IF values[j] - values[j-1] > 1 THEN 1 ELSE 0) |-> deflab] \o <<labels[j]>>

\* emitcode: the entries of the table for case j, the default's for each value
\* between it and the case before, and its own.
Entries(j) ==
    [g \in 1 .. values[j] - values[j-1] - 1 |-> deflab] \o <<labels[j]>>

\* One entry for each value from the first to the last.
Table(l, u) ==
    <<labels[l]>> \o FlattenSeq([i \in 1 .. u - l |-> Entries(l + i)])

\* More than three make a jump table, indexed by the value less the first one.
JumpTable(k, lolab, hilab) ==
    <<Test("LT", Lowest(k), lolab), Test("GT", Highest(k), hilab),
      [op |-> "JUMP", base |-> values[Lowest(k)],
       table |-> Table(Lowest(k), Highest(k))]>>

BucketCode(lb, k, ub, lolab, hilab) ==
    IF Highest(k) - Lowest(k) + 1 <= 3
    THEN Comparisons(lb, k, ub, lolab, hilab)
    ELSE JumpTable(k, lolab, hilab)

\* One call of swcode: the label of the call, if it has one, the code of the
\* middle bucket, then calls for the buckets below it and for those above it.
SwCode ==
    /\ phase = "code"
    /\ pending # << >>
    /\ LET call == Head(pending)
           k     == Middle(call.lb, call.ub)
           below == k > call.lb
           above == k < call.ub
           lolab == IF below THEN SearchLabel(genlabs + 1) ELSE deflab
           hilab == IF ~ above THEN deflab
                    ELSE SearchLabel(genlabs + (IF below THEN 2 ELSE 1))
       IN  /\ code' = code
                \o (IF call.lab = NoLabel THEN << >>
                    ELSE <<[op |-> "LABEL", lab |-> call.lab]>>)
                \o BucketCode(call.lb, k, call.ub, lolab, hilab)
           /\ genlabs' = genlabs + Cardinality({b \in {1, 2} :
                                    (b = 1 /\ below) \/ (b = 2 /\ above)})
           /\ pending' =
                (IF below THEN <<[lb |-> call.lb, ub |-> k - 1, lab |-> lolab]>>
                          ELSE << >>)
                \o (IF above
                    THEN <<[lb |-> k + 1, ub |-> call.ub, lab |-> hilab]>>
                    ELSE << >>)
                \o Tail(pending)
    /\ UNCHANGED <<phase, values, labels, size, deflab, dups, extras, cases,
                   repeated, buckets, next>>

\* branch(lab) of swstmt goes away behind the jump that ends the search.
EndOfSearch ==
    /\ phase = "code"
    /\ pending = << >>
    /\ phase' = "done"
    /\ UNCHANGED <<values, labels, size, deflab, dups, extras, cases, repeated,
                   buckets, next, pending, code, genlabs>>

Terminating == phase = "done" /\ UNCHANGED vars

Next ==
    /\ UNCHANGED density
    /\ \/ \E c \in Constants : CaseLabel(c)
       \/ DefaultLabel
       \/ EndOfBody
       \/ Bucket
       \/ StartSearch
       \/ SwCode
       \/ EndOfSearch
       \/ Terminating

Spec == Init /\ [][Next]_vars

-----------------------------------------------------------------------------
(* The emitted code, executed *)

IsSearch(lab) == lab[1] = "search"

\* A jump at p to lab: the search ends there, or goes on from where lab is
\* ahead, or there is no such place.
Goes(from, p, lab) ==
    LET ahead == {q \in p+1 .. Len(code) : code[q] = [op |-> "LABEL", lab |-> lab]}
    IN  IF ~ IsSearch(lab) THEN lab
        ELSE IF ahead = {} THEN NoLabel
        ELSE from[CHOOSE q \in ahead : TRUE]

\* Instruction i leaves for i.to when the value is x.
Taken(i, x) ==
    CASE i.op = "EQ" -> x = i.val
      [] i.op = "LT" -> x < i.val
      [] i.op = "GT" -> x > i.val
      [] i.op = "BRANCH" -> TRUE
      [] OTHER -> FALSE

\* Where the search ends from p, when from tells it of the places behind p:
\* behind the last instruction comes branch(lab), and an entry outside a table
\* is nowhere.
ArrivesFrom(from, p, x) ==
    IF p > Len(code) THEN ExitLabel
    ELSE LET i == code[p]
         IN  IF i.op = "JUMP"
             THEN IF x - i.base + 1 \in DOMAIN i.table
                  THEN Goes(from, p, i.table[x - i.base + 1]) ELSE NoLabel
             ELSE IF Taken(i, x) THEN Goes(from, p, i.to)
             ELSE from[p+1]

\* Where the search ends for value x.
Arrives(x) ==
    LET from[p \in 1 .. Len(code) + 1] == ArrivesFrom(from, p, x)
    IN  from[1]

\* The number of search labels that value x passes.
Passed(x) ==
    LET from[p \in 1 .. Len(code) + 1] ==
            IF p > Len(code) THEN 0
            ELSE LET i == code[p]
                     ahead == {q \in p+1 .. Len(code) :
                                  code[q].op = "LABEL" /\ code[q].lab = i.to}
                 IN  CASE i.op = "LABEL" -> 1 + from[p+1]
                       [] i.op = "JUMP" -> 0
                       [] \/ i.op = "EQ" /\ x = i.val
                          \/ i.op = "LT" /\ x < i.val
                          \/ i.op = "GT" /\ x > i.val
                          \/ i.op = "BRANCH" ->
                             IF ahead = {} THEN 0 ELSE from[CHOOSE q \in ahead : TRUE]
                       [] OTHER -> from[p+1]
    IN  from[1]

-----------------------------------------------------------------------------
(* Properties *)

\* What the search promises: for every value of the type of the switch it
\* arrives at the label of the case with that value, however the constant was
\* written and whichever of comparisons and tables were chosen, and at the
\* default label (or the end of the switch) when there is no such case.
SelectsCase ==
    phase = "done" /\ dups = 0 =>
        \A x \in Word :
            Arrives(x) =
                IF \E c \in cases : SameValue(c, x)
                THEN CaseLabelOf(CHOOSE c \in cases : SameValue(c, x))
                ELSE ExitLabel

\* caselabel reports a duplicate exactly when an earlier case has the same
\* value in the type of the switch, wherever it stands in the sorted array.
DuplicatesReported ==
    dups = repeated

\* The two arrays go together: each value is that of a case label and has the
\* label of that case, and without a duplicate each value is there once, in
\* increasing order.
CasesInOrder ==
    /\ \A i \in DOMAIN values : \E c \in cases :
          values[i] = Extended(c) /\ labels[i] = CaseLabelOf(c)
    /\ dups = 0 => \A i, j \in DOMAIN values : i < j => values[i] < values[j]

\* The manual's promise (doc/lcc.1, -d): a jump table is only made for cases
\* that fill at least the given share of it.
TablesDense ==
    dups = 0 => \A p \in DOMAIN code :
        code[p].op = "JUMP" =>
            Cardinality({t \in DOMAIN code[p].table :
                            code[p].table[t] # ExitLabel}) * density.den
                >= density.num * Len(code[p].table)

\* A value passes at most log2 of the number of buckets on its way.
SearchLogarithmic ==
    phase = "done" /\ ncases > 0 =>
        \A x \in Word : 2 ^ Passed(x) <= Len(buckets)
=============================================================================
