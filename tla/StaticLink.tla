---------------------------- MODULE StaticLink ----------------------------
(***************************************************************************)
(* What a static link promises, without symbol tables, running sizes or    *)
(* relocation lists: modules are gathered one after another; the link then *)
(* either fails or chooses start addresses and yields an image in which    *)
(* every reference holds the address, or distance, of the first module     *)
(* that defines its target.  binutils/ld/ld.c (module Linker) implements   *)
(* this specification.                                                     *)
(***************************************************************************)
EXTENDS ObjectFormat, Sequences

CONSTANTS Object, Contents

VARIABLES mods,         \* the gathered modules, in order
          status,       \* "gathering", "linked" or "failed"
          start,        \* start address of each segment
          image         \* the patched places

absvars == <<mods, status, start, image>>

Init == mods = << >> /\ status = "gathering"
        /\ start = [s \in Segment |-> 0] /\ image = {}

\* Module i's part of segment s begins where the parts before it end.
Offset(i, s) ==
    LET sum[k \in 0..Len(mods)] ==
            IF k = 0 THEN 0 ELSE sum[k-1] + Contents[mods[k]].size[s]
    IN  sum[i-1]

Exports(i) == DOMAIN Contents[mods[i]].defs
Exported(n) == \E i \in DOMAIN mods : n \in Exports(i)

\* The address of the first definition of n.
AddressOf(n) ==
    LET i == CHOOSE j \in DOMAIN mods :
                n \in Exports(j) /\ \A k \in DOMAIN mods : n \in Exports(k) => j <= k
        d == Contents[mods[i]].defs[n]
    IN  [segment |-> d.segment, offset |-> Offset(i, d.segment) + d.value]

TargetOf(i, r) ==
    IF r.base.kind = "symbol"
    THEN AddressOf(r.base.symbol)
    ELSE [segment |-> r.base.segment, offset |-> Offset(i, r.base.segment)]

\* What has to stand at the place of reference r of module i.
Patch(i, r, st) ==
    LET t == TargetOf(i, r)
        address == st[t.segment] + t.offset + r.value
        offset == Offset(i, r.segment) + r.offset
        from == st[r.segment] + offset - (IF r.method \in SecondOfPair THEN 4 ELSE 0)
    IN  [segment |-> r.segment, offset |-> offset, method |-> r.method,
         field |-> IF r.method = "W32" THEN address ELSE address - from]

References == UNION {{i} \X Contents[mods[i]].relocs : i \in DOMAIN mods}

\* Branches out of the code segment have no meaning in this format.
Meaningful(i, r) ==
    r.method \in Branch => TargetOf(i, r).segment = "CODE" /\ r.segment = "CODE"

PlaceOf(p) == <<p.segment, p.offset, p.method>>

Add(o) ==
    /\ status = "gathering"
    /\ mods' = Append(mods, o)
    /\ UNCHANGED <<status, start, image>>

Link ==
    /\ status = "gathering" /\ status' = "linked"
    /\ start' \in [Segment -> Nat]
    /\ \A e \in References : e[2].base.kind = "symbol" => Exported(e[2].base.symbol)
    /\ {PlaceOf(p) : p \in image'} =
          {PlaceOf(Patch(e[1], e[2], start')) : e \in References}
    /\ \A e \in References :
          Meaningful(e[1], e[2]) => Patch(e[1], e[2], start') \in image'
    /\ UNCHANGED mods

Fail ==
    /\ status = "gathering" /\ status' = "failed"
    /\ UNCHANGED <<mods, start, image>>

Next == (\E o \in Object : Add(o)) \/ Link \/ Fail

Spec == Init /\ [][Next]_absvars
===========================================================================
