----------------------------- MODULE MCDriver -----------------------------
(***************************************************************************)
(* Command lines of up to MaxArgs arguments: sources of every kind, two of *)
(* them with the same base, an object, a library, an archive and a file    *)
(* that is not there, in every mode; and with one argument less and -o.    *)
(***************************************************************************)
EXTENDS Driver

CONSTANTS MaxArgs

Named(dir, base, suffix) == [dir |-> dir, base |-> base, suffix |-> suffix]
Here(base, suffix) == Named(".", base, suffix)
MCArg == {Here("x", "c"), Here("y", "c"), Named("sub", "x", "c"), Here("x", "i"),
          Here("x", "s"), Here("x", "o"), Here("m", "lib"), Here("arc", "other"),
          Here("gone", "c")}
MCDisk == [a \in {b \in MCArg : b.suffix # "lib" /\ b.base # "gone"} |->
              Contents(FormOf(a), <<a>>)]
MCTempStem == <<"t1", "t2", "t3", "t4", "t5", "t6">>

Line(E, S, c, o, arguments) == [E |-> E, S |-> S, c |-> c, o |-> o, args |-> arguments]
Modes(arguments) ==
    {Line(FALSE, FALSE, FALSE, None, arguments),
     Line(FALSE, FALSE, TRUE, None, arguments),
     Line(FALSE, TRUE, FALSE, None, arguments),
     Line(TRUE, FALSE, FALSE, None, arguments)}
OutputModes(arguments) ==
    {Line(FALSE, S, c, o, arguments) :
        S \in BOOLEAN, c \in BOOLEAN,
        o \in {Here("p", "out"), Here("x", "i"), Here("x", "s")}}
MCInvocation ==
    UNION {Modes(arguments) : arguments \in BoundedSeq(MCArg, MaxArgs)}
    \cup UNION {OutputModes(arguments) : arguments \in BoundedSeq(MCArg, MaxArgs - 1)}
===========================================================================
