---------------------------- MODULE LadderLogic ----------------------------
(***************************************************************************)
(* The coil block of a synthesised ST program, and what one PLC scan makes *)
(* of it.                                                                  *)
(*                                                                         *)
(* A condition is kept in disjunctive normal form, the form                *)
(* app/boolexpr.py reduces every expression to: a set of terms, each term  *)
(* the symbols that have to be ON and the symbols that have to be OFF.     *)
(* A numeric comparison (LEVEL >= 700) is a symbol of its own whose value  *)
(* follows from the one analog register the conditions compare.            *)
(*                                                                         *)
(* A program is a record                                                   *)
(*   order  : the driven outputs in source order (one coil line each),     *)
(*   coil   : the coil line of each of them,                               *)
(*   locks  : the declared interlocks, as pairs <<output_a, output_b>>,    *)
(*   hidden : the outputs whose coil line carries a trailing comment,      *)
(*   broken : TRUE when synthesis raises instead of producing the program. *)
(***************************************************************************)
EXTENDS Integers, Sequences

CONSTANTS
    Symbols,      \* every BOOL name of a program: inputs, comparisons, FB.Q bits, outputs
    Comparisons,  \* the names that stand for a numeric comparison
    Levels,       \* the values of the analog register
    Sat           \* Sat[c]: the values for which comparison c is true

ASSUME LadderAssumption ==
    /\ Comparisons \subseteq Symbols
    /\ Sat \in [Comparisons -> SUBSET Levels]

Term == [on : SUBSET Symbols, off : SUBSET Symbols]
Cond == SUBSET Term

Never == {}
Is(s) == {[on |-> {s}, off |-> {}]}
Not(s) == {[on |-> {}, off |-> {s}]}

Holds(cond, table) ==
    \E t \in cond : /\ \A s \in t.on : table[s]
                    /\ \A s \in t.off : ~table[s]

(* OUT := (on OR OUT) AND NOT (cut) AND NOT partner ...;  without a seal   *)
(* and with nothing to cut it is the plain assignment of a derived output. *)
Coil == [on : Cond, seal : BOOLEAN, cut : Cond, guards : SUBSET Symbols]

Plain(cond) == [on |-> cond, seal |-> FALSE, cut |-> Never, guards |-> {}]

(* Mutation: AND binds only the seal, ON conditions escape the guards. *)
CoilValueLoose(c, out, table) ==
    \/ Holds(c.on, table)
    \/ /\ c.seal /\ table[out]
       /\ ~Holds(c.cut, table)
       /\ \A p \in c.guards : ~table[p]

(* Mutation: the seal escapes the cut and the guards. *)
CoilValueSealed(c, out, table) ==
    \/ c.seal /\ table[out]
    \/ /\ Holds(c.on, table)
       /\ ~Holds(c.cut, table)
       /\ \A p \in c.guards : ~table[p]

CoilValue(c, out, table) ==
    /\ Holds(c.on, table) \/ (c.seal /\ table[out])
    /\ ~Holds(c.cut, table)
    /\ \A p \in c.guards : ~table[p]

Driven(prog) == {prog.order[i] : i \in 1..Len(prog.order)}
Free(prog) == Symbols \ Driven(prog)

(* Each output is driven by one coil line: what check_double_coils demands *)
(* of every program it lets through.                                       *)
SingleCoils(prog) ==
    \A i, j \in 1..Len(prog.order) : prog.order[i] = prog.order[j] => i = j

Program ==
    [order : Seq(Symbols), coil : [Symbols -> Coil],
     locks : SUBSET (Symbols \X Symbols), hidden : SUBSET Symbols,
     broken : BOOLEAN]

(* p is assigned before o in the scan. *)
Earlier(prog, p, o) ==
    \E i, j \in 1..Len(prog.order) :
        i < j /\ prog.order[i] = p /\ prog.order[j] = o

(* The valuations of the names outside Driven(prog): BOOL inputs and FB.Q  *)
(* bits are free, comparisons agree with one level of the register.        *)
Valuations(syms, level) ==
    {v \in [syms -> BOOLEAN] :
        \A c \in syms \cap Comparisons : v[c] = (level \in Sat[c])}

(* What the coil of o reads during a scan: outputs assigned earlier        *)
(* already hold their new value, itself and the later ones the old value.  *)
Frame(prog, o, cur, ins, nxt) ==
    [s \in Symbols |->
        IF s \notin Driven(prog) THEN ins[s]
        ELSE IF Earlier(prog, s, o) THEN nxt[s] ELSE cur[s]]

(* nxt is the output image that one scan makes of image cur under ins. *)
IsScan(prog, cur, ins, nxt) ==
    \A o \in Driven(prog) :
        nxt[o] = CoilValue(prog.coil[o], o, Frame(prog, o, cur, ins, nxt))

AllOff(syms) == [s \in syms |-> FALSE]
AllOn(syms) == [s \in syms |-> TRUE]

(* An interlock whose two outputs are both ON in an image. *)
Clash(lock, img) ==
    /\ lock[1] \in DOMAIN img
    /\ lock[2] \in DOMAIN img
    /\ img[lock[1]]
    /\ img[lock[2]]
=============================================================================
