----------------------------- MODULE XgkEngine ------------------------------
(***************************************************************************)
(* From an ST program to LS XGK instructions and one scan of them:         *)
(* transpile_st (app/transpiler.py) makes a ladder of sums of products,    *)
(* _emit_orb (app/emit/ladder_il.py) an instruction list, and simulate_xgk *)
(* (app/xgk/interpreter.py) runs that on a stack machine with the timers   *)
(* and counters of the ST simulator.  SclValue is the Siemens SCL text of  *)
(* the same ladder.                                                        *)
(***************************************************************************)
EXTENDS StEngine, FiniteSets

CONSTANT Allocated   \* TRUE: the ladder is made with a device allocator

(* The operand a contact Bit(b) has, and the one the block b sets: only    *)
(* the name b itself gets an address, b.Q is not a name the allocator has. *)
BlockBit(b) == IF Allocated THEN "address of " \o Bit(b) ELSE Bit(b)

----------------------------------------------------------------------------
(* to_dnf: sums of products without contradictory products. *)
Joined(s, t) == [on |-> s.on \cup t.on, off |-> s.off \cup t.off]

And(c, d) == {Joined(s, t) : s \in c, t \in d}

Consistent(c) == {t \in c : t.on \cap t.off = {}}

Complement(t) == (UNION {Not(s) : s \in t.on}) \cup (UNION {Is(s) : s \in t.off})

(* NOT c: one literal of every product of c fails. *)
Negation(c) ==
    LET pick == {f \in [c -> UNION {Complement(t) : t \in c}] :
                    \A t \in c : f[t] \in Complement(t)}
    IN  {[on |-> UNION {f[t].on : t \in c}, off |-> UNION {f[t].off : t \in c}] : f \in pick}

CoilDnf(coil, out) ==
    LET drive == coil.on \cup (IF coil.seal THEN Is(out) ELSE Never)
    IN  Consistent(And(And(drive, Negation(coil.cut)), {[on |-> {}, off |-> coil.guards]}))

Literals(t) ==
    {[sym |-> s, neg |-> FALSE] : s \in t.on} \cup {[sym |-> s, neg |-> TRUE] : s \in t.off}

(* Any order will do: the code sorts by name. *)
InOrder(S) ==
    LET taken[n \in 0..Cardinality(S)] ==
            IF n = 0 THEN <<>>
            ELSE LET before == taken[n - 1]
                 IN  Append(before, CHOOSE x \in S : \A k \in 1..(n - 1) : before[k] # x)
    IN  taken[Cardinality(S)]

(* The contacts of a product in series, and the join of the last two       *)
(* blocks on the stack.                                                    *)
Series(lits) ==
    [j \in 1..Len(lits) |->
        [op |-> IF j = 1 THEN "LD" ELSE "AND", sym |-> lits[j].sym, neg |-> lits[j].neg]]

OrBlock == <<[op |-> "ORB", sym |-> "", neg |-> FALSE]>>

(* Mutation: the blocks of a rung are stacked but not joined. *)
EmitOrbUnjoined(dnf) ==
    LET branches == InOrder({Literals(t) : t \in dnf} \ {{}})
        code[i \in 0..Len(branches)] ==
            IF i = 0 THEN <<>> ELSE code[i - 1] \o Series(InOrder(branches[i]))
    IN  code[Len(branches)]

(* One block per product that has a literal: LD, AND ..., and ORB from the *)
(* second block on.  A rung without such a product has no contacts at all. *)
EmitOrb(dnf) ==
    LET branches == InOrder({Literals(t) : t \in dnf} \ {{}})
        code[i \in 0..Len(branches)] ==
            IF i = 0 THEN <<>>
            ELSE code[i - 1] \o Series(InOrder(branches[i])) \o (IF i > 1 THEN OrBlock ELSE <<>>)
    IN  code[Len(branches)]

(* _rung_from_fb_call, _coil_mnemonic, _build_fb: every timer becomes a    *)
(* TON, every counter a CTU, a reset that is not FALSE a rung of its own.  *)
IlBlock(call) ==
    [name   |-> call.name,
     kind   |-> IF call.kind \in TimerKinds THEN "TON" ELSE "CTU",
     preset |-> call.preset,
     in     |-> EmitOrb(Consistent(call.in)),
     reset  |-> EmitOrb(Consistent(call.reset))]

(* One rung for each output that can be synthesised, in their order. *)
IlProgram(spec) ==
    LET calls == FbCalls(spec)
    IN  [blocks |-> [i \in 1..Len(calls) |-> IlBlock(calls[i])],
         order  |-> spec.outputs,
         rungs  |-> [o \in {p \in OutputNames(spec) : Synthesizable(spec, p)} |->
                        EmitOrb(CoilDnf(SynthOne(spec, o), o))]]

----------------------------------------------------------------------------
(* _eval_contacts: the rung power; a name the table does not have is OFF.  *)
Power(contacts, table) ==
    LET value(c) == (c.sym \in DOMAIN table /\ table[c.sym]) # c.neg
        stack[i \in 0..Len(contacts)] ==
            IF i = 0 THEN <<>>
            ELSE LET s == stack[i - 1]
                     n == Len(s)
                     c == contacts[i]
                 IN  CASE c.op = "LD"  -> Append(s, value(c))
                       [] c.op = "AND" -> [s EXCEPT ![n] = @ /\ value(c)]
                       [] c.op = "ORB" -> Append(SubSeq(s, 1, n - 2), s[n - 1] \/ s[n])
        final == stack[Len(contacts)]
    IN  final # <<>> /\ final[Len(final)]

IlPowerOn(spec) ==
    LET table == PowerOn(spec).table
        bits == {BlockBit(b) : b \in BlockNames(spec)}
    IN  [table |-> [n \in DOMAIN table \cup bits |-> FALSE],
         blocks |-> PowerOn(spec).blocks]

(* First the power of every block's rung, then every block. *)
IlScanBlocks(prog, state, dt) ==
    LET block(b) ==
            LET in == Power(b.in, state.table)
                was == state.blocks[b.name]
            IN  IF b.kind = "TON" THEN ScanTimer("TON", was, b.preset, in, dt)
                ELSE ScanCounter("CTU", was, b.preset, in, Power(b.reset, state.table))
        after[i \in 0..Len(prog.blocks)] ==
            IF i = 0 THEN state
            ELSE LET b == prog.blocks[i]
                     before == after[i - 1]
                     now == block(b)
                 IN  [table |-> [before.table EXCEPT ![BlockBit(b.name)] = now.q],
                      blocks |-> [before.blocks EXCEPT ![b.name] = now]]
    IN  after[Len(prog.blocks)]

IlScanCoils(prog, table) ==
    LET after[i \in 0..Len(prog.order)] ==
            IF i = 0 THEN table
            ELSE LET before == after[i - 1]
                     out == prog.order[i]
                 IN  IF out \in DOMAIN prog.rungs
                     THEN [before EXCEPT ![out] = Power(prog.rungs[out], before)]
                     ELSE before
    IN  after[Len(prog.order)]

(* _emit_scl: the right-hand side of the assignment.  A rung without a     *)
(* product that has a literal is written TRUE.                             *)
SclValue(dnf, table) ==
    LET terms == {t \in dnf : Literals(t) # {}}
    IN  terms = {} \/ Holds(terms, table)
=============================================================================
