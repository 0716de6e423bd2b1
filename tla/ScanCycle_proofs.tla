-------------------------- MODULE ScanCycle_proofs --------------------------
(***************************************************************************)
(* Proofs about the scan, for every set of programs, every number of coils *)
(* and every condition in them.                                            *)
(*                                                                         *)
(* The heart is ScanInv: in the middle of a scan the symbol table is cut   *)
(* in two by the coil line that is next.  Outputs above the line already   *)
(* hold what the verifier's transition relation asks for, outputs at and   *)
(* below it still hold the previous image.                                 *)
(***************************************************************************)
EXTENDS ScanCycle, Synth, TLAPS

(* A coil line always yields a BOOL. *)
LEMMA CoilValueBoolean ==
    ASSUME NEW c, NEW out, NEW tab
    PROVE  CoilValue(c, out, tab) \in BOOLEAN
BY DEF CoilValue

(* What the programs of the constant are known to be. *)
LEMMA OrderFacts ==
    ASSUME NEW p \in Programs
    PROVE  /\ Len(p.order) \in Nat \ {0}
           /\ \A i \in 1..Len(p.order) : p.order[i] \in Symbols
           /\ Driven(p) \subseteq Symbols
           /\ SingleCoils(p)
           /\ Free(p) \cap Driven(p) = {}
<1>1. p \in Program /\ SingleCoils(p) /\ p.order # <<>>
  BY ProgramsAssumption
<1>2. p.order \in Seq(Symbols)
  BY <1>1 DEF Program
<1> QED BY <1>1, <1>2 DEF Driven, Free

(* One whole scan never leaves a clash on a pair whose later coil carries  *)
(* the NOT of the earlier one, whatever image it started from.             *)
LEMMA ScanExcludes ==
    ASSUME NEW p \in Programs, NEW cur, NEW v, NEW nxt,
           IsScan(p, cur, v, nxt),
           NEW lock \in p.locks,
           LaterIsGuarded(p, lock)
    PROVE  ~Clash(lock, nxt)
<1>1. ASSUME NEW a, NEW b, Earlier(p, a, b), a \in p.coil[b].guards
      PROVE  ~(nxt[a] /\ nxt[b])
  <2>1. a \in Driven(p) /\ b \in Driven(p)
    BY <1>1 DEF Earlier, Driven
  <2>2. a \in Symbols
    BY <2>1, OrderFacts
  <2>3. nxt[b] = CoilValue(p.coil[b], b, Frame(p, b, cur, v, nxt))
    BY <2>1 DEF IsScan
  <2>4. Frame(p, b, cur, v, nxt)[a] = nxt[a]
    BY <1>1, <2>1, <2>2 DEF Frame
  <2> QED BY <1>1, <2>3, <2>4 DEF CoilValue
<1> QED BY <1>1 DEF LaterIsGuarded, Clash

----------------------------------------------------------------------------
(* The symbol table, the program counter and the sample keep their types.  *)
THEOREM TypeCorrect == Spec => []TypeOK
<1>1. Init => TypeOK
  <2> SUFFICES ASSUME Init PROVE TypeOK
    OBVIOUS
  <2> QED BY OrderFacts DEF Init, TypeOK, AllOff
<1>2. TypeOK /\ [Next]_vars => TypeOK'
  <2> SUFFICES ASSUME TypeOK, [Next]_vars PROVE TypeOK'
    OBVIOUS
  <2>0. prog \in Programs
    BY DEF TypeOK
  <2>1. CASE ReadInputs
    <3>1. PICK level \in Levels : \E v \in Valuations(Free(prog), level) :
            /\ ins' = v
            /\ table' = [s \in Symbols |->
                           IF s \in Free(prog) THEN v[s] ELSE table[s]]
      BY <2>1 DEF ReadInputs
    <3>2. PICK v \in Valuations(Free(prog), level) :
            /\ ins' = v
            /\ table' = [s \in Symbols |->
                           IF s \in Free(prog) THEN v[s] ELSE table[s]]
      BY <3>1
    <3>3. v \in [Free(prog) -> BOOLEAN]
      BY DEF Valuations
    <3>4. table' \in [Symbols -> BOOLEAN]
      BY <3>2, <3>3 DEF TypeOK
    <3> QED BY <2>0, <2>1, <3>2, <3>3, <3>4, OrderFacts DEF ReadInputs, TypeOK
  <2>2. CASE EvalCoil
    <3>1. table' \in [Symbols -> BOOLEAN]
      BY <2>2, CoilValueBoolean DEF EvalCoil, TypeOK
    <3>2. image' \in [Driven(prog) -> BOOLEAN]
      BY <2>0, <2>2, <3>1, OrderFacts DEF EvalCoil, TypeOK
    <3>3. pc' \in 0..Len(prog.order)
      BY <2>0, <2>2, OrderFacts DEF EvalCoil, TypeOK
    <3> QED BY <2>2, <3>1, <3>2, <3>3 DEF EvalCoil, TypeOK
  <2>3. CASE UNCHANGED vars
    BY <2>3 DEF vars, TypeOK
  <2> QED BY <2>1, <2>2, <2>3 DEF Next
<1> QED BY <1>1, <1>2, PTL DEF Spec

----------------------------------------------------------------------------
(* Between scans the table agrees with the published image. *)
Between == pc = 0 => \A s \in Driven(prog) : table[s] = image[s]

(* Within a scan the inputs are frozen and the table is cut at line pc. *)
Within ==
    pc # 0 =>
      /\ \E level \in Levels : ins \in Valuations(Free(prog), level)
      /\ \A s \in Free(prog) : table[s] = ins[s]
      /\ \A i \in pc..Len(prog.order) : table[prog.order[i]] = image[prog.order[i]]
      /\ \A i \in 1..pc-1 :
            table[prog.order[i]] =
              CoilValue(prog.coil[prog.order[i]], prog.order[i],
                        Frame(prog, prog.order[i], image, ins, table))

ScanInv == TypeOK /\ Between /\ Within

(* Whatever is assigned before the output of line i stands above line i.   *)
LEMMA EarlierIsAbove ==
    ASSUME NEW p \in Programs, NEW i \in 1..Len(p.order), NEW s,
           Earlier(p, s, p.order[i])
    PROVE  \E j \in 1..i-1 : j \in 1..Len(p.order) /\ s = p.order[j]
<1>1. PICK j, k \in 1..Len(p.order) :
        j < k /\ p.order[j] = s /\ p.order[k] = p.order[i]
  BY DEF Earlier
<1>2. k = i
  BY <1>1, OrderFacts DEF SingleCoils
<1> QED BY <1>1, <1>2, OrderFacts

(* In the middle of a scan the line that is next reads exactly its frame.  *)
LEMMA TableIsFrame ==
    ASSUME ScanInv, pc # 0
    PROVE  table = Frame(prog, prog.order[pc], image, ins, table)
<1>0. prog \in Programs /\ pc \in 1..Len(prog.order)
  BY OrderFacts DEF ScanInv, TypeOK
<1>1. ASSUME NEW s \in Symbols
      PROVE  table[s] = Frame(prog, prog.order[pc], image, ins, table)[s]
  <2>1. CASE s \notin Driven(prog)
    BY <1>1, <2>1 DEF ScanInv, Within, Frame, Free
  <2>2. CASE s \in Driven(prog)
    <3>1. PICK i \in 1..Len(prog.order) : prog.order[i] = s
      BY <2>2 DEF Driven
    <3>2. CASE i < pc
      BY <1>0, <1>1, <2>2, <3>1, <3>2 DEF Frame, Earlier
    <3>3. CASE i >= pc
      <4>1. ~Earlier(prog, s, prog.order[pc])
        BY <1>0, <3>1, <3>3, OrderFacts DEF Earlier, SingleCoils
      <4>2. table[s] = image[s]
        BY <1>0, <3>1, <3>3 DEF ScanInv, Within
      <4> QED BY <1>1, <2>2, <4>1, <4>2 DEF Frame
    <3> QED BY <1>0, <3>1, <3>2, <3>3, OrderFacts
  <2> QED BY <2>1, <2>2
<1>2. table \in [Symbols -> BOOLEAN]
  BY DEF ScanInv, TypeOK
<1> QED BY <1>1, <1>2 DEF Frame

(* After line pc every line up to it holds its value under the new table.  *)
LEMMA EvalExtends ==
    ASSUME ScanInv, EvalCoil
    PROVE  /\ \A i \in 1..pc :
                 table'[prog.order[i]] =
                   CoilValue(prog.coil[prog.order[i]], prog.order[i],
                             Frame(prog, prog.order[i], image, ins, table'))
           /\ \A s \in Symbols : s # prog.order[pc] => table'[s] = table[s]
<1>0. prog \in Programs /\ pc \in 1..Len(prog.order) /\ table \in [Symbols -> BOOLEAN]
  BY OrderFacts DEF ScanInv, TypeOK, EvalCoil
<1>1. table' = [table EXCEPT ![prog.order[pc]] =
                  CoilValue(prog.coil[prog.order[pc]], prog.order[pc], table)]
  BY DEF EvalCoil
<1>2. \A s \in Symbols : s # prog.order[pc] => table'[s] = table[s]
  BY <1>0, <1>1
<1>3. \A j \in 1..pc-1 : table'[prog.order[j]] = table[prog.order[j]]
  BY <1>0, <1>2, OrderFacts DEF SingleCoils
<1>4. ASSUME NEW i \in 1..pc
      PROVE  Frame(prog, prog.order[i], image, ins, table')
               = Frame(prog, prog.order[i], image, ins, table)
  <2>1. i \in 1..Len(prog.order) /\ \A j \in 1..i-1 : j \in 1..pc-1
    BY <1>0, <1>4, OrderFacts
  <2>2. ASSUME NEW s \in Symbols, Earlier(prog, s, prog.order[i])
        PROVE  table'[s] = table[s]
    <3>1. PICK j \in 1..i-1 : s = prog.order[j]
      BY <1>0, <2>1, <2>2, EarlierIsAbove, SMTT(30)
    <3> QED BY <1>3, <2>1, <3>1
  <2> QED BY <2>2 DEF Frame
<1>5. ASSUME NEW i \in 1..pc
      PROVE  table'[prog.order[i]] =
               CoilValue(prog.coil[prog.order[i]], prog.order[i],
                         Frame(prog, prog.order[i], image, ins, table'))
  <2>1. CASE i = pc
    <3>1. table'[prog.order[pc]] =
            CoilValue(prog.coil[prog.order[pc]], prog.order[pc], table)
      BY <1>0, <1>1, OrderFacts
    <3>2. table = Frame(prog, prog.order[pc], image, ins, table)
      BY TableIsFrame DEF EvalCoil
    <3> QED BY <1>4, <2>1, <3>1, <3>2
  <2>2. CASE i # pc
    <3>1. i \in 1..pc-1
      BY <1>0, <1>5, <2>2
    <3>2. table[prog.order[i]] =
            CoilValue(prog.coil[prog.order[i]], prog.order[i],
                      Frame(prog, prog.order[i], image, ins, table))
      BY <3>1 DEF ScanInv, Within, EvalCoil
    <3> QED BY <1>3, <1>4, <3>1, <3>2
  <2> QED BY <2>1, <2>2
<1> QED BY <1>2, <1>5

(* The image a scan publishes is a step of the transition relation. *)
LEMMA FinishedScan ==
    ASSUME ScanInv, EvalCoil, pc = Len(prog.order)
    PROVE  /\ IsScan(prog, image, ins, image')
           /\ \A s \in Driven(prog) : image'[s] = table'[s]
<1>0. prog \in Programs
  BY DEF ScanInv, TypeOK
<1>1. image' = [s \in Driven(prog) |-> table'[s]]
  BY DEF EvalCoil
<1>2. ASSUME NEW o \in Driven(prog)
      PROVE  image'[o] = CoilValue(prog.coil[o], o, Frame(prog, o, image, ins, image'))
  <2>1. PICK i \in 1..Len(prog.order) : prog.order[i] = o
    BY <1>2 DEF Driven
  <2>2. table'[o] = CoilValue(prog.coil[o], o, Frame(prog, o, image, ins, table'))
    BY <2>1, EvalExtends
  <2>3. Frame(prog, o, image, ins, image') = Frame(prog, o, image, ins, table')
    BY <1>1 DEF Frame
  <2> QED BY <1>1, <1>2, <2>2, <2>3
<1> QED BY <1>1, <1>2 DEF IsScan

(* The cut through the symbol table is an invariant of the scan. *)
THEOREM ScanInvariant == Spec => []ScanInv
<1>1. Init => ScanInv
  <2> SUFFICES ASSUME Init PROVE ScanInv
    OBVIOUS
  <2>1. TypeOK
    BY OrderFacts DEF Init, TypeOK, AllOff
  <2> QED BY <2>1, OrderFacts DEF ScanInv, Init, Between, Within, AllOff, TypeOK
<1>2. ScanInv /\ TypeOK' /\ [Next]_vars => ScanInv'
  <2> SUFFICES ASSUME ScanInv, TypeOK', [Next]_vars PROVE ScanInv'
    OBVIOUS
  <2>0. prog \in Programs /\ table \in [Symbols -> BOOLEAN]
    BY DEF ScanInv, TypeOK
  <2>1. CASE ReadInputs
    <3>0. pc = 0 /\ pc' = 1 /\ prog' = prog /\ image' = image
      BY <2>1 DEF ReadInputs
    <3>1. PICK level \in Levels : \E v \in Valuations(Free(prog), level) :
            /\ ins' = v
            /\ table' = [s \in Symbols |->
                           IF s \in Free(prog) THEN v[s] ELSE table[s]]
      BY <2>1 DEF ReadInputs
    <3>2. table' = [s \in Symbols |->
                      IF s \in Free(prog) THEN ins'[s] ELSE table[s]]
      BY <3>1
    <3>3. \A s \in Driven(prog) : table'[s] = image[s]
      BY <2>0, <3>0, <3>2, OrderFacts DEF ScanInv, Between, Free
    <3>4. Within'
      <4>1. \E l \in Levels : ins' \in Valuations(Free(prog), l)
        BY <3>1
      <4>2. \A s \in Free(prog) : table'[s] = ins'[s]
        BY <3>2 DEF Free
      <4>3. \A i \in 1..Len(prog.order) :
              table'[prog.order[i]] = image[prog.order[i]]
        BY <3>3 DEF Driven
      <4> QED BY <3>0, <4>1, <4>2, <4>3 DEF Within
    <3> QED BY <3>0, <3>4 DEF ScanInv, Between
  <2>2. CASE EvalCoil
    <3>0. /\ prog' = prog /\ ins' = ins
          /\ pc \in 1..Len(prog.order) /\ Len(prog.order) \in Nat \ {0}
      BY <2>0, <2>2, OrderFacts DEF EvalCoil, ScanInv, TypeOK
    <3>1. CASE pc = Len(prog.order)
      <4>1. pc' = 0
        BY <2>2, <3>1 DEF EvalCoil
      <4>2. \A s \in Driven(prog) : image'[s] = table'[s]
        BY <2>2, <3>1, FinishedScan
      <4> QED BY <3>0, <4>1, <4>2 DEF ScanInv, Between, Within
    <3>2. CASE pc # Len(prog.order)
      <4>1. pc' = pc + 1 /\ image' = image
        BY <2>2, <3>2 DEF EvalCoil
      <4>2. \A s \in Free(prog) : table'[s] = ins[s]
        <5>1. prog.order[pc] \in Driven(prog)
          BY <3>0 DEF Driven
        <5> QED BY <2>0, <2>2, <5>1, EvalExtends, OrderFacts
                DEF ScanInv, Within, EvalCoil, Free
      <4>3. \A i \in pc+1..Len(prog.order) :
              table'[prog.order[i]] = image[prog.order[i]]
        <5> SUFFICES ASSUME NEW i \in pc+1..Len(prog.order)
                     PROVE  table'[prog.order[i]] = image[prog.order[i]]
          OBVIOUS
        <5>1. i \in pc..Len(prog.order) /\ i \in 1..Len(prog.order) /\ i # pc
          BY <3>0
        <5>2. prog.order[i] # prog.order[pc] /\ prog.order[i] \in Symbols
          BY <2>0, <3>0, <5>1, OrderFacts DEF SingleCoils
        <5>3. table'[prog.order[i]] = table[prog.order[i]]
          BY <2>2, <5>2, EvalExtends
        <5> QED BY <2>2, <5>1, <5>3 DEF ScanInv, Within, EvalCoil
      <4>4. \A i \in 1..pc :
              table'[prog.order[i]] =
                CoilValue(prog.coil[prog.order[i]], prog.order[i],
                          Frame(prog, prog.order[i], image, ins, table'))
        BY <2>2, EvalExtends
      <4>5. \E level \in Levels : ins \in Valuations(Free(prog), level)
        BY <2>2 DEF ScanInv, Within, EvalCoil
      <4>6. Within'
        <5>1. (pc')-1 = pc
          BY <3>0, <4>1
        <5> QED BY <3>0, <4>1, <4>2, <4>3, <4>4, <4>5, <5>1 DEF Within
      <4>7. Between'
        BY <3>0, <4>1 DEF Between
      <4> QED BY <4>6, <4>7 DEF ScanInv
    <3> QED BY <3>1, <3>2
  <2>3. CASE UNCHANGED vars
    BY <2>3 DEF vars, ScanInv, TypeOK, Between, Within
  <2> QED BY <2>1, <2>2, <2>3 DEF Next
<1> QED BY <1>1, <1>2, TypeCorrect, PTL DEF Spec

(* A pair whose later coil carries the NOT of the earlier one is never ON  *)
(* together in a finished scan: one pass over the coil lines is enough,    *)
(* whatever state the previous scan has left behind.                       *)
THEOREM GuardedPairsNeverClash == Spec => []GuardedPairsExclude
<1>1. Init => GuardedPairsExclude
  BY DEF Init, GuardedPairsExclude, Clash, AllOff
<1>2. ScanInv /\ GuardedPairsExclude /\ [Next]_vars => GuardedPairsExclude'
  <2> SUFFICES ASSUME ScanInv, GuardedPairsExclude, [Next]_vars
               PROVE  GuardedPairsExclude'
    OBVIOUS
  <2>1. CASE EvalCoil /\ pc = Len(prog.order)
    <3>1. IsScan(prog, image, ins, image') /\ prog' = prog
      BY <2>1, FinishedScan DEF EvalCoil
    <3>2. prog \in Programs
      BY DEF ScanInv, TypeOK
    <3> QED BY <3>1, <3>2, ScanExcludes DEF GuardedPairsExclude
  <2>2. CASE UNCHANGED <<prog, image>>
    BY <2>2 DEF GuardedPairsExclude
  <2> QED BY <2>1, <2>2 DEF Next, ReadInputs, EvalCoil, vars
<1> QED BY <1>1, <1>2, ScanInvariant, PTL DEF Spec

----------------------------------------------------------------------------
(* The two copies of the transition relation are the same relation. *)
LEMMA SameScan ==
    ASSUME NEW p, NEW cur, NEW v, NEW nxt
    PROVE  IsScan(p, cur, v, nxt) <=> Verifier!IsScan(p, cur, v, nxt)
BY DEF IsScan, Verifier!IsScan, CoilValue, Verifier!CoilValue, Holds,
       Verifier!Holds, Frame, Verifier!Frame, Earlier, Verifier!Earlier,
       Driven, Verifier!Driven

(* The scan that updates one symbol table line by line implements the      *)
(* transition system the verifier reasons about: what holds of every image *)
(* there holds of every image the simulator records.                       *)
THEOREM ScanRefinesVerifier == Spec => RefinesVerifier
<1>1. Init => Verifier!Init
  BY DEF Init, Verifier!Init, AllOff, Verifier!AllOff, Driven, Verifier!Driven
<1>2. ScanInv /\ TypeOK' /\ [Next]_vars => [Verifier!Scan]_Verifier!vars
  <2> SUFFICES ASSUME ScanInv, TypeOK', [Next]_vars
               PROVE  [Verifier!Scan]_Verifier!vars
    OBVIOUS
  <2>1. CASE EvalCoil /\ pc = Len(prog.order)
    <3>1. IsScan(prog, image, ins, image') /\ prog' = prog
      BY <2>1, FinishedScan DEF EvalCoil
    <3>2. image' \in [Driven(prog) -> BOOLEAN]
      BY <3>1 DEF TypeOK
    <3>3. PICK level \in Levels : ins \in Valuations(Free(prog), level)
      BY <2>1 DEF ScanInv, Within, EvalCoil
    <3>4. ins \in Verifier!Valuations(Verifier!Free(prog), level)
      BY <3>3 DEF Valuations, Verifier!Valuations, Free, Verifier!Free,
                  Driven, Verifier!Driven
    <3>5. Verifier!IsScan(prog, image, ins, image')
      BY <3>1, SameScan
    <3>6. image' \in [Verifier!Driven(prog) -> BOOLEAN]
      BY <3>2 DEF Driven, Verifier!Driven
    <3> QED BY <3>1, <3>4, <3>5, <3>6 DEF Verifier!Scan
  <2>2. CASE UNCHANGED <<prog, image>>
    BY <2>2 DEF Verifier!vars
  <2> QED BY <2>1, <2>2 DEF Next, ReadInputs, EvalCoil, vars
<1> QED BY <1>1, <1>2, ScanInvariant, TypeCorrect, PTL
        DEF Spec, RefinesVerifier, Verifier!Spec

----------------------------------------------------------------------------
(* What the synthesiser guarantees of the programs it emits, for every     *)
(* specification: the scan needs a guard on the later line of a pair, and  *)
(* _synth_one puts one on both.                                            *)

(* The coil of an output that seals itself carries every partner's NOT. *)
LEMMA SealedCoilsAreGuarded ==
    ASSUME NEW spec, NEW o \in Symbols,
           SynthesizeST(spec).coil[o].seal
    PROVE  SynthesizeST(spec).coil[o].guards = Partners(spec, o)
<1>1. SynthesizeST(spec).coil[o] = SynthOne(spec, o)
  BY DEF SynthesizeST
<1>2. ~Derived(spec, o)
  BY <1>1 DEF SynthOne, Plain
<1> QED BY <1>1, <1>2 DEF SynthOne

(* Of two interlocked outputs that states drive, the later one in the scan *)
(* is guarded, whichever of them the interlock names first.                *)
LEMMA StatePairsAreGuarded ==
    ASSUME NEW p \in Programs, NEW spec, p = SynthesizeST(spec),
           NEW lock \in p.locks, lock[1] # lock[2],
           {lock[1], lock[2]} \subseteq Driven(p),
           p.coil[lock[1]].seal, p.coil[lock[2]].seal
    PROVE  LaterIsGuarded(p, lock)
<1>1. lock[1] \in Symbols /\ lock[2] \in Symbols
  BY OrderFacts
<1>2. lock \in spec.locks
  BY DEF SynthesizeST
<1>3. lock[1] \in p.coil[lock[2]].guards /\ lock[2] \in p.coil[lock[1]].guards
  <2>1. lock[1] \in Partners(spec, lock[2]) /\ lock[2] \in Partners(spec, lock[1])
    BY <1>2 DEF Partners
  <2> QED BY <1>1, <2>1, SealedCoilsAreGuarded
<1>4. Earlier(p, lock[1], lock[2]) \/ Earlier(p, lock[2], lock[1])
  <2>1. PICK i \in 1..Len(p.order) : p.order[i] = lock[1]
    BY DEF Driven
  <2>2. PICK j \in 1..Len(p.order) : p.order[j] = lock[2]
    BY DEF Driven
  <2>3. i < j \/ j < i
    BY <2>1, <2>2, OrderFacts
  <2> QED BY <2>1, <2>2, <2>3 DEF Earlier
<1> QED BY <1>3, <1>4 DEF LaterIsGuarded

(* Every program the synthesiser emits keeps every interlock between two   *)
(* state-driven outputs, at every finished scan and under all inputs.      *)
THEOREM SynthesisedPairsNeverClash ==
    ASSUME \A p \in Programs : \E spec : p = SynthesizeST(spec)
    PROVE  Spec => []StateDrivenPairsExclude
<1>1. TypeOK /\ GuardedPairsExclude => StateDrivenPairsExclude
  <2> SUFFICES ASSUME TypeOK, GuardedPairsExclude,
                      NEW lock \in prog.locks, lock[1] # lock[2],
                      {lock[1], lock[2]} \subseteq Driven(prog),
                      prog.coil[lock[1]].seal, prog.coil[lock[2]].seal
               PROVE  ~Clash(lock, image)
    BY DEF StateDrivenPairsExclude
  <2>1. prog \in Programs
    BY DEF TypeOK
  <2>2. PICK spec : prog = SynthesizeST(spec)
    BY <2>1
  <2>3. LaterIsGuarded(prog, lock)
    BY <2>1, <2>2, StatePairsAreGuarded
  <2> QED BY <2>3 DEF GuardedPairsExclude
<1> QED BY <1>1, TypeCorrect, GuardedPairsNeverClash, PTL
=============================================================================
