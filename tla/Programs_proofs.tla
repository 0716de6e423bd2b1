--------------------------- MODULE Programs_proofs --------------------------
(***************************************************************************)
(* Proofs about synthesised programs with their timers and counters: no    *)
(* specification gives a program that violates its interlocks, a stop      *)
(* button that is a way out of every state wins, the programs of charts of *)
(* three shapes move as their charts do and end their timed steps, the     *)
(* timers and counters keep the standard for every preset, every scan      *)
(* period and every input timeline, and the XGK instructions emitted for a *)
(* program have the same outputs ON as the program.                        *)
(*                                                                         *)
(* A scan is a loop over the block calls and a loop over the coil lines.   *)
(* Each loop is a recursive function of its position, so each proof is an  *)
(* induction along the list (SetInduction): that the loop has a state at   *)
(* every position (CoilsRun, BlocksRun), what it keeps (CoilsKeep,         *)
(* BlocksKeep), and that the later of two interlocked lines settles the    *)
(* pair for the rest of the scan (CoilsExclude).  The instructions are     *)
(* loops of the same kind: over the literals of a product and the products *)
(* of a rung (SeriesStacks, PowerOfOrb), then over the rungs of the blocks *)
(* and of the outputs (RungsAreCalls, RungsAreLines).                      *)
(***************************************************************************)
EXTENDS XgkScan, RecipeClaims, BlockTimeline,
    WellFoundedInduction, SequenceTheorems, FiniteSetTheorems, TLAPS

(* Induction: a set that holds 0 and, with n, n + 1, holds every number.   *)
LEMMA SetInduction ==
    ASSUME NEW S, 0 \in S, \A n \in Nat : n \in S => n + 1 \in S
    PROVE  Nat \subseteq S
<1> DEFINE Less == {ss \in Nat \X Nat : ss[1] < ss[2]}
           Rest == Nat \ S
<1> SUFFICES ASSUME Rest # {} PROVE FALSE
  OBVIOUS
<1>1. IsWellFoundedOn(Less, Nat)
  BY NatLessThanWellFounded DEF OpToRel
<1>2. Rest \subseteq Nat
  OBVIOUS
<1>3. PICK n \in Rest : \A m \in Rest : <<m, n>> \notin Less
  <2> HIDE DEF Less, Rest
  <2> QED BY <1>1, <1>2, WFMin
<1>4. n \in Nat /\ n # 0 /\ n - 1 \in Nat /\ n - 1 < n
  OBVIOUS
<1>5. n - 1 \in S
  <2>1. <<n - 1, n>> \in Less
    BY <1>4
  <2> QED BY <1>3, <1>4, <2>1
<1> QED BY <1>4, <1>5

----------------------------------------------------------------------------
(* One coil line, and the tables between the lines.                        *)
CoilLine(sp, i, before) ==
    LET out == sp.outputs[i]
    IN  IF Synthesizable(sp, out)
        THEN [before EXCEPT ![out] = CoilValue(SynthOne(sp, out), out, before)]
        ELSE before

IsTable(table) == table = [n \in DOMAIN table |-> table[n]]

TablesBetween(sp, table, f) ==
    f = [i \in 0..Len(sp.outputs) |-> IF i = 0 THEN table ELSE CoilLine(sp, i, f[i - 1])]

(* The coil block has tables between its lines, and ends in the last one.  *)
LEMMA CoilsRun ==
    ASSUME NEW sp, Len(sp.outputs) \in Nat, NEW table
    PROVE  \E f : TablesBetween(sp, table, f) /\ ScanCoils(sp, table) = f[Len(sp.outputs)]
<1> DEFINE Upto(n, f) == f = [i \in 0..n |-> IF i = 0 THEN table ELSE CoilLine(sp, i, f[i - 1])]
           S == {n \in Nat : \E f : Upto(n, f)}
           N == Len(sp.outputs)
           last == CHOOSE f : Upto(N, f)
<1>1. 0 \in S
  <2> DEFINE f == [i \in 0..0 |-> table]
  <2>1. Upto(0, f)
    OBVIOUS
  <2> QED BY <2>1
<1>2. ASSUME NEW n \in Nat, n \in S PROVE n + 1 \in S
  <2>1. PICK f : Upto(n, f)
    BY <1>2
  <2> DEFINE g == [i \in 0..(n + 1) |-> IF i = n + 1 THEN CoilLine(sp, i, f[n]) ELSE f[i]]
             h == [i \in 0..(n + 1) |-> IF i = 0 THEN table ELSE CoilLine(sp, i, g[i - 1])]
  <2>2. \A i \in 0..(n + 1) : g[i] = h[i]
    <3> SUFFICES ASSUME NEW i \in 0..(n + 1) PROVE g[i] = h[i]
      OBVIOUS
    <3>1. CASE i = 0
      BY <2>1, <3>1
    <3>2. CASE i \in 1..n
      <4>1. i - 1 \in 0..n /\ g[i - 1] = f[i - 1] /\ g[i] = f[i]
        BY <3>2
      <4>2. f[i] = CoilLine(sp, i, f[i - 1])
        BY <2>1, <3>2
      <4> QED BY <3>2, <4>1, <4>2
    <3>3. CASE i = n + 1
      <4>1. g[n] = f[n] /\ i # 0 /\ i - 1 = n
        BY <3>3
      <4> QED BY <3>3, <4>1
    <3> QED BY <3>1, <3>2, <3>3
  <2>3. g = h
    <3>1. DOMAIN g = 0..(n + 1) /\ DOMAIN h = 0..(n + 1)
      OBVIOUS
    <3>2. g = [i \in 0..(n + 1) |-> g[i]] /\ h = [i \in 0..(n + 1) |-> h[i]]
      OBVIOUS
    <3> HIDE DEF g, h
    <3> QED BY <2>2, <3>2
  <2>4. Upto(n + 1, g)
    BY <2>3
  <2> HIDE DEF g, h, Upto
  <2> QED BY <2>4
<1>3. N \in S
  <2> HIDE DEF S
  <2> QED BY <1>1, <1>2, SetInduction
<1>4. Upto(N, last)
  BY <1>3
<1>5. ScanCoils(sp, table) = last[N]
  BY DEF ScanCoils, CoilLine
<1>6. TablesBetween(sp, table, last)
  BY <1>4 DEF TablesBetween
<1> QED BY <1>5, <1>6

(* Only lines of other outputs come between the line of an output and the  *)
(* end, and no line is there for what cannot be synthesised.               *)
LEMMA LineFacts ==
    ASSUME NEW sp, ValidSpec(sp), IsList(sp.outputs), NEW table,
           NEW f, TablesBetween(sp, table, f)
    PROVE  /\ f[0] = table
           /\ \A i \in 1..Len(sp.outputs) :
                /\ DOMAIN f[i] = DOMAIN f[i - 1]
                /\ \A n \in DOMAIN f[i - 1] : n # sp.outputs[i] => f[i][n] = f[i - 1][n]
                /\ ~Synthesizable(sp, sp.outputs[i]) => f[i] = f[i - 1]
                /\ Synthesizable(sp, sp.outputs[i]) /\ sp.outputs[i] \in DOMAIN f[i - 1] =>
                     f[i][sp.outputs[i]] = CoilValue(SynthOne(sp, sp.outputs[i]), sp.outputs[i], f[i - 1])
                /\ IsTable(f[i - 1]) => IsTable(f[i])
<1>1. Len(sp.outputs) \in Nat
  BY DEF IsList
<1>2. f[0] = table
  BY <1>1 DEF TablesBetween
<1>3. ASSUME NEW i \in 1..Len(sp.outputs) PROVE f[i] = CoilLine(sp, i, f[i - 1])
  BY <1>1 DEF TablesBetween
<1> QED BY <1>2, <1>3 DEF CoilLine, IsTable

(* The coil block neither adds nor drops a name, and leaves what it cannot *)
(* synthesise as it was.                                                   *)
LEMMA CoilsKeep ==
    ASSUME NEW sp, ValidSpec(sp), IsList(sp.outputs), NEW table
    PROVE  /\ DOMAIN ScanCoils(sp, table) = DOMAIN table
           /\ \A o \in DOMAIN table : ~Synthesizable(sp, o) => ScanCoils(sp, table)[o] = table[o]
<1>1. Len(sp.outputs) \in Nat
  BY DEF IsList
<1>2. PICK f : TablesBetween(sp, table, f) /\ ScanCoils(sp, table) = f[Len(sp.outputs)]
  BY <1>1, CoilsRun
<1> DEFINE Kept(i) == /\ DOMAIN f[i] = DOMAIN table
                      /\ \A o \in DOMAIN table : ~Synthesizable(sp, o) => f[i][o] = table[o]
           S == {i \in Nat : i <= Len(sp.outputs) => Kept(i)}
<1>3. 0 \in S
  BY <1>2, LineFacts
<1>4. ASSUME NEW i \in Nat, i \in S PROVE i + 1 \in S
  <2> SUFFICES ASSUME i + 1 <= Len(sp.outputs) PROVE Kept(i + 1)
    OBVIOUS
  <2> DEFINE j == i + 1
  <2>1. j \in 1..Len(sp.outputs) /\ j - 1 = i /\ Kept(i)
    BY <1>1, <1>4
  <2> HIDE DEF j
  <2>2. /\ DOMAIN f[j] = DOMAIN f[i]
        /\ \A n \in DOMAIN f[i] : n # sp.outputs[j] => f[j][n] = f[i][n]
        /\ ~Synthesizable(sp, sp.outputs[j]) => f[j] = f[i]
    BY <1>2, <2>1, LineFacts
  <2>3. Kept(j)
    BY <2>1, <2>2
  <2> QED BY <2>3 DEF j
<1>5. Len(sp.outputs) \in S
  <2> HIDE DEF S
  <2> QED BY <1>1, <1>3, <1>4, SetInduction
<1> QED BY <1>1, <1>2, <1>5

(* The later line of a locked pair finds the earlier one ON or stays OFF,  *)
(* and nothing changes either of them afterwards.                          *)
LEMMA CoilsExclude ==
    ASSUME NEW sp, ValidSpec(sp), IsList(sp.outputs), NEW table,
           NEW i \in 1..Len(sp.outputs), NEW j \in 1..Len(sp.outputs), i < j,
           OutputNames(sp) \subseteq DOMAIN table,
           sp.outputs[i] \in Partners(sp, sp.outputs[j]),
           ~Derived(sp, sp.outputs[j]),
           Synthesizable(sp, sp.outputs[j])
    PROVE  ~(ScanCoils(sp, table)[sp.outputs[i]] /\ ScanCoils(sp, table)[sp.outputs[j]])
<1>1. Len(sp.outputs) \in Nat
  BY DEF IsList
<1>2. PICK f : TablesBetween(sp, table, f) /\ ScanCoils(sp, table) = f[Len(sp.outputs)]
  BY <1>1, CoilsRun
<1> DEFINE a == sp.outputs[i]
           b == sp.outputs[j]
           Apart(k) == DOMAIN f[k] = DOMAIN table /\ (j <= k => ~(f[k][a] /\ f[k][b]))
           S == {k \in Nat : k <= Len(sp.outputs) => Apart(k)}
<1>3. 0 \in S
  BY <1>1, <1>2, LineFacts
<1>4. ASSUME NEW k \in Nat, k \in S PROVE k + 1 \in S
  <2> SUFFICES ASSUME k + 1 <= Len(sp.outputs) PROVE Apart(k + 1)
    OBVIOUS
  <2> DEFINE m == k + 1
             o == sp.outputs[m]
  <2>1. m \in 1..Len(sp.outputs) /\ m - 1 = k /\ Apart(k)
    BY <1>1, <1>4
  <2>2. m = k + 1
    OBVIOUS
  <2> HIDE DEF m
  <2>3. /\ DOMAIN f[m] = DOMAIN f[k]
        /\ \A n \in DOMAIN f[k] : n # o => f[m][n] = f[k][n]
        /\ Synthesizable(sp, o) /\ o \in DOMAIN f[k] => f[m][o] = CoilValue(SynthOne(sp, o), o, f[k])
    BY <1>2, <2>1, LineFacts
  <2>4. a \in DOMAIN f[k] /\ b \in DOMAIN f[k]
    BY <2>1 DEF OutputNames
  <2>5. ASSUME m = j PROVE ~(f[m][a] /\ f[m][b])
    <3>1. a # b
      BY DEF ValidSpec
    <3>2. f[m][a] = f[k][a]
      BY <2>3, <2>4, <2>5, <3>1
    <3>3. f[m][b] = CoilValue(SynthOne(sp, b), b, f[k])
      BY <2>3, <2>4, <2>5
    <3>4. SynthOne(sp, b).guards = Partners(sp, b)
      BY DEF SynthOne
    <3>5. CoilValue(SynthOne(sp, b), b, f[k]) => ~f[k][a]
      BY <3>4 DEF CoilValue
    <3> QED BY <3>2, <3>3, <3>5
  <2>6. ASSUME j < m PROVE ~(f[m][a] /\ f[m][b])
    <3>1. o # a /\ o # b
      BY <2>1, <2>6 DEF ValidSpec
    <3>2. j <= k
      BY <2>2, <2>6
    <3> QED BY <2>1, <2>3, <2>4, <3>1, <3>2
  <2>7. Apart(m)
    <3>1. j <= m => m = j \/ j < m
      BY <2>1
    <3> HIDE DEF a, b
    <3> QED BY <2>1, <2>3, <2>5, <2>6, <3>1
  <2> QED BY <2>2, <2>7
<1>5. Len(sp.outputs) \in S
  <2> HIDE DEF S
  <2> QED BY <1>1, <1>3, <1>4, SetInduction
<1> QED BY <1>1, <1>2, <1>5

(* Between two lines only the outputs of the lines between them change.    *)
LEMMA LinesTouchTheirOutput ==
    ASSUME NEW sp, ValidSpec(sp), IsList(sp.outputs), NEW table,
           NEW f, TablesBetween(sp, table, f), NEW i \in 0..Len(sp.outputs)
    PROVE  \A m \in i..Len(sp.outputs) :
             /\ IsTable(f[i]) => IsTable(f[m])
             /\ DOMAIN f[m] = DOMAIN f[i]
             /\ \A n \in DOMAIN f[i] :
                  (\A j \in (i + 1)..m : sp.outputs[j] # n) => f[m][n] = f[i][n]
<1>1. Len(sp.outputs) \in Nat
  BY DEF IsList
<1> DEFINE Kept(m) == /\ IsTable(f[i]) => IsTable(f[m])
                      /\ DOMAIN f[m] = DOMAIN f[i]
                      /\ \A n \in DOMAIN f[i] :
                           (\A j \in (i + 1)..m : sp.outputs[j] # n) => f[m][n] = f[i][n]
           S == {d \in Nat : i + d <= Len(sp.outputs) => Kept(i + d)}
<1>2. 0 \in S
  <2>1. i + 0 = i
    BY <1>1
  <2> QED BY <2>1
<1>3. ASSUME NEW d \in Nat, d \in S PROVE d + 1 \in S
  <2> SUFFICES ASSUME i + (d + 1) <= Len(sp.outputs) PROVE Kept(i + (d + 1))
    OBVIOUS
  <2> DEFINE m == i + (d + 1)
             k == i + d
  <2>1. /\ m \in 1..Len(sp.outputs) /\ m - 1 = k /\ m \in (i + 1)..m
        /\ (i + 1)..k \subseteq (i + 1)..m /\ Kept(k)
    BY <1>1, <1>3
  <2> HIDE DEF m, k
  <2>2. /\ DOMAIN f[m] = DOMAIN f[k]
        /\ IsTable(f[k]) => IsTable(f[m])
        /\ \A n \in DOMAIN f[k] : n # sp.outputs[m] => f[m][n] = f[k][n]
    BY <2>1, LineFacts
  <2>3. Kept(m)
    BY <2>1, <2>2
  <2> QED BY <2>3 DEF m
<1>4. ASSUME NEW m \in i..Len(sp.outputs) PROVE Kept(m)
  <2>1. m - i \in S
    <3>1. m - i \in Nat
      BY <1>1
    <3> HIDE DEF S
    <3> QED BY <1>2, <1>3, <3>1, SetInduction
  <2>2. i + (m - i) = m /\ m <= Len(sp.outputs)
    BY <1>1
  <2> QED BY <2>1, <2>2
<1> QED BY <1>4

(* What the line k of the coil block sees: of the outputs above it the     *)
(* value they end with, of all other names the value they began with.      *)
Seen(sp, table, k) ==
    [n \in DOMAIN table |->
        IF \E j \in 1..(k - 1) : sp.outputs[j] = n THEN ScanCoils(sp, table)[n] ELSE table[n]]

(* No two lines have the same output.                                      *)
LEMMA OneLineEach ==
    ASSUME NEW sp, ValidSpec(sp), NEW i \in 1..Len(sp.outputs), NEW j \in 1..Len(sp.outputs), i # j
    PROVE  sp.outputs[i] # sp.outputs[j]
BY DEF ValidSpec

(* A scan of the coils, without the tables between the lines.              *)
LEMMA LineDecides ==
    ASSUME NEW sp, ValidSpec(sp), IsList(sp.outputs),
           NEW table, IsTable(table),
           OutputNames(sp) \subseteq DOMAIN table,
           NEW k \in 1..Len(sp.outputs), Synthesizable(sp, sp.outputs[k])
    PROVE  ScanCoils(sp, table)[sp.outputs[k]] =
             CoilValue(SynthOne(sp, sp.outputs[k]), sp.outputs[k], Seen(sp, table, k))
<1>1. Len(sp.outputs) \in Nat
  BY DEF IsList
<1>2. PICK f : TablesBetween(sp, table, f) /\ ScanCoils(sp, table) = f[Len(sp.outputs)]
  BY <1>1, CoilsRun
<1> DEFINE N == Len(sp.outputs)
           i == k - 1
           o == sp.outputs[k]
<1>3. i \in 0..N /\ k \in 0..N /\ 0 \in 0..N /\ i \in 0..N /\ N \in k..N /\ N \in i..N /\ i + 1 = k /\ k - 1 = i
      /\ (0 + 1)..i = 1..i
  BY <1>1
<1> HIDE DEF N, i
<1>4. f[0] = table /\ DOMAIN f[i] = DOMAIN table
      /\ \A n \in DOMAIN table : (\A j \in 1..i : sp.outputs[j] # n) => f[i][n] = table[n]
  BY <1>2, <1>3, LineFacts, LinesTouchTheirOutput DEF N
<1>5. DOMAIN f[N] = DOMAIN f[i]
      /\ \A n \in DOMAIN table : (\A j \in (i + 1)..N : sp.outputs[j] # n) => f[N][n] = f[i][n]
  BY <1>2, <1>3, <1>4, LinesTouchTheirOutput DEF N
<1>6. ASSUME NEW n \in DOMAIN table
      PROVE  f[i][n] = IF \E j \in 1..i : sp.outputs[j] = n THEN f[N][n] ELSE table[n]
  <2>1. CASE \E j \in 1..i : sp.outputs[j] = n
    <3>1. PICK j \in 1..i : sp.outputs[j] = n
      BY <2>1
    <3>2. ASSUME NEW m \in (i + 1)..N PROVE sp.outputs[m] # n
      <4>1. j \in 1..N /\ m \in 1..N /\ m # j
        BY <1>1, <1>3 DEF N
      <4> QED BY <3>1, <4>1, OneLineEach DEF N
    <3> QED BY <1>5, <2>1, <3>2
  <2>2. CASE ~\E j \in 1..i : sp.outputs[j] = n
    BY <1>4, <2>2
  <2> QED BY <2>1, <2>2
<1>7. IsTable(f[i])
  BY <1>2, <1>3, <1>4, LinesTouchTheirOutput DEF N
<1>8. f[i] = Seen(sp, table, k)
  <2>1. f[i] = [n \in DOMAIN table |-> f[i][n]]
    BY ONLY <1>4, <1>7 DEF IsTable
  <2>2. f[i] = [n \in DOMAIN table |->
                 IF \E j \in 1..i : sp.outputs[j] = n THEN f[N][n] ELSE table[n]]
    BY ONLY <1>6, <2>1
  <2>3. f[N] = ScanCoils(sp, table) /\ k - 1 = i
    BY <1>2, <1>3 DEF N
  <2> QED BY ONLY <2>2, <2>3 DEF Seen
<1>9. /\ DOMAIN f[k] = DOMAIN f[i]
      /\ f[k][o] = CoilValue(SynthOne(sp, o), o, f[i])
  BY <1>2, <1>3, <1>4, LineFacts DEF OutputNames
<1>10. f[N][o] = f[k][o]
  <2>1. ASSUME NEW j \in (k + 1)..N PROVE sp.outputs[j] # o
    <3>1. j \in 1..N /\ k \in 1..N /\ j # k
      BY <1>1, <1>3 DEF N
    <3> QED BY <3>1, OneLineEach DEF N
  <2>2. o \in DOMAIN f[k]
    BY <1>4, <1>9 DEF OutputNames
  <2>3. \A n \in DOMAIN f[k] : (\A j \in (k + 1)..N : sp.outputs[j] # n) => f[N][n] = f[k][n]
    <3>1. k \in 0..Len(sp.outputs) /\ N \in k..Len(sp.outputs)
      BY <1>3 DEF N
    <3> HIDE DEF o
    <3> QED BY <1>2, <3>1, LinesTouchTheirOutput
  <2> HIDE DEF o
  <2> QED BY <2>1, <2>2, <2>3
<1> QED BY <1>2, <1>8, <1>9, <1>10 DEF N

----------------------------------------------------------------------------
(* One block call, and the states between the calls.                       *)
BlockCall(sp, i, before, period) ==
    LET call == FbCalls(sp)[i]
        stepped == ScanBlock(call, before.blocks[call.name], before.table, period)
    IN  [table |-> [before.table EXCEPT ![Bit(call.name)] = stepped.q],
         blocks |-> [before.blocks EXCEPT ![call.name] = stepped]]

(* The stepped calls have states between them, and end in the last one.      *)
LEMMA BlocksRun ==
    ASSUME NEW sp, Len(FbCalls(sp)) \in Nat, NEW st, NEW period
    PROVE  \E f : /\ f = [i \in 0..Len(FbCalls(sp)) |->
                            IF i = 0 THEN st ELSE BlockCall(sp, i, f[i - 1], period)]
                  /\ ScanBlocks(sp, st, period) = f[Len(FbCalls(sp))]
<1> DEFINE Upto(n, f) == f = [i \in 0..n |-> IF i = 0 THEN st ELSE BlockCall(sp, i, f[i - 1], period)]
           S == {n \in Nat : \E f : Upto(n, f)}
           N == Len(FbCalls(sp))
           last == CHOOSE f : Upto(N, f)
<1>1. 0 \in S
  <2> DEFINE f == [i \in 0..0 |-> st]
  <2>1. Upto(0, f)
    OBVIOUS
  <2> QED BY <2>1
<1>2. ASSUME NEW n \in Nat, n \in S PROVE n + 1 \in S
  <2>1. PICK f : Upto(n, f)
    BY <1>2
  <2> DEFINE g == [i \in 0..(n + 1) |-> IF i = n + 1 THEN BlockCall(sp, i, f[n], period) ELSE f[i]]
             h == [i \in 0..(n + 1) |-> IF i = 0 THEN st ELSE BlockCall(sp, i, g[i - 1], period)]
  <2>2. \A i \in 0..(n + 1) : g[i] = h[i]
    <3> SUFFICES ASSUME NEW i \in 0..(n + 1) PROVE g[i] = h[i]
      OBVIOUS
    <3>1. CASE i = 0
      BY <2>1, <3>1
    <3>2. CASE i \in 1..n
      <4>1. i - 1 \in 0..n /\ g[i - 1] = f[i - 1] /\ g[i] = f[i]
        BY <3>2
      <4>2. f[i] = BlockCall(sp, i, f[i - 1], period)
        BY <2>1, <3>2
      <4> QED BY <3>2, <4>1, <4>2
    <3>3. CASE i = n + 1
      <4>1. g[n] = f[n] /\ i # 0 /\ i - 1 = n
        BY <3>3
      <4> QED BY <3>3, <4>1
    <3> QED BY <3>1, <3>2, <3>3
  <2>3. g = h
    <3>1. g = [i \in 0..(n + 1) |-> g[i]] /\ h = [i \in 0..(n + 1) |-> h[i]]
      OBVIOUS
    <3> HIDE DEF g, h
    <3> QED BY <2>2, <3>1
  <2>4. Upto(n + 1, g)
    BY <2>3
  <2> HIDE DEF g, h, Upto
  <2> QED BY <2>4
<1>3. N \in S
  <2> HIDE DEF S
  <2> QED BY <1>1, <1>2, SetInduction
<1>4. Upto(N, last)
  BY <1>3
<1>5. ScanBlocks(sp, st, period) = last[N]
  BY DEF ScanBlocks, BlockCall
<1> QED BY <1>4, <1>5

(* The calls of timers and counters make one list, the timers first.       *)
LEMMA CallsAreAList ==
    ASSUME NEW sp, IsList(sp.timers), IsList(sp.counters)
    PROVE  /\ Len(FbCalls(sp)) \in Nat
           /\ \A i \in 1..Len(sp.timers) :
                /\ i \in 1..Len(FbCalls(sp))
                /\ FbCalls(sp)[i].name = sp.timers[i].name
                /\ FbCalls(sp)[i].kind = sp.timers[i].kind
                /\ FbCalls(sp)[i].in = sp.timers[i].on
<1> DEFINE timer(i) == [name |-> sp.timers[i].name, kind |-> sp.timers[i].kind,
                        preset |-> sp.timers[i].preset, in |-> sp.timers[i].on, reset |-> Never]
           counter(i) == [name |-> sp.counters[i].name, kind |-> "CTU",
                          preset |-> sp.counters[i].preset, in |-> sp.counters[i].count,
                          reset |-> sp.counters[i].reset]
           T == [i \in 1..Len(sp.timers) |-> timer(i)]
           C == [i \in 1..Len(sp.counters) |-> counter(i)]
           R == {timer(i) : i \in 1..Len(sp.timers)} \cup {counter(i) : i \in 1..Len(sp.counters)}
<1>1. FbCalls(sp) = T \o C
  BY DEF FbCalls
<1>2. Len(sp.timers) \in Nat /\ Len(sp.counters) \in Nat
  BY DEF IsList
<1>3. T \in [1..Len(sp.timers) -> R] /\ C \in [1..Len(sp.counters) -> R]
  OBVIOUS
<1>4. \A i \in 1..Len(sp.timers) :
        T[i].name = sp.timers[i].name /\ T[i].kind = sp.timers[i].kind /\ T[i].in = sp.timers[i].on
  OBVIOUS
<1> HIDE DEF timer, counter, T, C, R
<1>5. T \in Seq(R) /\ C \in Seq(R) /\ Len(T) = Len(sp.timers)
  BY <1>2, <1>3, SeqDef, LenProperties
<1>6. /\ Len(T \o C) = Len(T) + Len(C) /\ Len(C) \in Nat
      /\ \A i \in 1..Len(T) : (T \o C)[i] = T[i]
  BY <1>5
<1> QED BY <1>1, <1>2, <1>4, <1>5, <1>6

(* The block calls write no output, and neither add nor drop a name.       *)
LEMMA BlocksKeep ==
    ASSUME NEW sp, WellNamed(sp), NEW st, NEW period, st = [table |-> st.table, blocks |-> st.blocks]
    PROVE  LET end == ScanBlocks(sp, st, period)
           IN  /\ end = [table |-> end.table, blocks |-> end.blocks]
               /\ IsTable(st.table) => IsTable(end.table)
               /\ DOMAIN end.table = DOMAIN st.table
               /\ \A o \in OutputNames(sp) \cap DOMAIN st.table : end.table[o] = st.table[o]
<1> DEFINE N == Len(FbCalls(sp))
<1>1. N \in Nat
  BY CallsAreAList DEF WellNamed
<1>2. PICK f : /\ f = [i \in 0..N |-> IF i = 0 THEN st ELSE BlockCall(sp, i, f[i - 1], period)]
               /\ ScanBlocks(sp, st, period) = f[N]
  BY <1>1, BlocksRun
<1> DEFINE Kept(s) == /\ s = [table |-> s.table, blocks |-> s.blocks]
                      /\ IsTable(st.table) => IsTable(s.table)
                      /\ DOMAIN s.table = DOMAIN st.table
                      /\ \A o \in OutputNames(sp) \cap DOMAIN st.table : s.table[o] = st.table[o]
           S == {i \in Nat : i <= N => Kept(f[i])}
<1>3. 0 \in S
  <2>1. f[0] = st
    BY <1>1, <1>2
  <2> QED BY <2>1
<1>4. ASSUME NEW i \in Nat, i \in S PROVE i + 1 \in S
  <2> SUFFICES ASSUME i + 1 <= N PROVE Kept(f[i + 1])
    OBVIOUS
  <2> DEFINE j == i + 1
             call == FbCalls(sp)[j]
  <2>1. j \in 1..N /\ j \in 0..N /\ j # 0 /\ j - 1 = i /\ Kept(f[i])
    BY <1>1, <1>4
  <2>2. f[j] = BlockCall(sp, j, f[i], period)
    <3> HIDE DEF j
    <3> QED BY <1>2, <2>1
  <2>3. Bit(call.name) \notin OutputNames(sp)
    <3> HIDE DEF j
    <3> QED BY <2>1 DEF WellNamed, BlockNames
  <2> HIDE DEF j
  <2>4. PICK q, blocks : f[j] = [table |-> [f[i].table EXCEPT ![Bit(call.name)] = q], blocks |-> blocks]
    BY <2>2 DEF BlockCall
  <2>5. Kept(f[j])
    BY <2>1, <2>3, <2>4 DEF IsTable
  <2> QED BY <2>5 DEF j
<1>5. N \in S
  <2> HIDE DEF S, N
  <2> QED BY <1>1, <1>3, <1>4, SetInduction
<1> QED BY <1>1, <1>2, <1>5

----------------------------------------------------------------------------
(* What a scan leaves behind: the names of the specification, and outputs  *)
(* without a coil line as OFF as at power on.                              *)
NamesInv ==
    /\ spec \in Specs
    /\ state = [table |-> state.table, blocks |-> state.blocks]
    /\ DOMAIN state.table = Names(spec)
    /\ \A o \in OutputNames(spec) : ~Synthesizable(spec, o) => ~state.table[o]

(* The coil block of a scan begins with the table the blocks leave, in     *)
(* which every output is as the last scan left it.                         *)
Begins(table) ==
    /\ IsTable(table) /\ DOMAIN table = Names(spec)
    /\ \A o \in OutputNames(spec) : table[o] = state.table[o]

(* A scan of a synthesised program is its blocks, then its coil lines.     *)
LEMMA ScanIsCoils ==
    ASSUME NamesInv, Scan
    PROVE  /\ NamesInv' /\ spec' = spec
           /\ WellNamed(spec) /\ ValidSpec(spec) /\ IsList(spec.outputs)
           /\ OutputNames(spec) \subseteq Names(spec)
           /\ Begins(sensed') /\ state'.table = ScanCoils(spec, sensed')
<1>1. PICK on \in SUBSET spec.inputs : ScanUnder(on)
  BY DEF Scan
<1> DEFINE sense == Sense(spec, state.table, on)
           begin == [state EXCEPT !.table = sense]
           mid == ScanBlocks(spec, begin, ScanTime)
<1>2. WellNamed(spec) /\ ValidSpec(spec) /\ IsList(spec.outputs) /\ spec' = spec
  BY <1>1, SpecsAssumption DEF NamesInv, ScanUnder, WellNamed
<1>3. begin = [table |-> sense, blocks |-> state.blocks]
  BY DEF NamesInv
<1>4. DOMAIN sense = Names(spec) /\ IsTable(sense) /\ \A o \in OutputNames(spec) : sense[o] = state.table[o]
  <2>1. DOMAIN sense = Names(spec) /\ IsTable(sense)
    BY DEF Sense, NamesInv, IsTable
  <2>2. \A o \in OutputNames(spec) : o \in Names(spec) /\ o \notin spec.inputs
    BY <1>2 DEF Names, OutputNames, ValidSpec
  <2> QED BY <2>1, <2>2 DEF Sense, NamesInv
<1>5. state' = [mid EXCEPT !.table = ScanCoils(spec, @)] /\ sensed' = mid.table
  BY <1>1 DEF ScanUnder, StScan
<1> HIDE DEF sense, begin, mid
<1>6. /\ mid = [table |-> mid.table, blocks |-> mid.blocks]
      /\ DOMAIN mid.table = Names(spec) /\ IsTable(mid.table)
      /\ \A o \in OutputNames(spec) : mid.table[o] = state.table[o]
  <2>1. begin = [table |-> begin.table, blocks |-> begin.blocks] /\ begin.table = sense
    BY <1>3
  <2>2. OutputNames(spec) \subseteq Names(spec)
    BY DEF Names
  <2> QED BY <1>2, <1>4, <2>1, <2>2, BlocksKeep DEF mid
<1>7. state' = [table |-> ScanCoils(spec, mid.table), blocks |-> mid.blocks]
  BY <1>5, <1>6
<1>8. NamesInv'
  <2>1. DOMAIN state'.table = Names(spec)
    BY <1>2, <1>6, <1>7, CoilsKeep
  <2>2. \A o \in OutputNames(spec) : ~Synthesizable(spec, o) => ~state'.table[o]
    BY <1>2, <1>6, <1>7, CoilsKeep DEF NamesInv, Names
  <2> QED BY <1>2, <1>7, <2>1, <2>2 DEF NamesInv
<1> QED BY <1>2, <1>5, <1>6, <1>7, <1>8 DEF Begins, Names

LocksInv == NamesInv /\ InterlocksHold

(* A scan keeps every interlock apart, whatever the inputs and the table   *)
(* it starts from.                                                         *)
LEMMA ScanKeepsLocks ==
    ASSUME NamesInv, Scan
    PROVE  LocksInv'
<1> DEFINE mid == sensed'
<1>1. /\ NamesInv' /\ spec' = spec
      /\ WellNamed(spec) /\ ValidSpec(spec) /\ IsList(spec.outputs)
      /\ OutputNames(spec) \subseteq DOMAIN mid
      /\ state'.table = ScanCoils(spec, mid)
  BY ScanIsCoils DEF Begins
<1> HIDE DEF mid
<1>2. InterlocksHold'
  <2> SUFFICES ASSUME NEW lock \in spec.locks, {lock[1], lock[2]} \subseteq Image'
               PROVE  FALSE
    BY <1>1 DEF InterlocksHold
  <2> DEFINE a == lock[1]
             b == lock[2]
             out == spec.outputs
  <2>1. /\ a \in OutputNames(spec) /\ b \in OutputNames(spec)
        /\ ScanCoils(spec, mid)[a] /\ ScanCoils(spec, mid)[b]
    BY <1>1 DEF Image, OnOutputs
  <2>2. Synthesizable(spec, a) /\ Synthesizable(spec, b)
    BY <1>1, <2>1 DEF NamesInv
  <2>3. /\ a # b /\ ~Derived(spec, a) /\ ~Derived(spec, b)
        /\ a \in Partners(spec, b) /\ b \in Partners(spec, a)
    BY <1>1 DEF WellNamed, ValidSpec, Partners
  <2>4. PICK i \in 1..Len(out), j \in 1..Len(out) : out[i] = a /\ out[j] = b
    BY <2>1 DEF OutputNames
  <2> HIDE DEF a, b, out
  <2>5. i \in Int /\ j \in Int /\ i # j
    BY <2>3, <2>4
  <2>6. i < j \/ j < i
    BY <2>5
  <2> QED BY <1>1, <2>1, <2>2, <2>3, <2>4, <2>6, CoilsExclude DEF out
<1> QED BY <1>1, <1>2 DEF LocksInv

(* At power on every name is OFF.                                          *)
LEMMA PowerOnNames ==
    ASSUME Init
    PROVE  /\ NamesInv /\ Image = {}
           /\ \A n \in Names(spec) : ~state.table[n]
<1>1. spec \in Specs /\ state = PowerOn(spec)
  BY DEF Init
<1>2. state = [table |-> AllOff(Names(spec)), blocks |-> [b \in BlockNames(spec) |-> Fresh]]
  BY <1>1 DEF PowerOn
<1>3. \A n \in Names(spec) : ~state.table[n]
  BY <1>2 DEF AllOff
<1>4. \A o \in OutputNames(spec) : o \in Names(spec) /\ ~state.table[o]
  BY <1>3 DEF Names
<1>5. NamesInv
  BY <1>1, <1>2, <1>4 DEF NamesInv, AllOff
<1>6. Image = {}
  BY <1>4 DEF Image, OnOutputs
<1> QED BY <1>3, <1>5, <1>6

(* No program the synthesiser emits ever has two interlocked outputs ON    *)
(* together, with its timers and counters, for every specification.        *)
THEOREM InterlocksAlwaysHold == Spec => []InterlocksHold
<1>1. Init => LocksInv
  BY PowerOnNames DEF LocksInv, InterlocksHold
<1>2. LocksInv /\ [Scan]_vars => LocksInv'
  <2> SUFFICES ASSUME LocksInv, [Scan]_vars PROVE LocksInv'
    OBVIOUS
  <2>1. CASE Scan
    BY <2>1, ScanKeepsLocks DEF LocksInv
  <2>2. CASE UNCHANGED vars
    BY <2>2 DEF vars, LocksInv, NamesInv, InterlocksHold, Image
  <2> QED BY <2>1, <2>2
<1>3. LocksInv => InterlocksHold
  BY DEF LocksInv
<1> QED BY <1>1, <1>2, <1>3, PTL DEF Spec

(* A condition on a name that no coil line writes cuts an output for the   *)
(* whole scan, wherever the line stands and whatever turns it on.          *)
LEMMA CutWins ==
    ASSUME NEW sp, ValidSpec(sp), IsList(sp.outputs),
           NEW table, IsTable(table), OutputNames(sp) \subseteq DOMAIN table,
           NEW o \in OutputNames(sp), Synthesizable(sp, o), ~Derived(sp, o),
           NEW s \in DOMAIN table, s \notin OutputNames(sp), table[s],
           Is(s) \subseteq AnyOf(TurnOff(sp, o))
    PROVE  ~ScanCoils(sp, table)[o]
<1>1. PICK k \in 1..Len(sp.outputs) : sp.outputs[k] = o
  BY DEF OutputNames
<1> DEFINE before == Seen(sp, table, k)
<1>2. ScanCoils(sp, table)[o] = CoilValue(SynthOne(sp, o), o, before)
  BY <1>1, LineDecides
<1>3. before[s]
  <2>1. Len(sp.outputs) \in Nat
    BY DEF IsList
  <2>2. \A j \in 1..(k - 1) : sp.outputs[j] # s
    BY <2>1 DEF OutputNames
  <2> QED BY <2>2 DEF Seen
<1>4. SynthOne(sp, o).cut = AnyOf(TurnOff(sp, o))
  BY DEF SynthOne
<1> HIDE DEF before
<1>5. Holds(SynthOne(sp, o).cut, before)
  <2>1. [on |-> {s}, off |-> {}] \in SynthOne(sp, o).cut
    BY <1>4 DEF Is
  <2> QED BY <1>3, <2>1 DEF Holds
<1> QED BY <1>2, <1>5 DEF CoilValue

StopInv == NamesInv /\ StopCutsOutputs

(* If the stop button is a way out of every state, it wins over every      *)
(* start condition and every seal, in every scan of every program.         *)
THEOREM StopAlwaysWins == Spec => []StopCutsOutputs
<1>1. Init => StopInv
  BY PowerOnNames DEF StopInv, StopCutsOutputs
<1>2. StopInv /\ [Scan]_vars => StopInv'
  <2> SUFFICES ASSUME StopInv, [Scan]_vars PROVE StopInv'
    OBVIOUS
  <2>1. CASE Scan
    <3>1. /\ NamesInv' /\ spec' = spec
          /\ WellNamed(spec) /\ ValidSpec(spec) /\ IsList(spec.outputs)
          /\ OutputNames(spec) \subseteq Names(spec)
          /\ Begins(sensed') /\ state'.table = ScanCoils(spec, sensed')
      BY <2>1, ScanIsCoils DEF StopInv
    <3>2. SUFFICES ASSUME spec \in Stoppable, NEW s \in StopInputs(spec), sensed'[s],
                          NEW o \in OutputNames(spec), ~Derived(spec, o), state'.table[o]
                   PROVE  FALSE
      BY <3>1 DEF StopInv, StopCutsOutputs, Image, OnOutputs, StateDriven, StopInputs
    <3>3. Synthesizable(spec, o)
      BY <3>1, <3>2 DEF NamesInv
    <3>4. s \in Names(spec) /\ s \notin OutputNames(spec)
      BY <3>1 DEF StopInputs, Names, OutputNames, ValidSpec
    <3>5. Is(s) \subseteq AnyOf(TurnOff(spec, o))
      BY <3>2, <3>3, StopsAreWaysOut
    <3> QED BY <3>1, <3>2, <3>3, <3>4, <3>5, CutWins DEF Begins
  <2>2. CASE UNCHANGED vars
    BY <2>2 DEF vars, StopInv, NamesInv, StopCutsOutputs, Image, StateDriven
  <2> QED BY <2>1, <2>2
<1>3. StopInv => StopCutsOutputs
  BY DEF StopInv
<1> QED BY <1>1, <1>2, <1>3, PTL DEF Spec

(* The coil lines write nothing but outputs.                               *)
LEMMA CoilsKeepOthers ==
    ASSUME NEW sp, ValidSpec(sp), IsList(sp.outputs),
           NEW table, NEW n \in DOMAIN table, n \notin OutputNames(sp)
    PROVE  ScanCoils(sp, table)[n] = table[n]
<1>1. Len(sp.outputs) \in Nat
  BY DEF IsList
<1>2. PICK f : TablesBetween(sp, table, f) /\ ScanCoils(sp, table) = f[Len(sp.outputs)]
  BY <1>1, CoilsRun
<1>3. 0 \in 0..Len(sp.outputs) /\ Len(sp.outputs) \in 0..Len(sp.outputs) /\ f[0] = table
  BY <1>1, <1>2, LineFacts
<1>4. \A j \in (0 + 1)..Len(sp.outputs) : sp.outputs[j] # n
  BY <1>1 DEF OutputNames
<1> QED BY <1>2, <1>3, <1>4, LinesTouchTheirOutput

----------------------------------------------------------------------------
(* The line of n stands above that of o.                                   *)
Above(sp, n, o) ==
    \E i, j \in 1..Len(sp.outputs) : i < j /\ sp.outputs[i] = n /\ sp.outputs[j] = o

(* What the line of o sees. *)
AtLine(sp, table, o) ==
    [n \in DOMAIN table |-> IF Above(sp, n, o) THEN ScanCoils(sp, table)[n] ELSE table[n]]

(* The lines are in one order, with outputs[1] first.                      *)
LEMMA AboveFacts ==
    ASSUME NEW sp, ValidSpec(sp), IsList(sp.outputs), NEW a, NEW b
    PROVE  /\ Above(sp, a, b) => a \in OutputNames(sp) /\ a # b /\ ~Above(sp, b, a)
           /\ a \in OutputNames(sp) /\ b \in OutputNames(sp) /\ a # b =>
                Above(sp, a, b) \/ Above(sp, b, a)
           /\ ~Above(sp, a, sp.outputs[1])
<1>1. Len(sp.outputs) \in Nat
  BY DEF IsList
<1>2. ASSUME NEW i \in 1..Len(sp.outputs), NEW j \in 1..Len(sp.outputs), sp.outputs[i] = sp.outputs[j]
      PROVE  i = j
  BY <1>2 DEF ValidSpec
<1>3. ASSUME Above(sp, a, b) PROVE a \in OutputNames(sp) /\ a # b /\ ~Above(sp, b, a)
  <2>1. PICK i \in 1..Len(sp.outputs), j \in 1..Len(sp.outputs) :
          i < j /\ sp.outputs[i] = a /\ sp.outputs[j] = b
    BY <1>3 DEF Above
  <2>2. a # b
    BY <1>1, <1>2, <2>1
  <2>3. ASSUME Above(sp, b, a) PROVE FALSE
    <3>1. PICK k \in 1..Len(sp.outputs), m \in 1..Len(sp.outputs) :
            k < m /\ sp.outputs[k] = b /\ sp.outputs[m] = a
      BY <2>3 DEF Above
    <3>2. k = j /\ m = i
      BY <1>2, <2>1, <3>1
    <3> QED BY <1>1, <2>1, <3>1, <3>2
  <2> QED BY <2>1, <2>2, <2>3 DEF OutputNames
<1>4. ASSUME a \in OutputNames(sp), b \in OutputNames(sp), a # b
      PROVE  Above(sp, a, b) \/ Above(sp, b, a)
  <2>1. PICK i \in 1..Len(sp.outputs), j \in 1..Len(sp.outputs) : sp.outputs[i] = a /\ sp.outputs[j] = b
    BY <1>4 DEF OutputNames
  <2>2. i < j \/ j < i
    BY <1>1, <1>4, <2>1
  <2> QED BY <2>1, <2>2 DEF Above
<1>5. ASSUME Above(sp, a, sp.outputs[1]) PROVE FALSE
  <2>1. PICK i \in 1..Len(sp.outputs), j \in 1..Len(sp.outputs) :
          i < j /\ sp.outputs[j] = sp.outputs[1]
    BY <1>5 DEF Above
  <2>2. 1 \in 1..Len(sp.outputs)
    BY <1>1, <2>1
  <2>3. j = 1
    BY <1>2, <2>1, <2>2
  <2> QED BY <1>1, <2>1, <2>3
<1> QED BY <1>3, <1>4, <1>5

(* after is what the coil block makes of before. *)
CoilScan(sp, before, after) ==
    /\ WellNamed(sp) /\ IsTable(before) /\ DOMAIN before = Names(sp)
    /\ after = ScanCoils(sp, before)
    /\ \A o \in OutputNames(sp) : ~Synthesizable(sp, o) => ~before[o]

(* A line sees new values of the outputs above it and old values of the    *)
(* others; what is no output has one value in the whole scan.              *)
LEMMA AtLineFacts ==
    ASSUME NEW sp, NEW before, NEW after, CoilScan(sp, before, after), NEW o \in OutputNames(sp)
    PROVE  LET at == AtLine(sp, before, o)
           IN  /\ o \in Names(sp) /\ at[o] = before[o]
               /\ \A n \in Names(sp) :
                    /\ n \notin OutputNames(sp) => at[n] = before[n] /\ after[n] = before[n]
                    /\ ~Above(sp, n, o) => at[n] = before[n]
                    /\ Above(sp, n, o) => at[n] = after[n]
<1>1. ValidSpec(sp) /\ IsList(sp.outputs) /\ DOMAIN before = Names(sp) /\ after = ScanCoils(sp, before)
  BY DEF CoilScan, WellNamed
<1>2. o \in Names(sp) /\ ~Above(sp, o, o)
  BY <1>1, AboveFacts DEF Names
<1>3. ASSUME NEW n \in Names(sp)
      PROVE  /\ n \notin OutputNames(sp) => ~Above(sp, n, o) /\ after[n] = before[n]
             /\ AtLine(sp, before, o)[n] = IF Above(sp, n, o) THEN after[n] ELSE before[n]
  BY <1>1, AboveFacts, CoilsKeepOthers DEF AtLine
<1> QED BY <1>2, <1>3

(* A disjunction over transitions holds if the condition of one of them    *)
(* does.                                                                   *)
LEMMA AnyOfHolds ==
    ASSUME NEW T, NEW table
    PROVE  Holds(AnyOf(T), table) <=> \E t \in T : Holds(t.cond, table)
BY DEF Holds, AnyOf

(* What moves an output that states drive, in one equation.                *)
LEMMA LineMoves ==
    ASSUME NEW sp, NEW before, NEW after, CoilScan(sp, before, after), NEW o \in StateOutputs(sp)
    PROVE  LET at == AtLine(sp, before, o)
           IN  after[o] <=> /\ before[o] \/ \E t \in TurnOn(sp, o) : Holds(t.cond, at)
                            /\ ~\E t \in TurnOff(sp, o) : Holds(t.cond, at)
                            /\ ~\E p : Locked(sp, o, p) /\ at[p]
<1> DEFINE at == AtLine(sp, before, o)
<1>1. /\ ValidSpec(sp) /\ IsList(sp.outputs) /\ IsTable(before) /\ after = ScanCoils(sp, before)
      /\ OutputNames(sp) \subseteq DOMAIN before
      /\ o \in OutputNames(sp) /\ ~Derived(sp, o) /\ at[o] = before[o]
  BY AtLineFacts DEF CoilScan, WellNamed, StateOutputs, Names
<1>2. CASE Synthesizable(sp, o)
  <2>1. PICK k \in 1..Len(sp.outputs) : sp.outputs[k] = o
    BY <1>1 DEF OutputNames
  <2>2. at = Seen(sp, before, k)
    <3>1. Len(sp.outputs) \in Nat
      BY <1>1 DEF IsList
    <3>2. ASSUME NEW n PROVE Above(sp, n, o) <=> \E j \in 1..(k - 1) : sp.outputs[j] = n
      <4>1. ASSUME Above(sp, n, o) PROVE \E j \in 1..(k - 1) : sp.outputs[j] = n
        <5>1. PICK i \in 1..Len(sp.outputs), j \in 1..Len(sp.outputs) :
                i < j /\ sp.outputs[i] = n /\ sp.outputs[j] = o
          BY <4>1 DEF Above
        <5>2. j = k
          BY <1>1, <2>1, <5>1 DEF ValidSpec
        <5>3. i \in 1..(k - 1)
          BY <3>1, <5>1, <5>2
        <5> QED BY <5>1, <5>3
      <4>2. ASSUME NEW j \in 1..(k - 1), sp.outputs[j] = n PROVE Above(sp, n, o)
        <5>1. j \in 1..Len(sp.outputs) /\ j < k
          BY <3>1
        <5> QED BY <2>1, <4>2, <5>1 DEF Above
      <4> QED BY <4>1, <4>2
    <3> QED BY <3>2 DEF AtLine, Seen
  <2>3. after[o] = CoilValue(SynthOne(sp, o), o, at)
    BY <1>1, <1>2, <2>1, <2>2, LineDecides
  <2> HIDE DEF at
  <2>4. SynthOne(sp, o) = [on |-> AnyOf(TurnOn(sp, o)), seal |-> TRUE,
                           cut |-> AnyOf(TurnOff(sp, o)), guards |-> Partners(sp, o)]
    BY <1>1 DEF SynthOne
  <2>5. after[o] <=> /\ Holds(AnyOf(TurnOn(sp, o)), at) \/ at[o]
                     /\ ~Holds(AnyOf(TurnOff(sp, o)), at)
                     /\ \A p \in Partners(sp, o) : ~at[p]
    BY <2>3, <2>4 DEF CoilValue
  <2>6. \A p : p \in Partners(sp, o) => Locked(sp, o, p)
    <3> SUFFICES ASSUME NEW p, p \in Partners(sp, o) PROVE Locked(sp, o, p)
      OBVIOUS
    <3>1. PICK l \in sp.locks : (l[1] = o /\ l[2] = p) \/ (l[2] = o /\ l[1] = p)
      BY DEF Partners
    <3> QED BY <3>1 DEF Locked
  <2>7. \A p : Locked(sp, o, p) => p \in Partners(sp, o)
    BY DEF Locked, Partners
  <2>8. after[o] <=> /\ before[o] \/ \E t \in TurnOn(sp, o) : Holds(t.cond, at)
                     /\ ~\E t \in TurnOff(sp, o) : Holds(t.cond, at)
                     /\ ~\E p : Locked(sp, o, p) /\ at[p]
    BY <1>1, <2>5, <2>6, <2>7, AnyOfHolds DEF at
  <2> QED BY <2>8 DEF at
<1>3. CASE ~Synthesizable(sp, o)
  <2>1. after[o] = before[o] /\ ~before[o] /\ TurnOn(sp, o) = {}
    BY <1>1, <1>3, CoilsKeep DEF CoilScan, Synthesizable
  <2> QED BY <2>1
<1> QED BY <1>2, <1>3

(* A condition on names that no line writes is the same for all lines.     *)
LEMMA AsksTheSame ==
    ASSUME NEW sp, NEW before, NEW after, CoilScan(sp, before, after), NEW o \in OutputNames(sp),
           NEW cond, AsksNoOutput(sp, cond), \A term \in cond : term.on \cup term.off \subseteq Names(sp)
    PROVE  Holds(cond, AtLine(sp, before, o)) <=> Holds(cond, before)
<1> DEFINE at == AtLine(sp, before, o)
<1>1. \A term \in cond : \A n \in term.on \cup term.off : at[n] = before[n]
  BY AtLineFacts DEF AsksNoOutput
<1> HIDE DEF at
<1>2. Holds(cond, at) <=> Holds(cond, before)
  BY <1>1 DEF Holds
<1> QED BY <1>2 DEF at

----------------------------------------------------------------------------
(* The states of a chart as the outputs they drive, and one scan as a move *)
(* of the chart: what SequenceChart says, for one scan of the coils.       *)
On(sp, table) == {o \in StateOutputs(sp) : table[o]}

IsState(sp, driven) == driven = {} \/ \E s \in DOMAIN sp.entry : driven = sp.entry[s]

Moves(sp, before, after) ==
    \/ On(sp, after) = On(sp, before)
    \/ \E t, u \in sp.transitions :
          /\ t = u \/ t.to = u.from
          /\ sp.entry[t.from] = On(sp, before) /\ sp.entry[u.to] = On(sp, after)
          /\ Holds(t.cond, before)
          /\ Holds(u.cond, before) \/ (t # u /\ Holds(u.cond, after))

(* With a state for each output at most one output is ON, the transitions  *)
(* that turn it on lead to its state, those that cut it leave it.          *)
LEMMA OneStateEach ==
    ASSUME NEW sp, StateForEach(sp)
    PROVE  /\ \A t \in sp.transitions :
                t.from \in DOMAIN sp.entry /\ t.to \in DOMAIN sp.entry
           /\ \A o \in StateOutputs(sp) :
                /\ \A t \in TurnOn(sp, o) : t \in sp.transitions /\ sp.entry[t.to] = {o}
                /\ \A t \in TurnOff(sp, o) :
                     t \in sp.transitions /\ sp.entry[t.from] = {o} /\ sp.entry[t.to] # {o}
                /\ \A t \in sp.transitions :
                     /\ sp.entry[t.to] = {o} => t \in TurnOn(sp, o)
                     /\ sp.entry[t.from] = {o} /\ sp.entry[t.to] # {o} => t \in TurnOff(sp, o)
           /\ \A table : IsState(sp, On(sp, table)) =>
                On(sp, table) = {} \/ \E o \in StateOutputs(sp) : On(sp, table) = {o}
<1>1. \A t \in sp.transitions : t.from \in DOMAIN sp.entry /\ t.to \in DOMAIN sp.entry
  BY DEF StateForEach
<1>2. ASSUME NEW o \in StateOutputs(sp), NEW s \in DOMAIN sp.entry
      PROVE  s \in OnStates(sp, o) <=> sp.entry[s] = {o}
  BY DEF StateForEach, OnStates
<1>3. \A table : IsState(sp, On(sp, table)) =>
         On(sp, table) = {} \/ \E o \in StateOutputs(sp) : On(sp, table) = {o}
  BY DEF IsState, StateForEach
<1>4. ASSUME NEW o \in StateOutputs(sp), NEW t \in TurnOn(sp, o)
      PROVE  t \in sp.transitions /\ sp.entry[t.to] = {o}
  BY <1>1, <1>2 DEF TurnOn
<1>5. ASSUME NEW o \in StateOutputs(sp), NEW t \in TurnOff(sp, o)
      PROVE  t \in sp.transitions /\ sp.entry[t.from] = {o} /\ sp.entry[t.to] # {o}
  BY <1>1, <1>2 DEF TurnOff
<1>6. ASSUME NEW o \in StateOutputs(sp), NEW t \in sp.transitions
      PROVE  /\ sp.entry[t.to] = {o} => t \in TurnOn(sp, o)
             /\ sp.entry[t.from] = {o} /\ sp.entry[t.to] # {o} => t \in TurnOff(sp, o)
  BY <1>1, <1>2 DEF TurnOn, TurnOff
<1> QED BY <1>1, <1>3, <1>4, <1>5, <1>6

(* The transition that turns an output on in a selector comes from rest,   *)
(* and the line that takes it sees every rival OFF.                        *)
LEMMA SelectorEnters ==
    ASSUME NEW sp, IsSelector(sp), NEW before, NEW after, CoilScan(sp, before, after),
           NEW o \in StateOutputs(sp), after[o], ~before[o]
    PROVE  /\ \E t \in sp.transitions :
                /\ sp.entry[t.from] = {} /\ sp.entry[t.to] = {o}
                /\ Holds(t.cond, AtLine(sp, before, o))
           /\ \A p \in StateOutputs(sp) : p # o => ~AtLine(sp, before, o)[p]
<1> DEFINE at == AtLine(sp, before, o)
<1>1. PICK t \in TurnOn(sp, o) : Holds(t.cond, at)
  BY LineMoves
<1>2. t \in sp.transitions /\ sp.entry[t.to] = {o} /\ sp.entry[t.to] # {}
  BY OneStateEach DEF IsSelector
<1>3. sp.entry[t.from] = {}
  BY <1>2 DEF IsSelector
<1>4. ASSUME NEW p \in StateOutputs(sp), p # o, at[p] PROVE FALSE
  <2>1. ~Locked(sp, o, p)
    BY <1>4, LineMoves
  <2>2. \A term \in t.cond : p \in term.off
    BY <1>2, <1>4, <2>1 DEF IsSelector
  <2> HIDE DEF at
  <2> QED BY <1>1, <1>4, <2>2 DEF Holds
<1> QED BY <1>1, <1>2, <1>3, <1>4

(* The transition that cuts an output in a selector leads to rest.         *)
LEMMA SelectorLeaves ==
    ASSUME NEW sp, IsSelector(sp), NEW before, NEW after, CoilScan(sp, before, after),
           NEW o \in StateOutputs(sp), ~after[o], before[o],
           \A p \in StateOutputs(sp) : p # o => ~AtLine(sp, before, o)[p]
    PROVE  \E t \in sp.transitions :
              sp.entry[t.from] = {o} /\ sp.entry[t.to] = {} /\ Holds(t.cond, before)
<1> DEFINE at == AtLine(sp, before, o)
<1>1. ~\E p : Locked(sp, o, p) /\ at[p]
  <2> SUFFICES ASSUME NEW p, Locked(sp, o, p) PROVE ~at[p]
    OBVIOUS
  <2>1. PICK l \in sp.locks : (l[1] = o /\ l[2] = p) \/ (l[1] = p /\ l[2] = o)
    BY DEF Locked
  <2>2. l[1] # l[2]
    BY DEF CoilScan, WellNamed, ValidSpec
  <2>3. p \in StateOutputs(sp)
    BY <2>1 DEF IsSelector, StateForEach
  <2> QED BY <2>1, <2>2, <2>3
<1>2. PICK t \in TurnOff(sp, o) : Holds(t.cond, at)
  BY <1>1, LineMoves
<1>3. t \in sp.transitions /\ sp.entry[t.from] = {o} /\ sp.entry[t.from] # {}
  BY OneStateEach DEF IsSelector
<1>4. sp.entry[t.to] = {} /\ AsksNoOutput(sp, t.cond)
      /\ \A term \in t.cond : term.on \cup term.off \subseteq Names(sp)
  BY <1>3 DEF IsSelector, StateForEach
<1>5. o \in OutputNames(sp)
  BY DEF StateOutputs
<1>6. Holds(t.cond, before)
  BY <1>2, <1>4, <1>5, AsksTheSame
<1> QED BY <1>3, <1>4, <1>6

(* A condition that enters a state of a selector from rest holds in every  *)
(* table that has the same inputs and bits and the rivals OFF.             *)
LEMMA SelectorMayEnter ==
    ASSUME NEW sp, IsSelector(sp), NEW before, NEW after, CoilScan(sp, before, after),
           NEW o \in StateOutputs(sp), NEW t \in sp.transitions,
           sp.entry[t.from] = {}, sp.entry[t.to] = {o},
           Holds(t.cond, AtLine(sp, before, o)),
           NEW table, \A n \in Names(sp) : n \notin OutputNames(sp) => table[n] = before[n],
           \A p \in StateOutputs(sp) : p # o => ~table[p]
    PROVE  Holds(t.cond, table)
<1> DEFINE at == AtLine(sp, before, o)
<1>1. PICK term \in t.cond : (\A s \in term.on : at[s]) /\ (\A s \in term.off : ~at[s])
  BY DEF Holds
<1>2. /\ term.on \cap OutputNames(sp) = {}
      /\ term.off \cap OutputNames(sp) \subseteq StateOutputs(sp) \ {o}
      /\ term.on \subseteq Names(sp) /\ term.off \subseteq Names(sp)
  BY DEF IsSelector, StateForEach
<1>3. o \in OutputNames(sp)
  BY DEF StateOutputs
<1>4. \A n \in Names(sp) : n \notin OutputNames(sp) => at[n] = table[n]
  BY <1>3, AtLineFacts
<1> HIDE DEF at
<1>5. \A s \in term.on : table[s]
  BY <1>1, <1>2, <1>4
<1>6. ASSUME NEW s \in term.off PROVE ~table[s]
  BY <1>1, <1>2, <1>4, <1>6
<1> QED BY <1>5, <1>6 DEF Holds

(* A scan of a selector is a move of its chart.                            *)
LEMMA SelectorMoves ==
    ASSUME NEW sp, IsSelector(sp), NEW before, NEW after, CoilScan(sp, before, after),
           IsState(sp, On(sp, before))
    PROVE  Moves(sp, before, after)
<1>1. StateForEach(sp) /\ ValidSpec(sp) /\ IsList(sp.outputs)
      /\ StateOutputs(sp) \subseteq OutputNames(sp) /\ OutputNames(sp) \subseteq Names(sp)
  BY DEF IsSelector, CoilScan, WellNamed, StateOutputs, Names
<1>2. \A o \in StateOutputs(sp), n \in StateOutputs(sp) :
         /\ ~Above(sp, n, o) => AtLine(sp, before, o)[n] = before[n]
         /\ Above(sp, n, o) => AtLine(sp, before, o)[n] = after[n]
  BY <1>1, AtLineFacts
<1>3. ASSUME NEW b \in StateOutputs(sp), NEW c \in StateOutputs(sp), b # c, after[b], after[c],
             Above(sp, b, c)
      PROVE  FALSE
  <2>1. AtLine(sp, before, c)[b]
    BY <1>2, <1>3
  <2>2. before[c]
    BY <1>3, <2>1, SelectorEnters
  <2>3. ~before[b]
    BY <1>1, <1>3, <2>2, OneStateEach DEF On
  <2>4. ~AtLine(sp, before, b)[c]
    BY <1>3, <2>3, SelectorEnters
  <2>5. ~Above(sp, c, b)
    BY <1>1, <1>3, AboveFacts
  <2> QED BY <1>2, <2>2, <2>4, <2>5
<1>4. \A b \in StateOutputs(sp), c \in StateOutputs(sp) : after[b] /\ after[c] => b = c
  BY <1>1, <1>3, AboveFacts
<1>5. \A n \in Names(sp) : n \notin OutputNames(sp) => after[n] = before[n]
  <2>1. CASE OutputNames(sp) = {}
    BY <2>1, CoilsKeepOthers DEF CoilScan, WellNamed
  <2>2. CASE OutputNames(sp) # {}
    BY <2>2, AtLineFacts
  <2> QED BY <2>1, <2>2
<1>6. ASSUME On(sp, before) = {}, NEW b \in StateOutputs(sp), after[b]
      PROVE  Moves(sp, before, after)
  <2>1. On(sp, after) = {b}
    BY <1>4, <1>6 DEF On
  <2>2. \A p \in StateOutputs(sp) : ~before[p]
    BY <1>6 DEF On
  <2>3. PICK t \in sp.transitions :
          sp.entry[t.from] = {} /\ sp.entry[t.to] = {b} /\ Holds(t.cond, AtLine(sp, before, b))
    BY <1>6, <2>2, SelectorEnters
  <2>4. Holds(t.cond, before)
    BY <2>2, <2>3, SelectorMayEnter
  <2> QED BY <1>6, <2>1, <2>3, <2>4 DEF Moves
<1>7. ASSUME NEW a \in StateOutputs(sp), On(sp, before) = {a}, after[a]
      PROVE  Moves(sp, before, after)
  <2>1. On(sp, after) = {a}
    BY <1>4, <1>7 DEF On
  <2> QED BY <1>7, <2>1 DEF Moves
<1>8. ASSUME NEW a \in StateOutputs(sp), On(sp, before) = {a}, On(sp, after) = {}
      PROVE  Moves(sp, before, after)
  <2>1. /\ before[a] /\ \A p \in StateOutputs(sp) : p # a => ~before[p]
        /\ \A p \in StateOutputs(sp) : ~after[p]
    BY <1>8 DEF On
  <2>2. \A p \in StateOutputs(sp) : p # a => ~AtLine(sp, before, a)[p]
    BY <1>2, <2>1
  <2>3. PICK t \in sp.transitions :
          sp.entry[t.from] = {a} /\ sp.entry[t.to] = {} /\ Holds(t.cond, before)
    BY <2>1, <2>2, SelectorLeaves
  <2> QED BY <1>8, <2>3 DEF Moves
<1>9. ASSUME NEW a \in StateOutputs(sp), On(sp, before) = {a},
             NEW b \in StateOutputs(sp), b # a, after[b]
      PROVE  Moves(sp, before, after)
  <2>1. On(sp, after) = {b} /\ \A p \in StateOutputs(sp) : p # b => ~after[p]
    BY <1>4, <1>9 DEF On
  <2>2. before[a] /\ \A p \in StateOutputs(sp) : p # a => ~before[p]
    BY <1>9 DEF On
  <2>3. PICK u \in sp.transitions :
          sp.entry[u.from] = {} /\ sp.entry[u.to] = {b} /\ Holds(u.cond, AtLine(sp, before, b))
    BY <1>9, <2>2, SelectorEnters
  <2>4. ~AtLine(sp, before, b)[a]
    BY <1>9, <2>2, SelectorEnters
  <2>5. Above(sp, a, b) /\ ~Above(sp, b, a)
    BY <1>1, <1>2, <1>9, <2>2, <2>4, AboveFacts
  <2>6. \A p \in StateOutputs(sp) : p # a => ~AtLine(sp, before, a)[p]
    BY <1>2, <2>1, <2>2, <2>5
  <2>7. PICK t \in sp.transitions :
          sp.entry[t.from] = {a} /\ sp.entry[t.to] = {} /\ Holds(t.cond, before)
    BY <1>9, <2>1, <2>2, <2>6, SelectorLeaves
  <2>8. t.to = u.from /\ t # u
    BY <1>1, <2>3, <2>7 DEF StateForEach
  <2>9. Holds(u.cond, after)
    BY <1>5, <1>9, <2>1, <2>3, SelectorMayEnter
  <2> QED BY <1>9, <2>1, <2>3, <2>7, <2>8, <2>9 DEF Moves
<1>10. CASE On(sp, before) = {}
  <2>1. CASE On(sp, after) = {}
    BY <1>10, <2>1 DEF Moves
  <2>2. CASE On(sp, after) # {}
    <3>1. PICK b \in StateOutputs(sp) : after[b]
      BY <2>2 DEF On
    <3> QED BY <1>6, <1>10, <3>1
  <2> QED BY <2>1, <2>2
<1>11. ASSUME NEW a \in StateOutputs(sp), On(sp, before) = {a} PROVE Moves(sp, before, after)
  <2>1. CASE On(sp, after) = {}
    BY <1>8, <1>11, <2>1
  <2>2. CASE On(sp, after) # {}
    <3>1. PICK b \in StateOutputs(sp) : after[b]
      BY <2>2 DEF On
    <3> QED BY <1>7, <1>9, <1>11, <3>1
  <2> QED BY <2>1, <2>2
<1> QED BY <1>1, <1>10, <1>11, OneStateEach

----------------------------------------------------------------------------
(* The bit of a step's timer is ON only if the step is. *)
BitsAreOwn(sp, table) ==
    \A o \in StateOutputs(sp) : \A bit \in EndBits(sp, o) : table[bit] => table[o]

(* The step after that of a is that of b. *)
StepAfter(sp, a, b) ==
    \E k, m \in 1..Len(sp.outputs) :
        /\ m = k + 1 \/ (k = Len(sp.outputs) /\ m = 1)
        /\ a = sp.outputs[k] /\ b = sp.outputs[m]

(* A step is followed by one other step.                                   *)
LEMMA NextIsOne ==
    ASSUME NEW sp, ValidSpec(sp), IsList(sp.outputs), Len(sp.outputs) > 1,
           NEW a, NEW b, NEW c, StepAfter(sp, a, b), StepAfter(sp, a, c)
    PROVE  a # b /\ b = c
<1>1. Len(sp.outputs) \in Nat
  BY DEF IsList
<1>2. PICK k \in 1..Len(sp.outputs), m \in 1..Len(sp.outputs) :
        /\ m = k + 1 \/ (k = Len(sp.outputs) /\ m = 1)
        /\ a = sp.outputs[k] /\ b = sp.outputs[m]
  BY DEF StepAfter
<1>3. PICK i \in 1..Len(sp.outputs), j \in 1..Len(sp.outputs) :
        /\ j = i + 1 \/ (i = Len(sp.outputs) /\ j = 1)
        /\ a = sp.outputs[i] /\ c = sp.outputs[j]
  BY DEF StepAfter
<1>4. i = k
  BY <1>2, <1>3 DEF ValidSpec
<1>5. j = m /\ k # m
  BY <1>1, <1>2, <1>3, <1>4
<1> QED BY <1>2, <1>3, <1>5, OneLineEach

(* A transition of a sequence leads from rest to the first step, from a    *)
(* step to rest, or from a step whose timer has elapsed to the next.       *)
LEMMA SequenceKinds ==
    ASSUME NEW sp, IsSequence(sp), NEW t \in sp.transitions,
           NEW table, BitsAreOwn(sp, table)
    PROVE  \/ /\ sp.entry[t.from] = {} /\ sp.entry[t.to] = {sp.outputs[1]}
              /\ \A term \in t.cond : OutputNames(sp) \subseteq term.off
           \/ sp.entry[t.to] = {} /\ AsksNoOutput(sp, t.cond)
           \/ \E a, b \in StateOutputs(sp) :
                /\ StepAfter(sp, a, b) /\ sp.entry[t.from] = {a} /\ sp.entry[t.to] = {b}
                /\ AsksNoOutput(sp, t.cond) /\ (Holds(t.cond, table) => table[a])
<1>1. \/ /\ sp.entry[t.from] = {} /\ sp.entry[t.to] = {sp.outputs[1]}
         /\ \A term \in t.cond : OutputNames(sp) \subseteq term.off
      \/ sp.entry[t.to] = {} /\ AsksNoOutput(sp, t.cond)
      \/ \E k, m \in 1..Len(sp.outputs) :
           /\ m = k + 1 \/ (k = Len(sp.outputs) /\ m = 1)
           /\ sp.entry[t.from] = {sp.outputs[k]} /\ sp.entry[t.to] = {sp.outputs[m]}
           /\ AsksNoOutput(sp, t.cond)
           /\ \A term \in t.cond : EndBits(sp, sp.outputs[k]) \cap term.on # {}
  BY DEF IsSequence
<1>2. ASSUME NEW k \in 1..Len(sp.outputs), NEW m \in 1..Len(sp.outputs),
             m = k + 1 \/ (k = Len(sp.outputs) /\ m = 1),
             sp.entry[t.from] = {sp.outputs[k]}, sp.entry[t.to] = {sp.outputs[m]},
             AsksNoOutput(sp, t.cond),
             \A term \in t.cond : EndBits(sp, sp.outputs[k]) \cap term.on # {}
      PROVE  \E a, b \in StateOutputs(sp) :
                /\ StepAfter(sp, a, b) /\ sp.entry[t.from] = {a} /\ sp.entry[t.to] = {b}
                /\ AsksNoOutput(sp, t.cond) /\ (Holds(t.cond, table) => table[a])
  <2> DEFINE a == sp.outputs[k]
             b == sp.outputs[m]
  <2>1. a \in StateOutputs(sp) /\ b \in StateOutputs(sp)
    BY DEF IsSequence, OutputNames
  <2>2. StepAfter(sp, a, b)
    BY <1>2 DEF StepAfter
  <2>3. Holds(t.cond, table) => table[a]
    <3> HIDE DEF a
    <3> SUFFICES ASSUME NEW term \in t.cond, \A s \in term.on : table[s] PROVE table[a]
      BY DEF Holds
    <3>1. PICK bit \in EndBits(sp, a) : bit \in term.on
      BY <1>2 DEF a
    <3> QED BY <2>1, <3>1 DEF BitsAreOwn
  <2> HIDE DEF a, b
  <2>4. sp.entry[t.from] = {a} /\ sp.entry[t.to] = {b} /\ AsksNoOutput(sp, t.cond)
    BY <1>2 DEF a, b
  <2> QED BY <2>1, <2>2, <2>3, <2>4
<1> QED BY <1>1, <1>2

(* What turns an output on in a sequence holds for all lines: rest, if it  *)
(* is the first step, or the elapsed step before it.                       *)
LEMMA SequenceEnters ==
    ASSUME NEW sp, IsSequence(sp), NEW before, NEW after, CoilScan(sp, before, after),
           BitsAreOwn(sp, before),
           NEW o \in StateOutputs(sp), after[o], ~before[o]
    PROVE  \E t \in sp.transitions :
              /\ sp.entry[t.to] = {o} /\ Holds(t.cond, before)
              /\ \/ sp.entry[t.from] = {} /\ On(sp, before) = {} /\ o = sp.outputs[1]
                 \/ \E a \in StateOutputs(sp) :
                      sp.entry[t.from] = {a} /\ before[a] /\ StepAfter(sp, a, o)
<1> DEFINE at == AtLine(sp, before, o)
<1>1. PICK t \in TurnOn(sp, o) : Holds(t.cond, at)
  BY LineMoves
<1>2. t \in sp.transitions /\ sp.entry[t.to] = {o} /\ sp.entry[t.to] # {}
  BY OneStateEach DEF IsSequence
<1>3. o \in OutputNames(sp) /\ \A term \in t.cond : term.on \cup term.off \subseteq Names(sp)
  BY <1>2 DEF StateOutputs, IsSequence, StateForEach
<1>4. ASSUME AsksNoOutput(sp, t.cond) PROVE Holds(t.cond, before)
  BY <1>1, <1>3, <1>4, AsksTheSame
<1>5. CASE /\ sp.entry[t.from] = {} /\ sp.entry[t.to] = {sp.outputs[1]}
           /\ \A term \in t.cond : OutputNames(sp) \subseteq term.off
  <2>1. o = sp.outputs[1]
    BY <1>2, <1>5
  <2>2. \A n \in Names(sp) : at[n] = before[n]
    <3>1. \A n : ~Above(sp, n, o)
      BY <2>1, AboveFacts DEF CoilScan, WellNamed
    <3> QED BY <1>3, <3>1, AtLineFacts
  <2> HIDE DEF at
  <2>3. Holds(t.cond, before)
    BY <1>1, <1>3, <2>2 DEF Holds
  <2>4. On(sp, before) = {}
    BY <1>5, <2>3 DEF Holds, On, StateOutputs
  <2> QED BY <1>2, <1>5, <2>1, <2>3, <2>4
<1>6. CASE \E a, b \in StateOutputs(sp) :
             /\ StepAfter(sp, a, b) /\ sp.entry[t.from] = {a} /\ sp.entry[t.to] = {b}
             /\ AsksNoOutput(sp, t.cond) /\ (Holds(t.cond, before) => before[a])
  BY <1>2, <1>4, <1>6
<1> QED BY <1>2, <1>5, <1>6, SequenceKinds

(* A scan of a sequence is a move of its chart.                            *)
LEMMA SequenceMoves ==
    ASSUME NEW sp, IsSequence(sp), NEW before, NEW after, CoilScan(sp, before, after),
           BitsAreOwn(sp, before), IsState(sp, On(sp, before))
    PROVE  Moves(sp, before, after)
<1>1. /\ StateForEach(sp) /\ ValidSpec(sp) /\ IsList(sp.outputs) /\ Len(sp.outputs) > 1
      /\ StateOutputs(sp) \subseteq OutputNames(sp)
      /\ \A t \in sp.transitions : \A term \in t.cond : term.on \cup term.off \subseteq Names(sp)
      /\ \A o, p : ~Locked(sp, o, p)
  BY DEF IsSequence, CoilScan, WellNamed, StateOutputs, StateForEach, Locked
<1>2. ASSUME On(sp, before) = {}, NEW b \in StateOutputs(sp), after[b]
      PROVE  Moves(sp, before, after)
  <2>1. \A p \in StateOutputs(sp) : ~before[p]
    BY <1>2 DEF On
  <2>2. \A p \in StateOutputs(sp) : after[p] => p = sp.outputs[1]
    BY <2>1, SequenceEnters
  <2>3. On(sp, after) = {b}
    BY <1>2, <2>2 DEF On
  <2>4. PICK t \in sp.transitions :
          sp.entry[t.from] = {} /\ sp.entry[t.to] = {b} /\ Holds(t.cond, before)
    BY <1>2, <2>1, SequenceEnters
  <2> QED BY <1>2, <2>3, <2>4 DEF Moves
<1>3. ASSUME NEW a \in StateOutputs(sp), On(sp, before) = {a},
             NEW b \in StateOutputs(sp), b # a, after[b]
      PROVE  Moves(sp, before, after)
  <2>1. before[a] /\ \A p \in StateOutputs(sp) : p # a => ~before[p]
    BY <1>3 DEF On
  <2>2. ASSUME NEW c \in StateOutputs(sp), c # a, after[c]
        PROVE  StepAfter(sp, a, c) /\ \E t \in sp.transitions :
                 sp.entry[t.from] = {a} /\ sp.entry[t.to] = {c} /\ Holds(t.cond, before)
    <3>1. PICK t \in sp.transitions :
            /\ sp.entry[t.to] = {c} /\ Holds(t.cond, before)
            /\ \/ sp.entry[t.from] = {} /\ On(sp, before) = {} /\ c = sp.outputs[1]
               \/ \E p \in StateOutputs(sp) :
                    sp.entry[t.from] = {p} /\ before[p] /\ StepAfter(sp, p, c)
      BY <2>1, <2>2, SequenceEnters
    <3> QED BY <1>3, <2>1, <3>1
  <2>3. PICK t \in sp.transitions :
          sp.entry[t.from] = {a} /\ sp.entry[t.to] = {b} /\ Holds(t.cond, before)
    BY <1>3, <2>2
  <2>4. AsksNoOutput(sp, t.cond)
    BY <2>3, SequenceKinds
  <2>5. Holds(t.cond, AtLine(sp, before, a))
    BY <1>1, <2>3, <2>4, AsksTheSame
  <2>6. t \in TurnOff(sp, a)
    BY <1>1, <1>3, <2>3, OneStateEach
  <2>7. ~after[a]
    BY <2>5, <2>6, LineMoves
  <2>8. \A c \in StateOutputs(sp) : after[c] => c = b
    BY <1>1, <1>3, <2>2, <2>7, NextIsOne
  <2>9. On(sp, after) = {b}
    BY <1>3, <2>8 DEF On
  <2> QED BY <1>3, <2>3, <2>9 DEF Moves
<1>4. ASSUME NEW a \in StateOutputs(sp), On(sp, before) = {a}, On(sp, after) = {}
      PROVE  Moves(sp, before, after)
  <2>1. /\ before[a] /\ \A p \in StateOutputs(sp) : p # a => ~before[p]
        /\ \A p \in StateOutputs(sp) : ~after[p]
    BY <1>4 DEF On
  <2>2. PICK t \in TurnOff(sp, a) : Holds(t.cond, AtLine(sp, before, a))
    BY <1>1, <2>1, LineMoves
  <2>3. t \in sp.transitions /\ sp.entry[t.from] = {a} /\ sp.entry[t.to] # {a}
    BY <1>1, OneStateEach
  <2>4. AsksNoOutput(sp, t.cond)
    BY <2>3, SequenceKinds
  <2>5. Holds(t.cond, before)
    BY <1>1, <2>2, <2>3, <2>4, AsksTheSame
  <2>6. CASE sp.entry[t.to] = {}
    BY <1>4, <2>3, <2>5, <2>6 DEF Moves
  <2>7. ASSUME NEW c \in StateOutputs(sp), StepAfter(sp, a, c), sp.entry[t.to] = {c}
        PROVE  Moves(sp, before, after)
    <3>1. c # a /\ ~before[c]
      BY <1>1, <2>1, <2>7, NextIsOne
    <3>2. Holds(t.cond, AtLine(sp, before, c))
      BY <1>1, <2>3, <2>4, <2>5, AsksTheSame
    <3>3. t \in TurnOn(sp, c)
      BY <1>1, <2>3, <2>7, OneStateEach
    <3>4. PICK u \in TurnOff(sp, c) : Holds(u.cond, AtLine(sp, before, c))
      BY <1>1, <2>1, <3>2, <3>3, LineMoves
    <3>5. u \in sp.transitions /\ sp.entry[u.from] = {c} /\ sp.entry[u.to] # {c}
      BY <1>1, OneStateEach
    <3>6. AsksNoOutput(sp, u.cond)
      BY <3>5, SequenceKinds
    <3>7. Holds(u.cond, before)
      BY <1>1, <3>4, <3>5, <3>6, AsksTheSame
    <3>8. sp.entry[u.to] = {}
      BY <3>1, <3>5, <3>7, SequenceKinds
    <3>9. t.to = u.from
      BY <1>1, <2>3, <2>7, <3>5 DEF StateForEach
    <3> QED BY <1>4, <2>3, <2>5, <3>5, <3>7, <3>8, <3>9 DEF Moves
  <2> QED BY <2>3, <2>6, <2>7, SequenceKinds
<1>5. CASE On(sp, before) = {}
  <2>1. CASE On(sp, after) = {}
    BY <1>5, <2>1 DEF Moves
  <2>2. CASE On(sp, after) # {}
    <3>1. PICK b \in StateOutputs(sp) : after[b]
      BY <2>2 DEF On
    <3> QED BY <1>2, <1>5, <3>1
  <2> QED BY <2>1, <2>2
<1>6. ASSUME NEW a \in StateOutputs(sp), On(sp, before) = {a} PROVE Moves(sp, before, after)
  <2>1. CASE On(sp, after) \in {{}, {a}}
    BY <1>4, <1>6, <2>1 DEF Moves
  <2>2. CASE On(sp, after) \notin {{}, {a}}
    <3>1. PICK b \in StateOutputs(sp) : b # a /\ after[b]
      <4>1. PICK b \in On(sp, after) : b # a
        BY <2>2
      <4> QED BY <4>1 DEF On
    <3> QED BY <1>3, <1>6, <3>1
  <2> QED BY <2>1, <2>2
<1> QED BY <1>1, <1>5, <1>6, OneStateEach

----------------------------------------------------------------------------
(* What the conditions of the library's transitions come to.               *)
LEMMA HoldsCases ==
    ASSUME NEW v
    PROVE  /\ \A on, off : Holds(When(on, off), v) <=> (\A s \in on : v[s]) /\ \A s \in off : ~v[s]
           /\ \A s : Holds(Is(s), v) <=> v[s]
           /\ \A c, d : Holds(c \cup d, v) <=> Holds(c, v) \/ Holds(d, v)
<1>1. ASSUME NEW on, NEW off
      PROVE  Holds(When(on, off), v) <=> (\A s \in on : v[s]) /\ \A s \in off : ~v[s]
  <2> DEFINE term == [on |-> on, off |-> off]
  <2>1. term.on = on /\ term.off = off /\ When(on, off) = {term}
    BY DEF When
  <2> HIDE DEF term
  <2> QED BY <2>1 DEF Holds
<1>2. ASSUME NEW s PROVE Holds(Is(s), v) <=> v[s]
  <2> DEFINE term == [on |-> {s}, off |-> {}]
  <2>1. term.on = {s} /\ term.off = {} /\ Is(s) = {term}
    BY DEF Is
  <2> HIDE DEF term
  <2> QED BY <2>1 DEF Holds
<1>3. ASSUME NEW c, NEW d PROVE Holds(c \cup d, v) <=> Holds(c, v) \/ Holds(d, v)
  BY DEF Holds
<1> QED BY <1>1, <1>2, <1>3

(* The lines of the starter: main, star and delta in this order.           *)
LEMMA StarterLines ==
    ASSUME NEW sp, NEW before, NEW after, CoilScan(sp, before, after),
           NEW main, NEW star, NEW delta, NEW start, NEW stop, NEW run,
           run \in Names(sp), Starter(sp, main, star, delta, start, stop, run)
    PROVE  /\ main # star /\ main # delta /\ star # delta
           /\ after[main] <=> /\ before[main] \/ (before[start] /\ ~before[run])
                              /\ ~before[stop]
           /\ after[star] <=> /\ before[star] \/ ((before[start] \/ after[main]) /\ ~before[run])
                              /\ ~(before[run] /\ after[main])
                              /\ ~before[stop] /\ ~before[delta]
           /\ after[delta] <=> /\ before[delta] \/ (before[run] /\ after[main])
                               /\ ~before[stop] /\ ~after[star]
<1> DEFINE t1 == Tr("IDLE", "STAR", When({start}, {stop, run}) \cup When({main}, {stop, run}))
           t2 == Tr("STAR", "DELTA", When({run, main}, {stop}))
           t3 == Tr("DELTA", "IDLE", Is(stop))
           t4 == Tr("STAR", "IDLE", Is(stop))
           at(o) == AtLine(sp, before, o)
<1>1. /\ ValidSpec(sp) /\ IsList(sp.outputs) /\ OutputNames(sp) \subseteq Names(sp)
      /\ OutputNames(sp) = {main, star, delta}
      /\ sp.inputs \subseteq Names(sp) /\ sp.inputs \cap OutputNames(sp) = {}
      /\ run \notin OutputNames(sp)
  <2>1. OutputNames(sp) = {main, star, delta}
    BY DEF Starter, OutputNames
  <2>2. run \notin OutputNames(sp)
    <3>1. PICK i \in 1..Len(sp.timers) : run = Bit(sp.timers[i].name)
      BY DEF Starter, EndBits
    <3> QED BY <3>1, CallsAreAList DEF CoilScan, WellNamed, BlockNames
  <2>3. sp.inputs \cap OutputNames(sp) = {}
    BY DEF CoilScan, WellNamed, ValidSpec, OutputNames
  <2> QED BY <2>1, <2>2, <2>3 DEF CoilScan, WellNamed, Names
<1>2. main # star /\ main # delta /\ star # delta
  <2>1. \A i, j \in 1..3 : <<main, star, delta>>[i] = <<main, star, delta>>[j] => i = j
    BY <1>1 DEF ValidSpec, Starter
  <2> QED BY <2>1
<1>3. Above(sp, main, star) /\ Above(sp, main, delta) /\ Above(sp, star, delta)
  BY DEF Above, Starter
<1>4. /\ ~Above(sp, main, main) /\ ~Above(sp, star, main) /\ ~Above(sp, delta, main)
      /\ ~Above(sp, star, star) /\ ~Above(sp, delta, star) /\ ~Above(sp, delta, delta)
  BY <1>1, <1>3, AboveFacts
<1>5. /\ \A o \in OutputNames(sp), n \in {start, stop, run} : at(o)[n] = before[n]
      /\ at(main)[main] = before[main] /\ at(main)[star] = before[star] /\ at(main)[delta] = before[delta]
      /\ at(star)[main] = after[main] /\ at(star)[star] = before[star] /\ at(star)[delta] = before[delta]
      /\ at(delta)[main] = after[main] /\ at(delta)[star] = after[star]
      /\ at(delta)[delta] = before[delta]
  BY <1>1, <1>3, <1>4, AtLineFacts DEF Starter
<1>6. ASSUME NEW o \in OutputNames(sp)
      PROVE  /\ Holds(t1.cond, at(o)) <=>
                  (before[start] \/ at(o)[main]) /\ ~before[stop] /\ ~before[run]
             /\ Holds(t2.cond, at(o)) <=> before[run] /\ at(o)[main] /\ ~before[stop]
             /\ Holds(t3.cond, at(o)) <=> before[stop]
             /\ Holds(t4.cond, at(o)) <=> before[stop]
  <2> DEFINE v == at(o)
  <2>1. v[start] = before[start] /\ v[stop] = before[stop] /\ v[run] = before[run]
    BY <1>5
  <2> HIDE DEF v
  <2>2. Holds(t1.cond, v) <=> (v[start] \/ v[main]) /\ ~v[stop] /\ ~v[run]
    BY HoldsCases DEF Tr
  <2>3. Holds(t2.cond, v) <=> v[run] /\ v[main] /\ ~v[stop]
    BY HoldsCases DEF Tr
  <2>4. (Holds(t3.cond, v) <=> v[stop]) /\ (Holds(t4.cond, v) <=> v[stop])
    BY HoldsCases DEF Tr
  <2> QED BY <2>1, <2>2, <2>3, <2>4 DEF v
<1>7. /\ t1.from = "IDLE" /\ t1.to = "STAR" /\ t2.from = "STAR" /\ t2.to = "DELTA"
      /\ t3.from = "DELTA" /\ t3.to = "IDLE" /\ t4.from = "STAR" /\ t4.to = "IDLE"
      /\ sp.transitions = {t1, t2, t3, t4}
  BY DEF Tr, Starter
<1> HIDE DEF t1, t2, t3, t4
<1>8. /\ OnStates(sp, main) = {"STAR", "DELTA"}
      /\ OnStates(sp, star) = {"STAR"} /\ OnStates(sp, delta) = {"DELTA"}
  BY <1>2 DEF OnStates, Starter
<1>9. /\ TurnOn(sp, main) = {t1, t2} /\ TurnOff(sp, main) = {t3, t4}
      /\ TurnOn(sp, star) = {t1} /\ TurnOff(sp, star) = {t2, t4}
      /\ TurnOn(sp, delta) = {t2} /\ TurnOff(sp, delta) = {t3}
  BY <1>7, <1>8 DEF TurnOn, TurnOff
<1>10. /\ \A p : ~Locked(sp, main, p)
       /\ \A p : Locked(sp, star, p) <=> p = delta
       /\ \A p : Locked(sp, delta, p) <=> p = star
  BY <1>2 DEF Locked, Starter
<1>11. after[main] <=> /\ before[main] \/ Holds(t1.cond, at(main)) \/ Holds(t2.cond, at(main))
                       /\ ~Holds(t3.cond, at(main)) /\ ~Holds(t4.cond, at(main))
  <2> HIDE DEF at
  <2> QED BY <1>9, <1>10, LineMoves DEF Starter, at
<1>12. after[star] <=> /\ before[star] \/ Holds(t1.cond, at(star))
                       /\ ~Holds(t2.cond, at(star)) /\ ~Holds(t4.cond, at(star))
                       /\ ~at(star)[delta]
  BY <1>9, <1>10, LineMoves DEF Starter
<1>13. after[delta] <=> /\ before[delta] \/ Holds(t2.cond, at(delta))
                        /\ ~Holds(t3.cond, at(delta)) /\ ~at(delta)[star]
  BY <1>9, <1>10, LineMoves DEF Starter
<1> HIDE DEF at
<1>14. after[main] <=> /\ before[main] \/ (before[start] /\ ~before[run])
                       /\ ~before[stop]
  BY <1>1, <1>5, <1>6, <1>11
<1>15. after[star] <=> /\ before[star] \/ ((before[start] \/ after[main]) /\ ~before[run])
                       /\ ~(before[run] /\ after[main])
                       /\ ~before[stop] /\ ~before[delta]
  BY <1>1, <1>5, <1>6, <1>12
<1>16. after[delta] <=> /\ before[delta] \/ (before[run] /\ after[main])
                        /\ ~before[stop] /\ ~after[star]
  BY <1>1, <1>5, <1>6, <1>13
<1> QED BY <1>2, <1>14, <1>15, <1>16

(* A scan of the starter is a move of its chart, and does not leave the    *)
(* star contactor ON when its time is over.                                *)
LEMMA StarterMoves ==
    ASSUME NEW sp, NEW before, NEW after, CoilScan(sp, before, after),
           NEW main, NEW star, NEW delta, NEW start, NEW stop, NEW run,
           run \in Names(sp), Starter(sp, main, star, delta, start, stop, run),
           BitsAreOwn(sp, before), IsState(sp, On(sp, before))
    PROVE  /\ Moves(sp, before, after)
           /\ before[run] => ~after[star]
<1> DEFINE t1 == Tr("IDLE", "STAR", When({start}, {stop, run}) \cup When({main}, {stop, run}))
           t2 == Tr("STAR", "DELTA", When({run, main}, {stop}))
           t3 == Tr("DELTA", "IDLE", Is(stop))
           t4 == Tr("STAR", "IDLE", Is(stop))
<1>1. /\ main # star /\ main # delta /\ star # delta
      /\ after[main] <=> /\ before[main] \/ (before[start] /\ ~before[run])
                         /\ ~before[stop]
      /\ after[star] <=> /\ before[star] \/ ((before[start] \/ after[main]) /\ ~before[run])
                         /\ ~(before[run] /\ after[main])
                         /\ ~before[stop] /\ ~before[delta]
      /\ after[delta] <=> /\ before[delta] \/ (before[run] /\ after[main])
                          /\ ~before[stop] /\ ~after[star]
  BY StarterLines
<1>2. before[run] => before[star]
  BY DEF Starter, BitsAreOwn
<1>3. StateOutputs(sp) = {main, star, delta}
  <2>1. OutputNames(sp) = {main, star, delta}
    BY DEF Starter, OutputNames
  <2> QED BY <2>1 DEF Starter, StateOutputs
<1>4. sp.entry["IDLE"] = {} /\ sp.entry["STAR"] = {main, star} /\ sp.entry["DELTA"] = {main, delta}
      /\ DOMAIN sp.entry = {"IDLE", "STAR", "DELTA"}
  BY DEF Starter
<1>5. /\ t1.from = "IDLE" /\ t1.to = "STAR" /\ t2.from = "STAR" /\ t2.to = "DELTA"
      /\ t3.from = "DELTA" /\ t3.to = "IDLE" /\ t4.from = "STAR" /\ t4.to = "IDLE"
      /\ t1 \in sp.transitions /\ t2 \in sp.transitions
      /\ t3 \in sp.transitions /\ t4 \in sp.transitions
  BY DEF Tr, Starter
<1>6. /\ Holds(t1.cond, before) <=> (before[start] \/ before[main]) /\ ~before[stop] /\ ~before[run]
      /\ Holds(t2.cond, before) <=> before[run] /\ before[main] /\ ~before[stop]
      /\ Holds(t3.cond, before) <=> before[stop]
      /\ Holds(t4.cond, before) <=> before[stop]
  BY HoldsCases DEF Tr
<1> HIDE DEF t1, t2, t3, t4
<1>7. /\ \/ ~before[main] /\ ~before[star] /\ ~before[delta]
         \/ before[main] /\ before[star] /\ ~before[delta]
         \/ before[main] /\ ~before[star] /\ before[delta]
  BY <1>1, <1>3, <1>4 DEF IsState, On
<1>8. \A table :
        /\ ~table[main] /\ ~table[star] /\ ~table[delta] => On(sp, table) = sp.entry["IDLE"]
        /\ table[main] /\ table[star] /\ ~table[delta] => On(sp, table) = sp.entry["STAR"]
        /\ table[main] /\ ~table[star] /\ table[delta] => On(sp, table) = sp.entry["DELTA"]
  BY <1>3, <1>4 DEF On
<1>9. before[run] => ~after[star]
  BY <1>1, <1>2, <1>7
<1>10. CASE ~before[main] /\ ~before[star] /\ ~before[delta]
  <2>1. CASE before[start] /\ ~before[stop]
    <3>1. after[main] /\ after[star] /\ ~after[delta] /\ Holds(t1.cond, before)
      BY <1>1, <1>2, <1>6, <1>10, <2>1
    <3> QED BY <1>5, <1>8, <1>9, <1>10, <3>1 DEF Moves
  <2>2. CASE ~(before[start] /\ ~before[stop])
    <3>1. ~after[main] /\ ~after[star] /\ ~after[delta]
      BY <1>1, <1>2, <1>10, <2>2
    <3> QED BY <1>8, <1>9, <1>10, <3>1 DEF Moves
  <2> QED BY <2>1, <2>2
<1>11. CASE before[main] /\ before[star] /\ ~before[delta]
  <2>1. CASE before[stop]
    <3>1. ~after[main] /\ ~after[star] /\ ~after[delta] /\ Holds(t4.cond, before)
      BY <1>1, <1>6, <2>1
    <3> QED BY <1>5, <1>8, <1>9, <1>11, <3>1 DEF Moves
  <2>2. CASE ~before[stop] /\ before[run]
    <3>1. after[main] /\ ~after[star] /\ after[delta] /\ Holds(t2.cond, before)
      BY <1>1, <1>6, <1>11, <2>2
    <3> QED BY <1>5, <1>8, <1>9, <1>11, <3>1 DEF Moves
  <2>3. CASE ~before[stop] /\ ~before[run]
    <3>1. after[main] /\ after[star] /\ ~after[delta]
      BY <1>1, <1>11, <2>3
    <3> QED BY <1>8, <1>9, <1>11, <3>1 DEF Moves
  <2> QED BY <2>1, <2>2, <2>3
<1>12. CASE before[main] /\ ~before[star] /\ before[delta]
  <2>1. CASE before[stop]
    <3>1. ~after[main] /\ ~after[star] /\ ~after[delta] /\ Holds(t3.cond, before)
      BY <1>1, <1>6, <2>1
    <3> QED BY <1>5, <1>8, <1>9, <1>12, <3>1 DEF Moves
  <2>2. CASE ~before[stop]
    <3>1. after[main] /\ ~after[star] /\ after[delta]
      BY <1>1, <1>2, <1>12, <2>2
    <3> QED BY <1>8, <1>9, <1>12, <3>1 DEF Moves
  <2> QED BY <2>1, <2>2
<1> QED BY <1>7, <1>9, <1>10, <1>11, <1>12

----------------------------------------------------------------------------
(* The fields of a block; the blocks of a state of the engine. *)
IsBlock(b) == DOMAIN b = {"acc", "q", "run", "prev"}

HasBlocks(sp, st) ==
    /\ st = [table |-> st.table, blocks |-> st.blocks]
    /\ DOMAIN st.table = Names(sp)
    /\ DOMAIN st.blocks = BlockNames(sp) /\ \A b \in BlockNames(sp) : IsBlock(st.blocks[b])

(* One scan of a block leaves a block, and a TON whose bit is ON has its   *)
(* input ON.                                                               *)
LEMMA BlockSteps ==
    ASSUME NEW call, NEW b, IsBlock(b), NEW table, NEW period
    PROVE  /\ IsBlock(ScanBlock(call, b, table, period))
           /\ call.kind = "TON" /\ ScanBlock(call, b, table, period).q => Holds(call.in, table)
<1>1. ASSUME NEW now, NEW p
      PROVE  /\ IsBlock(ScanTimer("TON", b, p, now, period))
             /\ IsBlock(ScanTimer("TOF", b, p, now, period))
             /\ IsBlock(ScanTimer("TP", b, p, now, period))
             /\ ScanTimer("TON", b, p, now, period).q => now
  <2>1. \A x, y : IsBlock([b EXCEPT !.acc = x, !.q = y]) /\ [b EXCEPT !.acc = x, !.q = y].q = y
    BY DEF IsBlock
  <2>2. \A x, y, z : IsBlock([b EXCEPT !.acc = x, !.run = y, !.q = z])
    BY DEF IsBlock
  <2>3. \A x, y, z : IsBlock([b EXCEPT !.acc = x, !.q = z, !.run = y])
    BY DEF IsBlock
  <2>4. \A c : IsBlock(c) => IsBlock([c EXCEPT !.prev = now]) /\ [c EXCEPT !.prev = now].q = c.q
    BY DEF IsBlock
  <2>5. IsBlock(ScanTon(b, p, now, period)) /\ (ScanTon(b, p, now, period).q => now)
    BY <2>1 DEF ScanTon
  <2>6. IsBlock(ScanTof(b, p, now, period)) /\ IsBlock(ScanTp(b, p, now, period))
    BY <2>1, <2>2, <2>3 DEF ScanTof, ScanTp
  <2> DEFINE ton == ScanTon(b, p, now, period)
             tof == ScanTof(b, p, now, period)
             tp == ScanTp(b, p, now, period)
  <2>7. /\ ScanTimer("TON", b, p, now, period) = [ton EXCEPT !.prev = now]
        /\ ScanTimer("TOF", b, p, now, period) = [tof EXCEPT !.prev = now]
        /\ ScanTimer("TP", b, p, now, period) = [tp EXCEPT !.prev = now]
    BY DEF ScanTimer
  <2> HIDE DEF ton, tof, tp
  <2>8. IsBlock([ton EXCEPT !.prev = now]) /\ [ton EXCEPT !.prev = now].q = ton.q
    BY <2>4, <2>5 DEF ton
  <2>9. IsBlock([tof EXCEPT !.prev = now]) /\ IsBlock([tp EXCEPT !.prev = now])
    BY <2>4, <2>6 DEF tof, tp
  <2> QED BY <2>5, <2>7, <2>8, <2>9 DEF ton
<1>2. ASSUME NEW kd, NEW p, NEW cu, NEW reset PROVE IsBlock(ScanCounter(kd, b, p, cu, reset))
  <2>1. \A x, y, z : IsBlock([b EXCEPT !.acc = x, !.prev = y, !.q = z])
    BY DEF IsBlock
  <2> QED BY <2>1 DEF ScanCounter
<1> QED BY <1>1, <1>2 DEF ScanBlock, TimerKinds

(* The block calls leave the blocks blocks, and the bit of a step's timer  *)
(* ON only if the step is: no call after the timer's own writes that bit.  *)
LEMMA BlocksRunOn ==
    ASSUME NEW sp, WellNamed(sp), NEW st, HasBlocks(sp, st), NEW period
    PROVE  LET end == ScanBlocks(sp, st, period)
           IN  HasBlocks(sp, end) /\ BitsAreOwn(sp, end.table)
<1> DEFINE N == Len(FbCalls(sp))
           Ends(j, o) == /\ sp.timers[j].kind = "TON" /\ sp.timers[j].on = Is(o)
                         /\ \A k \in 1..N : Bit(FbCalls(sp)[k].name) = Bit(sp.timers[j].name) => k = j
           Own(i, table) == \A o \in StateOutputs(sp), j \in 1..Len(sp.timers) :
                              Ends(j, o) /\ j <= i /\ table[Bit(sp.timers[j].name)] => table[o]
<1>1. N \in Nat /\ Len(sp.timers) \in Nat
  BY CallsAreAList DEF WellNamed, IsList
<1>2. PICK f : /\ f = [i \in 0..N |-> IF i = 0 THEN st ELSE BlockCall(sp, i, f[i - 1], period)]
               /\ ScanBlocks(sp, st, period) = f[N]
  BY <1>1, BlocksRun
<1> DEFINE Kept(i) == HasBlocks(sp, f[i]) /\ Own(i, f[i].table)
           S == {i \in Nat : i <= N => Kept(i)}
<1>3. 0 \in S
  <2>1. f[0] = st
    BY <1>1, <1>2
  <2>2. \A j \in 1..Len(sp.timers) : ~(j <= 0)
    BY <1>1
  <2> QED BY <2>1, <2>2
<1>4. ASSUME NEW i \in Nat, i \in S PROVE i + 1 \in S
  <2> SUFFICES ASSUME i + 1 <= N PROVE Kept(i + 1)
    OBVIOUS
  <2> DEFINE m == i + 1
             call == FbCalls(sp)[m]
             old == f[i].table
             bit == Bit(call.name)
             stepped == ScanBlock(call, f[i].blocks[call.name], old, period)
  <2>1. m \in 1..N /\ m \in 0..N /\ m # 0 /\ m - 1 = i /\ m = i + 1 /\ Kept(i)
    BY <1>1, <1>4
  <2> HIDE DEF m
  <2>2. f[m] = BlockCall(sp, m, f[i], period)
    BY <1>2, <2>1
  <2>3. call.name \in BlockNames(sp) /\ bit \in Names(sp) /\ bit \notin OutputNames(sp)
    BY <2>1 DEF WellNamed, BlockNames, Names
  <2>4. /\ f[m] = [table |-> [old EXCEPT ![bit] = stepped.q],
                   blocks |-> [f[i].blocks EXCEPT ![call.name] = stepped]]
    BY <2>2 DEF BlockCall
  <2>5. /\ IsBlock(stepped)
        /\ call.kind = "TON" /\ stepped.q => Holds(call.in, old)
    BY <2>1, <2>3, BlockSteps DEF HasBlocks
  <2>6. HasBlocks(sp, f[m])
    <3> HIDE DEF stepped, bit, call
    <3> QED BY <2>1, <2>3, <2>4, <2>5 DEF HasBlocks
  <2>7. f[m].table = [old EXCEPT ![bit] = stepped.q] /\ DOMAIN old = Names(sp)
    BY <2>1, <2>4 DEF HasBlocks
  <2>8. ASSUME NEW o \in StateOutputs(sp), NEW j \in 1..Len(sp.timers), Ends(j, o), j <= m,
               f[m].table[Bit(sp.timers[j].name)]
        PROVE  f[m].table[o]
    <3>1. /\ j \in 1..N /\ FbCalls(sp)[j].name = sp.timers[j].name
          /\ FbCalls(sp)[j].kind = "TON" /\ FbCalls(sp)[j].in = Is(o)
      BY <2>8, CallsAreAList DEF WellNamed
    <3>2. f[m].table[o] = old[o]
      BY <2>3, <2>7 DEF StateOutputs, Names
    <3>3. CASE j = m
      <4>1. Holds(Is(o), old)
        <5>1. Bit(sp.timers[j].name) = bit
          BY <3>1, <3>3
        <5>2. stepped.q
          BY <2>3, <2>7, <2>8, <5>1
        <5> QED BY <2>5, <3>1, <3>3, <5>2
      <4> QED BY <3>2, <4>1, HoldsCases
    <3>4. CASE j # m
      <4>1. j <= i
        BY <1>1, <2>1, <2>8, <3>4
      <4>2. Bit(sp.timers[j].name) # bit
        BY <2>1, <2>8, <3>4
      <4>3. Bit(sp.timers[j].name) \in Names(sp)
        BY <3>1 DEF BlockNames, Names
      <4>4. old[Bit(sp.timers[j].name)]
        BY <2>7, <2>8, <4>2, <4>3
      <4> QED BY <2>1, <2>8, <3>2, <4>1, <4>4
    <3> QED BY <3>3, <3>4
  <2>9. Kept(m)
    BY <2>6, <2>8
  <2> QED BY <2>9 DEF m
<1>5. N \in S
  <2> HIDE DEF S, N
  <2> QED BY <1>1, <1>3, <1>4, SetInduction
<1>6. Kept(N)
  BY <1>1, <1>5
<1>7. ASSUME NEW o \in StateOutputs(sp), NEW bit \in EndBits(sp, o), f[N].table[bit]
      PROVE  f[N].table[o]
  <2>1. PICK j \in 1..Len(sp.timers) : Ends(j, o) /\ bit = Bit(sp.timers[j].name)
    BY DEF EndBits
  <2>2. j <= N
    BY <1>1, CallsAreAList DEF WellNamed
  <2> QED BY <1>6, <1>7, <2>1, <2>2
<1> QED BY <1>2, <1>6, <1>7 DEF BitsAreOwn

(* A scan of a program of one of the shapes is a move of its chart and     *)
(* ends in one of its states.                                              *)
LEMMA ShapesMove ==
    ASSUME NEW sp, IsSelector(sp) \/ IsSequence(sp) \/ IsStarDelta(sp),
           NEW before, NEW after, CoilScan(sp, before, after),
           BitsAreOwn(sp, before), IsState(sp, On(sp, before))
    PROVE  /\ Moves(sp, before, after) /\ IsState(sp, On(sp, after))
           /\ IsStarDelta(sp) =>
                \A i \in 1..Len(sp.timers), o \in OutputNames(sp) :
                    sp.timers[i].on = Is(o) /\ before[Bit(sp.timers[i].name)] => ~after[o]
<1>1. ASSUME IsStarDelta(sp)
      PROVE  /\ Moves(sp, before, after)
             /\ \A t \in sp.transitions : t.to \in DOMAIN sp.entry
             /\ \A i \in 1..Len(sp.timers), o \in OutputNames(sp) :
                  sp.timers[i].on = Is(o) /\ before[Bit(sp.timers[i].name)] => ~after[o]
  <2>1. PICK main \in StateOutputs(sp), star \in StateOutputs(sp), delta \in StateOutputs(sp),
             start \in sp.inputs, stop \in sp.inputs, run \in Names(sp) :
          Starter(sp, main, star, delta, start, stop, run)
    BY <1>1 DEF IsStarDelta
  <2>2. Moves(sp, before, after) /\ (before[run] => ~after[star])
    BY <2>1, StarterMoves
  <2>3. \A t \in sp.transitions : t.to \in DOMAIN sp.entry
    BY <2>1 DEF Starter, Tr
  <2>4. ASSUME NEW i \in 1..Len(sp.timers), NEW o \in OutputNames(sp),
               sp.timers[i].on = Is(o), before[Bit(sp.timers[i].name)]
        PROVE  ~after[o]
    <3>1. PICK j \in 1..Len(sp.timers) :
            /\ sp.timers[j].on = Is(star) /\ run = Bit(sp.timers[j].name)
            /\ \A k \in 1..Len(FbCalls(sp)) :
                 Bit(FbCalls(sp)[k].name) = Bit(sp.timers[j].name) => k = j
      BY <2>1 DEF Starter, EndBits
    <3>2. i \in 1..Len(FbCalls(sp)) /\ FbCalls(sp)[i].name = sp.timers[i].name
      BY CallsAreAList DEF CoilScan, WellNamed
    <3>3. i = j
      BY <2>1, <3>1, <3>2 DEF Starter
    <3>4. Is(o) = Is(star)
      BY <2>4, <3>1, <3>3
    <3>5. o = star
      <4> DEFINE v == [n \in {o, star} |-> n = star]
      <4>1. Holds(Is(star), v) /\ (Holds(Is(o), v) => o = star)
        BY HoldsCases
      <4> HIDE DEF v
      <4> QED BY <3>4, <4>1
    <3>6. before[run]
      BY <2>1, <2>4 DEF Starter
    <3> QED BY <2>2, <3>5, <3>6
  <2> QED BY <2>2, <2>3, <2>4
<1>2. ASSUME IsSelector(sp) \/ IsSequence(sp)
      PROVE  /\ Moves(sp, before, after)
             /\ \A t \in sp.transitions : t.to \in DOMAIN sp.entry
  <2>1. StateForEach(sp)
    BY <1>2 DEF IsSelector, IsSequence
  <2> QED BY <1>2, <2>1, SelectorMoves, SequenceMoves, OneStateEach
<1>3. /\ Moves(sp, before, after)
      /\ \A t \in sp.transitions : t.to \in DOMAIN sp.entry
  BY <1>1, <1>2
<1>4. IsState(sp, On(sp, after))
  <2>1. CASE On(sp, after) = On(sp, before)
    BY <2>1
  <2>2. CASE \E u \in sp.transitions : sp.entry[u.to] = On(sp, after)
    BY <1>3, <2>2 DEF IsState
  <2> QED BY <1>3, <2>1, <2>2 DEF Moves
<1> QED BY <1>1, <1>3, <1>4

(* What a scan leaves behind of a charted program: the outputs of one      *)
(* state of its chart.                                                     *)
ChartInv ==
    /\ NamesInv /\ HasBlocks(spec, state)
    /\ spec \in Charted => IsState(spec, On(spec, state.table))

(* A scan of a charted program leaves the outputs of a state, reached      *)
(* along the coil lines from those of the scan before.                     *)
LEMMA ScanKeepsChart ==
    ASSUME ChartInv, Scan
    PROVE  /\ ChartInv'
           /\ CoilScan(spec, sensed', state'.table) /\ On(spec, sensed') = On(spec, state.table)
           /\ BitsAreOwn(spec, sensed')
<1>1. /\ NamesInv' /\ spec' = spec
      /\ WellNamed(spec) /\ Begins(sensed') /\ state'.table = ScanCoils(spec, sensed')
  BY ScanIsCoils DEF ChartInv
<1>2. PICK on \in SUBSET spec.inputs : ScanUnder(on)
  BY DEF Scan
<1> DEFINE begin == [state EXCEPT !.table = Sense(spec, state.table, on)]
           mid == ScanBlocks(spec, begin, ScanTime)
<1>3. state' = [mid EXCEPT !.table = ScanCoils(spec, @)] /\ sensed' = mid.table
  BY <1>2 DEF ScanUnder, StScan
<1>4. HasBlocks(spec, begin)
  BY DEF ChartInv, HasBlocks, Sense
<1> HIDE DEF begin
<1>5. HasBlocks(spec, mid) /\ BitsAreOwn(spec, mid.table)
  BY <1>1, <1>4, BlocksRunOn
<1> HIDE DEF mid
<1>6. CoilScan(spec, sensed', state'.table)
  BY <1>1 DEF Begins, CoilScan, ChartInv, NamesInv
<1>7. On(spec, sensed') = On(spec, state.table)
  <2>1. StateOutputs(spec) \subseteq OutputNames(spec)
    BY DEF StateOutputs
  <2> QED BY <1>1, <2>1 DEF On, Begins
<1>8. HasBlocks(spec, state')
  <2>1. DOMAIN state'.table = Names(spec)
    BY <1>1, CoilsKeep DEF Begins, WellNamed
  <2>2. state' = [table |-> state'.table, blocks |-> mid.blocks]
    BY <1>3, <1>5 DEF HasBlocks
  <2> QED BY <1>5, <2>1, <2>2 DEF HasBlocks
<1>9. spec \in Charted => IsState(spec, On(spec, state'.table))
  BY <1>3, <1>5, <1>6, <1>7, ChartShapes, ShapesMove DEF ChartInv
<1>10. ChartInv'
  BY <1>1, <1>8, <1>9 DEF ChartInv
<1> QED BY <1>3, <1>5, <1>6, <1>7, <1>10

(* At power on no output is ON, which is the state of rest.                *)
LEMMA ChartStarts ==
    ASSUME Init
    PROVE  ChartInv /\ On(spec, state.table) = {}
<1>1. /\ NamesInv /\ Image = {} /\ state = PowerOn(spec)
      /\ \A n \in Names(spec) : ~state.table[n]
  BY PowerOnNames DEF Init
<1>2. On(spec, state.table) = {}
  BY <1>1 DEF On, StateOutputs, Image, OnOutputs
<1>3. HasBlocks(spec, state)
  <2>1. IsBlock(Fresh)
    BY DEF IsBlock, Fresh
  <2> QED BY <1>1, <2>1 DEF HasBlocks, PowerOn, AllOff
<1> QED BY <1>1, <1>2, <1>3 DEF ChartInv, IsState

(* Every program of the library implements the state machine it was made   *)
(* of: its outputs are those of one state, and change along transitions    *)
(* whose conditions hold, although no coil line knows a state.             *)
THEOREM ProgramsFollowTheirCharts == Spec => RefinesChart
<1> DEFINE driven == IF spec \in Charted THEN Image \cap StateDriven ELSE {}
<1>1. Init => ChartInv /\ Chart!ChartInit
  <2> SUFFICES ASSUME Init PROVE ChartInv /\ Chart!ChartInit
    OBVIOUS
  <2> QED BY PowerOnNames, ChartStarts DEF Chart!ChartInit
<1>2. ChartInv /\ [Scan]_vars => ChartInv' /\ [Chart!ChartNext]_(Chart!chartVars)
  <2> SUFFICES ASSUME ChartInv, [Scan]_vars
               PROVE  ChartInv' /\ [Chart!ChartNext]_(Chart!chartVars)
    OBVIOUS
  <2>1. CASE Scan
    <3>1. /\ ChartInv' /\ spec' = spec
          /\ CoilScan(spec, sensed', state'.table) /\ BitsAreOwn(spec, sensed')
          /\ On(spec, sensed') = On(spec, state.table)
      BY <2>1, ScanKeepsChart DEF Scan, ScanUnder
    <3>2. driven = IF spec \in Charted THEN On(spec, state.table) ELSE {}
      BY DEF Image, OnOutputs, StateDriven, On, StateOutputs
    <3>3. driven' = IF spec \in Charted THEN On(spec, state'.table) ELSE {}
      BY <3>1 DEF Image, OnOutputs, StateDriven, On, StateOutputs
    <3>4. spec \in Charted => Moves(spec, sensed', state'.table)
      BY <3>1, ChartShapes, ShapesMove DEF ChartInv
    <3>5. \/ driven' = driven
          \/ \E t, u \in spec.transitions :
                /\ t = u \/ t.to = u.from
                /\ spec.entry[t.from] = driven /\ spec.entry[u.to] = driven'
                /\ Holds(t.cond, sensed')
                /\ Holds(u.cond, sensed') \/ (t # u /\ Holds(u.cond, state'.table))
      <4>1. CASE spec \in Charted
        <5> HIDE DEF driven
        <5> QED BY <3>1, <3>2, <3>3, <3>4, <4>1 DEF Moves
      <4>2. CASE spec \notin Charted
        BY <3>2, <3>3, <4>2
      <4> QED BY <4>1, <4>2
    <3>6. Chart!ChartNext
      <4>1. \A t, u, was, is :
              Chart!Fires(t, u, was, is) <=>
                /\ t = u \/ t.to = u.from
                /\ spec.entry[t.from] = was /\ spec.entry[u.to] = is
                /\ Holds(t.cond, sensed')
                /\ Holds(u.cond, sensed') \/ (t # u /\ Holds(u.cond, state'.table))
        <5>1. \A cond, table : Chart!Holds(cond, table) <=> Holds(cond, table)
          BY DEF Chart!Holds, Holds
        <5> QED BY <5>1 DEF Chart!Fires
      <4>2. driven' = driven \/ \E t, u \in spec.transitions : Chart!Fires(t, u, driven, driven')
        <5> HIDE DEF driven
        <5> QED BY <3>5, <4>1
      <4> QED BY <3>1, <4>2 DEF Chart!ChartNext
    <3> QED BY <3>1, <3>6
  <2>2. CASE UNCHANGED vars
    BY <2>2 DEF vars, ChartInv, NamesInv, HasBlocks, IsState, On, Chart!chartVars, Image, StateDriven
  <2> QED BY <2>1, <2>2
<1> QED BY <1>1, <1>2, PTL DEF Spec, RefinesChart, Chart!ChartSpec

StepsInv == ChartInv /\ StepsEndOnTime

(* No output stays ON, or is turned ON, in a scan that finds the timer of  *)
(* its step elapsed, whatever the inputs are.                              *)
THEOREM StepsAlwaysEnd == Spec => []StepsEndOnTime
<1>1. Init => StepsInv
  BY PowerOnNames, ChartStarts DEF StepsInv, StepsEndOnTime
<1>2. StepsInv /\ [Scan]_vars => StepsInv'
  <2> SUFFICES ASSUME StepsInv, [Scan]_vars PROVE StepsInv'
    OBVIOUS
  <2>1. CASE Scan
    <3>1. /\ NamesInv' /\ spec' = spec
          /\ WellNamed(spec) /\ ValidSpec(spec) /\ IsList(spec.outputs)
          /\ OutputNames(spec) \subseteq Names(spec)
          /\ Begins(sensed') /\ state'.table = ScanCoils(spec, sensed')
      BY <2>1, ScanIsCoils DEF StepsInv, ChartInv
    <3>2. /\ ChartInv' /\ CoilScan(spec, sensed', state'.table) /\ BitsAreOwn(spec, sensed')
          /\ spec \in Charted => IsState(spec, On(spec, sensed'))
      BY <2>1, ScanKeepsChart DEF StepsInv, ChartInv
    <3>3. SUFFICES ASSUME spec \in Charted, NEW i \in 1..Len(spec.timers),
                          NEW o \in OutputNames(spec), spec.timers[i].on = Is(o),
                          state'.table[o], state'.table[Bit(spec.timers[i].name)]
                   PROVE  FALSE
      BY <3>1, <3>2 DEF StepsInv, StepsEndOnTime, Image, OnOutputs
    <3> DEFINE bit == Bit(spec.timers[i].name)
               table == sensed'
               at == AtLine(spec, table, o)
    <3>4. bit \in Names(spec) /\ bit \notin OutputNames(spec)
      BY <3>1, CallsAreAList DEF WellNamed, BlockNames, Names
    <3>5. sensed'[bit]
      BY <3>1, <3>3, <3>4, CoilsKeepOthers DEF Begins
    <3>6. CASE IsStarDelta(spec)
      BY <3>2, <3>3, <3>5, <3>6, ShapesMove
    <3>7. CASE EndsStep(spec, bit, o)
      <4> DEFINE leaving == AnyOf(TurnOff(spec, o))
                 v == [n \in Names(spec) |-> IF at[n] THEN TRUE ELSE FALSE]
      <4>1. /\ ~Derived(spec, o)
            /\ \A term \in leaving : term.on \cup term.off \subseteq Names(spec)
            /\ \A w \in [Names(spec) -> BOOLEAN] : w[bit] => Holds(leaving, w)
        <5> HIDE DEF bit
        <5> QED BY <3>7 DEF EndsStep, TurnOff, AnyOf
      <4>2. o \in StateOutputs(spec)
        BY <4>1 DEF StateOutputs
      <4>3. at[bit]
        BY <3>2, <3>4, <3>5, AtLineFacts
      <4> HIDE DEF bit, table, at, leaving
      <4>4. v \in [Names(spec) -> BOOLEAN] /\ v[bit]
        BY <3>4, <4>3
      <4>5. Holds(leaving, v)
        <5> HIDE DEF v
        <5> QED BY <4>1, <4>4
      <4>6. Holds(leaving, at)
        BY <4>1, <4>5 DEF Holds
      <4>7. \E t \in TurnOff(spec, o) : Holds(t.cond, at)
        BY <4>6, AnyOfHolds DEF leaving
      <4> QED BY <3>2, <3>3, <4>2, <4>7, LineMoves DEF at, table
    <3> QED BY <3>3, <3>6, <3>7, TimersEndSteps
  <2>2. CASE UNCHANGED vars
    BY <2>2 DEF vars, StepsInv, ChartInv, NamesInv, HasBlocks, IsState, On, StepsEndOnTime, Image
  <2> QED BY <2>1, <2>2
<1>3. StepsInv => StepsEndOnTime
  BY DEF StepsInv
<1> QED BY <1>1, <1>2, <1>3, PTL DEF Spec

----------------------------------------------------------------------------
(* A block of the simulator. *)
Blocks == [acc : Int, q : BOOLEAN, run : BOOLEAN, prev : BOOLEAN]

TimelineTypes ==
    /\ kind \in TimerKinds \cup CounterKinds
    /\ preset \in Nat /\ preset < Horizon /\ dt \in Nat \ {0} /\ Horizon \in Nat
    /\ block \in Blocks /\ in \in BOOLEAN
    /\ onFor \in Int /\ offFor \in Int /\ pulseFor \in Int /\ edges \in Nat
    /\ scanned \in BOOLEAN

(* The memory of a timer is its input; what it has accumulated is the time *)
(* the input has been ON, as far as the preset.                            *)
TonInv ==
    kind = "TON" =>
        /\ block.prev = in
        /\ in => onFor >= 0 /\ block.acc = Capped(onFor, preset)
        /\ ~in => onFor = -1
        /\ block.q <=> in /\ block.acc >= preset

(* A TOF accumulates while it holds its bit over an input that is OFF.     *)
TofInv ==
    kind = "TOF" =>
        /\ block.prev = in
        /\ in => block.q
        /\ ~in /\ block.q =>
             offFor >= 0 /\ block.acc = offFor /\ (offFor = 0 \/ offFor < preset)
        /\ ~in /\ ~block.q => offFor = -1 \/ (offFor > 0 /\ offFor >= preset)

(* A TP runs exactly while its bit is ON, save for a preset of zero.       *)
TpInv ==
    kind = "TP" =>
        /\ block.prev = in
        /\ preset = 0 => ~block.q
        /\ preset > 0 => block.run = block.q
        /\ block.q => 0 <= pulseFor /\ pulseFor < preset /\ block.acc = pulseFor
        /\ ~block.q => pulseFor = -1 \/ (pulseFor >= 0 /\ pulseFor >= preset)

(* A counter and its input part only at a reset, where both counts are 0.  *)
CtuInv ==
    kind = "CTU" =>
        /\ block.prev = in \/ (block.acc = 0 /\ edges = 0)
        /\ 0 <= block.acc /\ block.acc <= preset
        /\ block.acc <= edges + 1
        /\ block.acc < preset => edges <= block.acc + 1

(* The count of a CTD never rises above zero, where it starts.             *)
CtdInv ==
    kind = "CTD" => block.acc <= 0 /\ (block.q <=> scanned)

TimelineInv == TimelineTypes /\ TonInv /\ TofInv /\ TpInv /\ CtuInv /\ CtdInv

(* A time or count that was capped is one of the two.                      *)
LEMMA CappedFacts ==
    ASSUME NEW n \in Int, NEW bound \in Int
    PROVE  /\ Capped(n, bound) \in Int
           /\ n < bound => Capped(n, bound) = n
           /\ n >= bound => Capped(n, bound) = bound
BY DEF Capped

(* What one scan makes of the fields of a block, kind by kind.             *)
LEMMA ScannedTon ==
    ASSUME NEW b \in Blocks, NEW p \in Nat, NEW now \in BOOLEAN, NEW d \in Nat
    PROVE  LET c == ScanTimer("TON", b, p, now, d)
           IN  /\ c \in Blocks
               /\ c.prev = now
               /\ c.acc = IF now /\ b.prev THEN Capped(b.acc + d, p) ELSE 0
               /\ c.q = (now /\ c.acc >= p)
<1> DEFINE acc == IF now /\ b.prev THEN Capped(b.acc + d, p) ELSE 0
           q == now /\ acc >= p
<1>1. ScanTimer("TON", b, p, now, d) = [[b EXCEPT !.acc = acc, !.q = q] EXCEPT !.prev = now]
  BY DEF ScanTimer, ScanTon
<1>2. acc \in Int /\ q \in BOOLEAN
  BY DEF Blocks, Capped
<1> HIDE DEF acc, q
<1>3. LET c == [[b EXCEPT !.acc = acc, !.q = q] EXCEPT !.prev = now]
      IN  c \in Blocks /\ c.prev = now /\ c.acc = acc /\ c.q = q
  BY <1>2 DEF Blocks
<1> QED BY <1>1, <1>3 DEF acc, q

(* One scan of a TOF: Q follows IN on; after IN falls it stays for the     *)
(* preset, counted from the scan after.                                    *)
LEMMA ScannedTof ==
    ASSUME NEW b \in Blocks, NEW p \in Nat, NEW now \in BOOLEAN, NEW d \in Nat
    PROVE  LET c == ScanTimer("TOF", b, p, now, d)
               acc == IF b.prev THEN 0 ELSE Capped(b.acc + d, p)
           IN  /\ c \in Blocks
               /\ c.prev = now
               /\ now => c.q
               /\ ~now /\ ~b.q => ~c.q
               /\ ~now /\ b.q => c.acc = acc /\ c.q = (b.prev \/ acc < p)
<1> DEFINE acc == IF b.prev THEN 0 ELSE Capped(b.acc + d, p)
           q == b.prev \/ acc < p
           c == ScanTimer("TOF", b, p, now, d)
<1>1. c = [IF now THEN [b EXCEPT !.acc = 0, !.q = TRUE]
           ELSE IF ~b.q THEN b ELSE [b EXCEPT !.acc = acc, !.q = q] EXCEPT !.prev = now]
  BY DEF ScanTimer, ScanTof
<1>2. acc \in Int /\ q \in BOOLEAN
  BY DEF Blocks, Capped
<1> HIDE DEF acc, q, c
<1>3. ASSUME now PROVE c \in Blocks /\ c.prev = now /\ c.q
  <2> DEFINE none == 0
             yes == TRUE
  <2>1. none \in Int /\ yes \in BOOLEAN
    OBVIOUS
  <2> HIDE DEF none, yes
  <2>2. c = [[b EXCEPT !.acc = none, !.q = yes] EXCEPT !.prev = now]
    BY <1>1, <1>3 DEF none, yes
  <2>3. c \in Blocks /\ c.prev = now /\ c.q = yes
    BY <2>1, <2>2 DEF Blocks
  <2> QED BY <2>3 DEF yes
<1>4. ASSUME ~now, ~b.q PROVE c \in Blocks /\ c.prev = now /\ ~c.q
  <2>1. c = [b EXCEPT !.prev = now]
    BY <1>1, <1>4
  <2> QED BY <1>4, <2>1 DEF Blocks
<1>5. ASSUME ~now, b.q PROVE c \in Blocks /\ c.prev = now /\ c.acc = acc /\ c.q = q
  <2>1. c = [[b EXCEPT !.acc = acc, !.q = q] EXCEPT !.prev = now]
    BY <1>1, <1>5
  <2> QED BY <1>2, <2>1 DEF Blocks
<1>6. /\ c \in Blocks /\ c.prev = now
      /\ now => c.q
      /\ ~now /\ ~b.q => ~c.q
      /\ ~now /\ b.q => c.acc = acc /\ c.q = q
  BY <1>3, <1>4, <1>5
<1> QED BY <1>6 DEF c, acc, q

(* One scan of a TP: a rising IN of a block at rest starts the pulse, a    *)
(* running one only counts.                                                *)
LEMMA ScannedTp ==
    ASSUME NEW b \in Blocks, NEW p \in Nat, NEW now \in BOOLEAN, NEW d \in Nat
    PROVE  LET c == ScanTimer("TP", b, p, now, d)
               acc == Capped(b.acc + d, p)
           IN  /\ c \in Blocks
               /\ c.prev = now
               /\ b.run => c.acc = acc /\ (c.q <=> b.q /\ acc < p) /\ (c.run <=> acc < p)
               /\ ~b.run /\ now /\ ~b.prev => c.acc = 0 /\ c.run /\ (c.q <=> p > 0)
               /\ ~b.run /\ ~(now /\ ~b.prev) => c.acc = b.acc /\ c.q = b.q /\ c.run = b.run
<1> DEFINE acc == Capped(b.acc + d, p)
           more == acc < p
           q == b.q /\ more
           any == p > 0
           c == ScanTimer("TP", b, p, now, d)
<1>1. c = [IF b.run THEN [b EXCEPT !.acc = acc, !.q = q, !.run = more]
           ELSE IF now /\ ~b.prev THEN [b EXCEPT !.acc = 0, !.run = TRUE, !.q = any]
           ELSE b EXCEPT !.prev = now]
  BY DEF ScanTimer, ScanTp
<1>2. acc \in Int /\ more \in BOOLEAN /\ q \in BOOLEAN /\ any \in BOOLEAN
  BY DEF Blocks, Capped
<1> HIDE DEF acc, more, q, any, c
<1>3. ASSUME b.run PROVE c \in Blocks /\ c.prev = now /\ c.acc = acc /\ c.q = q /\ c.run = more
  <2>1. c = [[b EXCEPT !.acc = acc, !.q = q, !.run = more] EXCEPT !.prev = now]
    BY <1>1, <1>3
  <2> QED BY <1>2, <2>1 DEF Blocks
<1>4. ASSUME ~b.run, now, ~b.prev
      PROVE  c \in Blocks /\ c.prev = now /\ c.acc = 0 /\ c.run /\ c.q = any
  <2> DEFINE none == 0
             yes == TRUE
  <2>1. none \in Int /\ yes \in BOOLEAN
    OBVIOUS
  <2> HIDE DEF none, yes
  <2>2. c = [[b EXCEPT !.acc = none, !.run = yes, !.q = any] EXCEPT !.prev = now]
    BY <1>1, <1>4 DEF none, yes
  <2>3. c \in Blocks /\ c.prev = now /\ c.acc = none /\ c.run = yes /\ c.q = any
    BY <1>2, <2>1, <2>2 DEF Blocks
  <2> QED BY <2>3 DEF none, yes
<1>5. ASSUME ~b.run, ~(now /\ ~b.prev)
      PROVE  c \in Blocks /\ c.prev = now /\ c.acc = b.acc /\ c.q = b.q /\ c.run = b.run
  <2>1. c = [b EXCEPT !.prev = now]
    BY <1>1, <1>5
  <2> QED BY <1>5, <2>1 DEF Blocks
<1>6. /\ c \in Blocks /\ c.prev = now
      /\ b.run => c.acc = acc /\ c.q = q /\ c.run = more
      /\ ~b.run /\ now /\ ~b.prev => c.acc = 0 /\ c.run /\ c.q = any
      /\ ~b.run /\ ~(now /\ ~b.prev) => c.acc = b.acc /\ c.q = b.q /\ c.run = b.run
  BY <1>3, <1>4, <1>5
<1> QED BY <1>6 DEF c, acc, q, more, any

(* One scan of a counter: a reset leaves the remembered CU alone; a CTU    *)
(* counts rising edges up to its preset.                                   *)
LEMMA ScannedCounter ==
    ASSUME NEW k \in CounterKinds, NEW b \in Blocks, NEW p \in Nat,
           NEW cu \in BOOLEAN, NEW reset \in BOOLEAN
    PROVE  LET c == ScanCounter(k, b, p, cu, reset)
           IN  /\ c \in Blocks
               /\ c.prev = IF reset THEN b.prev ELSE cu
               /\ k = "CTU" => c.acc = IF reset THEN 0
                                       ELSE IF cu /\ ~b.prev THEN Capped(b.acc + 1, p)
                                       ELSE b.acc
               /\ k = "CTD" => /\ c.acc \in {0, -1, b.acc}
                               /\ c.q = (c.acc <= 0)
<1> DEFINE cnt == IF reset THEN 0
                  ELSE IF ~(cu /\ ~b.prev) THEN b.acc
                  ELSE IF k = "CTD" THEN -1 ELSE Capped(b.acc + 1, p)
           q == IF k = "CTD" THEN cnt <= 0 ELSE cnt >= p
           memory == IF reset THEN b.prev ELSE cu
           c == ScanCounter(k, b, p, cu, reset)
<1>1. c = [b EXCEPT !.acc = cnt, !.prev = memory, !.q = q]
  BY DEF ScanCounter
<1>2. cnt \in Int /\ q \in BOOLEAN /\ memory \in BOOLEAN
  <2>1. b.acc \in Int /\ b.prev \in BOOLEAN /\ Capped(b.acc + 1, p) \in Int /\ -1 \in Int
    BY DEF Blocks, Capped
  <2>2. cnt \in Int
    BY <2>1
  <2>3. memory \in BOOLEAN
    BY <2>1
  <2>4. q \in BOOLEAN
    <3> HIDE DEF cnt
    <3>1. (cnt <= 0) \in BOOLEAN /\ (cnt >= p) \in BOOLEAN
      BY <2>2
    <3> HIDE DEF CounterKinds
    <3> QED BY <3>1
  <2> QED BY <2>2, <2>3, <2>4
<1>3. k = "CTU" => cnt = IF reset THEN 0
                         ELSE IF cu /\ ~b.prev THEN Capped(b.acc + 1, p) ELSE b.acc
  OBVIOUS
<1>5. k = "CTD" => cnt \in {0, -1, b.acc} /\ q = (cnt <= 0)
  OBVIOUS
<1> HIDE DEF cnt, q, memory, c
<1>4. c \in Blocks /\ c.prev = memory /\ c.acc = cnt /\ c.q = q
  BY <1>1, <1>2 DEF Blocks
<1> QED BY <1>3, <1>4, <1>5 DEF memory, c

----------------------------------------------------------------------------
(* A scan of a timer keeps what is known of its kind. *)
LEMMA TimerStep ==
    ASSUME TimelineInv, TimerScan, scanned' = TRUE
    PROVE  TimelineInv'
<1>1. PICK now \in BOOLEAN :
        /\ block' = ScanTimer(kind, block, preset, now, dt)
        /\ History(now)
        /\ pulseFor' = IF now /\ ~in /\ ~(pulseFor >= 0 /\ pulseFor < preset)
                        THEN 0 ELSE Later(pulseFor)
  BY DEF TimerScan
<1>2. /\ kind \in {"TON", "TOF", "TP"} /\ TimelineTypes
      /\ UNCHANGED <<kind, preset, dt, edges>>
  BY DEF TimerScan, TimerKinds, TimelineInv
<1>3. /\ in' = now
      /\ onFor' = IF ~now THEN -1 ELSE IF in THEN Later(onFor) ELSE 0
      /\ offFor' = IF now THEN -1 ELSE IF in THEN 0 ELSE Later(offFor)
  BY <1>1 DEF History
<1>4. block' \in Blocks
  BY <1>1, <1>2, ScannedTon, ScannedTof, ScannedTp DEF TimelineTypes
<1>5. TimelineTypes'
  BY <1>1, <1>2, <1>3, <1>4 DEF TimelineTypes, Later, Capped
<1>6. CASE kind = "TON"
  <2>1. /\ block'.prev = now
        /\ block'.acc = IF now /\ block.prev THEN Capped(block.acc + dt, preset) ELSE 0
        /\ block'.q = (now /\ block'.acc >= preset)
    BY <1>1, <1>2, <1>6, ScannedTon DEF TimelineTypes
  <2>2. TonInv'
    BY <1>2, <1>3, <1>6, <2>1 DEF TimelineInv, TonInv, TimelineTypes, Later, Capped, Blocks
  <2> QED BY <1>2, <1>5, <1>6, <2>2 DEF TimelineInv, TofInv, TpInv, CtuInv, CtdInv
<1>7. CASE kind = "TOF"
  <2> DEFINE acc == IF block.prev THEN 0 ELSE Capped(block.acc + dt, preset)
  <2>1. /\ block'.prev = now
        /\ now => block'.q
        /\ ~now /\ ~block.q => ~block'.q
        /\ ~now /\ block.q => block'.acc = acc /\ block'.q = (block.prev \/ acc < preset)
    BY <1>1, <1>2, <1>7, ScannedTof DEF TimelineTypes
  <2>2. TofInv'
    BY <1>2, <1>3, <1>7, <2>1 DEF TimelineInv, TofInv, TimelineTypes, Later, Capped, Blocks
  <2> QED BY <1>2, <1>5, <1>7, <2>2 DEF TimelineInv, TonInv, TpInv, CtuInv, CtdInv
<1>8. CASE kind = "TP"
  <2> DEFINE acc == Capped(block.acc + dt, preset)
  <2>1. /\ block'.prev = now
        /\ block.run => block'.acc = acc /\ (block'.q <=> block.q /\ acc < preset) /\ (block'.run <=> acc < preset)
        /\ ~block.run /\ now /\ ~block.prev => block'.acc = 0 /\ block'.run /\ (block'.q <=> preset > 0)
        /\ ~block.run /\ ~(now /\ ~block.prev) =>
             block'.acc = block.acc /\ block'.q = block.q /\ block'.run = block.run
    BY <1>1, <1>2, <1>8, ScannedTp DEF TimelineTypes
  <2>2. TpInv'
    <3>1. /\ block.prev = in /\ in \in BOOLEAN /\ preset \in Nat /\ dt \in Nat \ {0}
          /\ preset < Horizon /\ Horizon \in Nat /\ pulseFor \in Int /\ pulseFor' \in Int
          /\ block.acc \in Int /\ block.q \in BOOLEAN /\ block.run \in BOOLEAN
          /\ preset = 0 => ~block.q
          /\ preset > 0 => block.run = block.q
          /\ block.q => 0 <= pulseFor /\ pulseFor < preset /\ block.acc = pulseFor
          /\ ~block.q => pulseFor = -1 \/ (pulseFor >= 0 /\ pulseFor >= preset)
      BY <1>2, <1>5, <1>8 DEF TimelineInv, TpInv, TimelineTypes, Blocks
    <3>2. CASE preset = 0
      <4>1. ~block'.q
        BY <2>1, <3>1, <3>2 DEF Capped
      <4>2. pulseFor' = -1 \/ pulseFor' >= 0
        BY <1>1, <3>1 DEF Later, Capped
      <4> QED BY <1>2, <1>3, <2>1, <3>1, <3>2, <4>1, <4>2 DEF TpInv
    <3>3. CASE preset > 0 /\ block.run
      <4>1. pulseFor' = Later(pulseFor) /\ pulseFor >= 0 /\ pulseFor < preset /\ block.acc = pulseFor
        BY <1>1, <3>1, <3>3
      <4>2. CASE pulseFor + dt < preset
        <5>1. acc = pulseFor + dt /\ pulseFor' = pulseFor + dt
          BY <3>1, <4>1, <4>2 DEF Later, Capped
        <5>2. block'.q /\ block'.run /\ block'.acc = pulseFor'
          BY <2>1, <3>1, <3>3, <4>2, <5>1
        <5> QED BY <1>2, <1>3, <2>1, <3>1, <3>3, <4>1, <4>2, <5>1, <5>2 DEF TpInv
      <4>3. CASE pulseFor + dt >= preset
        <5>1. acc = preset /\ pulseFor' >= preset
          BY <3>1, <4>1, <4>3 DEF Later, Capped
        <5>2. ~block'.q /\ ~block'.run
          BY <2>1, <3>1, <3>3, <5>1
        <5>3. block'.prev = in' /\ preset' = preset /\ (preset > 0 => block'.run = block'.q)
          <6>1. block'.q \in BOOLEAN /\ block'.run \in BOOLEAN
            BY <1>4 DEF Blocks
          <6> QED BY <1>2, <1>3, <2>1, <5>2, <6>1
        <5>4. pulseFor' >= 0
          BY <3>1, <5>1
        <5> QED BY <5>1, <5>2, <5>3, <5>4 DEF TpInv
      <4> QED BY <3>1, <4>2, <4>3
    <3>4. CASE preset > 0 /\ ~block.run /\ now /\ ~block.prev
      <4>1. block'.acc = 0 /\ block'.run /\ block'.q
        BY <2>1, <3>4
      <4>2. pulseFor' = 0
        <5>1. ~in /\ ~block.q
          BY <3>1, <3>4
        <5>2. ~(pulseFor >= 0 /\ pulseFor < preset)
          BY <3>1, <5>1
        <5> QED BY <1>1, <3>4, <5>1, <5>2
      <4> QED BY <1>2, <1>3, <2>1, <3>1, <3>4, <4>1, <4>2 DEF TpInv
    <3>5. CASE preset > 0 /\ ~block.run /\ ~(now /\ ~block.prev)
      <4>1. pulseFor' = Later(pulseFor) /\ ~block'.run /\ ~block'.q
        BY <1>1, <2>1, <3>1, <3>5
      <4>2. pulseFor' = -1 \/ pulseFor' >= preset
        BY <3>1, <3>5, <4>1 DEF Later, Capped
      <4> QED BY <1>2, <1>3, <2>1, <3>1, <3>5, <4>1, <4>2 DEF TpInv
    <3> QED BY <3>1, <3>2, <3>3, <3>4, <3>5
  <2> QED BY <1>2, <1>5, <1>8, <2>2 DEF TimelineInv, TonInv, TofInv, CtuInv, CtdInv
<1> QED BY <1>2, <1>6, <1>7, <1>8

(* A scan of a counter keeps the two counts together. *)
LEMMA CounterStep ==
    ASSUME TimelineInv, CounterScan, scanned' = TRUE
    PROVE  TimelineInv'
<1>1. PICK now \in BOOLEAN, reset \in BOOLEAN :
        /\ block' = ScanCounter(kind, block, preset, now, reset)
        /\ History(now)
        /\ edges' = IF reset THEN 0
                    ELSE IF now /\ ~in THEN Capped(edges + 1, Horizon) ELSE edges
  BY DEF CounterScan
<1>2. /\ kind \in CounterKinds /\ kind \notin TimerKinds /\ TimelineTypes
      /\ UNCHANGED <<kind, preset, dt, pulseFor>>
  BY DEF CounterScan, CounterKinds, TimerKinds, TimelineInv
<1>3. /\ in' = now
      /\ onFor' = IF ~now THEN -1 ELSE IF in THEN Later(onFor) ELSE 0
      /\ offFor' = IF now THEN -1 ELSE IF in THEN 0 ELSE Later(offFor)
  BY <1>1 DEF History
<1>4. /\ block' \in Blocks
      /\ block'.prev = IF reset THEN block.prev ELSE now
      /\ kind = "CTU" => block'.acc = IF reset THEN 0
                                      ELSE IF now /\ ~block.prev THEN Capped(block.acc + 1, preset)
                                      ELSE block.acc
      /\ kind = "CTD" => /\ block'.acc \in {0, -1, block.acc}
                         /\ block'.q = (block'.acc <= 0)
  <2>1. block \in Blocks /\ preset \in Nat
    BY <1>2 DEF TimelineTypes
  <2> HIDE DEF CounterKinds
  <2> QED BY <1>1, <1>2, <2>1, ScannedCounter
<1>5. TimelineTypes'
  BY <1>1, <1>2, <1>3, <1>4 DEF TimelineTypes, Later, Capped
<1>6. CtuInv'
  BY <1>1, <1>2, <1>3, <1>4 DEF TimelineInv, CtuInv, TimelineTypes, Capped, Blocks
<1>7. CtdInv'
  <2> SUFFICES ASSUME kind = "CTD" PROVE block'.acc <= 0 /\ block'.q
    BY <1>2 DEF CtdInv
  <2>1. block.acc <= 0 /\ block.acc \in Int
    BY <1>2 DEF TimelineInv, CtdInv, TimelineTypes, Blocks
  <2>2. block'.acc \in {0, -1, block.acc}
    BY <1>4
  <2>3. block'.acc <= 0
    BY <2>1, <2>2
  <2> QED BY <1>4, <2>3
<1> QED BY <1>2, <1>5, <1>6, <1>7 DEF TimelineInv, TonInv, TofInv, TpInv, TimerKinds

(* The bits of timers follow their inputs to the scan, CTU counts to one   *)
(* edge and CTDs not at all, for every preset and every scan period, also  *)
(* one longer than the preset, under every input timeline.                 *)
THEOREM BlockBitsAlwaysFollow == TimelineSpec => []BlockBitsFollowInputs
<1>1. TimelineInit => TimelineInv
  <2> SUFFICES ASSUME TimelineInit PROVE TimelineInv
    OBVIOUS
  <2>1. TimelineTypes
    <3>1. Fresh \in Blocks
      <4> DEFINE no == FALSE
      <4>1. no \in BOOLEAN /\ 0 \in Int
        OBVIOUS
      <4> HIDE DEF no
      <4>2. [acc |-> 0, q |-> no, run |-> no, prev |-> no] \in Blocks
        BY <4>1 DEF Blocks
      <4> QED BY <4>2 DEF Fresh, no
    <3>2. preset \in Nat /\ preset < Horizon /\ dt \in Nat \ {0} /\ Horizon \in Nat
      BY TimelineAssumption DEF TimelineInit
    <3>3. block \in Blocks /\ in \in BOOLEAN /\ kind \in TimerKinds \cup CounterKinds
      BY <3>1 DEF TimelineInit
    <3>4. /\ onFor \in Int /\ offFor \in Int /\ pulseFor \in Int /\ edges \in Nat
          /\ scanned \in BOOLEAN
      <4>1. onFor = -1 /\ offFor = -1 /\ pulseFor = -1 /\ edges = 0
        BY DEF TimelineInit
      <4>2. onFor \in Int /\ offFor \in Int /\ pulseFor \in Int /\ edges \in Nat
        BY ONLY <4>1
      <4>3. scanned = FALSE
        BY DEF TimelineInit
      <4>4. scanned \in BOOLEAN
        BY ONLY <4>3, Zenon
      <4> QED BY ONLY <4>2, <4>4
    <3> QED BY <3>2, <3>3, <3>4 DEF TimelineTypes
  <2>2. /\ block.acc = 0 /\ ~block.q /\ ~block.run /\ block.prev = FALSE /\ in = FALSE
        /\ onFor = -1 /\ offFor = -1 /\ pulseFor = -1 /\ edges = 0 /\ preset \in Nat
    BY TimelineAssumption DEF TimelineInit, Fresh
  <2>3. preset > 0 => block.run = block.q
    BY DEF TimelineInit, Fresh
  <2>4. block.prev = in
    BY <2>2
  <2>5. TonInv
    BY <2>2, <2>4 DEF TonInv
  <2>6. TofInv
    BY <2>2, <2>4 DEF TofInv
  <2>7. TpInv
    BY <2>2, <2>3, <2>4 DEF TpInv
  <2>8. CtuInv
    BY <2>2, <2>4 DEF CtuInv
  <2>9. CtdInv
    <3>1. ~scanned
      BY DEF TimelineInit
    <3> QED BY <2>2, <3>1 DEF CtdInv
  <2> QED BY <2>1, <2>5, <2>6, <2>7, <2>8, <2>9 DEF TimelineInv
<1>2. TimelineInv /\ [TimelineNext]_timelineVars => TimelineInv'
  <2>1. ASSUME TimelineInv, UNCHANGED timelineVars PROVE TimelineInv'
    BY <2>1 DEF timelineVars, TimelineInv, TimelineTypes, TonInv, TofInv, TpInv, CtuInv, CtdInv
  <2> QED BY <2>1, TimerStep, CounterStep DEF TimelineNext
<1>3. TimelineInv => TonMeansHeld /\ TofMeansRecent /\ TpPulseIsExact /\ CountIsOffByAtMostOne
  BY DEF TimelineInv, TimelineTypes, TonInv, TofInv, TpInv, CtuInv, Blocks, Capped,
         TonMeansHeld, TofMeansRecent, TpPulseIsExact, CountIsOffByAtMostOne
<1>4. TimelineInv => CtdIsAlwaysOn
  BY DEF TimelineInv, TimelineTypes, CtdInv, Blocks, CtdIsAlwaysOn
<1>5. TimelineInv => BlockBitsFollowInputs
  BY <1>3, <1>4 DEF BlockBitsFollowInputs
<1> QED BY <1>1, <1>2, <1>5, PTL DEF TimelineSpec

----------------------------------------------------------------------------
(* Conditions as the transpiler multiplies them out: each form has the     *)
(* value of the coil line, in every table.                                 *)
LEMMA ProductsMean ==
    ASSUME NEW c, NEW d, NEW table
    PROVE  Holds(And(c, d), table) <=> Holds(c, table) /\ Holds(d, table)
<1>1. ASSUME Holds(And(c, d), table) PROVE Holds(c, table) /\ Holds(d, table)
  <2>1. PICK t \in And(c, d) : (\A s \in t.on : table[s]) /\ (\A s \in t.off : ~table[s])
    BY <1>1 DEF Holds
  <2>2. PICK u \in c, v \in d : t = Joined(u, v)
    BY <2>1 DEF And
  <2>3. u.on \subseteq t.on /\ v.on \subseteq t.on /\ u.off \subseteq t.off /\ v.off \subseteq t.off
    BY <2>2 DEF Joined
  <2> QED BY <2>1, <2>3 DEF Holds
<1>2. ASSUME Holds(c, table), Holds(d, table) PROVE Holds(And(c, d), table)
  <2>1. PICK u \in c : (\A s \in u.on : table[s]) /\ (\A s \in u.off : ~table[s])
    BY <1>2 DEF Holds
  <2>2. PICK v \in d : (\A s \in v.on : table[s]) /\ (\A s \in v.off : ~table[s])
    BY <1>2 DEF Holds
  <2>3. Joined(u, v) \in And(c, d)
    BY DEF And
  <2>4. /\ \A s \in Joined(u, v).on : table[s]
        /\ \A s \in Joined(u, v).off : ~table[s]
    BY <2>1, <2>2 DEF Joined
  <2> QED BY <2>3, <2>4 DEF Holds
<1> QED BY <1>1, <1>2

(* A product with a name and its opposite never holds.                     *)
LEMMA ConsistentMeans ==
    ASSUME NEW c, NEW table
    PROVE  Holds(Consistent(c), table) <=> Holds(c, table)
BY DEF Holds, Consistent

(* The literals that make a product fail. *)
LEMMA ComplementIs ==
    ASSUME NEW t, NEW l
    PROVE  l \in Complement(t) <=>
             \/ \E s \in t.on : l = [on |-> {}, off |-> {s}]
             \/ \E s \in t.off : l = [on |-> {s}, off |-> {}]
<1>1. l \in UNION {Not(s) : s \in t.on} <=> \E s \in t.on : l \in Not(s)
  OBVIOUS
<1>2. l \in UNION {Is(s) : s \in t.off} <=> \E s \in t.off : l \in Is(s)
  OBVIOUS
<1> DEFINE opened == UNION {Not(s) : s \in t.on}
           closed == UNION {Is(s) : s \in t.off}
<1>3. l \in Complement(t) <=> l \in opened \/ l \in closed
  <2>1. Complement(t) = opened \cup closed
    BY DEF Complement
  <2> HIDE DEF opened, closed
  <2> QED BY <2>1
<1>4. \A s : (l \in Not(s) <=> l = [on |-> {}, off |-> {s}]) /\ (l \in Is(s) <=> l = [on |-> {s}, off |-> {}])
  BY DEF Not, Is
<1> QED BY <1>1, <1>2, <1>3, <1>4

(* NOT of a sum of products: in each of them one literal fails.            *)
LEMMA NegationMeans ==
    ASSUME NEW c, NEW table
    PROVE  Holds(Negation(c), table) <=> ~Holds(c, table)
<1> DEFINE all == UNION {Complement(t) : t \in c}
           term(f) == [on |-> UNION {f[t].on : t \in c}, off |-> UNION {f[t].off : t \in c}]
           true(l) == (\A s \in l.on : table[s]) /\ (\A s \in l.off : ~table[s])
<1>1. Negation(c) = {term(f) : f \in {g \in [c -> all] : \A t \in c : g[t] \in Complement(t)}}
  BY DEF Negation
<1>2. ASSUME Holds(Negation(c), table), Holds(c, table) PROVE FALSE
  <2>1. PICK f \in [c -> all] : (\A t \in c : f[t] \in Complement(t)) /\ true(term(f))
    BY <1>1, <1>2 DEF Holds
  <2>2. PICK t \in c : true(t)
    BY <1>2 DEF Holds
  <2>3. f[t] \in Complement(t) /\ true(f[t])
    BY <2>1
  <2> DEFINE l == f[t]
  <2>5. \/ \E s \in t.on : l = [on |-> {}, off |-> {s}]
        \/ \E s \in t.off : l = [on |-> {s}, off |-> {}]
    BY <2>3, ComplementIs
  <2>6. true(l)
    BY <2>3
  <2> HIDE DEF l
  <2> QED BY <2>2, <2>5, <2>6
<1>3. ASSUME ~Holds(c, table) PROVE Holds(Negation(c), table)
  <2>1. \A t \in c : \E l \in Complement(t) : true(l)
    <3> SUFFICES ASSUME NEW t \in c PROVE \E l \in Complement(t) : true(l)
      OBVIOUS
    <3>1. CASE \E s \in t.on : ~table[s]
      <4>1. PICK s \in t.on : ~table[s]
        BY <3>1
      <4> DEFINE l == [on |-> {}, off |-> {s}]
      <4>2. l \in Complement(t)
        BY <4>1, ComplementIs
      <4>3. true(l)
        BY <4>1
      <4> QED BY <4>2, <4>3
    <3>2. CASE \E s \in t.off : table[s]
      <4>1. PICK s \in t.off : table[s]
        BY <3>2
      <4> DEFINE l == [on |-> {s}, off |-> {}]
      <4>2. l \in Complement(t)
        BY <4>1, ComplementIs
      <4>3. true(l)
        BY <4>1
      <4> QED BY <4>2, <4>3
    <3> QED BY <1>3, <3>1, <3>2 DEF Holds
  <2> DEFINE f == [t \in c |-> CHOOSE l \in Complement(t) : true(l)]
  <2>2. \A t \in c : f[t] \in Complement(t) /\ true(f[t])
    <3> HIDE DEF true
    <3> QED BY <2>1
  <2>3. f \in [c -> all]
    <3>1. \A t \in c : f[t] \in all
      BY <2>2
    <3>2. f = [t \in c |-> f[t]]
      OBVIOUS
    <3> HIDE DEF f, all
    <3> QED BY <3>1, <3>2
  <2> HIDE DEF f
  <2>4. true(term(f))
    BY <2>2
  <2>5. term(f) \in Negation(c)
    <3> HIDE DEF term, all
    <3> QED BY <1>1, <2>2, <2>3
  <2> HIDE DEF term
  <2> QED BY <2>4, <2>5 DEF Holds
<1> QED BY <1>2, <1>3

(* The rung of a coil line has its value.                                  *)
LEMMA RungsMean ==
    ASSUME NEW coil, NEW out, NEW table
    PROVE  Holds(CoilDnf(coil, out), table) <=> CoilValue(coil, out, table)
<1> DEFINE drive == coil.on \cup (IF coil.seal THEN Is(out) ELSE Never)
           free == {[on |-> {}, off |-> coil.guards]}
<1>1. Holds(CoilDnf(coil, out), table) <=>
        Holds(drive, table) /\ ~Holds(coil.cut, table) /\ Holds(free, table)
  BY ConsistentMeans, ProductsMean, NegationMeans DEF CoilDnf
<1>2. Holds(drive, table) <=> Holds(coil.on, table) \/ (coil.seal /\ table[out])
  <2>1. Holds(Is(out), table) <=> table[out]
    BY DEF Holds, Is
  <2>2. Holds(drive, table) <=> Holds(coil.on, table) \/ (coil.seal /\ Holds(Is(out), table))
    BY DEF Holds, Never
  <2> QED BY <2>1, <2>2
<1>3. Holds(free, table) <=> \A p \in coil.guards : ~table[p]
  BY DEF Holds
<1> QED BY <1>1, <1>2, <1>3 DEF CoilValue

----------------------------------------------------------------------------
(* The order in which contacts and branches are written.                   *)
TakenTo(S, n, f) ==
    f = [i \in 0..n |-> IF i = 0 THEN <<>>
                        ELSE Append(f[i - 1], CHOOSE x \in S : \A k \in 1..(i - 1) : f[i - 1][k] # x)]

(* The list is made one element after the other.                           *)
LEMMA TakingRuns ==
    ASSUME NEW S, Cardinality(S) \in Nat
    PROVE  \E f : TakenTo(S, Cardinality(S), f) /\ InOrder(S) = f[Cardinality(S)]
<1> DEFINE Longer(i, s) == Append(s, CHOOSE x \in S : \A k \in 1..(i - 1) : s[k] # x)
           Upto(n, f) == f = [i \in 0..n |-> IF i = 0 THEN <<>> ELSE Longer(i, f[i - 1])]
           NS == {n \in Nat : \E f : Upto(n, f)}
           N == Cardinality(S)
           last == CHOOSE f : Upto(N, f)
<1>1. 0 \in NS
  <2> DEFINE f == [i \in 0..0 |-> <<>>]
  <2>1. Upto(0, f)
    <3> HIDE DEF Longer
    <3> QED OBVIOUS
  <2> QED BY <2>1
<1>2. ASSUME NEW n \in Nat, n \in NS PROVE n + 1 \in NS
  <2>1. PICK f : Upto(n, f)
    BY <1>2
  <2> DEFINE g == [i \in 0..(n + 1) |-> IF i = n + 1 THEN Longer(i, f[n]) ELSE f[i]]
             h == [i \in 0..(n + 1) |-> IF i = 0 THEN <<>> ELSE Longer(i, g[i - 1])]
  <2> HIDE DEF Longer
  <2>2. \A i \in 0..(n + 1) : g[i] = h[i]
    <3> SUFFICES ASSUME NEW i \in 0..(n + 1) PROVE g[i] = h[i]
      OBVIOUS
    <3>1. CASE i = 0
      BY <2>1, <3>1
    <3>2. CASE i \in 1..n
      <4>1. i - 1 \in 0..n /\ g[i - 1] = f[i - 1] /\ g[i] = f[i]
        BY <3>2
      <4>2. f[i] = Longer(i, f[i - 1])
        BY <2>1, <3>2
      <4> QED BY <3>2, <4>1, <4>2
    <3>3. CASE i = n + 1
      <4>1. g[n] = f[n] /\ i # 0 /\ i - 1 = n
        BY <3>3
      <4> QED BY <3>3, <4>1
    <3> QED BY <3>1, <3>2, <3>3
  <2>3. g = h
    <3>1. g = [i \in 0..(n + 1) |-> g[i]] /\ h = [i \in 0..(n + 1) |-> h[i]]
      OBVIOUS
    <3> HIDE DEF g, h
    <3> QED BY <2>2, <3>1
  <2>4. Upto(n + 1, g)
    BY <2>3
  <2> HIDE DEF g, h, Upto
  <2> QED BY <2>4
<1>3. N \in NS
  <2> HIDE DEF NS
  <2> QED BY <1>1, <1>2, SetInduction
<1>4. Upto(N, last)
  BY <1>3
<1>5. InOrder(S) = last[N]
  BY DEF InOrder
<1>6. TakenTo(S, N, last)
  BY <1>4 DEF TakenTo
<1> QED BY <1>5, <1>6

(* A finite set in order: a list of its elements.                          *)
LEMMA OrderLists ==
    ASSUME NEW S, IsFiniteSet(S)
    PROVE  /\ Len(InOrder(S)) \in Nat
           /\ InOrder(S) \in [1..Len(InOrder(S)) -> S]
           /\ \A x \in S : \E i \in 1..Len(InOrder(S)) : InOrder(S)[i] = x
<1> DEFINE N == Cardinality(S)
<1>1. N \in Nat
  BY FS_CardinalityType
<1>2. PICK f : TakenTo(S, N, f) /\ InOrder(S) = f[N]
  BY <1>1, TakingRuns
<1> DEFINE Good(n) == /\ f[n] \in [1..n -> S] /\ f[n] \in Seq(S) /\ Len(f[n]) = n
                      /\ \A i, j \in 1..n : f[n][i] = f[n][j] => i = j
           G == {n \in Nat : n <= N => Good(n)}
<1>3. 0 \in G
  <2>1. f[0] = <<>>
    BY <1>1, <1>2 DEF TakenTo
  <2>2. <<>> \in [1..0 -> S] /\ <<>> \in Seq(S) /\ Len(<<>>) = 0
    BY EmptySeq, LenProperties
  <2>3. \A i \in 1..0 : FALSE
    OBVIOUS
  <2>4. Good(0)
    BY <2>1, <2>2, <2>3
  <2> HIDE DEF Good
  <2> QED BY <2>4
<1>4. ASSUME NEW n \in Nat, n \in G PROVE n + 1 \in G
  <2> SUFFICES ASSUME n + 1 <= N PROVE Good(n + 1)
    OBVIOUS
  <2>1. Good(n)
    BY <1>1, <1>4
  <2> DEFINE new == CHOOSE x \in S : \A k \in 1..n : f[n][k] # x
  <2>2. f[n + 1] = Append(f[n], new)
    <3> DEFINE m == n + 1
    <3>1. m \in 0..N /\ m # 0 /\ m - 1 = n
      BY <1>1
    <3>2. f[m] = Append(f[m - 1], CHOOSE x \in S : \A k \in 1..(m - 1) : f[m - 1][k] # x)
      <4> HIDE DEF m, N
      <4> QED BY <1>2, <3>1 DEF TakenTo
    <3> HIDE DEF m
    <3>3. f[m] = Append(f[n], new)
      BY <3>1, <3>2
    <3> QED BY <3>3 DEF m
  <2>3. \E x \in S : \A k \in 1..n : f[n][k] # x
    <3> SUFFICES ASSUME \A x \in S : \E k \in 1..n : f[n][k] = x PROVE FALSE
      OBVIOUS
    <3>1. f[n] \in Surjection(1..n, S)
      BY <2>1 DEF Surjection
    <3>2. N <= n
      BY <3>1, FS_SurjCardinalityBound DEF ExistsSurjection
    <3> QED BY <1>1, <3>2
  <2>4. new \in S /\ \A k \in 1..n : f[n][k] # new
    BY <2>3
  <2> HIDE DEF new
  <2>5. /\ f[n + 1] \in Seq(S) /\ Len(f[n + 1]) = n + 1
        /\ \A i \in 1..n : f[n + 1][i] = f[n][i]
        /\ f[n + 1][n + 1] = new
    BY <2>1, <2>2, <2>4, AppendProperties
  <2>6. f[n + 1] \in [1..(n + 1) -> S]
    BY <2>5, LenProperties
  <2>7. \A i, j \in 1..(n + 1) : f[n + 1][i] = f[n + 1][j] => i = j
    <3> SUFFICES ASSUME NEW i \in 1..(n + 1), NEW j \in 1..(n + 1), f[n + 1][i] = f[n + 1][j]
                 PROVE  i = j
      OBVIOUS
    <3>1. (i \in 1..n \/ i = n + 1) /\ (j \in 1..n \/ j = n + 1)
      OBVIOUS
    <3> QED BY <2>1, <2>4, <2>5, <3>1
  <2> QED BY <2>5, <2>6, <2>7
<1>5. N \in G
  <2> HIDE DEF G, N
  <2> QED BY <1>1, <1>3, <1>4, SetInduction
<1>6. Good(N)
  BY <1>1, <1>5
<1>7. IsFiniteSet(1..N) /\ Cardinality(1..N) = N
  BY <1>1, FS_Interval
<1>8. \A x \in S : \E i \in 1..N : f[N][i] = x
  <2> SUFFICES ASSUME NEW x \in S, \A i \in 1..N : f[N][i] # x PROVE FALSE
    OBVIOUS
  <2>1. IsFiniteSet(S \ {x}) /\ Cardinality(S \ {x}) = N - 1
    BY FS_RemoveElement
  <2>2. f[N] \in [1..N -> S \ {x}]
    BY <1>6
  <2>3. \E i, j \in 1..N : i # j /\ f[N][i] = f[N][j]
    <3> HIDE DEF N
    <3> QED BY <1>1, <1>7, <2>1, <2>2, FS_PigeonHole
  <2> QED BY <1>6, <2>3
<1> QED BY <1>1, <1>2, <1>6, <1>8

----------------------------------------------------------------------------
(* The stack machine: one instruction, and the stacks between them.        *)
ValueOf(c, table) == (c.sym \in DOMAIN table /\ table[c.sym]) # c.neg

Stacked(s, c, table) ==
    LET n == Len(s)
    IN  CASE c.op = "LD"  -> Append(s, ValueOf(c, table))
          [] c.op = "AND" -> [s EXCEPT ![n] = @ /\ ValueOf(c, table)]
          [] c.op = "ORB" -> Append(SubSeq(s, 1, n - 2), s[n - 1] \/ s[n])

StacksOf(contacts, table, f) ==
    f = [i \in 0..Len(contacts) |-> IF i = 0 THEN <<>> ELSE Stacked(f[i - 1], contacts[i], table)]

(* A rung has stacks between its instructions, its power is on the last.   *)
LEMMA PowerRuns ==
    ASSUME NEW contacts, Len(contacts) \in Nat, NEW table
    PROVE  \E f : /\ StacksOf(contacts, table, f)
                  /\ Power(contacts, table) <=>
                       LET end == f[Len(contacts)] IN end # <<>> /\ end[Len(end)]
<1> DEFINE Upto(n, f) == f = [i \in 0..n |-> IF i = 0 THEN <<>> ELSE Stacked(f[i - 1], contacts[i], table)]
           NS == {n \in Nat : \E f : Upto(n, f)}
           N == Len(contacts)
           last == CHOOSE f : Upto(N, f)
<1>1. 0 \in NS
  <2> DEFINE f == [i \in 0..0 |-> <<>>]
  <2>1. Upto(0, f)
    OBVIOUS
  <2> QED BY <2>1
<1>2. ASSUME NEW n \in Nat, n \in NS PROVE n + 1 \in NS
  <2>1. PICK f : Upto(n, f)
    BY <1>2
  <2> DEFINE g == [i \in 0..(n + 1) |-> IF i = n + 1 THEN Stacked(f[n], contacts[i], table) ELSE f[i]]
             h == [i \in 0..(n + 1) |-> IF i = 0 THEN <<>> ELSE Stacked(g[i - 1], contacts[i], table)]
  <2>2. \A i \in 0..(n + 1) : g[i] = h[i]
    <3> SUFFICES ASSUME NEW i \in 0..(n + 1) PROVE g[i] = h[i]
      OBVIOUS
    <3>1. CASE i = 0
      BY <2>1, <3>1
    <3>2. CASE i \in 1..n
      <4>1. i - 1 \in 0..n /\ g[i - 1] = f[i - 1] /\ g[i] = f[i]
        BY <3>2
      <4>2. f[i] = Stacked(f[i - 1], contacts[i], table)
        BY <2>1, <3>2
      <4> QED BY <3>2, <4>1, <4>2
    <3>3. CASE i = n + 1
      <4>1. g[n] = f[n] /\ i # 0 /\ i - 1 = n
        BY <3>3
      <4> QED BY <3>3, <4>1
    <3> QED BY <3>1, <3>2, <3>3
  <2>3. g = h
    <3>1. g = [i \in 0..(n + 1) |-> g[i]] /\ h = [i \in 0..(n + 1) |-> h[i]]
      OBVIOUS
    <3> HIDE DEF g, h
    <3> QED BY <2>2, <3>1
  <2>4. Upto(n + 1, g)
    BY <2>3
  <2> HIDE DEF g, h, Upto
  <2> QED BY <2>4
<1>3. N \in NS
  <2> HIDE DEF NS
  <2> QED BY <1>1, <1>2, SetInduction
<1>4. Upto(N, last)
  BY <1>3
<1>5. Power(contacts, table) <=> (last[N] # <<>> /\ last[N][Len(last[N])])
  BY DEF Power, Stacked, ValueOf
<1>6. StacksOf(contacts, table, last)
  BY <1>4 DEF StacksOf
<1> QED BY <1>5, <1>6

(* What each instruction does to the top of a stack. *)
LEMMA Instructions ==
    ASSUME NEW s \in Seq(BOOLEAN), NEW a \in BOOLEAN, NEW b \in BOOLEAN, NEW c, NEW table
    PROVE  /\ c.op = "LD" => Stacked(s, c, table) = Append(s, ValueOf(c, table))
           /\ c.op = "AND" => Stacked(Append(s, a), c, table) = Append(s, a /\ ValueOf(c, table))
           /\ c.op = "ORB" => Stacked(Append(Append(s, a), b), c, table) = Append(s, a \/ b)
<1>1. ASSUME c.op = "LD" PROVE Stacked(s, c, table) = Append(s, ValueOf(c, table))
  BY <1>1 DEF Stacked
<1> DEFINE m == Len(s)
           sa == Append(s, a)
           sab == Append(sa, b)
           v == ValueOf(c, table)
<1>2. m \in Nat
  OBVIOUS
<1>3. sa \in Seq(BOOLEAN) /\ Len(sa) = m + 1 /\ sa[m + 1] = a /\ \A i \in 1..m : sa[i] = s[i]
  BY AppendProperties
<1>4. sab \in Seq(BOOLEAN) /\ Len(sab) = m + 2 /\ sab[m + 2] = b /\ \A i \in 1..(m + 1) : sab[i] = sa[i]
  <2> HIDE DEF sa, m
  <2> QED BY <1>2, <1>3, AppendProperties
<1>5. v \in BOOLEAN
  BY DEF ValueOf
<1>6. ASSUME c.op = "AND" PROVE Stacked(sa, c, table) = Append(s, a /\ v)
  <2> DEFINE was == sa[m + 1]
             now == [sa EXCEPT ![m + 1] = was /\ v]
             want == Append(s, a /\ v)
  <2>1. Stacked(sa, c, table) = [sa EXCEPT ![Len(sa)] = sa[Len(sa)] /\ v]
    <3> HIDE DEF sa, v
    <3> QED BY <1>6 DEF Stacked, v
  <2>2. Stacked(sa, c, table) = now
    <3> HIDE DEF sa, m, v
    <3> QED BY <1>3, <2>1
  <2>3. (was /\ v) = (a /\ v) /\ (a /\ v) \in BOOLEAN
    BY <1>3
  <2> DEFINE new == a /\ v
  <2> HIDE DEF sa, m, v, was
  <2>4. now = [sa EXCEPT ![m + 1] = new]
    BY <2>3
  <2> HIDE DEF now
  <2>5. new \in BOOLEAN
    BY <2>3
  <2> HIDE DEF new
  <2>6. now \in Seq(BOOLEAN) /\ Len(now) = m + 1 /\ now[m + 1] = new /\ \A i \in 1..m : now[i] = s[i]
    <3>1. m + 1 \in 1..Len(sa) /\ DOMAIN sa = 1..Len(sa)
      BY <1>2, <1>3, LenProperties
    <3>2. now \in Seq(BOOLEAN) /\ Len(now) = Len(sa)
      BY <1>3, <2>4, <2>5, <3>1, ExceptSeq
    <3> QED BY <1>2, <1>3, <2>4, <3>1, <3>2
  <2> DEFINE wanted == Append(s, new)
  <2>7. wanted \in Seq(BOOLEAN) /\ Len(wanted) = m + 1 /\ wanted[m + 1] = new /\ \A i \in 1..m : wanted[i] = s[i]
    BY <2>5, AppendProperties DEF m
  <2> HIDE DEF wanted
  <2>8. now = wanted
    <3>1. \A i \in 1..(m + 1) : now[i] = wanted[i]
      BY <1>2, <2>6, <2>7
    <3> QED BY <2>6, <2>7, <3>1, SeqEqual
  <2> QED BY <2>2, <2>8 DEF wanted, new
<1>7. ASSUME c.op = "ORB" PROVE Stacked(sab, c, table) = Append(s, a \/ b)
  <2>1. Stacked(sab, c, table) =
          Append(SubSeq(sab, 1, Len(sab) - 2), sab[Len(sab) - 1] \/ sab[Len(sab)])
    <3> HIDE DEF sab
    <3> QED BY <1>7 DEF Stacked
  <2> HIDE DEF sa, sab, m
  <2>2. Len(sab) - 2 = m /\ sab[Len(sab) - 1] = a /\ sab[Len(sab)] = b
    BY <1>2, <1>3, <1>4
  <2>3. SubSeq(sab, 1, m) = s
    <3> DEFINE sub == SubSeq(sab, 1, m)
    <3>1. sub \in Seq(BOOLEAN) /\ Len(sub) = m /\ \A i \in 1..m : sub[i] = sab[i]
      BY <1>2, <1>4, SubSeqProperties
    <3>2. \A i \in 1..m : sub[i] = s[i]
      BY <1>2, <1>3, <1>4, <3>1
    <3> HIDE DEF sub
    <3> QED BY <3>1, <3>2, SeqEqual DEF m
  <2> QED BY <2>1, <2>2, <2>3
<1> QED BY <1>1, <1>6, <1>7

(* The stack that a code leaves behind. *)
Leads(code, table, s) == \E f : StacksOf(code, table, f) /\ f[Len(code)] = s

(* The power of a rung is the top of the stack it leads to.                *)
LEMMA PowerIsTop ==
    ASSUME NEW code, Len(code) \in Nat, NEW table, NEW s, Leads(code, table, s)
    PROVE  Power(code, table) <=> s # <<>> /\ s[Len(s)]
<1> DEFINE N == Len(code)
<1>1. PICK f : StacksOf(code, table, f) /\ f[N] = s
  BY DEF Leads
<1>2. PICK g : StacksOf(code, table, g) /\ (Power(code, table) <=> g[N] # <<>> /\ g[N][Len(g[N])])
  BY PowerRuns
<1> DEFINE Same == {i \in Nat : i <= N => f[i] = g[i]}
<1>3. 0 \in Same
  BY <1>1, <1>2 DEF StacksOf
<1>4. ASSUME NEW i \in Nat, i \in Same PROVE i + 1 \in Same
  <2> SUFFICES ASSUME i + 1 <= N PROVE f[i + 1] = g[i + 1]
    OBVIOUS
  <2> DEFINE j == i + 1
  <2>1. j \in 0..N /\ j # 0 /\ j - 1 = i /\ f[i] = g[i]
    BY <1>4
  <2> HIDE DEF j, N
  <2>2. f[j] = Stacked(f[j - 1], code[j], table) /\ g[j] = Stacked(g[j - 1], code[j], table)
    BY <1>1, <1>2, <2>1 DEF StacksOf, N
  <2>3. f[j] = g[j]
    BY <2>1, <2>2
  <2> QED BY <2>3 DEF j
<1>5. N \in Same
  <2> HIDE DEF Same
  <2> QED BY <1>3, <1>4, SetInduction
<1>6. f[N] = g[N]
  BY <1>5
<1> QED BY <1>1, <1>2, <1>6

(* One instruction more.                                                   *)
LEMMA LeadsOn ==
    ASSUME NEW R, NEW code \in Seq(R), NEW c \in R, NEW table, NEW s, Leads(code, table, s)
    PROVE  Leads(Append(code, c), table, Stacked(s, c, table))
<1> DEFINE n == Len(code)
           more == Append(code, c)
<1>1. n \in Nat
  OBVIOUS
<1>2. Len(more) = n + 1 /\ more[n + 1] = c /\ \A i \in 1..n : more[i] = code[i]
  BY AppendProperties
<1>3. PICK f : StacksOf(code, table, f) /\ f[n] = s
  BY DEF Leads
<1> DEFINE next == Stacked(s, c, table)
           g == [i \in 0..(n + 1) |-> IF i = n + 1 THEN next ELSE f[i]]
           h == [i \in 0..(n + 1) |-> IF i = 0 THEN <<>> ELSE Stacked(g[i - 1], more[i], table)]
<1> HIDE DEF n, more
<1>4. \A i \in 0..(n + 1) : g[i] = h[i]
  <2> SUFFICES ASSUME NEW i \in 0..(n + 1) PROVE g[i] = h[i]
    OBVIOUS
  <2>1. CASE i = 0
    <3>1. f[0] = <<>>
      BY <1>1, <1>3 DEF StacksOf, n
    <3> QED BY <1>1, <2>1, <3>1
  <2>2. CASE i \in 1..n
    <3>1. i - 1 \in 0..n /\ g[i - 1] = f[i - 1] /\ g[i] = f[i]
      BY <1>1, <2>2
    <3>2. f[i] = Stacked(f[i - 1], code[i], table)
      BY <1>1, <1>3, <2>2 DEF StacksOf, n
    <3> QED BY <1>1, <1>2, <2>2, <3>1, <3>2
  <2>3. CASE i = n + 1
    <3>1. g[n] = s /\ i # 0 /\ i - 1 = n /\ g[i] = next
      BY <1>1, <1>3, <2>3
    <3> QED BY <1>1, <1>2, <2>3, <3>1
  <2> QED BY <1>1, <2>1, <2>2, <2>3
<1>5. g = h
  <2>1. g = [i \in 0..(n + 1) |-> g[i]] /\ h = [i \in 0..(n + 1) |-> h[i]]
    OBVIOUS
  <2> HIDE DEF g, h
  <2> QED BY <1>4, <2>1
<1>6. StacksOf(more, table, g)
  BY <1>2, <1>5 DEF StacksOf
<1>7. g[Len(more)] = next
  BY <1>1, <1>2
<1> HIDE DEF g, next
<1>8. Leads(more, table, next)
  BY <1>6, <1>7 DEF Leads
<1> QED BY <1>8 DEF more, next

(* An empty rung leads to an empty stack.                                  *)
LEMMA LeadsNowhere ==
    ASSUME NEW table
    PROVE  Leads(<<>>, table, <<>>)
<1> DEFINE f == [i \in 0..0 |-> <<>>]
<1>1. Len(<<>>) = 0
  BY EmptySeq
<1>2. StacksOf(<<>>, table, f)
  BY <1>1 DEF StacksOf
<1>3. f[Len(<<>>)] = <<>>
  BY <1>1
<1> QED BY <1>2, <1>3 DEF Leads

----------------------------------------------------------------------------
Contacts(Y) == [op : {"LD", "AND", "ORB"}, sym : Y, neg : BOOLEAN]

Lits(Y) == [sym : Y, neg : BOOLEAN]

(* A list read from its front, and one element more.                       *)
LEMMA FrontGrows ==
    ASSUME NEW R, NEW code \in Seq(R), NEW x \in Seq(R), NEW j \in Nat, j + 1 <= Len(x)
    PROVE  /\ SubSeq(x, 1, j) \in Seq(R) /\ code \o SubSeq(x, 1, j) \in Seq(R)
           /\ code \o SubSeq(x, 1, j + 1) = Append(code \o SubSeq(x, 1, j), x[j + 1])
<1> DEFINE k == j + 1
           a == SubSeq(x, 1, j)
           b == SubSeq(x, 1, k)
<1>1. k \in 1..Len(x) /\ k \in Nat /\ j \in 0..Len(x) /\ Len(x) \in Nat
  OBVIOUS
<1>2. a \in Seq(R) /\ Len(a) = j /\ \A i \in 1..j : a[i] = x[i]
  BY <1>1, SubSeqProperties
<1>3. b \in Seq(R) /\ Len(b) = k /\ \A i \in 1..k : b[i] = x[i]
  <2> HIDE DEF k
  <2> QED BY <1>1, SubSeqProperties
<1>4. x[k] \in R
  <2> HIDE DEF k
  <2> QED BY <1>1
<1>5. b = Append(a, x[k])
  <2> DEFINE c == Append(a, x[k])
  <2> HIDE DEF a, b
  <2>1. c \in Seq(R) /\ Len(c) = k /\ c[k] = x[k] /\ \A i \in 1..j : c[i] = a[i]
    <3>1. c \in Seq(R) /\ Len(c) = j + 1 /\ c[j + 1] = x[k] /\ \A i \in 1..j : c[i] = a[i]
      <4> HIDE DEF k
      <4> QED BY <1>2, <1>4, AppendProperties
    <3> QED BY <3>1
  <2> HIDE DEF c
  <2>2. \A i \in 1..k : b[i] = c[i]
    BY <1>2, <1>3, <2>1
  <2> HIDE DEF k
  <2>3. b = c
    BY <1>3, <2>1, <2>2, SeqEqual
  <2> QED BY <2>3 DEF c
<1> HIDE DEF a, b, k
<1>6. code \o Append(a, x[k]) = Append(code \o a, x[k])
  BY <1>2, <1>4
<1> QED BY <1>2, <1>5, <1>6 DEF a, b, k

AllOf(lits, table) == \A k \in 1..Len(lits) : ValueOf(lits[k], table)

(* A product in series stacks its value: every one of its literals.        *)
LEMMA SeriesStacks ==
    ASSUME NEW Y, NEW code \in Seq(Contacts(Y)), NEW table, NEW s \in Seq(BOOLEAN),
           Leads(code, table, s), NEW lits \in Seq(Lits(Y)), Len(lits) > 0
    PROVE  /\ code \o Series(lits) \in Seq(Contacts(Y))
           /\ Leads(code \o Series(lits), table, Append(s, AllOf(lits, table)))
<1> DEFINE N == Len(lits)
           R == Contacts(Y)
           x == Series(lits)
           all(j) == \A k \in 1..j : ValueOf(lits[k], table)
           part(j) == code \o SubSeq(x, 1, j)
           Good(j) == j \in 1..N => Leads(part(j), table, Append(s, all(j)))
           J == {j \in Nat : Good(j)}
<1>1. N \in Nat /\ N # 0
  OBVIOUS
<1>2. Len(x) = N /\ x \in Seq(R)
  <2>1. ASSUME NEW j \in 1..N PROVE x[j] \in R
    <3>1. lits[j] \in Lits(Y)
      BY <2>1
    <3>2. lits[j].sym \in Y /\ lits[j].neg \in BOOLEAN
      BY <3>1 DEF Lits
    <3>3. x[j] = [op |-> IF j = 1 THEN "LD" ELSE "AND", sym |-> lits[j].sym, neg |-> lits[j].neg]
      BY <2>1 DEF Series
    <3> HIDE DEF x
    <3> QED BY <3>2, <3>3 DEF Contacts
  <2>2. x = [j \in 1..N |-> x[j]]
    BY DEF Series
  <2> HIDE DEF x, R
  <2>3. x \in [1..N -> R]
    BY <2>1, <2>2
  <2> HIDE DEF N
  <2> QED BY <1>1, <2>3, SeqDef, LenProperties
<1>3. ASSUME NEW j \in 1..N
      PROVE  /\ x[j].op = IF j = 1 THEN "LD" ELSE "AND"
             /\ ValueOf(x[j], table) = ValueOf(lits[j], table) /\ ValueOf(x[j], table) \in BOOLEAN
  BY <1>3 DEF Series, ValueOf
<1> HIDE DEF x, R, N
<1>4. 0 \in J
  OBVIOUS
<1>5. ASSUME NEW j \in Nat, j \in J PROVE j + 1 \in J
  <2> DEFINE k == j + 1
             c == x[k]
             v == ValueOf(c, table)
             a == all(j)
  <2> SUFFICES Good(k)
    <3> HIDE DEF Good
    <3> QED OBVIOUS
  <2> SUFFICES ASSUME k \in 1..N PROVE Leads(part(k), table, Append(s, all(k)))
    <3> HIDE DEF k, part, all
    <3> QED OBVIOUS
  <2>1. /\ SubSeq(x, 1, j) \in Seq(R) /\ part(j) \in Seq(R)
        /\ part(k) = Append(part(j), c)
    <3>1. j + 1 <= Len(x)
      BY <1>1, <1>2
    <3> QED BY <1>2, <3>1, FrontGrows, SMTT(30) DEF R
  <2>2. c \in R
    <3> HIDE DEF k
    <3> QED BY <1>2
  <2>3. all(k) = (a /\ v) /\ a \in BOOLEAN /\ v \in BOOLEAN
    <3>1. 1..k = (1..j) \cup {k}
      OBVIOUS
    <3> HIDE DEF k
    <3>2. ValueOf(x[k], table) = ValueOf(lits[k], table) /\ v \in BOOLEAN
      BY <1>3
    <3> QED BY <3>1, <3>2
  <2>4. CASE j = 0
    <3>1. part(j) = code
      <4>1. SubSeq(x, 1, 0) = <<>>
        BY <1>2, SubSeqEmpty
      <4> QED BY <2>4, <4>1, ConcatEmptySeq
    <3>2. c.op = "LD" /\ a
      BY <1>3, <2>4
    <3>3. Leads(part(k), table, Stacked(s, c, table))
      <4> HIDE DEF c, part
      <4> QED BY <2>1, <2>2, <3>1, LeadsOn DEF R
    <3>4. Stacked(s, c, table) = Append(s, v)
      <4> HIDE DEF c
      <4> QED BY <3>2 DEF Stacked, v
    <3>5. all(k) = v
      <4> HIDE DEF a, v, all
      <4> QED BY <2>3, <3>2
    <3> HIDE DEF all, v, c, part
    <3> QED BY <3>3, <3>4, <3>5
  <2>5. CASE j # 0
    <3>1. c.op = "AND" /\ j \in 1..N
      <4>1. k # 1
        BY <2>5
      <4>2. c.op = "AND"
        <5> HIDE DEF k
        <5> QED BY <1>3, <4>1
      <4> QED BY <1>1, <2>5, <4>2
    <3>2. Leads(part(j), table, Append(s, a))
      BY <1>5, <3>1
    <3>3. Leads(part(k), table, Stacked(Append(s, a), c, table))
      <4> HIDE DEF c, part, a
      <4> QED BY <2>1, <2>2, <3>2, LeadsOn DEF R
    <3>4. Stacked(Append(s, a), c, table) = Append(s, a /\ v)
      <4> HIDE DEF c, a
      <4> QED BY <2>3, <3>1, Instructions DEF v
    <3> HIDE DEF all, v, c, part, a
    <3> QED BY <2>3, <3>3, <3>4
  <2> QED BY <2>4, <2>5
<1>6. Good(N)
  <2>1. N \in J
    <3> HIDE DEF J
    <3> QED BY <1>1, <1>4, <1>5, SetInduction
  <2> HIDE DEF Good
  <2> QED BY <2>1
<1>7. Leads(part(N), table, Append(s, all(N)))
  <2> HIDE DEF part, all
  <2> QED BY <1>1, <1>6
<1>8. SubSeq(x, 1, N) = x
  BY <1>2, SubSeqFull
<1>9. code \o x \in Seq(R)
  BY <1>2, ConcatProperties DEF R
<1>10. Leads(code \o x, table, Append(s, all(N)))
  BY <1>7, <1>8
<1> QED BY <1>9, <1>10 DEF x, R, N, AllOf

----------------------------------------------------------------------------
Branches(dnf) == {Literals(t) : t \in dnf} \ {{}}

CodeTo(branches, n, h) ==
    h = [i \in 0..n |-> IF i = 0 THEN <<>>
                        ELSE h[i - 1] \o Series(InOrder(branches[i])) \o (IF i > 1 THEN OrBlock ELSE <<>>)]

(* A rung is written one branch after the other.                           *)
LEMMA CodeRuns ==
    ASSUME NEW dnf, Len(InOrder(Branches(dnf))) \in Nat
    PROVE  \E h : /\ CodeTo(InOrder(Branches(dnf)), Len(InOrder(Branches(dnf))), h)
                  /\ EmitOrb(dnf) = h[Len(InOrder(Branches(dnf)))]
<1> DEFINE branches == InOrder(Branches(dnf))
           Longer(i, c) == c \o Series(InOrder(branches[i])) \o (IF i > 1 THEN OrBlock ELSE <<>>)
           Upto(n, f) == f = [i \in 0..n |-> IF i = 0 THEN <<>> ELSE Longer(i, f[i - 1])]
           NS == {n \in Nat : \E f : Upto(n, f)}
           N == Len(branches)
           last == CHOOSE f : Upto(N, f)
<1>1. 0 \in NS
  <2> DEFINE f == [i \in 0..0 |-> <<>>]
  <2>1. Upto(0, f)
    <3> HIDE DEF Longer
    <3> QED OBVIOUS
  <2> QED BY <2>1
<1>2. ASSUME NEW n \in Nat, n \in NS PROVE n + 1 \in NS
  <2>1. PICK f : Upto(n, f)
    BY <1>2
  <2> DEFINE g == [i \in 0..(n + 1) |-> IF i = n + 1 THEN Longer(i, f[n]) ELSE f[i]]
             h == [i \in 0..(n + 1) |-> IF i = 0 THEN <<>> ELSE Longer(i, g[i - 1])]
  <2> HIDE DEF Longer
  <2>2. \A i \in 0..(n + 1) : g[i] = h[i]
    <3> SUFFICES ASSUME NEW i \in 0..(n + 1) PROVE g[i] = h[i]
      OBVIOUS
    <3>1. CASE i = 0
      BY <2>1, <3>1
    <3>2. CASE i \in 1..n
      <4>1. i - 1 \in 0..n /\ g[i - 1] = f[i - 1] /\ g[i] = f[i]
        BY <3>2
      <4>2. f[i] = Longer(i, f[i - 1])
        BY <2>1, <3>2
      <4> QED BY <3>2, <4>1, <4>2
    <3>3. CASE i = n + 1
      <4>1. g[n] = f[n] /\ i # 0 /\ i - 1 = n
        BY <3>3
      <4> QED BY <3>3, <4>1
    <3> QED BY <3>1, <3>2, <3>3
  <2>3. g = h
    <3>1. g = [i \in 0..(n + 1) |-> g[i]] /\ h = [i \in 0..(n + 1) |-> h[i]]
      OBVIOUS
    <3> HIDE DEF g, h
    <3> QED BY <2>2, <3>1
  <2>4. Upto(n + 1, g)
    BY <2>3
  <2> HIDE DEF g, h, Upto
  <2> QED BY <2>4
<1>3. N \in NS
  <2> HIDE DEF NS
  <2> QED BY <1>1, <1>2, SetInduction
<1>4. Upto(N, last)
  BY <1>3
<1>5. EmitOrb(dnf) = last[N]
  BY DEF EmitOrb, Branches
<1>6. CodeTo(branches, N, last)
  BY <1>4 DEF CodeTo
<1> QED BY <1>5, <1>6

(* A series of a product's literals has the value of the product.          *)
LEMMA LiteralsMean ==
    ASSUME NEW t, IsFiniteSet(Literals(t)), NEW table, t.on \cup t.off \subseteq DOMAIN table
    PROVE  AllOf(InOrder(Literals(t)), table) <=>
             (\A s \in t.on : table[s]) /\ (\A s \in t.off : ~table[s])
<1> DEFINE L == Literals(t)
           lits == InOrder(L)
           n == Len(lits)
<1>1. n \in Nat /\ lits \in [1..n -> L] /\ \A x \in L : \E i \in 1..n : lits[i] = x
  BY OrderLists
<1>2. AllOf(lits, table) <=> \A x \in L : ValueOf(x, table)
  <2> HIDE DEF L, lits
  <2>1. (\A k \in 1..n : ValueOf(lits[k], table)) <=> \A x \in L : ValueOf(x, table)
    <3> HIDE DEF n
    <3> QED BY <1>1
  <2> QED BY <2>1 DEF AllOf
<1>3. \A s \in t.on : [sym |-> s, neg |-> FALSE] \in L
  BY DEF Literals
<1>4. \A s \in t.off : [sym |-> s, neg |-> TRUE] \in L
  BY DEF Literals
<1>5. \A x \in L : \/ \E s \in t.on : x = [sym |-> s, neg |-> FALSE]
                   \/ \E s \in t.off : x = [sym |-> s, neg |-> TRUE]
  BY DEF Literals
<1>6. \A s \in t.on : ValueOf([sym |-> s, neg |-> FALSE], table) <=> table[s]
  BY DEF ValueOf
<1>7. \A s \in t.off : ValueOf([sym |-> s, neg |-> TRUE], table) <=> ~table[s]
  BY DEF ValueOf
<1> HIDE DEF L, lits
<1>8. (\A x \in L : ValueOf(x, table)) <=> (\A s \in t.on : table[s]) /\ (\A s \in t.off : ~table[s])
  <2>1. ASSUME \A x \in L : ValueOf(x, table)
        PROVE  (\A s \in t.on : table[s]) /\ (\A s \in t.off : ~table[s])
    BY <1>3, <1>4, <1>6, <1>7, <2>1
  <2>2. ASSUME (\A s \in t.on : table[s]) /\ (\A s \in t.off : ~table[s]), NEW x \in L
        PROVE  ValueOf(x, table)
    BY <1>5, <1>6, <1>7, <2>2
  <2> QED BY <2>1, <2>2
<1> QED BY <1>2, <1>8 DEF L, lits

(* A rung of drawn products has the value of their sum.                    *)
LEMMA PowerOfOrb ==
    ASSUME NEW dnf, IsFiniteSet(dnf), NEW table, Reads(dnf) \subseteq DOMAIN table,
           \A t \in dnf : IsFiniteSet(Literals(t)) /\ Literals(t) # {}
    PROVE  Power(EmitOrb(dnf), table) <=> Holds(dnf, table)
<1> DEFINE Br == Branches(dnf)
           B == InOrder(Br)
           n == Len(B)
           Y == Reads(dnf) \cup {""}
           R == Contacts(Y)
           true(i) == AllOf(InOrder(B[i]), table)
           any(i) == \E k \in 1..i : true(k)
<1>0. \A t \in dnf : t.on \cup t.off \subseteq Reads(dnf)
  BY DEF Reads
<1>1. n \in Nat /\ B \in [1..n -> Br] /\ \A x \in Br : \E i \in 1..n : B[i] = x
  <2>1. IsFiniteSet(Br)
    <3> DEFINE T == {Literals(t) : t \in dnf}
               f == [t \in dnf |-> Literals(t)]
    <3>1. f \in Surjection(dnf, T)
      BY DEF Surjection
    <3>2. IsFiniteSet(T)
      <4> HIDE DEF f, T
      <4> QED BY <3>1, FS_Surjection
    <3>3. Br \subseteq T
      BY DEF Branches
    <3> HIDE DEF Br, T
    <3> QED BY <3>2, <3>3, FS_Subset
  <2> HIDE DEF Br
  <2> QED BY <2>1, OrderLists
<1>2. \A i \in 1..n : \E t \in dnf : B[i] = Literals(t)
  BY <1>1 DEF Branches
<1>3. \A t \in dnf : \E i \in 1..n : B[i] = Literals(t)
  BY <1>1 DEF Branches
<1>4. PICK h : CodeTo(B, n, h) /\ EmitOrb(dnf) = h[n]
  BY <1>1, CodeRuns
<1> HIDE DEF Br, B, n
<1>5. ASSUME NEW i \in 1..n
      PROVE  InOrder(B[i]) \in Seq(Lits(Y)) /\ Len(InOrder(B[i])) > 0 /\ true(i) \in BOOLEAN
  <2>1. PICK t \in dnf : B[i] = Literals(t)
    BY <1>2
  <2> DEFINE L == Literals(t)
             lits == InOrder(L)
             m == Len(lits)
  <2>2. IsFiniteSet(L) /\ L # {}
    OBVIOUS
  <2>3. L \subseteq Lits(Y)
    <3>1. t.on \subseteq Y /\ t.off \subseteq Y
      BY <1>0
    <3>2. ASSUME NEW x \in L PROVE x \in Lits(Y)
      <4>1. \/ \E s \in t.on : x = [sym |-> s, neg |-> FALSE]
            \/ \E s \in t.off : x = [sym |-> s, neg |-> TRUE]
        BY <3>2 DEF Literals
      <4> HIDE DEF Y, L
      <4>2. \A s \in Y : [sym |-> s, neg |-> FALSE] \in Lits(Y) /\ [sym |-> s, neg |-> TRUE] \in Lits(Y)
        BY DEF Lits
      <4> QED BY <3>1, <4>1, <4>2
    <3> QED BY <3>2
  <2> HIDE DEF L, Y
  <2>4. m \in Nat /\ lits \in [1..m -> L] /\ \A x \in L : \E j \in 1..m : lits[j] = x
    BY <2>2, OrderLists
  <2>5. lits \in Seq(Lits(Y))
    <3> HIDE DEF lits, m
    <3>1. lits \in [1..m -> Lits(Y)]
      BY <2>3, <2>4
    <3> QED BY <2>4, <3>1, SeqDef
  <2>6. m > 0
    BY <2>2, <2>4
  <2>7. true(i) \in BOOLEAN
    BY DEF AllOf
  <2> QED BY <2>1, <2>5, <2>6, <2>7 DEF L
<1>6. ASSUME NEW i \in 1..n
      PROVE  true(i) <=> \E t \in dnf : /\ B[i] = Literals(t)
                                        /\ \A s \in t.on : table[s]
                                        /\ \A s \in t.off : ~table[s]
  <2>1. ASSUME NEW t \in dnf, B[i] = Literals(t)
        PROVE  true(i) <=> (\A s \in t.on : table[s]) /\ (\A s \in t.off : ~table[s])
    <3>1. t.on \cup t.off \subseteq DOMAIN table /\ IsFiniteSet(Literals(t))
      BY DEF Reads
    <3> QED BY <2>1, <3>1, LiteralsMean
  <2> HIDE DEF true
  <2> QED BY <1>2, <2>1
<1>7. Holds(dnf, table) <=> any(n)
  <2> HIDE DEF true
  <2>1. n \in Nat
    BY <1>1
  <2>2. ASSUME Holds(dnf, table) PROVE any(n)
    <3>1. PICK t \in dnf : (\A s \in t.on : table[s]) /\ (\A s \in t.off : ~table[s])
      BY <2>2 DEF Holds
    <3>2. PICK i \in 1..n : B[i] = Literals(t)
      BY <1>3
    <3>3. true(i)
      BY <1>6, <3>1, <3>2
    <3> QED BY <3>3
  <2>3. ASSUME any(n) PROVE Holds(dnf, table)
    <3>1. PICK i \in 1..n : true(i)
      BY <2>3
    <3> QED BY <1>6, <3>1 DEF Holds
  <2> QED BY <2>2, <2>3
<1> HIDE DEF R, Y, true
<1> DEFINE Good(i) == /\ h[i] \in Seq(R)
                      /\ i = 0 => Leads(h[i], table, <<>>)
                      /\ i > 0 => Leads(h[i], table, Append(<<>>, any(i)))
           G == {i \in Nat : i <= n => Good(i)}
<1>8. 0 \in G
  <2>1. h[0] = <<>>
    BY <1>1, <1>4 DEF CodeTo
  <2>2. <<>> \in Seq(R)
    BY EmptySeq
  <2>3. Good(0)
    BY <2>1, <2>2, LeadsNowhere
  <2> HIDE DEF Good
  <2> QED BY <2>3
<1>9. ASSUME NEW i \in Nat, i \in G PROVE i + 1 \in G
  <2> DEFINE j == i + 1
  <2> SUFFICES ASSUME j <= n PROVE Good(j)
    <3> HIDE DEF j, Good
    <3> QED BY DEF j
  <2>1. Good(i) /\ i \in 0..n /\ j \in 1..n /\ j \in 0..n /\ j # 0 /\ j - 1 = i
    <3> HIDE DEF Good
    <3> QED BY <1>1, <1>9
  <2>2. any(j) = (any(i) \/ true(j)) /\ any(i) \in BOOLEAN /\ true(j) \in BOOLEAN
    <3>1. 1..j = (1..i) \cup {j}
      OBVIOUS
    <3>2. true(j) \in BOOLEAN
      BY <1>5, <2>1
    <3> HIDE DEF j
    <3> QED BY <3>1, <3>2
  <2>3. j > 0 /\ (i = 0 => ~(j > 1)) /\ (i # 0 => j > 1)
    OBVIOUS
  <2> HIDE DEF j
  <2> DEFINE series == Series(InOrder(B[j]))
             head == h[i] \o series
             v == true(j)
             a == any(i)
  <2>4. h[j] = head \o (IF j > 1 THEN OrBlock ELSE <<>>)
    BY <1>4, <2>1 DEF CodeTo
  <2>5. InOrder(B[j]) \in Seq(Lits(Y)) /\ Len(InOrder(B[j])) > 0
    BY <1>5, <2>1
  <2>6. h[i] \in Seq(R) /\ (i = 0 => Leads(h[i], table, <<>>)) /\ (i # 0 => Leads(h[i], table, Append(<<>>, a)))
    BY <2>1
  <2>7. <<>> \in Seq(BOOLEAN) /\ Append(<<>>, a) \in Seq(BOOLEAN)
    <3>1. <<>> \in Seq(BOOLEAN)
      BY EmptySeq
    <3> HIDE DEF a
    <3> QED BY <2>2, <3>1, AppendProperties DEF a
  <2>8. ASSUME NEW s \in Seq(BOOLEAN), Leads(h[i], table, s)
        PROVE  head \in Seq(R) /\ Leads(head, table, Append(s, v))
    BY <2>5, <2>6, <2>8, SeriesStacks DEF R, true
  <2> HIDE DEF head
  <2>9. CASE i = 0
    <3>1. head \in Seq(R) /\ Leads(head, table, Append(<<>>, v))
      BY <2>6, <2>7, <2>8, <2>9
    <3>2. h[j] = head
      <4>1. h[j] = head \o <<>>
        BY <2>3, <2>4, <2>9
      <4> QED BY <3>1, <4>1, ConcatEmptySeq
    <3>3. any(j) = v
      <4>1. ~any(i)
        BY <2>9
      <4> HIDE DEF any
      <4> QED BY <2>2, <4>1
    <3> HIDE DEF any, v
    <3> QED BY <2>3, <3>1, <3>2, <3>3, <2>1
  <2>10. CASE i # 0
    <3> DEFINE sa == Append(<<>>, a)
               c == [op |-> "ORB", sym |-> "", neg |-> FALSE]
    <3>1. head \in Seq(R) /\ Leads(head, table, Append(sa, v))
      BY <2>6, <2>7, <2>8, <2>10
    <3>2. c \in R /\ c.op = "ORB" /\ OrBlock = <<c>>
      BY DEF R, Contacts, Y, OrBlock
    <3> HIDE DEF c
    <3>3. h[j] = Append(head, c)
      <4>1. h[j] = head \o <<c>>
        BY <2>3, <2>4, <2>10, <3>2
      <4>2. head \o <<c>> = Append(head, c)
        BY <3>1, <3>2, AppendIsConcat
      <4> QED BY <4>1, <4>2
    <3> HIDE DEF a, v
    <3>4. Leads(Append(head, c), table, Stacked(Append(sa, v), c, table))
      <4> HIDE DEF sa
      <4> QED BY <3>1, <3>2, LeadsOn
    <3>5. Stacked(Append(sa, v), c, table) = Append(<<>>, a \/ v)
      <4>1. a \in BOOLEAN /\ v \in BOOLEAN
        BY <2>2 DEF a, v
      <4>2. \A e \in Seq(BOOLEAN), p \in BOOLEAN, q \in BOOLEAN :
              Stacked(Append(Append(e, p), q), c, table) = Append(e, p \/ q)
        BY <3>2, Instructions
      <4> QED BY <2>7, <4>1, <4>2
    <3>6. Append(head, c) \in Seq(R)
      BY <3>1, <3>2, AppendProperties
    <3>7. (a \/ v) = any(j)
      BY <2>2 DEF a, v
    <3>8. Leads(h[j], table, Append(<<>>, any(j)))
      <4> HIDE DEF any
      <4> QED BY <3>3, <3>4, <3>5, <3>7
    <3> HIDE DEF any
    <3> QED BY <2>1, <3>3, <3>6, <3>8
  <2> HIDE DEF Good
  <2> QED BY <2>9, <2>10
<1>10. Good(n)
  <2>1. n \in G
    <3> HIDE DEF G
    <3> QED BY <1>1, <1>8, <1>9, SetInduction
  <2> HIDE DEF Good
  <2> QED BY <1>1, <2>1
<1>11. Len(h[n]) \in Nat
  BY <1>10
<1>12. CASE n = 0
  <2>1. Power(h[n], table) <=> <<>> # <<>> /\ <<>>[Len(<<>>)]
    BY <1>10, <1>11, <1>12, PowerIsTop
  <2>2. ~any(n)
    BY <1>12
  <2> HIDE DEF any
  <2> QED BY <1>4, <1>7, <2>1, <2>2
<1>13. CASE n # 0
  <2> DEFINE v == any(n)
             s == Append(<<>>, v)
  <2>1. Leads(h[n], table, s)
    BY <1>1, <1>10, <1>13
  <2>2. s # <<>> /\ s[Len(s)] = v
    <3>1. v \in BOOLEAN /\ <<>> \in Seq(BOOLEAN) /\ Len(<<>>) = 0
      BY EmptySeq
    <3> HIDE DEF v
    <3>2. Len(s) = 1 /\ s[1] = v
      <4>1. Len(s) = Len(<<>>) + 1 /\ s[Len(<<>>) + 1] = v
        BY <3>1, AppendProperties
      <4> HIDE DEF s
      <4> QED BY <3>1, <4>1
    <3> HIDE DEF s
    <3> QED BY <3>1, <3>2
  <2> HIDE DEF v, s
  <2>3. Power(h[n], table) <=> s # <<>> /\ s[Len(s)]
    BY <1>11, <2>1, PowerIsTop
  <2>4. Power(h[n], table) <=> v
    BY <2>2, <2>3
  <2> QED BY <1>4, <1>7, <2>4 DEF v
<1> QED BY <1>12, <1>13

----------------------------------------------------------------------------
(* The values that the two engines compute are truth values.               *)
LEMMA TruthValues ==
    ASSUME NEW code, NEW cond, NEW coil, NEW out, NEW table
    PROVE  Power(code, table) \in BOOLEAN /\ Holds(cond, table) \in BOOLEAN
           /\ CoilValue(coil, out, table) \in BOOLEAN
<1>1. Power(code, table) \in BOOLEAN
  BY DEF Power
<1>2. Holds(cond, table) \in BOOLEAN
  BY DEF Holds
<1>3. CoilValue(coil, out, table) \in BOOLEAN
  BY DEF CoilValue
<1> QED BY <1>1, <1>2, <1>3

(* The power of what is emitted for a drawable condition is its value.     *)
LEMMA DrawnMeans ==
    ASSUME NEW sp, NEW cond, Drawable(sp, cond), NEW table, DOMAIN table = Names(sp)
    PROVE  Power(EmitOrb(cond), table) = Holds(cond, table)
<1>1. /\ IsFiniteSet(cond) /\ Reads(cond) \subseteq DOMAIN table
      /\ \A t \in cond : IsFiniteSet(Literals(t)) /\ Literals(t) # {}
  BY DEF Drawable
<1>2. Power(EmitOrb(cond), table) <=> Holds(cond, table)
  BY <1>1, PowerOfOrb
<1>3. Power(EmitOrb(cond), table) \in BOOLEAN /\ Holds(cond, table) \in BOOLEAN
  BY TruthValues
<1> QED BY <1>2, <1>3

(* The rungs of the outputs do to a table what the coil lines do.          *)
LEMMA RungsAreLines ==
    ASSUME NEW sp, WellNamed(sp), Translatable(sp), NEW table, DOMAIN table = Names(sp)
    PROVE  IlScanCoils(IlProgram(sp), table) = ScanCoils(sp, table)
<1> DEFINE pr == IlProgram(sp)
           N == Len(sp.outputs)
           Line(i, before) ==
               IF sp.outputs[i] \in DOMAIN pr.rungs
               THEN [before EXCEPT ![sp.outputs[i]] = Power(pr.rungs[sp.outputs[i]], before)]
               ELSE before
           Upto(g) == g = [i \in 0..N |-> IF i = 0 THEN table ELSE Line(i, g[i - 1])]
           last == CHOOSE g : Upto(g)
<1>1. N \in Nat /\ ValidSpec(sp) /\ IsList(sp.outputs)
  BY DEF WellNamed, IsList
<1>2. PICK f : TablesBetween(sp, table, f) /\ ScanCoils(sp, table) = f[N]
  BY <1>1, CoilsRun
<1>3. pr.order = sp.outputs
      /\ DOMAIN pr.rungs = {o \in OutputNames(sp) : Synthesizable(sp, o)}
      /\ \A o \in DOMAIN pr.rungs : pr.rungs[o] = EmitOrb(CoilDnf(SynthOne(sp, o), o))
  BY DEF IlProgram
<1>4. IlScanCoils(pr, table) = last[N]
  <2> HIDE DEF pr
  <2> QED BY <1>3 DEF IlScanCoils
<1> HIDE DEF pr
<1>5. ASSUME NEW i \in 1..N, NEW before, DOMAIN before = Names(sp)
      PROVE  Line(i, before) = CoilLine(sp, i, before)
  <2> DEFINE o == sp.outputs[i]
             coil == SynthOne(sp, o)
  <2>1. o \in OutputNames(sp)
    BY DEF OutputNames
  <2> HIDE DEF o
  <2>2. ASSUME Synthesizable(sp, o)
        PROVE  Power(EmitOrb(CoilDnf(coil, o)), before) = CoilValue(coil, o, before)
    <3>1. Drawable(sp, CoilDnf(coil, o))
      BY <2>1, <2>2 DEF Translatable
    <3>2. Power(EmitOrb(CoilDnf(coil, o)), before) = Holds(CoilDnf(coil, o), before)
      BY <1>5, <3>1, DrawnMeans
    <3>3. Holds(CoilDnf(coil, o), before) <=> CoilValue(coil, o, before)
      BY RungsMean
    <3>4. Holds(CoilDnf(coil, o), before) \in BOOLEAN /\ CoilValue(coil, o, before) \in BOOLEAN
      BY TruthValues
    <3> HIDE DEF coil
    <3> QED BY <3>2, <3>3, <3>4
  <2>3. o \in DOMAIN pr.rungs <=> Synthesizable(sp, o)
    BY <1>3, <2>1
  <2>4. ASSUME Synthesizable(sp, o) PROVE pr.rungs[o] = EmitOrb(CoilDnf(coil, o))
    BY <1>3, <2>3, <2>4
  <2> HIDE DEF coil
  <2> QED BY <2>2, <2>3, <2>4 DEF CoilLine, o, coil
<1>6. \A i \in 0..N : DOMAIN f[i] = Names(sp)
  <2>1. f[0] = table /\ 0 \in 0..N
    BY <1>1, <1>2, LineFacts
  <2>2. \A i \in 0..N : DOMAIN f[i] = DOMAIN f[0]
    BY <1>1, <1>2, <2>1, LinesTouchTheirOutput
  <2> QED BY <2>1, <2>2
<1>7. Upto(f)
  <2> DEFINE g == [i \in 0..N |-> IF i = 0 THEN table ELSE CoilLine(sp, i, f[i - 1])]
             h == [i \in 0..N |-> IF i = 0 THEN table ELSE Line(i, f[i - 1])]
  <2>1. f = g
    BY <1>2 DEF TablesBetween
  <2>2. \A i \in 0..N : g[i] = h[i]
    <3> SUFFICES ASSUME NEW i \in 0..N, i # 0 PROVE CoilLine(sp, i, f[i - 1]) = Line(i, f[i - 1])
      OBVIOUS
    <3>1. i \in 1..N /\ i - 1 \in 0..N
      BY <1>1
    <3> HIDE DEF Line
    <3> QED BY <1>5, <1>6, <3>1
  <2>3. g = h
    <3>1. g = [i \in 0..N |-> g[i]] /\ h = [i \in 0..N |-> h[i]]
      OBVIOUS
    <3> HIDE DEF g, h
    <3> QED BY <2>2, <3>1
  <2> QED BY <2>1, <2>3
<1>8. Upto(last)
  <2> HIDE DEF Upto
  <2> QED BY <1>7
<1> DEFINE Same == {i \in Nat : i <= N => last[i] = f[i]}
<1> HIDE DEF last
<1>9. 0 \in Same
  BY <1>1, <1>7, <1>8
<1>10. ASSUME NEW i \in Nat, i \in Same PROVE i + 1 \in Same
  <2> SUFFICES ASSUME i + 1 <= N PROVE last[i + 1] = f[i + 1]
    OBVIOUS
  <2> DEFINE j == i + 1
  <2>1. j \in 0..N /\ j # 0 /\ j - 1 = i /\ last[i] = f[i]
    BY <1>1, <1>10
  <2> HIDE DEF j, N, Line
  <2>2. f[j] = Line(j, f[j - 1]) /\ last[j] = Line(j, last[j - 1])
    BY <1>7, <1>8, <2>1
  <2>3. last[j] = f[j]
    BY <2>1, <2>2
  <2> QED BY <2>3 DEF j
<1>11. last[N] = f[N]
  <2>1. N \in Same
    <3> HIDE DEF Same
    <3> QED BY <1>1, <1>9, <1>10, SetInduction
  <2> QED BY <1>1, <2>1
<1> QED BY <1>2, <1>4, <1>11 DEF pr

(* Two tables that agree on what a condition reads give it the same value. *)
LEMMA SameReadings ==
    ASSUME NEW cond, NEW t1, NEW t2, \A n \in Reads(cond) : t1[n] = t2[n]
    PROVE  Holds(cond, t1) = Holds(cond, t2)
<1>1. \A t \in cond : t.on \cup t.off \subseteq Reads(cond)
  BY DEF Reads
<1>2. Holds(cond, t1) <=> Holds(cond, t2)
  BY <1>1 DEF Holds
<1>3. Holds(cond, t1) \in BOOLEAN /\ Holds(cond, t2) \in BOOLEAN
  BY TruthValues
<1> QED BY <1>2, <1>3

StatesBetween(sp, st, period, f) ==
    f = [i \in 0..Len(FbCalls(sp)) |-> IF i = 0 THEN st ELSE BlockCall(sp, i, f[i - 1], period)]

(* What a scan of the blocks has not come to yet is as it was.             *)
LEMMA BlocksUntouched ==
    ASSUME NEW sp, Len(FbCalls(sp)) \in Nat, NEW st, NEW period, NEW f, StatesBetween(sp, st, period, f)
    PROVE  \A i \in 0..Len(FbCalls(sp)) :
             /\ DOMAIN f[i].table = DOMAIN st.table
             /\ \A n \in DOMAIN st.table :
                   (\A k \in 1..i : Bit(FbCalls(sp)[k].name) # n) => f[i].table[n] = st.table[n]
             /\ DOMAIN f[i].blocks = DOMAIN st.blocks
             /\ \A b \in DOMAIN st.blocks :
                   (\A k \in 1..i : FbCalls(sp)[k].name # b) => f[i].blocks[b] = st.blocks[b]
<1> DEFINE calls == FbCalls(sp)
           N == Len(calls)
           TableKept(i, s) == /\ DOMAIN s.table = DOMAIN st.table
                              /\ \A n \in DOMAIN st.table :
                                    (\A k \in 1..i : Bit(calls[k].name) # n) => s.table[n] = st.table[n]
           BlocksKept(i, s) == /\ DOMAIN s.blocks = DOMAIN st.blocks
                               /\ \A b \in DOMAIN st.blocks :
                                     (\A k \in 1..i : calls[k].name # b) => s.blocks[b] = st.blocks[b]
           Kept(i) == TableKept(i, f[i]) /\ BlocksKept(i, f[i])
           S == {i \in Nat : i <= N => Kept(i)}
<1>0. f = [i \in 0..N |-> IF i = 0 THEN st ELSE BlockCall(sp, i, f[i - 1], period)] /\ N \in Nat
  BY DEF StatesBetween
<1> HIDE DEF N
<1>1. 0 \in S
  <2>1. f[0] = st
    BY <1>0
  <2> QED BY <2>1
<1>2. ASSUME NEW i \in Nat, i \in S PROVE i + 1 \in S
  <2> DEFINE j == i + 1
  <2> SUFFICES ASSUME j <= N PROVE Kept(j)
    <3> HIDE DEF j, Kept
    <3> QED BY DEF j
  <2>1. Kept(i)
    <3>1. i <= N
      BY <1>0
    <3> HIDE DEF Kept
    <3> QED BY <1>2, <3>1
  <2>2. j \in 0..N /\ j # 0 /\ j - 1 = i
    BY <1>0
  <2>3. j \in 1..j /\ 1..i \subseteq 1..j
    OBVIOUS
  <2> HIDE DEF j
  <2>4. f[j] = BlockCall(sp, j, f[i], period)
    BY <1>0, <2>2
  <2> DEFINE name == calls[j].name
             now == ScanBlock(calls[j], f[i].blocks[name], f[i].table, period)
  <2>5. BlockCall(sp, j, f[i], period) = [table |-> [f[i].table EXCEPT ![Bit(name)] = now.q],
                                      blocks |-> [f[i].blocks EXCEPT ![name] = now]]
    BY DEF BlockCall
  <2> HIDE DEF now, name
  <2>6. f[j].table = [f[i].table EXCEPT ![Bit(name)] = now.q]
        /\ f[j].blocks = [f[i].blocks EXCEPT ![name] = now]
    BY <2>4, <2>5
  <2>7. TableKept(j, f[j])
    BY <2>1, <2>3, <2>6 DEF name
  <2>8. BlocksKept(j, f[j])
    BY <2>1, <2>3, <2>6 DEF name
  <2> QED BY <2>7, <2>8
<1>3. ASSUME NEW i \in 0..N PROVE Kept(i)
  <2>1. i \in S /\ i <= N
    <3>1. i \in Nat /\ i <= N
      BY <1>0
    <3> HIDE DEF S
    <3>2. i \in S
      BY <1>1, <1>2, <3>1, SetInduction
    <3> QED BY <3>1, <3>2
  <2> HIDE DEF Kept
  <2> QED BY <2>1
<1> QED BY <1>3 DEF N

(* The interpreter takes the power of all blocks before it runs the first: *)
(* in a translatable program that makes no difference.                     *)
LEMMA RungsAreCalls ==
    ASSUME ~Allocated, NEW sp, WellNamed(sp), Translatable(sp), NEW period,
           NEW st, DOMAIN st.table = Names(sp), DOMAIN st.blocks = BlockNames(sp)
    PROVE  IlScanBlocks(IlProgram(sp), st, period) = ScanBlocks(sp, st, period)
<1> DEFINE pr == IlProgram(sp)
           calls == FbCalls(sp)
           N == Len(calls)
           made(b) ==
               LET power == Power(b.in, st.table)
                   was == st.blocks[b.name]
               IN  IF b.kind = "TON" THEN ScanTimer("TON", was, b.preset, power, period)
                   ELSE ScanCounter("CTU", was, b.preset, power, Power(b.reset, st.table))
           Put(b, now, before) == [table |-> [before.table EXCEPT ![BlockBit(b.name)] = now.q],
                                   blocks |-> [before.blocks EXCEPT ![b.name] = now]]
           Call(i, before) == Put(pr.blocks[i], made(pr.blocks[i]), before)
           Upto(g) == g = [i \in 0..N |-> IF i = 0 THEN st ELSE Call(i, g[i - 1])]
           last == CHOOSE g : Upto(g)
<1>1. N \in Nat
  BY CallsAreAList DEF WellNamed
<1>2. PICK f : StatesBetween(sp, st, period, f) /\ ScanBlocks(sp, st, period) = f[N]
  BY <1>1, BlocksRun DEF StatesBetween
<1>3. Len(pr.blocks) = N /\ \A i \in 1..N : pr.blocks[i] = IlBlock(calls[i])
  <2>1. pr.blocks = [i \in 1..N |-> IlBlock(calls[i])]
    BY DEF IlProgram
  <2> HIDE DEF pr
  <2>2. Len([i \in 1..N |-> IlBlock(calls[i])]) = N
    BY <1>1
  <2> QED BY <2>1, <2>2
<1>4. IlScanBlocks(pr, st, period) = last[N]
  <2> HIDE DEF pr
  <2> QED BY <1>3 DEF IlScanBlocks
<1> HIDE DEF pr
<1>5. ASSUME NEW i \in 1..N PROVE Call(i, f[i - 1]) = BlockCall(sp, i, f[i - 1], period)
  <2> DEFINE call == calls[i]
             before == f[i - 1]
             b == pr.blocks[i]
  <2>1. i - 1 \in 0..N /\ i \in 1..Len(FbCalls(sp)) /\ \A k \in 1..(i - 1) : k \in 1..N /\ k < i
    BY <1>1
  <2>2. /\ DOMAIN before.table = DOMAIN st.table
        /\ \A n \in DOMAIN st.table :
              (\A k \in 1..(i - 1) : Bit(calls[k].name) # n) => before.table[n] = st.table[n]
        /\ \A c \in DOMAIN st.blocks :
              (\A k \in 1..(i - 1) : calls[k].name # c) => before.blocks[c] = st.blocks[c]
    <3> DEFINE m == i - 1
    <3>1. m \in 0..N
      BY <2>1
    <3> HIDE DEF m
    <3>2. /\ DOMAIN f[m].table = DOMAIN st.table
          /\ \A n \in DOMAIN st.table :
                (\A k \in 1..m : Bit(calls[k].name) # n) => f[m].table[n] = st.table[n]
          /\ \A c \in DOMAIN st.blocks :
                (\A k \in 1..m : calls[k].name # c) => f[m].blocks[c] = st.blocks[c]
      BY <1>1, <1>2, <3>1, BlocksUntouched
    <3> QED BY <3>2 DEF m
  <2>3. /\ call.kind \in {"TON", "CTU"}
        /\ Drawable(sp, Consistent(call.in)) /\ Drawable(sp, Consistent(call.reset))
        /\ \A k \in 1..(i - 1) : /\ calls[k].name # call.name
                                 /\ Bit(calls[k].name) \notin Reads(call.in) \cup Reads(call.reset)
    <3> HIDE DEF N
    <3>1. \A k \in 1..(i - 1) : k \in 1..Len(calls) /\ k < i /\ k # i
      BY <2>1 DEF N
    <3> QED BY <2>1, <3>1 DEF Translatable, N
  <2>4. before.blocks[call.name] = st.blocks[call.name]
    <3>1. call.name \in DOMAIN st.blocks
      BY DEF BlockNames
    <3> HIDE DEF call, before
    <3> QED BY <2>2, <2>3, <3>1
  <2>5. ASSUME NEW cond, Drawable(sp, Consistent(cond)),
               \A k \in 1..(i - 1) : Bit(calls[k].name) \notin Reads(cond)
        PROVE  Power(EmitOrb(Consistent(cond)), st.table) = Holds(cond, before.table)
    <3>1. Power(EmitOrb(Consistent(cond)), st.table) = Holds(Consistent(cond), st.table)
      BY <2>5, DrawnMeans
    <3>2. Reads(Consistent(cond)) \subseteq Reads(cond)
      BY DEF Consistent, Reads
    <3>3. Holds(Consistent(cond), st.table) = Holds(Consistent(cond), before.table)
      <4>1. \A n \in Reads(Consistent(cond)) : n \in DOMAIN st.table
        BY <2>5 DEF Drawable
      <4>2. \A n \in Reads(Consistent(cond)) : st.table[n] = before.table[n]
        <5> HIDE DEF before
        <5> QED BY <2>2, <2>5, <3>2, <4>1
      <4> QED BY <4>2, SameReadings
    <3>4. Holds(Consistent(cond), before.table) <=> Holds(cond, before.table)
      BY ConsistentMeans
    <3>5. Holds(Consistent(cond), before.table) \in BOOLEAN /\ Holds(cond, before.table) \in BOOLEAN
      BY TruthValues
    <3> HIDE DEF before
    <3> QED BY <3>1, <3>3, <3>4, <3>5
  <2>6. /\ Power(EmitOrb(Consistent(call.in)), st.table) = Holds(call.in, before.table)
        /\ Power(EmitOrb(Consistent(call.reset)), st.table) = Holds(call.reset, before.table)
    <3> HIDE DEF before, call
    <3> QED BY <2>3, <2>5
  <2>7. /\ b.name = call.name /\ b.preset = call.preset
        /\ b.kind = (IF call.kind \in TimerKinds THEN "TON" ELSE "CTU")
        /\ b.in = EmitOrb(Consistent(call.in)) /\ b.reset = EmitOrb(Consistent(call.reset))
    <3>1. b = IlBlock(call)
      BY <1>3
    <3> HIDE DEF b, call
    <3> QED BY <3>1 DEF IlBlock
  <2>8. BlockBit(b.name) = Bit(call.name)
    BY <2>7 DEF BlockBit
  <2> DEFINE stepped == ScanBlock(call, before.blocks[call.name], before.table, period)
  <2>9. made(b) = stepped
    <3> HIDE DEF b, call, before
    <3>1. CASE call.kind = "TON"
      <4>1. call.kind \in TimerKinds /\ b.kind = "TON"
        BY <2>7, <3>1 DEF TimerKinds
      <4> QED BY <2>4, <2>6, <2>7, <3>1, <4>1 DEF ScanBlock
    <3>2. CASE call.kind = "CTU"
      <4>1. call.kind \notin TimerKinds /\ b.kind = "CTU"
        BY <2>7, <3>2 DEF TimerKinds
      <4>2. b.kind # "TON"
        BY <4>1
      <4> QED BY <2>4, <2>6, <2>7, <3>2, <4>1, <4>2 DEF ScanBlock
    <3> QED BY <2>3, <3>1, <3>2
  <2>10. BlockCall(sp, i, before, period) = [table |-> [before.table EXCEPT ![Bit(call.name)] = stepped.q],
                                         blocks |-> [before.blocks EXCEPT ![call.name] = stepped]]
    BY DEF BlockCall
  <2>11. Call(i, before) = Put(b, stepped, before)
    <3> HIDE DEF stepped, before
    <3> QED BY <2>9
  <2> HIDE DEF stepped, before, Call, b, call
  <2> QED BY <2>7, <2>8, <2>10, <2>11 DEF before
<1>6. Upto(f)
  <2> DEFINE g == [i \in 0..N |-> IF i = 0 THEN st ELSE BlockCall(sp, i, f[i - 1], period)]
             h == [i \in 0..N |-> IF i = 0 THEN st ELSE Call(i, f[i - 1])]
  <2> HIDE DEF Call
  <2>1. \A i \in 0..N : g[i] = h[i]
    <3> SUFFICES ASSUME NEW i \in 0..N, i # 0 PROVE BlockCall(sp, i, f[i - 1], period) = Call(i, f[i - 1])
      OBVIOUS
    <3>1. i \in 1..N
      BY <1>1
    <3> QED BY <1>5, <3>1
  <2>2. g = h
    <3>1. g = [i \in 0..N |-> g[i]] /\ h = [i \in 0..N |-> h[i]]
      OBVIOUS
    <3> HIDE DEF g, h
    <3> QED BY <2>1, <3>1
  <2>3. f = g
    BY <1>2 DEF StatesBetween
  <2> QED BY <2>2, <2>3
<1>7. Upto(last)
  <2> HIDE DEF Upto
  <2> QED BY <1>6
<1> DEFINE Same == {i \in Nat : i <= N => last[i] = f[i]}
<1> HIDE DEF last, Call, N
<1>8. 0 \in Same
  BY <1>1, <1>6, <1>7
<1>9. ASSUME NEW i \in Nat, i \in Same PROVE i + 1 \in Same
  <2> SUFFICES ASSUME i + 1 <= N PROVE last[i + 1] = f[i + 1]
    OBVIOUS
  <2> DEFINE j == i + 1
  <2>1. j \in 0..N /\ j # 0 /\ j - 1 = i /\ last[i] = f[i]
    BY <1>1, <1>9
  <2> HIDE DEF j
  <2>2. f[j] = Call(j, f[j - 1]) /\ last[j] = Call(j, last[j - 1])
    BY <1>6, <1>7, <2>1
  <2>3. last[j] = f[j]
    BY <2>1, <2>2
  <2> QED BY <2>3 DEF j
<1>10. last[N] = f[N]
  <2>1. N \in Same
    <3> HIDE DEF Same
    <3> QED BY <1>1, <1>8, <1>9, SetInduction
  <2> QED BY <1>1, <2>1
<1> QED BY <1>2, <1>4, <1>10 DEF pr, N

(* The interpreter is where the ST engine is: the same table, the same     *)
(* timers and counters, with the instructions of the specification.        *)
EnginesInv ==
    /\ NamesInv /\ DOMAIN state.blocks = BlockNames(spec)
    /\ il = state /\ prog = IlProgram(spec)

(* A scan of both engines under the same inputs leaves them the same.      *)
LEMMA BothScanAlike ==
    ASSUME ~Allocated, EnginesInv, BothScan
    PROVE  EnginesInv'
<1>1. PICK on \in SUBSET spec.inputs : ScanUnder(on) /\ il' = IlScan(on) /\ prog' = prog
  BY DEF BothScan
<1> DEFINE sense == Sense(spec, state.table, on)
           begin == [state EXCEPT !.table = sense]
           mid == ScanBlocks(spec, begin, ScanTime)
<1>2. NamesInv /\ WellNamed(spec) /\ Translatable(spec)
  BY SpecsAssumption, TranslationAssumption DEF EnginesInv, NamesInv
<1>3. NamesInv' /\ spec' = spec
  <2>1. Scan
    BY <1>1 DEF Scan
  <2> QED BY <1>2, <2>1, ScanIsCoils
<1>4. begin = [table |-> sense, blocks |-> state.blocks]
  BY <1>2 DEF NamesInv
<1>5. DOMAIN sense = Names(spec)
  BY <1>2 DEF Sense, NamesInv
<1>6. begin.table = sense /\ begin.blocks = state.blocks /\ begin = [table |-> begin.table, blocks |-> begin.blocks]
  BY <1>4
<1>7. state' = [mid EXCEPT !.table = ScanCoils(spec, @)]
  BY <1>1 DEF ScanUnder, StScan
<1>8. il' = [IlScanBlocks(prog, begin, ScanTime) EXCEPT !.table = IlScanCoils(prog, @)]
  BY <1>1 DEF IlScan, EnginesInv
<1> HIDE DEF sense, begin
<1>9. IlScanBlocks(prog, begin, ScanTime) = mid
  BY <1>2, <1>5, <1>6, RungsAreCalls DEF EnginesInv
<1>10. mid = [table |-> mid.table, blocks |-> mid.blocks] /\ DOMAIN mid.table = Names(spec)
  BY <1>2, <1>5, <1>6, BlocksKeep
<1>11. DOMAIN mid.blocks = BlockNames(spec)
  <2> DEFINE N == Len(FbCalls(spec))
  <2>1. N \in Nat
    BY <1>2, CallsAreAList DEF WellNamed
  <2>2. PICK f : StatesBetween(spec, begin, ScanTime, f) /\ mid = f[N]
    BY <2>1, BlocksRun DEF StatesBetween
  <2>3. N \in 0..N
    BY <2>1
  <2>4. DOMAIN f[N].blocks = DOMAIN begin.blocks
    BY <2>1, <2>2, <2>3, BlocksUntouched
  <2> HIDE DEF N, mid
  <2> QED BY <1>6, <2>2, <2>4 DEF EnginesInv
<1> HIDE DEF mid
<1>12. IlScanCoils(prog, mid.table) = ScanCoils(spec, mid.table)
  BY <1>2, <1>10, RungsAreLines DEF EnginesInv
<1>13. state' = [table |-> ScanCoils(spec, mid.table), blocks |-> mid.blocks]
  BY <1>7, <1>10
<1>14. il' = [table |-> IlScanCoils(prog, mid.table), blocks |-> mid.blocks]
  BY <1>8, <1>9, <1>10
<1>15. il' = state'
  BY <1>12, <1>13, <1>14
<1>16. DOMAIN state'.blocks = BlockNames(spec)
  BY <1>11, <1>13
<1>17. prog' = IlProgram(spec)
  BY <1>1 DEF EnginesInv
<1> QED BY <1>3, <1>15, <1>16, <1>17 DEF EnginesInv

(* The instruction list of every specification that can be translated has  *)
(* the same outputs ON as its ST program after every scan, whatever the    *)
(* inputs do, when the block bits have no device addresses of their own.   *)
THEOREM InstructionsKeepTheMeaning ==
    ASSUME ~Allocated
    PROVE  XgkSpec => []SameOutputs
<1>1. XgkInit => EnginesInv
  <2> SUFFICES ASSUME XgkInit PROVE EnginesInv
    OBVIOUS
  <2>1. NamesInv /\ state = PowerOn(spec) /\ il = IlPowerOn(spec) /\ prog = IlProgram(spec)
    BY PowerOnNames DEF XgkInit, Init
  <2> DEFINE bits == {BlockBit(b) : b \in BlockNames(spec)}
             off == AllOff(Names(spec))
             fresh == [b \in BlockNames(spec) |-> Fresh]
  <2>2. bits \subseteq Names(spec)
    BY DEF BlockBit, Names
  <2>3. PowerOn(spec) = [table |-> off, blocks |-> fresh]
    BY DEF PowerOn
  <2>4. DOMAIN off = Names(spec) /\ off = [n \in Names(spec) |-> FALSE]
    BY DEF AllOff
  <2> DEFINE wide == [n \in DOMAIN off \cup bits |-> FALSE]
  <2>5. IlPowerOn(spec) = [table |-> wide, blocks |-> fresh]
    <3>1. PowerOn(spec).table = off /\ PowerOn(spec).blocks = fresh
      BY <2>3
    <3> HIDE DEF off, fresh
    <3> QED BY <3>1 DEF IlPowerOn
  <2>6. wide = off
    <3> HIDE DEF bits, off
    <3>1. DOMAIN off \cup bits = Names(spec)
      BY <2>2, <2>4
    <3> QED BY <2>4, <3>1
  <2>7. il = state
    <3> HIDE DEF wide, off, fresh
    <3> QED BY <2>1, <2>3, <2>5, <2>6
  <2>8. DOMAIN state.blocks = BlockNames(spec)
    BY <2>1, <2>3
  <2> QED BY <2>1, <2>7, <2>8 DEF EnginesInv
<1>2. EnginesInv /\ [BothScan]_xgkVars => EnginesInv'
  <2> SUFFICES ASSUME EnginesInv, [BothScan]_xgkVars PROVE EnginesInv'
    OBVIOUS
  <2>1. CASE BothScan
    BY <2>1, BothScanAlike
  <2>2. CASE UNCHANGED xgkVars
    BY <2>2 DEF xgkVars, vars, EnginesInv, NamesInv
  <2> QED BY <2>1, <2>2
<1>3. EnginesInv => SameOutputs
  BY DEF EnginesInv, SameOutputs, Image
<1> QED BY <1>1, <1>2, <1>3, PTL DEF XgkSpec
=============================================================================
