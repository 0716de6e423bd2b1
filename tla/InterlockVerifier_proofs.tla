---------------------- MODULE InterlockVerifier_proofs ----------------------
(***************************************************************************)
(* Soundness of the two interlock checks, for every program, every number  *)
(* of outputs, every set of analog levels and every unfolding depth.       *)
(*                                                                         *)
(* The one-step check is an inductive invariant.  The k-induction is not:  *)
(* its step case speaks of K different safe images in a row.  So the       *)
(* invariant keeps a witness, a path of safe images from the reset image   *)
(* to the present one that visits none twice (KindInv).  A scan prolongs   *)
(* it or leads back onto it; as long as it is shorter than K the base case *)
(* keeps the new image safe, from then on its last K images do.            *)
(***************************************************************************)
EXTENDS InterlockVerifier, WellFoundedInduction, TLAPS

(* What the verdict says is what the check computed, and nothing runs      *)
(* before it is known.                                                     *)
VerdictInv ==
    /\ image \in Images(prog)
    /\ verdict = NoReport => image = AllOff(Driven(prog))
    /\ \A lock \in DOMAIN verdict :
          /\ lock \in prog.locks
          /\ verdict[lock].oneStep = OneStepReport(View(prog), lock)
          /\ verdict[lock].kind = KindReport(View(prog), lock)

SoundInv == VerdictInv /\ OneStepIsSound

(* A scan from a safe image cannot break a lock the check found no way to  *)
(* break.                                                                  *)
LEMMA OneStepExcludes ==
    ASSUME NEW lock, image \in Images(prog), Scan,
           ~OneStepFails(prog, lock), ~Clash(lock, image)
    PROVE  ~Clash(lock, image')
<1>1. PICK level \in Levels : \E v \in Valuations(Free(prog), level) :
        IsScan(prog, image, v, image')
  BY DEF Scan
<1>2. image' \in Successors(prog, level, image)
  BY <1>1 DEF Scan, Successors, Images
<1> QED BY <1>1, <1>2 DEF OneStepFails

(* Only a lock without a one-step counterexample is reported "ok". *)
LEMMA OkMeansNoCounterexample ==
    ASSUME NEW v, NEW lock, OneStepReport(v, lock) = "ok"
    PROVE  ~OneStepFails(v, lock)
BY DEF OneStepReport

(* check_interlocks_st is sound: the exclusion it reports for a program    *)
(* all of whose coil lines it saw holds after every scan, although the     *)
(* check looks at a single one and comparisons share one register.         *)
THEOREM OneStepSoundness == VerifierSpec => []OneStepIsSound
<1>1. VerifierInit => SoundInv
  <2> SUFFICES ASSUME VerifierInit PROVE SoundInv
    OBVIOUS
  <2>1. image = AllOff(Driven(prog)) /\ image \in Images(prog)
    BY DEF VerifierInit, Init, AllOff, Images
  <2>2. DOMAIN verdict = {}
    BY DEF VerifierInit, NoReport
  <2> QED BY <2>1, <2>2 DEF SoundInv, VerdictInv, OneStepIsSound, Done
<1>2. SoundInv /\ [VerifierNext]_allVars => SoundInv'
  <2> SUFFICES ASSUME SoundInv, [VerifierNext]_allVars PROVE SoundInv'
    OBVIOUS
  <2>1. CASE Verify
    <3>1. image = AllOff(Driven(prog)) /\ image' = image /\ prog' = prog
      BY <2>1 DEF Verify, vars, SoundInv, VerdictInv
    <3>2. DOMAIN verdict' = prog.locks
      BY <2>1 DEF Verify
    <3>3. \A lock \in prog.locks :
            /\ verdict'[lock].oneStep = OneStepReport(View(prog), lock)
            /\ verdict'[lock].kind = KindReport(View(prog), lock)
      BY <2>1 DEF Verify
    <3>4. \A lock \in prog.locks : ~Clash(lock, image)
      BY <3>1 DEF Clash, AllOff
    <3> QED BY <3>1, <3>2, <3>3, <3>4
            DEF SoundInv, VerdictInv, OneStepIsSound, Done
  <2>2. CASE verdict # NoReport /\ Scan /\ UNCHANGED verdict
    <3>1. prog' = prog /\ image' \in Images(prog) /\ verdict' = verdict
      BY <2>2 DEF Scan, Images
    <3>2. VerdictInv'
      BY <2>2, <3>1 DEF SoundInv, VerdictInv
    <3>3. ASSUME NEW lock \in prog.locks, Done(lock), FullyVisible(prog),
                 verdict[lock].oneStep = "ok"
          PROVE  ~Clash(lock, image')
      <4>1. ~OneStepFails(prog, lock)
        BY <3>3, OkMeansNoCounterexample
           DEF SoundInv, VerdictInv, Done, FullyVisible
      <4>2. ~Clash(lock, image)
        BY <3>3 DEF SoundInv, OneStepIsSound
      <4> QED BY <2>2, <4>1, <4>2, OneStepExcludes DEF SoundInv, VerdictInv
    <3> QED BY <3>1, <3>2, <3>3 DEF SoundInv, OneStepIsSound, Done
  <2>3. CASE UNCHANGED allVars
    BY <2>3 DEF allVars, SoundInv, VerdictInv, OneStepIsSound, Done
  <2> QED BY <2>1, <2>2, <2>3 DEF VerifierNext
<1>3. SoundInv => OneStepIsSound
  BY DEF SoundInv
<1> QED BY <1>1, <1>2, <1>3, PTL DEF VerifierSpec

(* Only declared interlocks get reports, and a report is a severity,       *)
(* whatever the program looks like to the checks.                          *)
THEOREM VerdictTypeCorrect == VerifierSpec => []TypeOK
<1>1. VerifierInit => TypeOK
  BY DEF VerifierInit, Init, NoReport, TypeOK, AllOff, Images
<1>2. TypeOK /\ [VerifierNext]_allVars => TypeOK'
  <2> SUFFICES ASSUME TypeOK, [VerifierNext]_allVars PROVE TypeOK'
    OBVIOUS
  <2>1. CASE Verify
    <3>1. prog' = prog /\ image' = image
      BY <2>1 DEF Verify, vars
    <3>2. DOMAIN verdict' = prog.locks
      BY <2>1 DEF Verify
    <3>3. \A lock \in prog.locks :
            verdict'[lock] = [oneStep |-> OneStepReport(View(prog), lock),
                              kind    |-> KindReport(View(prog), lock)]
      BY <2>1 DEF Verify
    <3>4. \A lock : /\ OneStepReport(View(prog), lock) \in {"ok", "error", "skipped"}
                    /\ KindReport(View(prog), lock) \in {"ok", "error", "warning", "skipped"}
      BY DEF OneStepReport, KindReport
    <3>5. \A lock \in prog.locks :
            verdict'[lock] \in [oneStep : {"ok", "error", "skipped"},
                               kind : {"ok", "error", "warning", "skipped"}]
      <4> SUFFICES ASSUME NEW lock \in prog.locks
                   PROVE  verdict'[lock] \in [oneStep : {"ok", "error", "skipped"},
                                             kind : {"ok", "error", "warning", "skipped"}]
        OBVIOUS
      <4> DEFINE one == OneStepReport(View(prog), lock)
                 two == KindReport(View(prog), lock)
      <4>1. one \in {"ok", "error", "skipped"} /\ two \in {"ok", "error", "warning", "skipped"}
        BY <3>4
      <4>2. verdict'[lock] = [oneStep |-> one, kind |-> two]
        BY <3>3
      <4> HIDE DEF one, two
      <4> QED BY <4>1, <4>2
    <3> QED BY <3>1, <3>2, <3>5 DEF TypeOK
  <2>2. CASE verdict # NoReport /\ Scan /\ UNCHANGED verdict
    <3>1. prog' = prog /\ image' \in Images(prog) /\ verdict' = verdict
      BY <2>2 DEF Scan, Images
    <3> QED BY <3>1 DEF TypeOK
  <2>3. CASE UNCHANGED allVars
    BY <2>3 DEF allVars, vars, TypeOK
  <2> QED BY <2>1, <2>2, <2>3 DEF VerifierNext
<1> QED BY <1>1, <1>2, PTL DEF VerifierSpec

----------------------------------------------------------------------------
(* Induction over the naturals, by the smallest one that is not in S: the  *)
(* induction theorems of the library take a predicate, this one a set.     *)
LEMMA SetInduction ==
    ASSUME NEW S, 0 \in S, \A n \in Nat : n \in S => n + 1 \in S
    PROVE  Nat \subseteq S
<1> DEFINE Less == {ss \in Nat \X Nat : ss[1] < ss[2]}
           Rest == Nat \ S
<1> SUFFICES ASSUME Rest # {} PROVE FALSE
  OBVIOUS
<1>1. IsWellFoundedOn(Less, Nat)
  BY NatLessThanWellFounded DEF OpToRel
<1>2. Rest \subseteq Nat
  OBVIOUS
<1>3. PICK n \in Rest : \A m \in Rest : <<m, n>> \notin Less
  <2> HIDE DEF Less, Rest
  <2> QED BY <1>1, <1>2, WFMin
<1>4. n \in Nat /\ n # 0 /\ n - 1 \in Nat /\ n - 1 < n
  OBVIOUS
<1>5. n - 1 \in S
  <2>1. <<n - 1, n>> \in Less
    BY <1>4
  <2> QED BY <1>3, <1>4, <2>1
<1> QED BY <1>4, <1>5

(* Nothing but the symbols it reads decides what a coil line computes. *)
LEMMA CoilReads ==
    ASSUME NEW c, NEW out, NEW f, NEW g,
           \A t \in c.on \cup c.cut : \A s \in t.on \cup t.off : f[s] = g[s],
           \A s \in c.guards : f[s] = g[s],
           f[out] = g[out]
    PROVE  CoilValue(c, out, f) = CoilValue(c, out, g)
<1>1. Holds(c.on, f) = Holds(c.on, g)
  BY DEF Holds
<1>2. Holds(c.cut, f) = Holds(c.cut, g)
  BY DEF Holds
<1> QED BY <1>1, <1>2 DEF CoilValue

(* What a program does in a scan it can do at any level of the register,   *)
(* when none of its lines compares it.                                     *)
LEMMA LevelsAreAlike ==
    ASSUME NEW p \in Programs, ~UsesComparison(p),
           NEW here \in Levels, NEW there \in Levels, NEW cur
    PROVE  Successors(p, here, cur) \subseteq Successors(p, there, cur)
<1> SUFFICES ASSUME NEW nxt \in Successors(p, here, cur)
             PROVE  nxt \in Successors(p, there, cur)
  OBVIOUS
<1>1. PICK ins \in Valuations(Free(p), here) : IsScan(p, cur, ins, nxt)
  BY DEF Successors
<1> DEFINE moved == [s \in Free(p) |->
                       IF s \in Comparisons THEN there \in Sat[s] ELSE ins[s]]
<1>2. moved \in Valuations(Free(p), there)
  <2>1. ins \in [Free(p) -> BOOLEAN]
    BY <1>1 DEF Valuations
  <2>2. \A s : (there \in Sat[s]) \in BOOLEAN
    OBVIOUS
  <2>3. \A s \in Free(p) : moved[s] \in BOOLEAN
    BY <2>1, <2>2
  <2> QED BY <2>3 DEF Valuations
<1>3. /\ \A o \in Driven(p) : p.coil[o] \in Coil
      /\ Driven(p) \subseteq Symbols
  <2>1. p.order \in Seq(Symbols) /\ p.coil \in [Symbols -> Coil]
    BY ProgramsAssumption DEF Program
  <2> QED BY <2>1 DEF Driven
<1>4. ASSUME NEW o \in Driven(p)
      PROVE  CoilValue(p.coil[o], o, Frame(p, o, cur, ins, nxt))
               = CoilValue(p.coil[o], o, Frame(p, o, cur, moved, nxt))
  <2> DEFINE f == Frame(p, o, cur, ins, nxt)
             g == Frame(p, o, cur, moved, nxt)
  <2>1. ASSUME NEW s \in Symbols, s \notin Comparisons \/ s \in Driven(p)
        PROVE  f[s] = g[s]
    BY <2>1 DEF Frame, Free
  <2>2. ASSUME NEW t \in p.coil[o].on \cup p.coil[o].cut, NEW s \in t.on \cup t.off
        PROVE  s \in Symbols /\ s \notin Comparisons
    BY <1>3, <2>2 DEF UsesComparison, Coil, Cond, Term
  <2>3. \A s \in p.coil[o].guards : s \in Symbols /\ s \notin Comparisons
    BY <1>3 DEF UsesComparison, Coil
  <2> HIDE DEF f, g
  <2>4. \A t \in p.coil[o].on \cup p.coil[o].cut : \A s \in t.on \cup t.off : f[s] = g[s]
    BY <2>1, <2>2
  <2>5. (\A s \in p.coil[o].guards : f[s] = g[s]) /\ f[o] = g[o]
    BY <1>3, <2>1, <2>3
  <2> QED BY <2>4, <2>5, CoilReads DEF f, g
<1>5. IsScan(p, cur, moved, nxt)
  BY <1>1, <1>4 DEF IsScan
<1> QED BY <1>2, <1>5 DEF Successors

(* The frames of the unfolding: what is reached in exactly i scans. *)
Unfolds(v, level, reach) ==
    /\ reach = [i \in 0..K |->
                  IF i = 0 THEN {AllOff(Driven(v))}
                  ELSE UNION {Successors(v, level, img) : img \in reach[i - 1]}]
    /\ Unfolding(v, level) = UNION {reach[i] : i \in 0..K}

(* There are such frames: the recursion of the unfolding ends. *)
LEMMA UnfoldingFrames ==
    ASSUME NEW v, NEW level
    PROVE  \E reach : Unfolds(v, level, reach)
<1> DEFINE first == {AllOff(Driven(v))}
           After(frames) == UNION {Successors(v, level, img) : img \in frames}
           Frames(n, f) == f = [i \in 0..n |-> IF i = 0 THEN first ELSE After(f[i - 1])]
           S == {n \in Nat : \E f : Frames(n, f)}
<1> HIDE DEF first, After
<1>1. 0 \in S
  <2>1. Frames(0, [i \in 0..0 |-> first])
    OBVIOUS
  <2> QED BY <2>1
<1>2. ASSUME NEW n \in Nat, n \in S PROVE n + 1 \in S
  <2>1. PICK f : Frames(n, f)
    BY <1>2
  <2> DEFINE g == [i \in 0..n + 1 |-> IF i = n + 1 THEN After(f[n]) ELSE f[i]]
  <2>2. \A i \in 0..n + 1 : g[i] = IF i = 0 THEN first ELSE After(g[i - 1])
    <3>1. \A i \in 0..n : g[i] = f[i] /\ f[i] = IF i = 0 THEN first ELSE After(f[i - 1])
      BY <2>1
    <3>2. g[n + 1] = After(f[n]) /\ f[n] = g[n] /\ n + 1 # 0 /\ (n + 1) - 1 = n
      BY <3>1
    <3>3. \A i \in 0..n : i # 0 => i - 1 \in 0..n
      OBVIOUS
    <3>4. \A i \in 0..n + 1 : i \in 0..n \/ i = n + 1
      OBVIOUS
    <3> HIDE DEF g
    <3> QED BY <3>1, <3>2, <3>3, <3>4
  <2>3. Frames(n + 1, g)
    <3>1. g = [i \in 0..n + 1 |-> g[i]]
      OBVIOUS
    <3> HIDE DEF g
    <3> QED BY <2>2, <3>1
  <2> HIDE DEF g, Frames
  <2> QED BY <2>3
<1>3. K \in S
  <2> HIDE DEF S
  <2> QED BY <1>1, <1>2, SetInduction, KAssumption
<1>4. \E f : Frames(K, f)
  BY <1>3
<1> DEFINE reach == CHOOSE f : Frames(K, f)
<1>5. Frames(K, reach)
  BY <1>4
<1>6. Unfolding(v, level) = UNION {reach[i] : i \in 0..K}
  BY DEF Unfolding, first, After
<1>7. Unfolds(v, level, reach)
  BY <1>5, <1>6 DEF first, After, Unfolds
<1> QED BY <1>7

(* A run of n scans from the reset image, and one that neither visits an   *)
(* image twice nor breaks the lock.                                        *)
Walk(p, n, path) ==
    /\ path \in [0..n -> Images(p)]
    /\ path[0] = AllOff(Driven(p))
    /\ \A i \in 1..n : \A level \in Levels :
          path[i] \in Successors(p, level, path[i - 1])

SafePath(p, lock, n, path) ==
    /\ Walk(p, n, path)
    /\ \A i, j \in 0..n : path[i] = path[j] => i = j
    /\ \A i \in 0..n : ~Clash(lock, path[i])

(* The base case looks at every image that K scans can reach. *)
LEMMA WalksUnfold ==
    ASSUME NEW p, NEW n \in Nat, n <= K, NEW path, Walk(p, n, path), NEW level \in Levels
    PROVE  path[n] \in Unfolding(p, level)
<1>1. PICK reach : Unfolds(p, level, reach)
  BY UnfoldingFrames
<1> DEFINE S == {i \in Nat : i <= n => path[i] \in reach[i]}
<1>2. 0 \in S
  BY <1>1, KAssumption DEF Walk, Unfolds
<1>3. ASSUME NEW i \in Nat, i \in S PROVE i + 1 \in S
  <2> SUFFICES ASSUME i + 1 <= n PROVE path[i + 1] \in reach[i + 1]
    OBVIOUS
  <2>1. path[i] \in reach[i] /\ i + 1 \in 1..n /\ i + 1 \in 0..K /\ i + 1 # 0 /\ (i + 1) - 1 = i
    BY <1>3, KAssumption
  <2>2. path[i + 1] \in Successors(p, level, path[i])
    BY <2>1 DEF Walk
  <2>3. reach[i + 1] = UNION {Successors(p, level, img) : img \in reach[i]}
    BY <1>1, <2>1 DEF Unfolds
  <2> QED BY <2>1, <2>2, <2>3
<1>4. n \in S
  <2> HIDE DEF S
  <2> QED BY <1>2, <1>3, SetInduction
<1>5. n \in 0..K /\ path[n] \in reach[n]
  BY <1>4, KAssumption
<1> QED BY <1>1, <1>5 DEF Unfolds

(* The step case: what follows K different safe images in a row is safe.   *)
LEMMA LongPathsStaySafe ==
    ASSUME NEW p \in Programs, NEW lock, ~StepFails(p, lock),
           NEW n \in Nat, K <= n + 1, NEW path, SafePath(p, lock, n, path),
           NEW level \in Levels, NEW nxt \in Successors(p, level, path[n])
    PROVE  ~Clash(lock, nxt)
<1> DEFINE succ == [img \in Images(p) |-> Successors(p, level, img)]
           safe == {img \in Images(p) : ~Clash(lock, img)}
           at(i) == n - K + i
           last == [i \in 1..K |-> path[at(i)]]
<1>1. /\ K \in Nat \ {0} /\ at(K) = n
      /\ \A i \in 1..K : at(i) \in 0..n
      /\ \A i \in 1..K-1 : at(i + 1) \in 1..n /\ at(i + 1) - 1 = at(i) /\ i \in 1..K /\ i + 1 \in 1..K
      /\ \A i, j \in 1..K : at(i) = at(j) => i = j
  BY KAssumption
<1> HIDE DEF at
<1>2. path \in [0..n -> Images(p)] /\ \A i \in 0..n : path[i] \in safe
  BY DEF SafePath, Walk
<1>3. last \in [1..K -> safe]
  BY <1>1, <1>2
<1>4. \A i \in 1..K-1 : last[i + 1] \in succ[last[i]]
  <2> SUFFICES ASSUME NEW i \in 1..K-1 PROVE last[i + 1] \in succ[last[i]]
    OBVIOUS
  <2>1. last[i] = path[at(i)] /\ last[i + 1] = path[at(i + 1)]
    BY <1>1
  <2>2. path[at(i + 1)] \in Successors(p, level, path[at(i)])
    BY <1>1 DEF SafePath, Walk
  <2>3. last[i] \in Images(p)
    BY <1>1, <1>2, <2>1
  <2> QED BY <2>1, <2>2, <2>3
<1>5. \A i, j \in 1..K : last[i] = last[j] => i = j
  BY <1>1 DEF SafePath
<1>6. succ[last[K]] = Successors(p, level, path[n])
  <2>1. K \in 1..K /\ n \in 0..n
    BY <1>1
  <2>2. last[K] = path[n] /\ path[n] \in Images(p)
    BY <1>1, <1>2, <2>1
  <2> QED BY <2>2
<1> HIDE DEF succ, safe, last
<1>7. ~(\E path_1 \in [1..K -> safe] :
          /\ \A i \in 1..K-1 : path_1[i + 1] \in succ[path_1[i]]
          /\ \A i, j \in 1..K : path_1[i] = path_1[j] => i = j
          /\ \E nxt_1 \in succ[path_1[K]] : Clash(lock, nxt_1))
  BY DEF StepFails, succ, safe
<1> QED BY <1>3, <1>4, <1>5, <1>6, <1>7

(* A program that compares nothing can make every scan of one level at any *)
(* other, so a safe path can be prolonged by the scan: cut where the image *)
(* was before, or with one image more.                                     *)
LEMMA SafePathsGrow ==
    ASSUME NEW p \in Programs, ~UsesComparison(p),
           NEW lock, ~BaseFails(p, lock), ~StepFails(p, lock),
           NEW n \in Nat, NEW path, SafePath(p, lock, n, path),
           NEW level \in Levels, NEW nxt \in Successors(p, level, path[n])
    PROVE  \E m \in Nat : \E longer : SafePath(p, lock, m, longer) /\ longer[m] = nxt
<1>1. CASE \E j \in 0..n : path[j] = nxt
  <2>1. PICK j \in 0..n : path[j] = nxt
    BY <1>1
  <2> DEFINE cut == [i \in 0..j |-> path[i]]
  <2>2. j \in Nat /\ 0 \in 0..j /\ j \in 0..j
        /\ (\A i \in 0..j : i \in 0..n) /\ (\A i \in 1..j : i \in 1..n /\ i \in 0..j /\ i - 1 \in 0..j)
    OBVIOUS
  <2>3. (\A i \in 0..j : cut[i] = path[i]) /\ cut \in [0..j -> Images(p)]
    BY <2>2 DEF SafePath, Walk
  <2> HIDE DEF cut
  <2>4. SafePath(p, lock, j, cut) /\ cut[j] = nxt
    BY <2>1, <2>2, <2>3 DEF SafePath, Walk
  <2> QED BY <2>2, <2>4
<1>2. CASE \A j \in 0..n : path[j] # nxt
  <2> DEFINE longer == [i \in 0..n + 1 |-> IF i = n + 1 THEN nxt ELSE path[i]]
  <2>1. /\ n + 1 \in Nat /\ 0 \in 0..n /\ n \in 0..n
        /\ \A i \in 0..n + 1 : i \in 0..n \/ i = n + 1
        /\ \A i \in 0..n : i \in 0..n + 1 /\ i # n + 1
        /\ \A i \in 1..n + 1 : i \in 1..n \/ (i = n + 1 /\ i - 1 = n)
        /\ \A i \in 1..n : i \in 0..n /\ i - 1 \in 0..n
    OBVIOUS
  <2>2. nxt \in Images(p)
    BY DEF Successors
  <2>3. /\ \A i \in 0..n : longer[i] = path[i]
        /\ longer[n + 1] = nxt
        /\ longer \in [0..n + 1 -> Images(p)]
    BY <2>1, <2>2 DEF SafePath, Walk
  <2> HIDE DEF longer
  <2>4. \A any \in Levels : nxt \in Successors(p, any, path[n])
    BY LevelsAreAlike
  <2>5. Walk(p, n + 1, longer)
    BY <2>1, <2>3, <2>4 DEF SafePath, Walk
  <2>6. ~Clash(lock, nxt)
    <3>1. CASE n + 1 <= K
      <4>1. nxt \in Unfolding(p, level)
        BY <2>1, <2>3, <2>5, <3>1, WalksUnfold
      <4> QED BY <4>1 DEF BaseFails
    <3>2. CASE K <= n + 1
      BY <3>2, LongPathsStaySafe
    <3> QED BY <3>1, <3>2, KAssumption
  <2>7. \A i, j \in 0..n + 1 : longer[i] = longer[j] => i = j
    BY <1>2, <2>1, <2>3 DEF SafePath
  <2>8. SafePath(p, lock, n + 1, longer)
    BY <2>1, <2>3, <2>5, <2>6, <2>7 DEF SafePath
  <2> QED BY <2>1, <2>3, <2>8
<1> QED BY <1>1, <1>2

(* A lock the k-induction proved has such a path to the present image.     *)
KindInv ==
    \A lock \in DOMAIN verdict :
        verdict[lock].kind = "ok" /\ FullyVisible(prog) /\ ~UsesComparison(prog)
          => \E n \in Nat : \E path :
                SafePath(prog, lock, n, path) /\ path[n] = image

KindSoundInv == prog \in Programs /\ VerdictInv /\ KindInv

(* Only a lock both cases have cleared is reported "ok". *)
LEMMA KindOkMeansCleared ==
    ASSUME NEW v, NEW lock, KindReport(v, lock) = "ok"
    PROVE  Checkable(v, lock) /\ ~BaseFails(v, lock) /\ ~StepFails(v, lock)
BY DEF KindReport

(* The verdict is never about anything but the program and its reports.    *)
LEMMA VerdictStep ==
    ASSUME VerdictInv, [VerifierNext]_allVars
    PROVE  VerdictInv'
<1>1. CASE Verify
  <2>1. prog' = prog /\ image' = image /\ image = AllOff(Driven(prog))
    BY <1>1 DEF Verify, vars, VerdictInv
  <2>2. DOMAIN verdict' = prog.locks
    BY <1>1 DEF Verify
  <2>3. \A lock \in prog.locks :
          /\ verdict'[lock].oneStep = OneStepReport(View(prog), lock)
          /\ verdict'[lock].kind = KindReport(View(prog), lock)
    BY <1>1 DEF Verify
  <2> QED BY <2>1, <2>2, <2>3 DEF VerdictInv
<1>2. CASE verdict # NoReport /\ Scan /\ UNCHANGED verdict
  BY <1>2 DEF Scan, Images, VerdictInv
<1>3. CASE UNCHANGED allVars
  BY <1>3 DEF allVars, vars, VerdictInv
<1> QED BY <1>1, <1>2, <1>3 DEF VerifierNext

(* check_interlocks_kinduction is sound for programs without comparisons,  *)
(* whatever the depth K: what base and step case establish for bounded     *)
(* runs holds after any number of scans.                                   *)
THEOREM KindSoundness == VerifierSpec => []BooleanKindIsSound
<1>1. VerifierInit => KindSoundInv
  <2> SUFFICES ASSUME VerifierInit PROVE KindSoundInv
    OBVIOUS
  <2>1. image = AllOff(Driven(prog)) /\ image \in Images(prog) /\ prog \in Programs
    BY DEF VerifierInit, Init, AllOff, Images
  <2>2. DOMAIN verdict = {}
    BY DEF VerifierInit, NoReport
  <2> QED BY <2>1, <2>2 DEF KindSoundInv, KindInv, VerdictInv
<1>2. KindSoundInv /\ [VerifierNext]_allVars => KindSoundInv'
  <2> SUFFICES ASSUME KindSoundInv, [VerifierNext]_allVars PROVE KindSoundInv'
    OBVIOUS
  <2>1. VerdictInv'
    BY VerdictStep DEF KindSoundInv
  <2>2. prog' = prog /\ prog \in Programs
    BY DEF KindSoundInv, VerifierNext, Verify, Scan, allVars, vars
  <2>3. CASE Verify
    <3> SUFFICES ASSUME NEW lock \in DOMAIN verdict', FullyVisible(prog)
                 PROVE  \E n \in Nat : \E path :
                          SafePath(prog, lock, n, path) /\ path[n] = image
      BY <2>1, <2>2, <2>3 DEF KindSoundInv, KindInv, FullyVisible, UsesComparison, Verify, vars
    <3> DEFINE path == [i \in 0..0 |-> image]
    <3>1. image = AllOff(Driven(prog)) /\ image \in Images(prog)
      BY <2>3 DEF KindSoundInv, VerdictInv, Verify
    <3>2. ~Clash(lock, image)
      BY <3>1 DEF Clash, AllOff
    <3>3. path \in [0..0 -> Images(prog)] /\ (\A i \in 0..0 : path[i] = image /\ i = 0) /\ path[0] = image
      BY <3>1
    <3> HIDE DEF path
    <3>4. SafePath(prog, lock, 0, path)
      BY <3>1, <3>2, <3>3 DEF SafePath, Walk
    <3> QED BY <3>3, <3>4
  <2>4. CASE verdict # NoReport /\ Scan /\ UNCHANGED verdict
    <3> SUFFICES ASSUME NEW lock \in DOMAIN verdict, verdict[lock].kind = "ok",
                        FullyVisible(prog), ~UsesComparison(prog)
                 PROVE  \E n \in Nat : \E path :
                          SafePath(prog, lock, n, path) /\ path[n] = image'
      BY <2>1, <2>2, <2>4 DEF KindSoundInv, KindInv, FullyVisible, UsesComparison
    <3>1. PICK n \in Nat : \E path : SafePath(prog, lock, n, path) /\ path[n] = image
      BY DEF KindSoundInv, KindInv
    <3>2. PICK path : SafePath(prog, lock, n, path) /\ path[n] = image
      BY <3>1
    <3>3. PICK level \in Levels : image' \in Successors(prog, level, image)
      BY <2>4 DEF Scan, Successors, Images
    <3>4. ~BaseFails(prog, lock) /\ ~StepFails(prog, lock)
      BY KindOkMeansCleared DEF KindSoundInv, VerdictInv, FullyVisible
    <3> QED BY <2>2, <3>2, <3>3, <3>4, SafePathsGrow
  <2>5. CASE UNCHANGED allVars
    BY <2>1, <2>5 DEF KindSoundInv, KindInv, FullyVisible, UsesComparison, allVars, vars
  <2> QED BY <2>1, <2>2, <2>3, <2>4, <2>5 DEF KindSoundInv, VerifierNext
<1>3. KindSoundInv => BooleanKindIsSound
  <2> SUFFICES ASSUME KindSoundInv, NEW lock \in prog.locks,
                      Done(lock), FullyVisible(prog), ~UsesComparison(prog),
                      verdict[lock].kind = "ok"
               PROVE  ~Clash(lock, image)
    BY DEF BooleanKindIsSound
  <2>1. PICK n \in Nat : \E path : SafePath(prog, lock, n, path) /\ path[n] = image
    BY DEF KindSoundInv, KindInv, Done
  <2>2. n \in 0..n
    OBVIOUS
  <2> QED BY <2>1, <2>2 DEF SafePath
<1> QED BY <1>1, <1>2, <1>3, PTL DEF VerifierSpec

----------------------------------------------------------------------------
(* When no scan leads from a safe image to a clash, every frame of the     *)
(* unfolding is safe, and there is no step-case counterexample either.     *)
LEMMA OneStepClearsKind ==
    ASSUME NEW v, NEW lock, Checkable(v, lock), ~OneStepFails(v, lock)
    PROVE  ~BaseFails(v, lock) /\ ~StepFails(v, lock)
<1>1. ASSUME NEW level \in Levels, NEW cur \in Images(v), ~Clash(lock, cur),
             NEW nxt \in Successors(v, level, cur)
      PROVE  ~Clash(lock, nxt) /\ nxt \in Images(v)
  BY <1>1 DEF OneStepFails, Successors
<1>2. ASSUME NEW level \in Levels, NEW img \in Unfolding(v, level)
      PROVE  ~Clash(lock, img)
  <2>1. PICK reach : Unfolds(v, level, reach)
    BY UnfoldingFrames
  <2> DEFINE safe == {cur \in Images(v) : ~Clash(lock, cur)}
             S == {i \in Nat : i <= K => reach[i] \subseteq safe}
  <2>2. 0 \in S
    <3>1. AllOff(Driven(v)) \in safe
      BY DEF AllOff, Images, Clash
    <3>2. reach[0] = {AllOff(Driven(v))}
      BY <2>1, KAssumption DEF Unfolds
    <3> QED BY <3>1, <3>2
  <2>3. ASSUME NEW i \in Nat, i \in S PROVE i + 1 \in S
    <3> SUFFICES ASSUME i + 1 <= K PROVE reach[i + 1] \subseteq safe
      OBVIOUS
    <3>1. reach[i] \subseteq safe /\ i + 1 \in 0..K /\ i + 1 # 0 /\ (i + 1) - 1 = i
      BY <2>3, KAssumption
    <3>2. reach[i + 1] = UNION {Successors(v, level, cur) : cur \in reach[i]}
      BY <2>1, <3>1 DEF Unfolds
    <3> QED BY <1>1, <3>1, <3>2
  <2>4. Nat \subseteq S
    <3> HIDE DEF S
    <3> QED BY <2>2, <2>3, SetInduction
  <2>5. PICK i \in 0..K : img \in reach[i]
    BY <2>1 DEF Unfolds
  <2>6. i \in Nat /\ i <= K
    BY KAssumption
  <2> QED BY <2>4, <2>5, <2>6
<1>3. ~StepFails(v, lock)
  <2> SUFFICES ASSUME StepFails(v, lock) PROVE FALSE
    OBVIOUS
  <2>1. PICK level \in Levels :
          LET succ == [img \in Images(v) |-> Successors(v, level, img)]
              safe == {img \in Images(v) : ~Clash(lock, img)}
          IN  \E path \in [1..K -> safe] : \E nxt \in succ[path[K]] : Clash(lock, nxt)
    BY DEF StepFails
  <2>2. PICK cur \in Images(v) : ~Clash(lock, cur) /\ \E nxt \in Successors(v, level, cur) : Clash(lock, nxt)
    <3>1. K \in 1..K
      BY KAssumption
    <3> QED BY <2>1, <3>1
  <2> QED BY <1>1, <2>2
<1> QED BY <1>2, <1>3 DEF BaseFails

(* The one-step check is the stronger of the two layers, at every depth    *)
(* and for every program, comparisons or not: what it proves the           *)
(* k-induction proves too.                                                 *)
THEOREM LayersAlwaysAgree == VerifierSpec => []LayersAgree
<1>1. VerifierInit => VerdictInv
  <2> SUFFICES ASSUME VerifierInit PROVE VerdictInv
    OBVIOUS
  <2>1. image = AllOff(Driven(prog)) /\ image \in Images(prog)
    BY DEF VerifierInit, Init, AllOff, Images
  <2>2. DOMAIN verdict = {}
    BY DEF VerifierInit, NoReport
  <2> QED BY <2>1, <2>2 DEF VerdictInv
<1>2. VerdictInv /\ [VerifierNext]_allVars => VerdictInv'
  BY VerdictStep
<1>3. VerdictInv => LayersAgree
  <2> SUFFICES ASSUME VerdictInv, NEW lock \in prog.locks, Done(lock),
                      verdict[lock].oneStep = "ok"
               PROVE  verdict[lock].kind = "ok"
    BY DEF LayersAgree
  <2>1. OneStepReport(View(prog), lock) = "ok"
    BY DEF VerdictInv, Done
  <2>2. Checkable(View(prog), lock) /\ ~OneStepFails(View(prog), lock)
    BY <2>1 DEF OneStepReport
  <2>3. ~BaseFails(View(prog), lock) /\ ~StepFails(View(prog), lock)
    BY <2>2, OneStepClearsKind
  <2>4. KindReport(View(prog), lock) = "ok"
    BY <2>2, <2>3 DEF KindReport
  <2> QED BY <2>4 DEF VerdictInv, Done
<1> QED BY <1>1, <1>2, <1>3, PTL DEF VerifierSpec
=============================================================================
