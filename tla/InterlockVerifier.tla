------------------------- MODULE InterlockVerifier -------------------------
(***************************************************************************)
(* The interlock checks of app/verifier.py on the ST text, and the scans   *)
(* of the program after its verdict is known.                              *)
(*                                                                         *)
(* Z3 is asked whether a formula over finitely many BOOL frames has a      *)
(* model; here the same question is an existential quantifier over the     *)
(* same frames.                                                            *)
(***************************************************************************)
EXTENDS ScanRelation

CONSTANT K   \* the unfolding depth of the k-induction, _KIND_DEFAULT_K

ASSUME KAssumption == K \in Nat \ {0}

(* Programs are what LadderLogic takes a program to be. *)
ASSUME ProgramsAssumption == Programs \subseteq Program

VARIABLE verdict   \* a report for each interlock, empty before verify() ran

NoReport == [lock \in {} |-> "none"]

(* The coil lines _coil_equations sees: its pattern wants the line to end  *)
(* at the semicolon, so a line with a trailing comment is not an equation  *)
(* and its output is one more free symbol.                                 *)
View(p) ==
    [p EXCEPT !.order = SelectSeq(@, LAMBDA o : o \notin p.hidden)]

Images(v) == [Driven(v) -> BOOLEAN]

Checkable(v, lock) == {lock[1], lock[2]} \subseteq Driven(v)

Successors(v, level, img) ==
    {nxt \in Images(v) :
        \E ins \in Valuations(Free(v), level) : IsScan(v, img, ins, nxt)}

(* Mutation: the induction starts from the reset image only. *)
OneStepFailsFromReset(v, lock) ==
    \E level \in Levels :
        \E nxt \in Successors(v, level, AllOff(Driven(v))) : Clash(lock, nxt)

(* check_interlocks_st: can a scan lead from a safe image to a clash? *)
OneStepFails(v, lock) ==
    \E level \in Levels : \E cur \in Images(v) :
        /\ ~Clash(lock, cur)
        /\ \E nxt \in Successors(v, level, cur) : Clash(lock, nxt)

(* Mutation: the base case forgets that the first frame is all OFF. *)
UnfoldingFromAnywhere(v, level) == Images(v)

(* All frames of one query share the Int variable of a comparison, so the  *)
(* register keeps one level over the whole unfolding.                      *)
Unfolding(v, level) ==
    LET reach[i \in 0..K] ==
          IF i = 0 THEN {AllOff(Driven(v))}
          ELSE UNION {Successors(v, level, img) : img \in reach[i - 1]}
    IN  UNION {reach[i] : i \in 0..K}

(* Mutation: the base case looks at the first frame only. *)
BaseFailsAtReset(v, lock) == Clash(lock, AllOff(Driven(v)))

BaseFails(v, lock) ==
    \E level \in Levels : \E img \in Unfolding(v, level) : Clash(lock, img)

(* K different safe images in a row, then a clash. *)
StepFails(v, lock) ==
    \E level \in Levels :
        LET succ == [img \in Images(v) |-> Successors(v, level, img)]
            safe == {img \in Images(v) : ~Clash(lock, img)}
        IN  \E path \in [1..K -> safe] :
              /\ \A i \in 1..K-1 : path[i + 1] \in succ[path[i]]
              /\ \A i, j \in 1..K : path[i] = path[j] => i = j
              /\ \E nxt \in succ[path[K]] : Clash(lock, nxt)

OneStepReport(v, lock) ==
    IF ~Checkable(v, lock) THEN "skipped"
    ELSE IF OneStepFails(v, lock) THEN "error" ELSE "ok"

KindReport(v, lock) ==
    IF ~Checkable(v, lock) THEN "skipped"
    ELSE IF BaseFails(v, lock) THEN "error"
    ELSE IF StepFails(v, lock) THEN "warning" ELSE "ok"

allVars == <<prog, image, verdict>>

VerifierInit == Init /\ verdict = NoReport

Verify ==
    /\ verdict = NoReport
    /\ verdict' = [lock \in prog.locks |->
                     [oneStep |-> OneStepReport(View(prog), lock),
                      kind    |-> KindReport(View(prog), lock)]]
    /\ UNCHANGED vars

VerifierNext ==
    \/ Verify
    \/ verdict # NoReport /\ Scan /\ UNCHANGED verdict

VerifierSpec == VerifierInit /\ [][VerifierNext]_allVars

----------------------------------------------------------------------------
Done(lock) == lock \in DOMAIN verdict

StChecksPass ==
    \A lock \in prog.locks :
        /\ Done(lock)
        /\ verdict[lock].oneStep # "error"
        /\ verdict[lock].kind # "error"

(* Reports are severities, and only declared interlocks have one. *)
TypeOK ==
    /\ prog \in Programs
    /\ image \in Images(prog)
    /\ DOMAIN verdict \subseteq prog.locks
    /\ \A lock \in DOMAIN verdict :
          verdict[lock] \in [oneStep : {"ok", "error", "skipped"},
                            kind : {"ok", "error", "warning", "skipped"}]

FullyVisible(p) == View(p) = p

UsesComparison(p) ==
    \E o \in Driven(p) :
        \/ p.coil[o].guards \cap Comparisons # {}
        \/ \E t \in p.coil[o].on \cup p.coil[o].cut :
              (t.on \cup t.off) \cap Comparisons # {}

(* An interlock that survives the one-step check is never broken, at any   *)
(* number of scans and under any inputs, comparisons included.             *)
OneStepIsSound ==
    \A lock \in prog.locks :
        Done(lock) /\ FullyVisible(prog) /\ verdict[lock].oneStep = "ok"
            => ~Clash(lock, image)

(* What the k-induction proves holds for every scan of a program that      *)
(* compares no analog value: the simple-path restriction and the bound K   *)
(* lose no reachable clash.                                                *)
BooleanKindIsSound ==
    \A lock \in prog.locks :
        Done(lock) /\ FullyVisible(prog) /\ ~UsesComparison(prog)
          /\ verdict[lock].kind = "ok"
            => ~Clash(lock, image)

(* The same without the restriction to programs that compare nothing.      *)
(* check_interlocks_kinduction: success means the exclusion is proved for  *)
(* all reachable scans.                                                    *)
KindIsSound ==
    \A lock \in prog.locks :
        Done(lock) /\ FullyVisible(prog) /\ verdict[lock].kind = "ok"
            => ~Clash(lock, image)

(* The second layer never contradicts the first: whatever the one-step     *)
(* check proves, the k-induction proves too, so a k-induction warning      *)
(* never stands alone and "passed" never rests on one.                     *)
LayersAgree ==
    \A lock \in prog.locks :
        Done(lock) /\ verdict[lock].oneStep = "ok"
            => verdict[lock].kind = "ok"

(* The checks on the ST text notice when a coil line has lost the NOT of   *)
(* its partner (docstring of check_interlocks_st): a program to which they *)
(* object nothing runs without breaking an interlock, whatever its text    *)
(* looks like.                                                             *)
LostGuardsAreCaught ==
    StChecksPass => \A lock \in prog.locks : ~Clash(lock, image)
=============================================================================
