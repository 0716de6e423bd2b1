----------------------------- MODULE DoubleCoil -----------------------------
(***************************************************************************)
(* merge_double_coils (app/memory_map.py): coils assigned twice get one     *)
(* auxiliary relay per assignment, the lines are rewritten and an OR of the *)
(* relays is appended.  The allocator that issues the relays is Allocator,  *)
(* already holding what build_from_spec put there.                          *)
(*                                                                         *)
(* A program is a sequence of lines, a line is the statements on it and     *)
(* whether a comment follows them.  A statement assigns to lhs the OR of    *)
(* the names in ins; a function block call has lhs None.                    *)
(***************************************************************************)
EXTENDS Allocator, Sequences, FiniteSets

CONSTANTS Programs,     \* programs merge_double_coils is called on
          Coils,        \* names statements assign
          Inputs        \* names no statement assigns

VARIABLES phase,        \* "spec", "relays", "done"
          source,       \* st_code, the program given
          code,         \* the program returned
          order,        \* the keys of dups, in order
          aux           \* aux_addresses: coil -> relays, in order

vars == <<allocVars, phase, source, code, order, aux>>

Statements == [lhs: Coils \cup {None}, ins: SUBSET (Inputs \cup Coils)]
Lines == [stmts: Seq(Statements), comment: BOOLEAN]

(* _statements: where the statements stand, by line and position on it *)
Places(lines) == UNION {{i} \X DOMAIN lines[i].stmts : i \in DOMAIN lines}
At(lines, p) == lines[p[1]].stmts[p[2]]
Precedes(p, q) == p[1] < q[1] \/ (p[1] = q[1] /\ p[2] < q[2])

Occurrences(lines, c) == {p \in Places(lines) : At(lines, p).lhs = c}
Assigned(lines) == {At(lines, p).lhs : p \in Places(lines)} \ {None}
Count(lines, c) == Cardinality(Occurrences(lines, c))

(* detect_double_coils, and the order its dictionary has them in: by first assignment *)
DoubleCoils(lines) == {c \in Assigned(lines) : Count(lines, c) >= 2}
Orders(lines) ==
  {f \in [1..Cardinality(DoubleCoils(lines)) -> DoubleCoils(lines)] :
     \A i, j \in DOMAIN f : i < j =>
       \E p \in Occurrences(lines, f[i]) : \A q \in Occurrences(lines, f[j]) : Precedes(p, q)}

(* Programs name symbols, never addresses, and hints are made from their coils. *)
MergeAssumption ==
  /\ MaxIndex \in Nat
  /\ None \notin Names \cup Addresses \cup Coils \cup Inputs
  /\ Programs \subseteq Seq(Lines)
  /\ Inputs \cap Coils = {} /\ (Inputs \cup Coils) \cap Addresses = {}
  /\ \A lines \in Programs, c \in Coils : {c} \X (1..Count(lines, c)) \subseteq Hints

(* _ASSIGN_RE: the whole line is one assignment with nothing after the semicolon *)
IsPlain(line) == Len(line.stmts) = 1 /\ ~line.comment /\ line.stmts[1].lhs # None

(* The lines before i that the rewriting loop has counted for the coil. *)
Rewritten(lines, c, i) ==
  Cardinality({j \in 1..i-1 : IsPlain(lines[j]) /\ lines[j].stmts[1].lhs = c})

Renamed(line, name) == [line EXCEPT !.stmts = <<[lhs |-> name, ins |-> line.stmts[1].ins]>>]

(* Mutation: the occurrence counter is not advanced. *)
RewriteLineFirst(lines, relays, i) ==
  IF IsPlain(lines[i]) /\ lines[i].stmts[1].lhs \in DoubleCoils(lines)
  THEN Renamed(lines[i], relays[lines[i].stmts[1].lhs][1])
  ELSE lines[i]

RewriteLine(lines, relays, i) ==
  LET coil == lines[i].stmts[1].lhs
  IN  IF IsPlain(lines[i]) /\ coil \in DoubleCoils(lines)
      THEN Renamed(lines[i], relays[coil][Rewritten(lines, coil, i) + 1])
      ELSE lines[i]

OrLine(c, relays) ==
  [stmts |-> <<[lhs |-> c, ins |-> {relays[c][k] : k \in 1..Len(relays[c])}]>>, comment |-> FALSE]

(* The rewritten lines, then one OR line a coil. *)
Merged(lines, relays, dups) ==
  [i \in 1..(Len(lines) + Len(dups)) |->
     IF i <= Len(lines) THEN RewriteLine(lines, relays, i)
     ELSE OrLine(dups[i - Len(lines)], relays)]

-----------------------------------------------------------------------------
Init ==
  /\ AllocInit
  /\ phase = "spec" /\ source = <<>> /\ code = <<>> /\ order = <<>> /\ aux = << >>

(* build_from_spec, one point: only relays matter to the merge. *)
SpecPoint(symbol, fixed) ==
  /\ phase = "spec"
  /\ Allocate(symbol, "M", fixed, "OUTPUT")
  /\ UNCHANGED <<phase, source, code, order, aux>>

(* merge_double_coils up to the loop over the double coils: without one it returns. *)
BeginMerge(lines) ==
  /\ phase = "spec"
  /\ source' = lines /\ code' = lines
  /\ order' \in Orders(lines)
  /\ aux' = [c \in DoubleCoils(lines) |-> <<>>]
  /\ phase' = IF DoubleCoils(lines) = {} THEN "done" ELSE "relays"
  /\ UNCHANGED allocVars

Short(c) == Len(aux[c]) < Count(source, c)

(* One pass of the loops over the coils and their occurrences. *)
IssueRelay ==
  /\ phase = "relays"
  /\ \E i \in DOMAIN order :
       /\ Short(order[i]) /\ \A j \in 1..i-1 : ~Short(order[j])
       /\ AllocateRelay(<<order[i], Len(aux[order[i]]) + 1>>)
       /\ aux' = [aux EXCEPT ![order[i]] = Append(@, answer')]
  /\ UNCHANGED <<phase, source, code, order>>

Rewrite ==
  /\ phase = "relays" /\ \A i \in DOMAIN order : ~Short(order[i])
  /\ code' = Merged(source, aux, order)
  /\ phase' = "done"
  /\ UNCHANGED <<allocVars, source, order, aux>>

Next ==
  \/ \E symbol \in Points, fixed \in {None} \cup {a \in Addresses : a.letter = Profile["INTERNAL"]} :
       SpecPoint(symbol, fixed)
  \/ \E lines \in Programs : BeginMerge(lines)
  \/ IssueRelay
  \/ Rewrite

Spec == Init /\ [][Next]_vars

-----------------------------------------------------------------------------
(* One scan of a program: the names that are TRUE after some of it, from those that are at first. *)
RunStatement(s, on) ==
  IF s.lhs = None THEN on
  ELSE IF s.ins \cap on # {} THEN on \cup {s.lhs}
  ELSE on \ {s.lhs}

AfterStatements(stmts, on, k) ==
  LET after[j \in 0..k] == IF j = 0 THEN on ELSE RunStatement(stmts[j], after[j - 1])
  IN  after[k]

AfterLines(lines, on, n) ==
  LET after[i \in 0..n] ==
        IF i = 0 THEN on
        ELSE AfterStatements(lines[i].stmts, after[i - 1], Len(lines[i].stmts))
  IN  after[n]

Scan(lines, on) == AfterLines(lines, on, Len(lines))

(* The names that are TRUE when the scan comes to a place. *)
Before(lines, on, p) ==
  AfterStatements(lines[p[1]].stmts, AfterLines(lines, on, p[1] - 1), p[2] - 1)

(* What the program assigned at p, read where it stands in the result. *)
AssignedValue(on, p) == At(source, p).ins \cap Before(code, on, p) # {}

(* One uncommented assignment per line, the form the rewriting loop recognises. *)
OnePerLine(lines) == \A i \in DOMAIN lines : Len(lines[i].stmts) <= 1 /\ ~lines[i].comment

IsOrOfItsExpressions(on) ==
  /\ \A c \in Assigned(source) :
       c \in Scan(code, on) <=> \E p \in Occurrences(source, c) : AssignedValue(on, p)
  /\ Scan(code, on) \cap Inputs = on \cap Inputs

(* Each coil of the result is the OR of all the expressions the program assigned to it         *)
(* (docstring of merge_double_coils), whatever relays the specification had taken before and   *)
(* whatever the last scan left in the names: the relays are fresh, every occurrence has one of *)
(* its own, and inputs stay as they are.  For one assignment per line.                         *)
MergeIsOr ==
  phase = "done" /\ OnePerLine(source) =>
    \A on \in SUBSET (Inputs \cup Assigned(code)) : IsOrOfItsExpressions(on)

(* The result assigns every coil once: what the emitters and the verifier rely on after the    *)
(* merge (run_architect).  For one assignment per line.                                        *)
MergedOnce == phase = "done" /\ OnePerLine(source) => DoubleCoils(code) = {}

(* The same for every layout, the docstring's own example among them: two assignments on one   *)
(* line, or one with a comment behind it, are detected but not rewritten, so the relays stay   *)
(* unwritten and the appended OR forces the coil off.                                          *)
MergeIsOrInEveryLayout ==
  phase = "done" =>
    \A on \in SUBSET (Inputs \cup Assigned(code)) : IsOrOfItsExpressions(on)

(* The merge keeps what the program says and removes every double coil, for programs of one    *)
(* assignment a line.                                                                          *)
MergeKeepsTheProgram == MergeIsOr /\ MergedOnce
=============================================================================
