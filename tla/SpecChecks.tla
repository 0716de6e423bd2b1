----------------------------- MODULE SpecChecks -----------------------------
(***************************************************************************)
(* The checks of app/verifier.py that look at the specification alone:      *)
(* check_interlocks_z3 (can the conditions under which two outputs are      *)
(* turned on hold together?) and check_reachability (is there an initial    *)
(* state, is a state ever entered?), and how verify makes a verdict of the  *)
(* issues.  Against them: the specification executed as a chart.            *)
(*                                                                         *)
(* A specification is the record of module Synth with initials, the states  *)
(* marked is_initial.  The solver decides satisfiability over all tables.   *)
(***************************************************************************)
EXTENDS Synth, FiniteSets

CONSTANTS Charts        \* the specifications

VARIABLES spec,         \* fixed
          current,      \* the active state
          table,        \* the symbols' values when it was entered, derived outputs included
          entered       \* states entered so far by a transition

checkVars == <<spec, current, table, entered>>

States == DOMAIN spec.entry

Issue(code, severity) == [code |-> code, severity |-> severity]

Tables == [Symbols -> BOOLEAN]

(* Mutation: of several ways to turn an output on only one is asked about. *)
BothOnOnce(lock) ==
  \E t \in Tables : /\ Holds((CHOOSE u \in TurnOn(spec, lock[1]) : TRUE).cond, t)
                    /\ Holds((CHOOSE u \in TurnOn(spec, lock[2]) : TRUE).cond, t)

(* the query to the solver: And(on_a, on_b) *)
BothOn(lock) ==
  \E t \in Tables : Holds(AnyOf(TurnOn(spec, lock[1])), t) /\ Holds(AnyOf(TurnOn(spec, lock[2])), t)

(* a side that nothing turns on is skipped *)
Asked(lock) == TurnOn(spec, lock[1]) # {} /\ TurnOn(spec, lock[2]) # {}

CheckInterlocks == {l \in spec.locks : Asked(l) /\ BothOn(l)}

Incoming == {t.to : t \in spec.transitions}

NoInitial == States # {} /\ spec.initials = {}
Unreachable == {s \in States \ spec.initials : s \notin Incoming}

Issues ==
  {Issue("INTERLOCK", "error") : l \in CheckInterlocks}
    \cup {Issue("DEADLOCK", "error") : s \in IF NoInitial THEN {"no initial"} ELSE {}}
    \cup {Issue("UNREACHABLE", "warning") : s \in Unreachable}

(* verify: warnings do not fail *)
Passed == \A i \in Issues : i.severity # "error"

-----------------------------------------------------------------------------
(* The chart: an initial state is active, a transition whose condition holds is taken. *)
Evaluated(on) ==
  [n \in Symbols |->
     LET inputs == [m \in Symbols |-> m \in on]
     IN  IF Derived(spec, n)
         THEN Holds((CHOOSE d \in spec.derived : d.output = n).expr, inputs)
         ELSE n \in on]

CheckInit ==
  /\ spec \in Charts
  /\ current \in spec.initials \cup {"none"}
  /\ current = "none" => spec.initials = {}
  /\ table = Evaluated({})
  /\ entered = {}

Take(t, on) ==
  /\ t.from = current
  /\ Holds(t.cond, Evaluated(on))
  /\ current' = t.to
  /\ table' = Evaluated(on)
  /\ entered' = entered \cup {t.to}
  /\ UNCHANGED spec

CheckNext == \E t \in spec.transitions, on \in SUBSET spec.inputs : Take(t, on)

CheckSpec == CheckInit /\ [][CheckNext]_checkVars

(* What the chart switches on in its active state, and what is derived. *)
On(out) == IF Derived(spec, out) THEN table[out]
           ELSE entered # {} /\ current \in DOMAIN spec.entry /\ out \in spec.entry[current]

-----------------------------------------------------------------------------
(* The warning is right: a state it names is never entered. *)
WarnedStatesAreNeverEntered == Unreachable \cap entered = {}

(* A pair of state driven outputs the condition check has nothing against is never on at the  *)
(* same time in the chart (an initial state that drives both but is never entered again does  *)
(* not count: the synthesised program does not enter it either).                              *)
ConditionCheckIsSound ==
  \A l \in spec.locks :
    l \notin CheckInterlocks /\ ~Derived(spec, l[1]) /\ ~Derived(spec, l[2]) =>
      ~(On(l[1]) /\ On(l[2]))

(* The other direction, as the docstring has it (reachability of every state): what gets no   *)
(* warning can be entered.  Fails for a state only reached from an unreachable one, or itself. *)
StatesWithoutWarningAreReachable ==
  LET reach[n \in 0..Cardinality(States)] ==
        IF n = 0 THEN spec.initials
        ELSE reach[n - 1] \cup {t.to : t \in {u \in spec.transitions : u.from \in reach[n - 1]}}
  IN  ~NoInitial => States \ Unreachable \subseteq reach[Cardinality(States)]

(* The comment at the skipped pairs: when nothing turns one side on, the two are never on     *)
(* together.  Fails for a derived output, which no transition turns on.                       *)
SkippedPairsStayApart ==
  \A l \in spec.locks : ~Asked(l) => ~(On(l[1]) /\ On(l[2]))

(* What the checks of a specification say before any program exists is right: the states they *)
(* warn of, and the interlocks they have nothing against.                                     *)
ChecksAreSound == WarnedStatesAreNeverEntered /\ ConditionCheckIsSound
=============================================================================
