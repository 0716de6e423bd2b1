----------------------------- MODULE MCAuthoring -----------------------------
(***************************************************************************)
(* The pure parts of the compiler on bounded inputs, the allocator under   *)
(* every order of requests: expressions (BoolExpr), device addresses       *)
(* (Allocator), and the checks of a specification alone (SpecChecks).      *)
(* `part` is the one that runs, the others wait in an initial state.       *)
(***************************************************************************)
EXTENDS BoolExpr, Allocator, SpecChecks, TLC

VARIABLE part

(* Expressions over two names, the constants and two comparisons: all of   *)
(* depth one, their negations, the AND of any two, the OR of any two and a *)
(* third name; and every text of four tokens.  Every value of the two      *)
(* names with the analog value below, at and above the number compared     *)
(* with, and a world for the third name.                                   *)
MCNumberOf == [n \in {"1"} |-> 1]
MCIdents == {"A", "B", "C", "L", "T.Q"}
MCMembers == {"T.Q"}
World(on, l) == [on |-> on, level |-> [n \in Tokens |-> l]]
MCWorlds == {World(on, l) : on \in SUBSET {"A", "B"}, l \in 0..2} \cup {World({"C"}, 2)}

(* An expression put after another one, and the two or three under a node. *)
Moved(n, d) ==
  IF n.kind = "not" THEN [n EXCEPT !.of = @ + d]
  ELSE IF IsNary(n) THEN [n EXCEPT !.of = [i \in DOMAIN @ |-> @[i] + d]]
  ELSE n
Beside(x, y) == x \o [i \in DOMAIN y |-> Moved(y[i], Len(x))]
Negated(x) == Append(x, Neg(Len(x)))
Two(kind, x, y) ==
  LET both == Beside(x, y) IN Append(both, Nary(kind, <<Len(x), Len(both)>>))
Three(kind, x, y, z) ==
  LET all == Beside(Beside(x, y), z)
  IN  Append(all, Nary(kind, <<Len(x), Len(x) + Len(y), Len(all)>>))

Leaves == {<<n>> : n \in {Var("A"), Var("B"), Const(TRUE), Const(FALSE), Cmp("L", "<", 1), Cmp("L", "=", 1)}}
Depth1 == Leaves \cup {Negated(x) : x \in Leaves} \cup {Two(kind, x, y) : kind \in {"and", "or"}, x, y \in Leaves}
MCTrees ==
  Depth1 \cup {Negated(x) : x \in Depth1}
    \cup {Two("and", x, y) : x \in Depth1, y \in Depth1 \ Leaves}
    \cup {Three("or", x, y, <<Var("C")>>) : x \in Depth1, y \in Depth1 \ Leaves}
MCTexts == [1..4 -> {"A", "NOT", "AND", "OR", "(", ")", "1", "<", "TRUE"}] \cup {<<"1", "<", "T.Q">>}

(* LS XGK: inputs and outputs share the letter P and so an index space. *)
MCShared == [r \in Roles |-> CASE r \in {"INPUT", "OUTPUT"} -> "P" [] r = "INTERNAL" -> "M"
                               [] r = "TIMER" -> "T" [] OTHER -> "C"]
MCSymmetry == Permutations(Points)

(* All charts with three states, one, two or no initial ones and the       *)
(* transitions in every combination; the states drive nothing, A, and B or *)
(* both, the conditions do or do not exclude each other; B may be derived  *)
(* as well.                                                                *)
If(on, off) == {[on |-> on, off |-> off]}
States3 == {"S0", "S1", "S2"}
Conds == [S0 |-> If({"y"}, {"x"}), S1 |-> If({"x"}, {}), S2 |-> If({}, {"x"})]
Loose == [Conds EXCEPT !.S2 = If({"y"}, {})]

Chart(entry, initials, edges, conds, derived) ==
  [inputs |-> {"x", "y"}, outputs |-> <<"A", "B">>, entry |-> entry, initials |-> initials,
   transitions |-> {[from |-> e[1], to |-> e[2], cond |-> conds[e[2]]] : e \in edges},
   locks |-> {<<"A", "B">>}, derived |-> derived]

MCNames == {"x", "y", "A", "B"}
MCNone == {}
MCLevels == {0}
MCSat == <<>>

MCCharts ==
  {Chart([S0 |-> {}, S1 |-> {"A"}, S2 |-> b], i, e, c, {}) :
     b \in {{"B"}, {"A", "B"}}, i \in {{}, {"S0"}, {"S0", "S1"}},
     e \in SUBSET (States3 \X States3), c \in {Conds, Loose}}
  \cup
  {Chart([S0 |-> {}, S1 |-> {"A"}, S2 |-> {}], {"S0"}, e, Conds,
         {[output |-> "B", expr |-> If({"y"}, {})]}) : e \in SUBSET (States3 \X States3)}

----------------------------------------------------------------------------
allVars == <<part, vars, allocVars, checkVars>>

OneTree ==
    /\ tree = <<Var("A")>> /\ text = Unparse(tree)
    /\ node = Raised /\ terms = {} /\ stage = "text"

OneChart ==
    /\ spec = Chart([S0 |-> {}, S1 |-> {"A"}, S2 |-> {"B"}], {}, {}, Conds, {})
    /\ current = "none" /\ table = Evaluated({}) /\ entered = {}

MCInit ==
    /\ AllocInit
    /\ \/ part = "expressions" /\ Init /\ OneChart
       \/ part = "charts" /\ CheckInit /\ OneTree
       \/ part = "allocator" /\ OneTree /\ OneChart

MCNext ==
    /\ \/ part = "expressions" /\ Next /\ UNCHANGED <<allocVars, checkVars>>
       \/ part = "charts" /\ CheckNext /\ UNCHANGED <<vars, allocVars>>
       \/ part = "allocator" /\ AllocNext /\ UNCHANGED <<vars, checkVars>>
    /\ UNCHANGED part

MCSpec == MCInit /\ [][MCNext]_allVars
=============================================================================
