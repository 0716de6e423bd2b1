--------------------------- MODULE RecipeInstances --------------------------
(***************************************************************************)
(* The specifications TLC checks: every recipe of the wizard with its      *)
(* default answers, and with every pair of its signals given the same name *)
(* where the wizard accepts it.                                            *)
(***************************************************************************)
EXTENDS StEngine, Recipes, TLC

CONSTANT Excluded   \* recipes left out of a run

IsSignal(v) == ToString(v) \notin {ToString(n) : n \in 0..9}

Signals(id) == {f \in DOMAIN DefaultAnswers(id) : IsSignal(DefaultAnswers(id)[f])}

SameName(id, f, g) == [DefaultAnswers(id) EXCEPT ![f] = DefaultAnswers(id)[g]]

Answers(id) ==
    {DefaultAnswers(id)} \cup {SameName(id, f, g) : f, g \in Signals(id)}

MCSymbols == UNION {Names(BuildRecipe(id, DefaultAnswers(id))) : id \in RecipeIds}
MCNone == {}
MCLevels == {0}
MCSat == <<>>

MCDefaultSpecs == {BuildRecipe(id, DefaultAnswers(id)) : id \in RecipeIds \ Excluded}

MCSpecs ==
    UNION {{BuildRecipe(id, a) : a \in {b \in Answers(id) : Accepted(id, b)}}
             : id \in RecipeIds \ Excluded}
=============================================================================
