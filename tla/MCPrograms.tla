----------------------------- MODULE MCPrograms -----------------------------
(***************************************************************************)
(* The programs of the wizard's library in their two forms, ST and XGK     *)
(* instructions, and the timers and counters by themselves under every     *)
(* input timeline.  `part` is the one that runs; the other one waits in    *)
(* an initial state.                                                       *)
(***************************************************************************)
EXTENDS XgkScan, RecipeClaims, BlockTimeline

VARIABLE part

DefaultOf(ids) == {BuildRecipe(id, DefaultAnswers(id)) : id \in ids}

(* The lead and lag pumps and the cascade have transitions whose condition *)
(* does not imply the state they leave (LeadPumpNeedsDemand shows what     *)
(* follows), so that they are not sequences of their states.               *)
MCCharted == {s \in MCSpecs : DOMAIN s.entry \cap {"LAG_ON", "RUN_DOWN"} = {}}

(* Jogging works with the stop button pressed; the other two have a stop   *)
(* that ends a demand, not the outputs.                                    *)
MCStoppable == DefaultOf(RecipeIds \ {"jog_run", "duty_standby", "cascade_conveyor"})

partVars == <<part, xgkVars, timelineVars>>

OneProgram ==
    LET first == CHOOSE s \in Specs : TRUE
    IN  /\ spec = first /\ state = PowerOn(first) /\ sensed = state.table
        /\ prog = IlProgram(first) /\ il = IlPowerOn(first)

OneBlock ==
    /\ TimelineInit
    /\ kind = "TON" /\ preset = 1 /\ dt = 1

MCInit ==
    \/ part = "programs" /\ XgkInit /\ OneBlock
    \/ part = "blocks" /\ OneProgram /\ TimelineInit

MCNext ==
    /\ \/ part = "programs" /\ BothScan /\ UNCHANGED timelineVars
       \/ part = "blocks" /\ TimelineNext /\ UNCHANGED xgkVars
    /\ UNCHANGED part

MCSpec == MCInit /\ [][MCNext]_partVars
=============================================================================
