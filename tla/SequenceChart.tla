--------------------------- MODULE SequenceChart ---------------------------
(***************************************************************************)
(* What a state-machine specification (app/models.py) means: one state is  *)
(* active at a time, the outputs of its on_entry are ON and no others, and *)
(* a step follows declared transitions whose conditions hold.  States   *)
(* with the same outputs are not told apart.                               *)
(***************************************************************************)
EXTENDS LadderLogic

VARIABLES
    spec,      \* the specification, fixed
    sensed,    \* the names as the first coil line of the scan sees them
    settled,   \* the names as they are at the end of the scan
    driven     \* the outputs the active state drives

chartVars == <<spec, sensed, settled, driven>>

ChartInit == driven = {}

(* A chain of one or two transitions in a scan: a coil line further down   *)
(* already sees what a line above it has switched.                         *)
Fires(t, u, before, after) ==
    /\ t = u \/ t.to = u.from
    /\ spec.entry[t.from] = before
    /\ spec.entry[u.to] = after
    /\ Holds(t.cond, sensed')
    /\ Holds(u.cond, sensed') \/ (t # u /\ Holds(u.cond, settled'))

ChartNext ==
    /\ LET before == driven
           after == driven'
       IN  after = before \/ \E t, u \in spec.transitions : Fires(t, u, before, after)
    /\ UNCHANGED spec

ChartSpec == ChartInit /\ [][ChartNext]_chartVars
=============================================================================
