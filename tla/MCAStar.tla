-------------------------------- MODULE MCAStar --------------------------------
(***************************************************************************)
(* The small instance of AStar.  The visible RAM of a state is how many    *)
(* steps were made and how often button 1 was pressed: the order of the    *)
(* presses is hidden, so different states share a hash.  A blackout zeroes *)
(* one of the two numbers, as blacking out their bytes does.               *)
(***************************************************************************)
EXTENDS AStar, MCEmulator

CONSTANTS
  BlackoutNames,  \* of "nothing", "presses", "steps"
  LuaNames,       \* of "none", "presses", "goal"
  StartDepth      \* frames a search may start from, each one step on

Presses(s) == Cardinality({k \in DOMAIN s.steps : s.steps[k][2] = 1})

MCRamHash ==
  [p \in MCStates \X BlackoutNames |->
     <<IF p[2] = "steps" THEN 0 ELSE 1 + Len(p[1].steps),
       IF p[2] = "presses" THEN 0 ELSE Presses(p[1])>>]

MCHashes == (0..(Depth + 1)) \X (0..Depth)

\* "presses" prefers states with many presses, "goal" wants one.
MCHeuristic ==
  [p \in LuaNames \X MCStates |->
     CASE p[1] = "none"    -> 100
       [] p[1] = "presses" -> Depth - Presses(p[2])
       [] p[1] = "goal"    -> IF Presses(p[2]) = 1 THEN 0 - 1 ELSE 1]

MCStartStates ==
  [r \in RomImages |->
     {s \in MCStates : /\ s.booted = r
                       /\ Len(s.steps) \in 1..StartDepth
                       /\ \A k \in DOMAIN s.steps : s.steps[k][1] = r}]

=============================================================================
