------------------------------ MODULE MCAutopilot ------------------------------
(***************************************************************************)
(* Autopilot for TLC: a recurring intent of two runs (the passing runs) or *)
(* a one-shot intent (AutopilotOverlap), two ticks that may overlap.       *)
(***************************************************************************)
EXTENDS AutopilotExecutor

CONSTANTS a1, weekly, once

mcAccountOf == [i \in Intent |-> a1]
mcMaxRuns == [i \in Intent |-> IF i = weekly THEN 2 ELSE 1]
mcInterval == [i \in Intent |-> IF i = weekly THEN 1 ELSE 0]
================================================================================
