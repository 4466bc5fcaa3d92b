------------------------------ MODULE MCAlerts ------------------------------
(***************************************************************************)
(* Constants for checking UsageAlerts.                                     *)
(***************************************************************************)
EXTENDS UsageAlerts, TLC

CONSTANTS r1, r2

OwnedByFirst == [n \in Services |-> r1]
OwnedBySecond == [n \in Services |-> r2]

(* The cap is used up at once; the service little by little, and back.     *)
(* Switching a reseller on or off and changing a cap are left to the pauses *)
(* between the cycles: only the beginning of a cycle reads them, so within  *)
(* one they commute with every other step.                                  *)
JumpNext ==
    /\ AlertNext
    /\ \A r \in AlertResellers :
          /\ percent'[Cap(r)] \in {Gone, 95}
          /\ enabled'[r] # enabled[r] => monitor.pc = "sleep"
          /\ percent'[Cap(r)] \in {percent[Cap(r)], Gone} \/ monitor.pc = "sleep"

JumpSpec == AlertInit /\ [][JumpNext]_alertVars /\ AlertFairness

(* Nothing is deleted and nobody is switched off: use only grows. *)
SteadyNext ==
    \/ Monitor
    \/ \E s \in Subjects, p \in Percents : percent[s] < p /\ Use(s, p)

SteadySpec == AlertInit /\ [][SteadyNext]_alertVars /\ AlertFairness
=============================================================================
