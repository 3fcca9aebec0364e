-------------------------- MODULE MCTrafficLedger --------------------------
(* Instances of TrafficLedger for TLC. *)
EXTENDS TrafficLedger, TLC

\* Slots for reports are interchangeable.
Slots == Permutations(Reports)

\* Bound: with boot times the detector tells many more states apart; resets
\* are left to the behaviours without.
NoResetWithBoot == agentReportsBoot => resets = 0
============================================================================
