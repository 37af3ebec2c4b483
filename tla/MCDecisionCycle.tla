-------------------------- MODULE MCDecisionCycle --------------------------
EXTENDS DecisionCycle

\* Compact at 2, target 3, input limit 4, burst limit 5: one estimate in each
\* of the intervals these numbers separate.
MCEstimates == 1..6
MCToolRounds == {2, 6}
=============================================================================
