CONSTANTS
    PollBudget = 10
    ActionRcs <- MC_ActionRcs
    MaxPerTopic = 2
    ClientMayEnd = FALSE
SPECIFICATION Spec
INVARIANT NoTerminate
\* After MaxPerTopic requests per topic, with both progress threads ended,
\* nothing is left to happen.
CHECK_DEADLOCK FALSE
