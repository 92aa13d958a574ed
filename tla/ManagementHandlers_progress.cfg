CONSTANTS
    PollBudget = 10
    ActionRcs <- MC_ActionRcs
    MaxPerTopic = 1
    ClientMayEnd = TRUE
SPECIFICATION Spec
INVARIANT TypeOK
INVARIANT DownloadReportsWellFormed
INVARIANT UpdateReportsWellFormed
\* After MaxPerTopic requests per topic, with both progress threads ended,
\* nothing is left to happen.
CHECK_DEADLOCK FALSE
