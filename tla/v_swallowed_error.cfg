SPECIFICATION StreamingSpec
CONSTANTS
    MaxTexts = 2
    IncludeUsage = FALSE
INVARIANT BreakIsTold
CHECK_DEADLOCK FALSE
