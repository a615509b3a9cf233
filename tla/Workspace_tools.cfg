\* One call of any tool, and a change by the user before it, while it waits
\* for consent or after it.
CONSTANTS
    Files <- MCFiles
    Contents <- MCContents
    NewLine <- MCNewLine
    UserLine <- MCUserLine
    MaxCalls = 1
    MaxUserEdits = 1
SPECIFICATION FairSpec
CHECK_DEADLOCK FALSE
INVARIANTS
    SeenIsCurrent
PROPERTIES
    OnlyQuotedRemoved
    AppliedAsShown
    CommandEnds
