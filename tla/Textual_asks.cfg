SPECIFICATION FairSpec
CONSTANTS
    edit = edit
    bash = bash
    Keys <- TheseKeys
    FileKeys <- TheseFiles
    MaxPrompts = 2
    MaxRequests = 2
INVARIANTS
    AnsweredNow
    LeftAsKnown
PROPERTY
    QuestionEnds
CHECK_DEADLOCK FALSE
