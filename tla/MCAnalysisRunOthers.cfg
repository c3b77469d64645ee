SPECIFICATION Spec
CONSTANTS
    CaseIds <- MCCaseIds
    Patterns <- MCPatterns
    Profiles <- MCProfiles
    OfChip = {2}
    TopK = 3
    MaxCandidates = 2
    Thresholds <- MCThresholds
    StageCount = 7
    Weight <- MCWeight
    Definite = 6000
    Floor = 50
    WindowSize = 1
    ExpertLogs = TRUE
    ChipFilter = FALSE
    Composites <- MCComposites
    Talked = {"a", "d"}
    EmptyViews = {"disk"}
    KBs <- MCKBs
    Nears <- MCNears
    Founds <- MCFounds
    Requests <- MCRequests
    Answers <- MCAnswers
    MaxChanges = 1
PROPERTY OneListOfOthers
CHECK_DEADLOCK FALSE
