SPECIFICATION Spec
CONSTANTS
    Messages <- MCMessages
    Masked <- MCMasked
    Repeats <- MCRepeats
    Width <- MCWidth
    Keys <- MCKeys
    KeyLength <- MCKeyLength
    FoundIn <- MCFoundIn
    Extracted <- MCExtracted
    Legible <- MCLegible
    Paths <- MCPaths
    FileNames <- MCFileNames
    MaxNamed = 1
    MaxObserved = 2
    Window = 1
    HopBudget = 4
    SourceBudget = 4
    Cases <- MCCases
    MaxWorkers = 2
INVARIANTS
    CountsKept
    NarrowedIsTrue
    NoQuestionWithoutBasis
    FilesAreCovered
PROPERTIES
    TriageEnds
CHECK_DEADLOCK FALSE
