SPECIFICATION FairFetchSpec
CONSTANTS
    Fetches = {f1, f2}
    Place <- MCPlace
    Files <- MCFiles
    Attachments <- MCAttachments
    UserFiles <- MCUserFiles
    Unspeakable <- MCAttachments
    Inside <- MCInside
    MaxExtract = 3
    Chunks = 2
    MaxCrashes = 1
INVARIANTS
    FetchedIsWhole
    FirstLabelsAreTop
PROPERTY
    FetchEnds
CHECK_DEADLOCK FALSE
