SPECIFICATION FetchSpec
CONSTANTS
    Fetches = {f1, f2}
    Place <- MCPlace
    Files <- MCFiles
    Attachments <- MCAttachments
    UserFiles <- MCUserFiles
    Unspeakable <- MCAttachments
    Inside <- MCInside
    MaxExtract = 3
    Chunks = 1
    MaxCrashes = 0
INVARIANT
    LabelsAreTop
CHECK_DEADLOCK FALSE
