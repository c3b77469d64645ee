\* MCCommentAttachments
SPECIFICATION Spec
CONSTANTS
    c1 = c1
    c2 = c2
    Comments = {c1, c2}
    Names = {"log", "video"}
    Bundle = "bundle"
    Files <- SmallFiles
    Runs = {r1, r2}
    MaxPositions = 2
    MaxCrashes = 1
    MaxFaults = 2
    None = None
SYMMETRY RunSymmetry
INVARIANT DownloadedIsComplete
INVARIANT ServedIsOwnUnlessMoved
PROPERTY CleanRunCompletes
CHECK_DEADLOCK FALSE
