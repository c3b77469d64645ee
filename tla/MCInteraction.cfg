\* Three configurations, two rows to download, at most two troubles of the site.
CONSTANTS
    Sites       <- MCSites
    Places      <- MCPlaces
    LoginPlace  = "login"
    Moves       <- MCMoves
    Untils      = {"Download", "Table"}
    Modes       <- MCModes
    Rows        = 2
    Tabs        = 6
    MaxTroubles = 2
SPECIFICATION Spec
INVARIANTS
    UndisturbedSucceeds
    ParentIsOpener
    FilesAreOwn
    JumpsAreOwn
PROPERTY
    RunEnds
