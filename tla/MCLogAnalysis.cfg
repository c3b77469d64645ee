SPECIFICATION Spec
CONSTANTS
    Messages <- MCMessages
    Formats <- MCFormats
    Fingerprint <- MCFingerprint
    Repeats <- MCRepeats
    Requests <- MCRequests
    RuleSets <- MCRuleSets
    Cases <- MCCases
    AllPatterns <- MCAllPatterns
INVARIANTS
    CountsKept
    MatchedIsMeant
    AbsenceIsSound
    NoEventHidden
    CompositeIsMeant
CHECK_DEADLOCK FALSE
