SPECIFICATION Spec
CONSTANTS
    Messages <- MCMessages
    Formats <- MCFormats
    Fingerprint <- MCFingerprint
    Repeats <- MCRepeats
    Requests <- MCRequests
    RuleSets <- MCRuleSets
    Cases <- MCCases
    AllPatterns <- MCAllPatterns
CHECK_DEADLOCK FALSE
INVARIANT FastErrorsAreSeen
