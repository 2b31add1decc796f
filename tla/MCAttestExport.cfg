SPECIFICATION Spec
CONSTANTS
    case = case
    rule = rule
    clerk = clerk
    Authorities = {case, rule}
    Lookup = {case}
    Cites <- TwoDrafts
    Verifiers = {clerk}
    MaxAge = 0
    MaxCommands = 2
    MaxDrafts = 2
    MaxBlockers = 1
    MaxAttests = 2
    MaxExports = 3
INVARIANTS ValidMeansUnchanged CleanIsFinal ResearchIsQueued
PROPERTIES SealedNeverRewritten
CHECK_DEADLOCK FALSE
