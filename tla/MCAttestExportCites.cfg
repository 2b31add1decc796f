SPECIFICATION Spec
CONSTANTS
    case = case
    rule = rule
    clerk = clerk
    Authorities = {case, rule}
    Lookup = {case}
    Cites <- TwoDrafts
    Verifiers = {clerk}
    MaxAge = 9
    MaxCommands = 2
    MaxDrafts = 2
    MaxBlockers = 1
    MaxAttests = 2
    MaxExports = 2
INVARIANT CleanCitesVerified
CHECK_DEADLOCK FALSE
