SPECIFICATION Spec
CONSTANTS
    burden = burden
    scope = scope
    Launches <- MCLaunches
    Null = Null
    Texts <- MCTexts
    Asserted <- MCAsserted
    Asserts <- MCAsserts
    Whole = {"t1"}
    Unsupported = {"t1"}
    Citing = {"t2"}
    Opinions <- MCOpinions
    MaxAsked = 2
    MaxRejects = 1
    Losable = {"bolster", "final"}
    TooLong = {"t2"}
    MaxSetbacks = 3
INVARIANTS
    ReviewsMatchDrafts
    RulingsCountOnce
PROPERTIES
    StagesStayComplete
    RequestsComplete
CHECK_DEADLOCK FALSE
