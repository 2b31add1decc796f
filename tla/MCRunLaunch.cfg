SPECIFICATION Spec
CONSTANTS
    d1 = d1
    d2 = d2
    plain = plain
    pdf = pdf
    txt = txt
    i1 = i1
    f1 = f1
    f2 = f2
    f3 = f3
    Docs = {d1, d2}
    Forms = {pdf, txt}
    Kind <- MCKind
    Texts = {t1, t2}
    PlainText <- MCPlain
    Images = {i1, i2}
    Calls <- MCCalls
    Facts = {f1, f2, f3}
    Version <- Siblings
    Quotes <- MCQuotes
    NoFact = noFact
    Editions = {e1, e2}
    Reviewers = {r1}
    Notes = {n1}
    Setters = {s1}
    Lessons = {l1}
    Wordings = {w1, w2}
    People = {p1, p2}
    Judges = {j1, j2}
    Evidence = {ev1}
    Calibrated = {ev1}
    Builders = {b1, b2}
    MaxIntake = 7
    MaxFacts = 5
    MaxApprovals = 3
    MaxNotes = 1
    MaxLearning = 3
    MaxProfiles = 2
    MaxLaunches = 2
    LessonTask <- MCLessonTask
    Exhibits = {x1}
    Public = {}
    MaxItems = 2
    MaxTotal = 3
    MaxMixed = 4
CONSTRAINT Budget
SYMMETRY Symmetry
CHECK_DEADLOCK FALSE
INVARIANTS
    ReceiptVouches
    OneSuccessor
    StartedIsWhole
    LaunchedAsApproved
    ContextIsReviewed
    PointerArchived
    PromptsAreVouched
PROPERTIES
    TextStable
    EdgeStands
