CONSTANTS
    Users = {s1, s2}
    Targets = {p1}
    Kinds = {s1, s2}
    Ids = {1, 2, 3}
    Reqs = {q1, q2, q3}
    None = None
    b0 = b0
    b1 = b1
    b12 = b12
    t1 = t1
    t2 = t2
    Bodies = {b0, b1, b12}
    TagNames = {t1, t2}
    TagsOf <- MCTagsOf
    TagIds = {1, 2, 3, 4, 5}
    Slots = {s1, s2}
    Authors = {a1}
    Posts = {q1, q2, q3}
    Comments = {c1, c2, c3}
    Fold <- MCFold
    Digits = {"1"}
    Marks = {"m"}
    Hash = "#"
    Slash = "/"
    OtherCharacters = {" "}
    MaxTagLength = 2
    TagLimits = {1, 2}
    MaxText = 6
    Rows = {1, 2, 3, 4}
    MaxClock = 2
    Limits = {1, 2}
SPECIFICATION MCSpec
SYMMETRY Symmetry
CHECK_DEADLOCK FALSE
INVARIANT TypesOK
INVARIANT CountedOnce
INVARIANT ConversationExact
INVARIANT TagsHold
INVARIANT EveryRowOnce
PROPERTY RemovedIsQuiet
PROPERTY OnlyDoubledDrifts
PROPERTY EditRepairs
PROPERTY CursorLeadsOn
