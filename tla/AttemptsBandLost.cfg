CONSTANTS
    Parts = {"race"}
    t1 = t1
    t2 = t2
    y1 = y1
    Users = {u1}
    Tests = {t1, t2}
    Questions = {x1, y1}
    TestOf <- MCTestOf
    Rubric = {t2}
    Responses = {r1, r2}
    Criteria = {c1, c2}
    Marks = {1, 2}
    Averaged <- MCAveraged
    Ids = {a1}
    Reqs = {q1}
    SerialIds = {a1, a2}
    SerialQuestions = {x1, x2}
    Words <- WordsIn
    Papers <- AllPapers
    Keyed = {"reading"}
    Rubrics = {"writing"}
    Bands = {0, 11, 16}
    Grain = 2
    Sums = {84, 93, 108}
    Window = 2
    MaxTaken = 3
    None = None
SPECIFICATION MCSpec
SYMMETRY Symmetry
CHECK_DEADLOCK FALSE
INVARIANT BandIsAverage
