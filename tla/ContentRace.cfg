CONSTANTS
    Groups = {g1, g2}
    Questions = {i1, i2}
    Spans = {1, 2}
    MaxNumber = 3
    TestPatches <- MCTestPatches
    Moves <- MCMoves
    QuestionPatches <- MCQuestionPatches
    QuestionBodies <- MCQuestionBodies
    Tests = {1, 2}
    Titles = {ta, tb, tc}
    Candidates <- MCCandidates
    ta = ta
    tb = tb
    tc = tc
    Reqs = {q1, q2}
    None = None
SPECIFICATION MCSpec
SYMMETRY Symmetry
CHECK_DEADLOCK FALSE
INVARIANT TypesOK
PROPERTY GateHolds
PROPERTY FreshNumbers
PROPERTY MovesAreContiguous
PROPERTY SlugsSettle
