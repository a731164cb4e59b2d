CONSTANTS
    Parts = {"store"}
    First = {0, 1, 2, 3, 4, 5, 6}
    Horizons = {7}
    Hours = {1, 2, 3, 5, 6, 8, 12, 40}
    Profiles <- MCProfiles
    Plans = {p1}
    Extras = {e1, e2}
    Days = {d1, d2}
    PerDay <- MCPerDay
    MaxPos = 3
    Reqs = {q1}
    None = None
SPECIFICATION MCSpec
SYMMETRY Symmetry
CHECK_DEADLOCK FALSE
INVARIANT PositionsDistinct
