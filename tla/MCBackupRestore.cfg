SPECIFICATION Spec
CONSTANTS
    Writers = {w1, w2}
    Restorers = {r1}
    Changes = {c1, c2}
    Damaged = Damaged
    MaxFiles = 3
    MaxArchives = 2
    MaxSecond = 1
    None = None
INVARIANTS
    TypeOK
    AnsweredSurvives
PROPERTIES
    RestoredExactly
SYMMETRY Symmetry
CHECK_DEADLOCK FALSE
