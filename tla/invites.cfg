SPECIFICATION Spec
CONSTANTS
    r1 = r1
    r2 = r2
    None = None
    InviteKeys <- TwoKeys
    Ages = {1}
    Horizon = 2
    MaxId = 3
    MaxAdopted = 1
INVARIANTS CacheInv AnswersHold
SYMMETRY KeySymmetry
CHECK_DEADLOCK FALSE
