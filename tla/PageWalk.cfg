\* Six ids, pages of at most two rows, limits below, at and above the clamp.
SPECIFICATION Spec
CONSTANTS
    Id = {1, 2, 3, 4, 5, 6}
    Limits = {0, 1, 2, 3}
    DefaultLimit = 1
    MaxLimit = 2
    MaxOffset = 9
INVARIANTS
    TypeOK
    NoneMissed
    NoGap
