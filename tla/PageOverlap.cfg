\* Six ids, pages of at most two rows: the pages of one walk overlap.
SPECIFICATION Spec
CONSTANTS
    Id = {1, 2, 3, 4, 5, 6}
    Limits = {0, 1, 2, 3}
    DefaultLimit = 1
    MaxLimit = 2
    MaxOffset = 9
INVARIANTS
    PagesDisjoint
