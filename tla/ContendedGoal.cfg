\* One goal for one or two applications, two tasks that want its tokens.
SPECIFICATION Spec
CONSTANTS
    t1 = t1
    t2 = t2
    MaxGoals = 1
    Tasks = {t1, t2}
    Bands <- OneBand
    Plans <- ContendedPlans
SYMMETRY TaskSymmetry
INVARIANTS
    TypeOK
    CountersMatchItems
    TokensWithinTarget
    TargetReachedIsTrue
PROPERTIES
    ConfirmationPermanent
    TokenContract
CHECK_DEADLOCK FALSE
