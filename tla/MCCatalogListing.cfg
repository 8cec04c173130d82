\* Five animes and pages of two: a walk over everything takes three pages,
\* while others commit before, between and after what it has shown.
CONSTANTS
    a1 = a1
    a2 = a2
    a3 = a3
    a4 = a4
    a5 = a5
    Animes = {a1, a2, a3, a4, a5}
    StatusOf <- MCStatusOf
    GenresOf <- MCGenresOf
    Filters <- MCFilters
    PageSize = 2
    Unset = Unset
SPECIFICATION ListingSpec
SYMMETRY Symmetry
INVARIANTS
    WalkMissesNothing
    RepeatsAreShifts
CHECK_DEADLOCK FALSE
