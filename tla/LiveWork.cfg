CONSTANTS
    a1 = a1
    a2 = a2
    a3 = a3
    a4 = a4
    o1 = o1
    w1 = w1
    None = None
    ToCome = ToCome
    Actions <- MCActions
    Opinions <- MCOpinions
    Overviews <- MCOverviews
    Waits <- MCWaits
SPECIFICATION Spec
SYMMETRY Symmetry
INVARIANTS
    OneCurrentStep
    ClosedOwesNothing
    WatchedIsChecked
    StepWorkIsOpen
PROPERTIES
    PlanKept
    KnownClosure
    EndedStays
    OpinionsAreWatched
