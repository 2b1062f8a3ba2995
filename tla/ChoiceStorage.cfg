SPECIFICATION Spec
CONSTANTS
    o1 = o1
    o2 = o2
    v1 = v1
    v2 = v2
    Fresh = Fresh
    Obj <- MCObj
    Value <- MCValue
    Count = 3
    Extensible = TRUE
    Rules <- AllRules
    TrustsFailedObject = FALSE
SYMMETRY Symmetry
INVARIANTS
    NeverMisread
    HoldsWhatWasStored
