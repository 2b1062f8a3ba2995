SPECIFICATION Spec
CONSTANTS
    o1 = o1
    o2 = o2
    v1 = v1
    v2 = v2
    None = None
    Obj <- MCObj
    Value <- MCValue
    Misread <- MCMisread
    Given <- MCGiven
    Field <- MCField
SYMMETRY Symmetry
CONSTRAINT OneLive
INVARIANTS
    Coherent
    CarriesMeaning
    EditsAreDressed
