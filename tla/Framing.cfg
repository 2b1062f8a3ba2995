SPECIFICATION Spec
CONSTANTS
    Bits = 3
    TagDigits = 3
    TagBits = 5
    LenOctets = 3
    FastLen = 2
    IntOctets = 2
    ArcBits = 3
    Forty = 3
    TypeOf <- MCTypeOf
    Leaves <- MCLeaves
    Patches <- MCPatches
    MaxDepth = 2
    MaxOpen = 3
    MaxWritten = 3
    Jump = 2
    Step = 2
CHECK_DEADLOCK FALSE
INVARIANTS
    ReadsBack
    CutIsNoticed
    DamageIsLocal
    CursorSeesAll
