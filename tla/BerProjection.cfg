SPECIFICATION Spec
CONSTANTS
    t1 = t1
    x1 = x1
    x2 = x2
    v1 = v1
    v2 = v2
    long = long
    bad = bad
    None = None
    Thread <- MCThread
    Target <- MCTarget
    Name <- MCName
    Sent <- MCSent
    Field <- MCField
    TagOf <- MCTagOf
    Asked <- MCAsked
    Frame <- MCFrame
    Content <- MCContent
    Value <- MCValue
    Bad <- MCBad
    Size <- MCSize
SYMMETRY Symmetry
INVARIANTS
    HandlesNameFields
    UnprojectedUntouched
PROPERTIES
    Implements
