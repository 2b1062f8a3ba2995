SPECIFICATION Spec
CONSTANTS
    new = new
    old = old
    absent = absent
    d = d
    v = v
    w = w
    Obj = {new, old}
    Root = {1, 2}
    Ext = {3, 4, 5}
    UnitOf <- MCUnitOf
    Group = {1}
    Optional = {2, 4}
    Dflt <- MCDflt
    Vals <- MCVals
    Value = {d, v, w}
    Absent = absent
    Blank <- MCBlank
    Version <- MCVersion
    OldInner = {old}
    Bare <- MCBare
CONSTRAINT OneEdited
INVARIANTS
    Meanings
    DecodedEncodes
    LossIsCounted
