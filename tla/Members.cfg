SPECIFICATION Spec
CONSTANTS
    v = v
    w = w
    N = 4
    IsSet = TRUE
    Optional = {2, 3}
    Dflt <- MCDflt
    Nullable = {2}
    List = {4}
    SetOf = {4}
    Scalar <- MCScalar
    Elem = {1, 2}
    Lists <- MCLists
    MaxEdits = 2
    Blank <- MCBlank
    NewElem = 1
    Absent = Absent
    Null = Null
    Broken = Broken
    Foreign = Foreign
    Rules = {"ber", "per", "xer", "jer"}
    Reuse = {"ber", "per", "jer"}
INVARIANTS
    MeansWhatWasSent
    AcceptsTheSound
