SPECIFICATION Spec
CONSTANTS
    Width = 10
    OctetBits = 5
    Ascii = 15
    Infinity = 2000
    Control = {0}
    Markup = {1}
    Quote = {2}
    MinLen = 1
    MaxLen = 2
    Span = 4
    SizeCap = 4
    Drawn = {0, 1, 2, 5, 33}
    Unprintable = {0}
    Defs <- MCDefs
    Values <- MCValues
CHECK_DEADLOCK FALSE
INVARIANTS
    AdmittedSurvives
    ReadIsWritten
    TableMeansConstraint
    FillIsAdmitted
    BackendsAgree
