SPECIFICATION Spec
CONSTANTS
    Declared <- MCDeclared
    Components <- MCComponents
INVARIANTS
    ReadsBack
    RefusedForCause
    BackendsInteroperate
