SPECIFICATION Spec
CONSTANTS
    Programs <- MCPrograms
CHECK_DEADLOCK FALSE
INVARIANTS
    ImportsAreExported
    NamesKeepTheirMeaning
    ValuesAreGrounded
