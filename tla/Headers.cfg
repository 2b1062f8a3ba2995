SPECIFICATION Preprocess
CONSTANTS
    Names = {"A","B","C"}
    Schemas <- MCSchemas
    Modes = {TRUE, FALSE}
CHECK_DEADLOCK FALSE
INVARIANTS
    FilesCompile
    SizesAreFinite
    ClosureIsGenerated
