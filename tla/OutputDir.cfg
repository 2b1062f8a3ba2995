SPECIFICATION Spec
CONSTANTS
    old = old
    new = new
    Own = Own
    Absent = Absent
    None = None
    File <- MCFile
    Dir = {"M"}
    Top = "."
    DirOf <- MCDirOf
    LangOf <- MCLangOf
    Target = {"rust", "java"}
    Input <- MCInput
    Text = {old, new}
    Slash = FALSE
CONSTRAINT OneOfTheUsers
INVARIANTS
    SuccessIsComplete
    ListedOrStray
    UserFilesKept
    LibResolves
