----------------------------- MODULE MCOutputDir -----------------------------
(***************************************************************************)
(* OutputDir for TLC: Rust files in the directory, Java files in it        *)
(* (--flat-package) and in a module's sub-directory, where the user may    *)
(* have a file of his own.  The schemas: two types, one of them changed    *)
(* and the other dropped, one that cannot be generated.                    *)
(***************************************************************************)
EXTENDS OutputDir, FiniteSets

CONSTANTS old, new

MCFile == {"A.rs", "B.rs", "M/A.java", "M/Own.java", "A.java"}
MCDirOf == [f \in MCFile |-> IF f \in {"M/A.java", "M/Own.java"} THEN "M" ELSE "."]
MCLangOf == [f \in MCFile |-> IF f \in {"A.rs", "B.rs"} THEN "rust" ELSE "java"]

Job(target, files, t, fails) ==
    [target |-> target, files |-> files, text |-> [f \in MCFile |-> t], fails |-> fails]

MCInput ==
    { Job("rust", <<"A.rs", "B.rs">>, old, FALSE),
      Job("rust", <<"A.rs">>, new, FALSE),
      Job("rust", <<"B.rs">>, new, TRUE),
      Job("java", <<"M/A.java">>, old, FALSE),
      Job("java", <<"A.java">>, old, FALSE) }

\* The bound on the user's part: explored on while there is one file of his own.
OneOfTheUsers == Cardinality({f \in MCFile : disk[f] = Own}) <= 1

=============================================================================
