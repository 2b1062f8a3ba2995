------------------------ MODULE GeneratedFilesProofs ------------------------
(***************************************************************************)
(* What the compiler writes.  First part, OutputDir: theorems for any      *)
(* files, directories, inputs and any history of runs, failures, kills and *)
(* deeds of the user.  One inductive invariant, IInv, says what a run in   *)
(* progress knows of the directory at each of its steps.                   *)
(*                                                                         *)
(* Second part, Headers: theorems for any schemas, of any number of types. *)
(* A walk over the type graph reaches the least closed set, because it     *)
(* takes a new name in every step until it takes none; what the files      *)
(* mention and what values have inside is compared as such sets.           *)
(*                                                                         *)
(* Third part, the preprocessor of Headers: the lines of every file as     *)
(* sets (Placed), and one inductive invariant, State, of the lines left,   *)
(* the headers opened and the names declared, kept when the first line is  *)
(* read (TailKeeps) and when a header is put in its place (OpenKeeps).     *)
(***************************************************************************)
EXTENDS OutputDir, Headers, SequenceTheorems, FiniteSetTheorems, WellFoundedInduction, TLAPS

\* What a run knows at each step: its files are written; from the deletions on
\* every listed file is one of its own, one it keeps or one it still has to
\* delete; at the end the list is its files and those it kept.
RunKnows ==
    run # None =>
        /\ \A f \in Known : disk[f] = run.input.text[f]
        /\ run.todo \cap Known = {} /\ run.todo \cap run.kept = {}
        /\ run.todo \subseteq manifest /\ run.kept \subseteq manifest
        /\ \A f \in run.kept : There(f)
        /\ run.removes => \A f \in run.kept : LangOf[f] # run.input.target
        /\ \A f \in run.todo : LangOf[f] = run.input.target
        /\ run.at = "types" => run.todo = {} /\ run.kept = {} /\ run.emptied = {}
        /\ run.at # "types" => run.done = Len(run.input.files)
        /\ run.at \in {"removing", "listing"} =>
              \A f \in manifest : There(f) => f \in Known \cup run.kept \cup run.todo
        /\ run.at = "crate" => manifest = Known \cup run.kept
        /\ good = None

\* The user's files are in no list a run may delete from.
MineApart == mine \cap manifest = {} /\ UserFilesKept

\* Empty directories are hollow, or about to be removed.
HollowKnown ==
    \A d \in dirs : Empty(d) =>
        d \in hollow \/ (run # None /\ run.at = "removing" /\ d \in run.emptied)

\* lib.rs declares Rust files, and only a Rust run in its deletions leaves one
\* it declares missing.
LibKnown ==
    lib # None =>
        /\ \A f \in lib : LangOf[f] = "rust"
        /\ run = None \/ run.at = "types" \/ run.input.target # "rust" =>
              \A f \in lib : There(f) \/ f \in torn

IInv == TypeOK /\ RunKnows /\ MineApart /\ ListedOrStray /\ SuccessIsComplete
        /\ OnlyOutput /\ HollowKnown /\ LibKnown

-----------------------------------------------------------------------------
\* The files of an input, and those a run has written.
LEMMA FilesOf ==
    ASSUME NEW c \in Input
    PROVE  /\ c.target \in Target /\ c.text \in [File -> Text] /\ c.files \in Seq(File)
           /\ Len(c.files) \in Nat
           /\ \A i \in 1..Len(c.files) : c.files[i] \in File
           /\ Written(c) \subseteq File
           /\ \A f \in Written(c) : LangOf[f] = c.target
<1>1. /\ c.target \in Target /\ c.text \in [File -> Text] /\ c.files \in Seq(File)
  BY InputAssumption DEF InputAssumption
<1>2. Len(c.files) \in Nat /\ \A i \in 1..Len(c.files) : c.files[i] \in File
  BY <1>1
<1>3. Written(c) \subseteq File
  BY <1>2 DEF Written
<1> QED
  BY <1>1, <1>2, <1>3, InputAssumption DEF InputAssumption

LEMMA KnownFiles ==
    ASSUME TypeOK, run # None
    PROVE  /\ run.input \in Input /\ run.done \in Nat
           /\ Known \subseteq File /\ Known \subseteq Written(run.input)
           /\ \A f \in Known : LangOf[f] = run.input.target
           /\ run.done = Len(run.input.files) => Known = Written(run.input)
<1>1. /\ run.input \in Input /\ run.done \in Nat /\ run.done <= Len(run.input.files)
  BY DEF TypeOK, Run
<1>2. /\ Len(run.input.files) \in Nat /\ Written(run.input) \subseteq File
      /\ \A f \in Written(run.input) : LangOf[f] = run.input.target
  BY <1>1, FilesOf
<1>3. Known \subseteq Written(run.input)
  BY <1>1, <1>2 DEF Known, Written
<1>4. run.done = Len(run.input.files) => Known = Written(run.input)
  BY DEF Known, Written
<1> QED
  BY <1>1, <1>2, <1>3, <1>4

\* The next file, and what the run knows when it is written.
LEMMA NextFileKnown ==
    ASSUME TypeOK, MoreTypes, NEW r, r = [run EXCEPT !.done = @ + 1]
    PROVE  /\ NextFile \in File /\ NextFile \in Written(run.input)
           /\ r \in Run /\ r.done = run.done + 1 /\ r.done <= Len(run.input.files)
           /\ {r.input.files[i] : i \in 1..r.done} = Known \cup {NextFile}
           /\ r.input = run.input /\ r.at = run.at /\ r.removes = run.removes
           /\ r.kept = run.kept /\ r.todo = run.todo /\ r.emptied = run.emptied
<1>1. /\ run \in Run /\ run.input \in Input /\ run.done \in Nat
      /\ run.done < Len(run.input.files)
  BY DEF TypeOK, Run, MoreTypes
<1>2. /\ Len(run.input.files) \in Nat
      /\ \A i \in 1..Len(run.input.files) : run.input.files[i] \in File
  BY <1>1, FilesOf
<1>3. NextFile \in File /\ NextFile \in Written(run.input)
  BY <1>1, <1>2 DEF NextFile, Written
<1>4. /\ r \in Run /\ r.done = run.done + 1 /\ r.done <= Len(run.input.files)
      /\ r.input = run.input /\ r.at = run.at /\ r.removes = run.removes
      /\ r.kept = run.kept /\ r.todo = run.todo /\ r.emptied = run.emptied
  BY <1>1, <1>2 DEF Run
<1>5. 1..r.done = (1..run.done) \cup {run.done + 1}
  BY <1>1, <1>4
<1>6. {r.input.files[i] : i \in 1..r.done} = Known \cup {NextFile}
  BY <1>4, <1>5 DEF Known, NextFile
<1> QED
  BY <1>3, <1>4, <1>6

-----------------------------------------------------------------------------
LEMMA InitInv == Init => IInv
<1> SUFFICES ASSUME Init PROVE IInv
  OBVIOUS
<1>1. TypeOK
  BY FileAssumption DEF Init, TypeOK, There
<1>2. RunKnows /\ MineApart /\ ListedOrStray /\ LibKnown
  BY FileAssumption DEF Init, RunKnows, MineApart, UserFilesKept, ListedOrStray, LibKnown
<1>3. SuccessIsComplete /\ OnlyOutput /\ HollowKnown
  BY DEF Init, SuccessIsComplete, OnlyOutput, HollowKnown
<1> QED
  BY <1>1, <1>2, <1>3 DEF IInv

LEMMA StartStep ==
    ASSUME IInv, NEW c \in Input, NEW removes \in BOOLEAN, Start(c, removes)
    PROVE  IInv'
<1>1. /\ run' \in Run /\ run' # None /\ run'.done = 0 /\ run'.at = "types"
      /\ run'.todo = {} /\ run'.kept = {} /\ run'.emptied = {} /\ run'.input = c
      /\ Len(c.files) \in Nat /\ good' = None /\ run = None
      /\ UNCHANGED <<disk, litter, dirs, manifest, lib, strays, mine, hollow, torn>>
  BY FilesOf, NoneAssumption DEF Start, Run, Step
<1>2. Known' = {}
  BY <1>1 DEF Known
<1>3. TypeOK'
  BY <1>1 DEF IInv, TypeOK, There
<1>4. RunKnows'
  BY <1>1, <1>2 DEF RunKnows
<1>5. MineApart' /\ ListedOrStray'
  BY <1>1, <1>2 DEF IInv, MineApart, UserFilesKept, ListedOrStray
<1>6. SuccessIsComplete' /\ OnlyOutput'
  BY <1>1 DEF SuccessIsComplete, OnlyOutput
<1>7. HollowKnown' /\ LibKnown'
  BY <1>1 DEF IInv, HollowKnown, LibKnown, Empty, There
<1> QED
  BY <1>3, <1>4, <1>5, <1>6, <1>7 DEF IInv

LEMMA WriteFileStep == IInv /\ WriteFile => IInv'
<1> SUFFICES ASSUME IInv, WriteFile PROVE IInv'
  OBVIOUS
<1> DEFINE f == NextFile
<1>1. /\ MoreTypes /\ run # None /\ run.at = "types" /\ good = None
      /\ disk' = [disk EXCEPT ![f] = run.input.text[f]]
      /\ litter' \subseteq litter /\ litter \subseteq litter' \cup {f}
      /\ dirs' = dirs \cup ({DirOf[f]} \ {Top})
      /\ run' = [run EXCEPT !.done = @ + 1]
      /\ mine' = mine \ {f} /\ hollow' = hollow \ {DirOf[f]} /\ torn' = torn \ {f}
      /\ UNCHANGED <<manifest, lib, good, strays>>
  BY DEF WriteFile, MoreTypes, IInv, RunKnows
<1>2. /\ f \in File /\ f \in Written(run.input)
      /\ run' \in Run /\ run'.done <= Len(run.input.files)
      /\ Known' = Known \cup {f}
      /\ run'.input = run.input /\ run'.at = run.at /\ run'.removes = run.removes
      /\ run'.kept = run.kept /\ run'.todo = run.todo /\ run'.emptied = run.emptied
  <2> DEFINE r == [run EXCEPT !.done = @ + 1]
  <2>1. TypeOK /\ MoreTypes /\ run' = r
    BY <1>1 DEF IInv
  <2>2. /\ NextFile \in File /\ NextFile \in Written(run.input)
        /\ r \in Run /\ r.done <= Len(run.input.files)
        /\ {r.input.files[i] : i \in 1..r.done} = Known \cup {NextFile}
        /\ r.input = run.input /\ r.at = run.at /\ r.removes = run.removes
        /\ r.kept = run.kept /\ r.todo = run.todo /\ r.emptied = run.emptied
    BY <2>1, NextFileKnown
  <2>3. Known' = {r.input.files[i] : i \in 1..r.done}
    BY <2>1 DEF Known
  <2> HIDE DEF r
  <2> QED
    BY <2>1, <2>2, <2>3
<1>3. run' # None
  BY <1>2, NoneAssumption
<1>4. /\ run.input.text[f] \in Text /\ run.input.text[f] # Absent
      /\ DirOf[f] \in Dir \cup {Top} /\ disk \in [File -> Text \cup {Own, Absent}]
      /\ disk'[f] = run.input.text[f] /\ \A g \in File \ {f} : disk'[g] = disk[g]
  <2>1. run.input \in Input /\ disk \in [File -> Text \cup {Own, Absent}]
    BY <1>1, KnownFiles DEF IInv, TypeOK
  <2>2. run.input.text \in [File -> Text]
    BY <2>1, FilesOf
  <2>3. run.input.text[f] \in Text
    BY <2>2, <1>2
  <2>4. DirOf[f] \in Dir \cup {Top} /\ Absent \notin Text
    BY <1>2, FileAssumption
  <2>5. disk'[f] = run.input.text[f] /\ \A g \in File \ {f} : disk'[g] = disk[g]
    BY <2>1, <1>1, <1>2
  <2> QED
    BY <2>1, <2>3, <2>4, <2>5
<1>5. TypeOK'
  BY <1>1, <1>2, <1>3, <1>4 DEF IInv, TypeOK, There
<1>6. RunKnows'
  BY <1>1, <1>2, <1>3, <1>4, KnownFiles DEF IInv, RunKnows
<1>7. MineApart'
  BY <1>1, <1>2, <1>4 DEF IInv, TypeOK, MineApart, UserFilesKept
<1>8. ListedOrStray'
  BY <1>1, <1>2, <1>3, <1>4 DEF IInv, ListedOrStray
<1>9. SuccessIsComplete' /\ OnlyOutput'
  BY <1>1 DEF SuccessIsComplete, OnlyOutput
<1>10. HollowKnown'
  <2> SUFFICES ASSUME NEW d \in dirs', Empty(d)' PROVE d \in hollow'
    BY DEF HollowKnown
  <2>1. d # DirOf[f]
    BY <1>2, <1>4 DEF Empty, There
  <2>2. d \in dirs /\ Empty(d)
    BY <2>1, <1>1, <1>4 DEF Empty, There
  <2> QED
    BY <2>1, <2>2, <1>1 DEF IInv, HollowKnown
<1>11. LibKnown'
  BY <1>1, <1>2, <1>3, <1>4 DEF IInv, TypeOK, LibKnown, There
<1> QED
  BY <1>5, <1>6, <1>7, <1>8, <1>9, <1>10, <1>11 DEF IInv

LEMMA ReadManifestStep == IInv /\ ReadManifest => IInv'
<1> SUFFICES ASSUME IInv, ReadManifest PROVE IInv'
  OBVIOUS
<1>1. /\ run # None /\ run.at = "types" /\ run.done = Len(run.input.files)
      /\ run \in Run /\ good = None
      /\ run' = [run EXCEPT !.at = "removing", !.todo = Doomed, !.kept = Stale \ Doomed]
      /\ UNCHANGED <<disk, litter, dirs, manifest, lib, ghosts>>
  BY DEF ReadManifest, Generated, IInv, RunKnows, TypeOK
<1>2. /\ Stale \subseteq File /\ Doomed \subseteq Stale
      /\ Stale \subseteq manifest /\ Stale \cap Known = {}
      /\ \A f \in manifest : There(f) => f \in Known \cup Stale
      /\ \A f \in Stale : There(f)
      /\ \A f \in Doomed : LangOf[f] = run.input.target
      /\ run.removes => \A f \in Stale \ Doomed : LangOf[f] # run.input.target
  BY DEF Stale, Doomed, IInv, TypeOK
<1>3. /\ run' \in Run /\ run'.input = run.input /\ run'.done = run.done
      /\ run'.removes = run.removes /\ run'.emptied = run.emptied
      /\ run'.at = "removing" /\ run'.todo = Doomed /\ run'.kept = Stale \ Doomed
  BY <1>1, <1>2 DEF Run, Step
<1>4. run' # None /\ Known' = Known
  BY <1>3, NoneAssumption DEF Known
<1>5. TypeOK'
  BY <1>1, <1>3, <1>4 DEF IInv, TypeOK, There, ghosts
<1>6. RunKnows'
  BY <1>1, <1>2, <1>3, <1>4 DEF IInv, RunKnows, There, ghosts
<1>7. MineApart' /\ ListedOrStray'
  BY <1>1, <1>3, <1>4 DEF IInv, MineApart, UserFilesKept, ListedOrStray, ghosts
<1>8. SuccessIsComplete' /\ OnlyOutput'
  BY <1>1 DEF SuccessIsComplete, OnlyOutput, ghosts
<1>9. HollowKnown' /\ LibKnown'
  BY <1>1, <1>3, <1>4 DEF IInv, HollowKnown, LibKnown, Empty, There, ghosts
<1> QED
  BY <1>5, <1>6, <1>7, <1>8, <1>9 DEF IInv

LEMMA RemoveStep == ASSUME IInv, NEW f \in File, RemoveFile(f) PROVE IInv'
<1>1. /\ run # None /\ run.at = "removing" /\ run \in Run /\ good = None
      /\ f \in run.todo /\ f \in manifest /\ f \notin Known /\ f \notin run.kept
      /\ LangOf[f] = run.input.target /\ f \notin mine
      /\ disk' = [disk EXCEPT ![f] = Absent]
      /\ run' = [run EXCEPT !.todo = @ \ {f}, !.emptied = @ \cup {DirOf[f]}]
      /\ UNCHANGED <<litter, dirs, manifest, lib, ghosts>>
  BY DEF RemoveFile, IInv, TypeOK, RunKnows, MineApart
<1>2. /\ run' \in Run /\ run'.input = run.input /\ run'.done = run.done
      /\ run'.removes = run.removes /\ run'.at = run.at /\ run'.kept = run.kept
      /\ run'.todo = run.todo \ {f} /\ run'.emptied = run.emptied \cup {DirOf[f]}
  BY <1>1, FileAssumption DEF Run
<1>3. run' # None /\ Known' = Known /\ Known \subseteq File
  BY <1>1, <1>2, NoneAssumption, KnownFiles DEF Known, IInv
<1>4. /\ disk'[f] = Absent /\ disk \in [File -> Text \cup {Own, Absent}]
      /\ \A g \in File \ {f} : disk'[g] = disk[g]
      /\ Absent \notin Text /\ Own # Absent
  BY <1>1, FileAssumption DEF IInv, TypeOK
<1>5. TypeOK'
  BY <1>1, <1>2, <1>3, <1>4 DEF IInv, TypeOK, There, ghosts
<1>6. RunKnows'
  BY <1>1, <1>2, <1>3, <1>4 DEF IInv, RunKnows, TypeOK, There, ghosts
<1>7. MineApart' /\ ListedOrStray'
  BY <1>1, <1>3, <1>4
  DEF IInv, TypeOK, MineApart, UserFilesKept, ListedOrStray, ghosts
<1>8. SuccessIsComplete' /\ OnlyOutput'
  BY <1>1 DEF SuccessIsComplete, OnlyOutput, ghosts
<1>9. HollowKnown'
  <2> SUFFICES ASSUME NEW d \in dirs', Empty(d)'
               PROVE  d \in hollow' \/ d \in run'.emptied
    BY <1>1, <1>2, <1>3 DEF HollowKnown
  <2>1. CASE d = DirOf[f]
    BY <2>1, <1>2
  <2>2. CASE d # DirOf[f]
    <3>1. d \in dirs /\ Empty(d)
      BY <2>2, <1>1, <1>4 DEF Empty, There
    <3> QED
      BY <3>1, <1>1, <1>2 DEF IInv, HollowKnown, ghosts
  <2> QED
    BY <2>1, <2>2
<1>10. LibKnown'
  BY <1>1, <1>2, <1>3, <1>4 DEF IInv, TypeOK, LibKnown, There, ghosts
<1> QED
  BY <1>5, <1>6, <1>7, <1>8, <1>9, <1>10 DEF IInv

LEMMA RemoveDirsStep == IInv /\ RemoveDirs => IInv'
<1> SUFFICES ASSUME IInv, RemoveDirs PROVE IInv'
  OBVIOUS
<1> DEFINE gone == {d \in run.emptied \ {Top} : Empty(d)}
<1>1. /\ run # None /\ run.at = "removing" /\ run.todo = {} /\ run \in Run /\ good = None
      /\ dirs' = dirs \ gone /\ hollow' = hollow \ gone
      /\ run' = [run EXCEPT !.at = "listing"]
      /\ UNCHANGED <<disk, litter, manifest, lib, good, strays, mine, torn>>
  BY DEF RemoveDirs, IInv, TypeOK, RunKnows
<1>2. /\ run' \in Run /\ run'.input = run.input /\ run'.done = run.done
      /\ run'.removes = run.removes /\ run'.at = "listing" /\ run'.kept = run.kept
      /\ run'.todo = {} /\ run'.emptied = run.emptied
  BY <1>1 DEF Run, Step
<1>3. run' # None /\ Known' = Known
  BY <1>2, NoneAssumption DEF Known
<1>4. TypeOK'
  BY <1>1, <1>2, <1>3 DEF IInv, TypeOK, There, Empty
<1>5. RunKnows'
  BY <1>1, <1>2, <1>3 DEF IInv, RunKnows, There
<1>6. MineApart' /\ ListedOrStray'
  BY <1>1, <1>3 DEF IInv, MineApart, UserFilesKept, ListedOrStray
<1>7. SuccessIsComplete' /\ OnlyOutput'
  BY <1>1 DEF SuccessIsComplete, OnlyOutput
<1>8. HollowKnown' /\ LibKnown'
  BY <1>1, <1>2, <1>3, FileAssumption
  DEF IInv, TypeOK, HollowKnown, LibKnown, Empty, There
<1> QED
  BY <1>4, <1>5, <1>6, <1>7, <1>8 DEF IInv

LEMMA WriteManifestStep == IInv /\ WriteManifest => IInv'
<1> SUFFICES ASSUME IInv, WriteManifest PROVE IInv'
  OBVIOUS
<1>1. /\ run # None /\ run.at = "listing" /\ run.todo = {} /\ run \in Run /\ good = None
      /\ manifest' = Known \cup run.kept /\ strays' = strays \ (Known \cup run.kept)
      /\ run' = [run EXCEPT !.at = "crate"]
      /\ UNCHANGED <<disk, litter, dirs, lib, good, mine, hollow, torn>>
  BY DEF WriteManifest, IInv, TypeOK, RunKnows
<1>2. /\ run' \in Run /\ run'.input = run.input /\ run'.done = run.done
      /\ run'.removes = run.removes /\ run'.at = "crate" /\ run'.kept = run.kept
      /\ run'.todo = {} /\ run'.emptied = run.emptied
  BY <1>1 DEF Run, Step
<1>3. run' # None /\ Known' = Known /\ Known \subseteq File
  BY <1>1, <1>2, NoneAssumption, KnownFiles DEF Known, IInv
<1>4. TypeOK'
  BY <1>1, <1>2, <1>3 DEF IInv, TypeOK, There, Run
<1>5. RunKnows'
  BY <1>1, <1>2, <1>3 DEF IInv, RunKnows, There
<1>6. \A f \in Known : disk[f] # Own
  <2>1. \A f \in Known : f \in File /\ disk[f] = run.input.text[f] /\ run.input \in Input
    BY <1>1, <1>3 DEF IInv, RunKnows, Run
  <2> QED
    BY <2>1, FilesOf, FileAssumption
<1>7. MineApart'
  BY <1>1, <1>6 DEF IInv, RunKnows, MineApart, UserFilesKept
<1>8. ListedOrStray'
  BY <1>1, <1>3, FileAssumption DEF IInv, RunKnows, ListedOrStray, There
<1>9. SuccessIsComplete' /\ OnlyOutput'
  BY <1>1 DEF SuccessIsComplete, OnlyOutput
<1>10. HollowKnown' /\ LibKnown'
  BY <1>1, <1>2, <1>3 DEF IInv, HollowKnown, LibKnown, Empty, There
<1> QED
  BY <1>4, <1>5, <1>7, <1>8, <1>9, <1>10 DEF IInv

LEMMA FinishStep == IInv /\ Finish => IInv'
<1> SUFFICES ASSUME IInv, Finish PROVE IInv'
  OBVIOUS
<1> DEFINE c == run.input
<1>1. /\ run # None /\ run.at = "crate" /\ run.todo = {} /\ run \in Run
      /\ lib' = IF c.target = "rust" THEN Modules ELSE lib
      /\ torn' = IF c.target = "rust" THEN {} ELSE torn
      /\ good' = [input |-> c, removes |-> run.removes] /\ run' = None
      /\ UNCHANGED <<disk, litter, dirs, manifest, strays, mine, hollow>>
  BY DEF Finish, IInv, TypeOK
<1>2. /\ c \in Input /\ run.removes \in BOOLEAN /\ Known \subseteq File
      /\ Known = Written(c) /\ \A f \in Known : LangOf[f] = c.target
  BY <1>1, KnownFiles DEF IInv, RunKnows, Run
<1>3. /\ \A f \in Known : disk[f] = c.text[f] /\ disk[f] \in Text /\ There(f)
      /\ manifest = Known \cup run.kept /\ \A f \in run.kept : There(f)
      /\ run.removes => \A f \in run.kept : LangOf[f] # c.target
  <2>1. \A f \in Known : disk[f] = c.text[f] /\ f \in File
    BY <1>1, <1>2 DEF IInv, RunKnows
  <2>2. c.text \in [File -> Text] /\ Absent \notin Text
    BY <1>2, FilesOf, FileAssumption
  <2> QED
    BY <1>1, <2>1, <2>2 DEF IInv, RunKnows, There
<1>4. good'.input = c /\ good'.removes = run.removes
      /\ good' \in [input : Input, removes : BOOLEAN]
  BY <1>1, <1>2
<1>5. TypeOK'
  BY <1>1, <1>2, <1>4 DEF IInv, TypeOK, There, Modules
<1>6. RunKnows' /\ MineApart'
  BY <1>1 DEF IInv, RunKnows, MineApart, UserFilesKept
<1>7. ListedOrStray'
  BY <1>1, <1>3 DEF IInv, ListedOrStray
<1>8. SuccessIsComplete'
  BY <1>1, <1>2, <1>3, <1>4 DEF SuccessIsComplete, There
<1>9. HollowKnown'
  BY <1>1 DEF IInv, HollowKnown, Empty, There
<1>10. OnlyOutput'
  <2>1. ASSUME run.removes, NEW f \in File, There(f), LangOf[f] = c.target,
               f \notin Written(c)
        PROVE  disk[f] = Own \/ f \in strays
    <3>1. disk[f] \in Text \/ disk[f] = Own
      BY <2>1 DEF IInv, TypeOK, There
    <3>2. CASE disk[f] \in Text
      BY <2>1, <3>2, <1>1, <1>2, <1>3 DEF IInv, ListedOrStray
    <3> QED
      BY <3>1, <3>2
  <2>2. \A d \in dirs : Empty(d) => d \in hollow
    BY <1>1 DEF IInv, HollowKnown
  <2> QED
    BY <2>1, <2>2, <1>1, <1>4 DEF OnlyOutput, There, Empty
<1>11. LibKnown'
  BY <1>1, <1>2, <1>3 DEF IInv, LibKnown, Modules, There
<1> QED
  BY <1>5, <1>6, <1>7, <1>8, <1>9, <1>10, <1>11 DEF IInv

\* A run that ends early leaves the directory as it stands; its files that are
\* not listed are strays.
LEMMA EndsEarlyStep ==
    ASSUME IInv, run # None, EndsEarly,
           litter' \subseteq File, dirs' \subseteq Dir, dirs \subseteq dirs',
           hollow' \subseteq Dir, torn' \subseteq File,
           HollowKnown',
           lib # None => \A f \in lib : There(f) \/ f \in torn'
    PROVE  IInv'
<1>1. /\ run' = None /\ strays' = strays \cup (Known \ manifest)
      /\ UNCHANGED <<disk, manifest, lib, good, mine>> /\ good = None
      /\ Known \subseteq File
  BY KnownFiles DEF EndsEarly, IInv, RunKnows
<1>2. TypeOK'
  BY <1>1 DEF IInv, TypeOK, There
<1>3. RunKnows' /\ MineApart' /\ ListedOrStray'
  BY <1>1 DEF IInv, RunKnows, MineApart, UserFilesKept, ListedOrStray
<1>4. SuccessIsComplete' /\ OnlyOutput'
  BY <1>1 DEF SuccessIsComplete, OnlyOutput
<1>5. LibKnown'
  BY <1>1 DEF IInv, LibKnown, There
<1> QED
  BY <1>2, <1>3, <1>4, <1>5 DEF IInv

LEMMA UnsupportedStep == IInv /\ Unsupported => IInv'
<1> SUFFICES ASSUME IInv, Unsupported PROVE IInv'
  OBVIOUS
<1>1. /\ run # None /\ run.at = "types" /\ EndsEarly
      /\ UNCHANGED <<litter, dirs, hollow, torn, disk>>
  BY DEF Unsupported, EndsEarly
<1>2. HollowKnown'
  BY <1>1 DEF IInv, HollowKnown, Empty, There
<1>3. lib # None => \A f \in lib : There(f) \/ f \in torn'
  BY <1>1 DEF IInv, LibKnown
<1> QED
  BY <1>1, <1>2, <1>3, EndsEarlyStep DEF IInv, TypeOK

LEMMA KillStep == IInv /\ Kill => IInv'
<1> SUFFICES ASSUME IInv, Kill PROVE IInv'
  OBVIOUS
<1>1. /\ run # None /\ EndsEarly /\ hollow' = {d \in dirs : Empty(d)}
      /\ torn' = IF lib = None THEN {} ELSE {f \in lib : ~There(f)}
      /\ UNCHANGED <<litter, dirs, disk>>
  BY DEF Kill, EndsEarly
<1>2. HollowKnown'
  BY <1>1 DEF HollowKnown, Empty, There
<1>3. torn' \subseteq File /\ (lib # None => \A f \in lib : There(f) \/ f \in torn')
  BY <1>1 DEF IInv, TypeOK
<1> QED
  BY <1>1, <1>2, <1>3, EndsEarlyStep DEF IInv, TypeOK

LEMMA KillInWriteStep == IInv /\ KillInWrite => IInv'
<1> SUFFICES ASSUME IInv, KillInWrite PROVE IInv'
  OBVIOUS
<1>1. /\ MoreTypes /\ run # None /\ run.at = "types" /\ EndsEarly
      /\ litter' = litter \cup {NextFile}
      /\ dirs' = dirs \cup ({DirOf[NextFile]} \ {Top})
      /\ hollow' = hollow \ {DirOf[NextFile]}
      /\ UNCHANGED <<torn, disk>>
  BY DEF KillInWrite, EndsEarly, MoreTypes
<1>2. NextFile \in File
  BY <1>1, NextFileKnown DEF IInv
<1>3. HollowKnown'
  BY <1>1, <1>2 DEF IInv, HollowKnown, Empty, There
<1>4. lib # None => \A f \in lib : There(f) \/ f \in torn'
  BY <1>1 DEF IInv, LibKnown
<1>5. litter' \subseteq File /\ dirs' \subseteq Dir /\ hollow' \subseteq Dir /\ torn' \subseteq File
  BY <1>1, <1>2, FileAssumption DEF IInv, TypeOK
<1> QED
  BY <1>1, <1>3, <1>4, <1>5, EndsEarlyStep

LEMMA PutStep == ASSUME IInv, NEW f \in File, Put(f) PROVE IInv'
<1>1. /\ run = None /\ run' = None /\ good' = None
      /\ disk' = [disk EXCEPT ![f] = Own]
      /\ dirs' = dirs \cup ({DirOf[f]} \ {Top})
      /\ mine' = IF f \in manifest THEN mine ELSE mine \cup {f}
      /\ strays' = strays \ {f} /\ hollow' = hollow \ {DirOf[f]} /\ torn' = torn \ {f}
      /\ UNCHANGED <<litter, manifest, lib>>
  BY DEF Put
<1>2. /\ disk'[f] = Own /\ disk \in [File -> Text \cup {Own, Absent}]
      /\ \A g \in File \ {f} : disk'[g] = disk[g]
      /\ DirOf[f] \in Dir \cup {Top} /\ Own \notin Text /\ Own # Absent
  BY <1>1, FileAssumption DEF IInv, TypeOK
<1>3. TypeOK'
  BY <1>1, <1>2 DEF IInv, TypeOK, There
<1>4. RunKnows' /\ MineApart' /\ ListedOrStray'
  BY <1>1, <1>2 DEF IInv, TypeOK, RunKnows, MineApart, UserFilesKept, ListedOrStray
<1>5. SuccessIsComplete' /\ OnlyOutput'
  BY <1>1 DEF SuccessIsComplete, OnlyOutput
<1>6. HollowKnown'
  BY <1>1, <1>2 DEF IInv, HollowKnown, Empty, There
<1>7. LibKnown'
  BY <1>1, <1>2 DEF IInv, TypeOK, LibKnown, There
<1> QED
  BY <1>3, <1>4, <1>5, <1>6, <1>7 DEF IInv

LEMMA TakeStep == ASSUME IInv, NEW f \in File, Take(f) PROVE IInv'
<1>1. /\ run = None /\ run' = None /\ good' = None
      /\ disk' = [disk EXCEPT ![f] = Absent]
      /\ mine' = mine \ {f} /\ strays' = strays \ {f}
      /\ hollow' = IF DirOf[f] \in Dir THEN hollow \cup {DirOf[f]} ELSE hollow
      /\ torn' = IF lib # None /\ f \in lib THEN torn \cup {f} ELSE torn
      /\ UNCHANGED <<litter, dirs, manifest, lib>>
  BY DEF Take
<1>2. /\ disk'[f] = Absent /\ disk \in [File -> Text \cup {Own, Absent}]
      /\ \A g \in File \ {f} : disk'[g] = disk[g]
      /\ Absent \notin Text
  BY <1>1, FileAssumption DEF IInv, TypeOK
<1>3. TypeOK'
  BY <1>1, <1>2 DEF IInv, TypeOK, There
<1>4. RunKnows' /\ MineApart' /\ ListedOrStray'
  BY <1>1, <1>2 DEF IInv, TypeOK, RunKnows, MineApart, UserFilesKept, ListedOrStray
<1>5. SuccessIsComplete' /\ OnlyOutput'
  BY <1>1 DEF SuccessIsComplete, OnlyOutput
<1>6. HollowKnown'
  <2> SUFFICES ASSUME NEW d \in dirs, Empty(d)' PROVE d \in hollow'
    BY <1>1 DEF HollowKnown
  <2>1. CASE d = DirOf[f]
    BY <2>1, <1>1 DEF IInv, TypeOK
  <2>2. CASE d # DirOf[f]
    <3>1. Empty(d)
      BY <2>2, <1>1, <1>2 DEF Empty, There
    <3> QED
      BY <3>1, <1>1 DEF IInv, HollowKnown
  <2> QED
    BY <2>1, <2>2
<1>7. LibKnown'
  <2> SUFFICES ASSUME lib # None, NEW g \in lib
               PROVE  LangOf[g] = "rust" /\ (There(g)' \/ g \in torn')
    BY <1>1 DEF LibKnown
  <2>1. LangOf[g] = "rust" /\ (There(g) \/ g \in torn) /\ g \in File
    BY <1>1 DEF IInv, TypeOK, LibKnown
  <2>2. CASE g = f
    BY <2>1, <2>2, <1>1
  <2>3. CASE g # f
    BY <2>1, <2>3, <1>1, <1>2 DEF There
  <2> QED
    BY <2>1, <2>2, <2>3
<1> QED
  BY <1>3, <1>4, <1>5, <1>6, <1>7 DEF IInv

LEMMA Stutter == IInv /\ UNCHANGED vars => IInv'
BY DEF vars, ghosts, IInv, TypeOK, RunKnows, MineApart, UserFilesKept, ListedOrStray,
       SuccessIsComplete, OnlyOutput, HollowKnown, LibKnown, There, Empty, Known

-----------------------------------------------------------------------------
\* What a run in progress knows of the directory stays true over every history
\* of runs, failures, kills and the user's deeds.
THEOREM Inductive == Spec => []IInv
<1>1. IInv /\ [Next]_vars => IInv'
  <2> SUFFICES ASSUME IInv, [Next]_vars PROVE IInv'
    OBVIOUS
  <2>1. CASE Compile
    BY <2>1, StartStep, WriteFileStep, ReadManifestStep, RemoveStep, RemoveDirsStep,
       WriteManifestStep, FinishStep DEF Compile
  <2>2. CASE Unsupported
    BY <2>2, UnsupportedStep
  <2>3. CASE Kill
    BY <2>3, KillStep
  <2>4. CASE KillInWrite
    BY <2>4, KillInWriteStep
  <2>5. CASE \E f \in File : Put(f) \/ Take(f)
    BY <2>5, PutStep, TakeStep
  <2>6. CASE UNCHANGED vars
    BY <2>6, Stutter
  <2> QED
    BY <2>1, <2>2, <2>3, <2>4, <2>5, <2>6 DEF Next
<1> QED
  BY InitInv, <1>1, PTL DEF Spec

\* Directory, list and run stay in their types, and no file is without its
\* directory.
THEOREM TypeCorrect == Spec => []TypeOK
<1>1. IInv => TypeOK
  BY DEF IInv
<1> QED
  BY <1>1, Inductive, PTL

\* For any schemas, backends and options, a run that exits 0 has left its whole
\* output, whatever runs were killed or failed before it.
THEOREM Completeness == Spec => []SuccessIsComplete
<1>1. IInv => SuccessIsComplete
  BY DEF IInv
<1> QED
  BY <1>1, Inductive, PTL

\* After a run with --remove-stale the directory holds its output, the user's
\* files and what runs that ended early left.
THEOREM Cleanliness == Spec => []OnlyOutput
<1>1. IInv => OnlyOutput
  BY DEF IInv
<1> QED
  BY <1>1, Inductive, PTL

\* No generated file is forgotten but those of runs that ended early.
THEOREM NothingForgotten == Spec => []ListedOrStray
<1>1. IInv => ListedOrStray
  BY DEF IInv
<1> QED
  BY <1>1, Inductive, PTL

\* No run deletes a user's file that no run listed (update_manifest's note).
THEOREM UserFiles == Spec => []UserFilesKept
<1>1. IInv => UserFilesKept
  BY DEF IInv, MineApart
<1> QED
  BY <1>1, Inductive, PTL

\* lib.rs names no module that is gone, but for kills and the user's deletions.
THEOREM CrateResolves == Spec => []LibResolves
<1>1. IInv => LibResolves
  BY DEF IInv, LibKnown, LibResolves
<1> QED
  BY <1>1, Inductive, PTL


-----------------------------------------------------------------------------
\* Induction, with the set of the numbers that have the property.
LEMMA Counting ==
    ASSUME NEW S, 0 \in S, \A n \in Nat : n \in S => n + 1 \in S
    PROVE  Nat \subseteq S
<1> DEFINE R == {p \in Nat \X Nat : p[1] < p[2]}
           T == Nat \ S
<1>1. OpToRel(<, Nat) = R
  BY DEF OpToRel
<1>2. IsWellFoundedOn(R, Nat)
  BY <1>1, NatLessThanWellFounded
<1>3. \A a, b \in Nat : a < b => <<a, b>> \in R
  OBVIOUS
<1>4. SUFFICES ASSUME T # {} PROVE FALSE
  OBVIOUS
<1>5. T \subseteq Nat
  OBVIOUS
<1> HIDE DEF R
<1>6. PICK k \in T : \A j \in T : ~(<<j, k>> \in R)
  BY <1>2, <1>4, <1>5, WFMin
<1>7. k # 0 /\ k \in Nat /\ k - 1 \in Nat
  BY <1>6
<1>8. k - 1 \in S
  <2>1. k - 1 < k
    BY <1>7
  <2>2. <<k - 1, k>> \in R
    BY <1>3, <1>7, <2>1
  <2> QED
    BY <1>6, <1>7, <2>2
<1>9. (k - 1) + 1 \in S
  BY <1>7, <1>8
<1> QED
  BY <1>6, <1>7, <1>9

-----------------------------------------------------------------------------
\* A recursion along the numbers has a solution, which is what its CHOOSE takes.
Walk(S, step, n, f) ==
    f = [k \in 0..n |-> IF k = 0 THEN S
                        ELSE LET r == f[k - 1] IN r \cup UNION {step[x] : x \in r}]

LEMMA WalkExists ==
    ASSUME NEW S, NEW step, NEW N \in Nat
    PROVE  \E f : Walk(S, step, N, f)
<1> DEFINE T == {n \in Nat : \E f : Walk(S, step, n, f)}
           Grow(r) == r \cup UNION {step[x] : x \in r}
<1>1. 0 \in T
  <2>1. Walk(S, step, 0, [k \in 0..0 |-> S])
    BY DEF Walk
  <2> QED
    BY <2>1
<1>2. ASSUME NEW n \in Nat, n \in T PROVE n + 1 \in T
  <2>1. PICK f : Walk(S, step, n, f)
    BY <1>2
  <2> DEFINE g == [k \in 0..(n + 1) |-> IF k <= n THEN f[k] ELSE Grow(f[n])]
             h == [k \in 0..(n + 1) |-> IF k = 0 THEN S ELSE Grow(g[k - 1])]
  <2>2. \A k \in 0..n : f[k] = IF k = 0 THEN S ELSE Grow(f[k - 1])
    BY <2>1 DEF Walk
  <2> HIDE DEF Grow
  <2>3. ASSUME NEW k \in 0..(n + 1) PROVE g[k] = h[k]
    <3>1. CASE k <= n
      BY <2>2, <3>1
    <3>2. CASE k = n + 1
      BY <3>2
    <3> QED
      BY <3>1, <3>2
  <2>4. g = h
    BY <2>3
  <2> HIDE DEF g
  <2>5. Walk(S, step, n + 1, g)
    BY <2>4 DEF Walk, Grow
  <2> QED
    BY <2>5
<1> HIDE DEF T
<1>3. N \in T
  BY <1>1, <1>2, Counting
<1> QED
  BY <1>3 DEF T

LEMMA FiniteNames == IsFiniteSet(Names) /\ Cardinality(Names) \in Nat
<1>1. IsFiniteSet(Names)
  BY SchemaAssumption DEF WellFormed
<1> QED
  BY <1>1, FS_CardinalityType

\* The search, from its start to what is reached, a step at a time.
LEMMA ReachSteps ==
    ASSUME NEW S, NEW step
    PROVE  \E R : /\ Reach(S, step) = R[Cardinality(Names)]
                  /\ R[0] = S
                  /\ \A k \in Nat : k + 1 <= Cardinality(Names) =>
                        R[k + 1] = R[k] \cup UNION {step[x] : x \in R[k]}
<1> DEFINE N == Cardinality(Names)
           R == CHOOSE f : Walk(S, step, N, f)
<1>1. Walk(S, step, N, R)
  <2>1. N \in Nat
    BY FiniteNames
  <2> HIDE DEF N
  <2> QED
    BY <2>1, WalkExists
<1>2. Reach(S, step) = R[N]
  BY DEF Reach, Walk
<1>3. N \in Nat
  BY FiniteNames
<1> HIDE DEF R, N
<1>4. \A k \in 0..N : R[k] = IF k = 0 THEN S ELSE R[k - 1] \cup UNION {step[x] : x \in R[k - 1]}
  BY <1>1 DEF Walk
<1>5. R[0] = S
  <2>1. 0 \in 0..N
    BY <1>3
  <2> QED
    BY <1>4, <2>1
<1>6. ASSUME NEW k \in Nat, k + 1 <= N
      PROVE  R[k + 1] = R[k] \cup UNION {step[x] : x \in R[k]}
  <2>1. k + 1 \in 0..N /\ k + 1 # 0 /\ (k + 1) - 1 = k
    BY <1>3, <1>6
  <2> QED
    BY <1>4, <2>1
<1> QED
  BY <1>2, <1>5, <1>6 DEF N

\* What is reached lies within every set that holds the start and is closed
\* under the step.
LEMMA ReachLeast ==
    ASSUME NEW S, NEW step, NEW T, S \subseteq T, \A x \in T : step[x] \subseteq T
    PROVE  Reach(S, step) \subseteq T
<1> DEFINE N == Cardinality(Names)
<1>1. PICK R : /\ Reach(S, step) = R[N]
               /\ R[0] = S
               /\ \A k \in Nat : k + 1 <= N => R[k + 1] = R[k] \cup UNION {step[x] : x \in R[k]}
  BY ReachSteps
<1>2. N \in Nat
  BY FiniteNames
<1> HIDE DEF N
<1> DEFINE K == {k \in Nat : k <= N => R[k] \subseteq T}
<1>3. 0 \in K
  BY <1>1
<1>4. ASSUME NEW k \in Nat, k \in K PROVE k + 1 \in K
  <2> SUFFICES ASSUME k + 1 <= N PROVE R[k + 1] \subseteq T
    OBVIOUS
  <2>1. k <= N
    BY <1>2
  <2>2. R[k] \subseteq T
    BY <1>4, <2>1
  <2>3. R[k + 1] = R[k] \cup UNION {step[x] : x \in R[k]}
    BY <1>1
  <2> QED
    BY <2>2, <2>3
<1> HIDE DEF K
<1>5. N \in K
  BY <1>2, <1>3, <1>4, Counting
<1> QED
  BY <1>1, <1>2, <1>5 DEF K

\* It holds the start and is closed: a search that takes no further name in a
\* step has ended, and there are no more names than steps.
LEMMA ReachCloses ==
    ASSUME NEW S \in SUBSET Names, NEW step \in [Names -> SUBSET Names]
    PROVE  /\ S \subseteq Reach(S, step) /\ Reach(S, step) \subseteq Names
           /\ \A x \in Reach(S, step) : step[x] \subseteq Reach(S, step)
<1> DEFINE N == Cardinality(Names)
           Closed(A) == \A x \in A : step[x] \subseteq A
<1>1. PICK R : /\ Reach(S, step) = R[N]
               /\ R[0] = S
               /\ \A k \in Nat : k + 1 <= N => R[k + 1] = R[k] \cup UNION {step[x] : x \in R[k]}
  BY ReachSteps
<1>2. N \in Nat /\ IsFiniteSet(Names)
  BY FiniteNames
<1> DEFINE K == {k \in Nat : k <= N => /\ S \subseteq R[k] /\ R[k] \subseteq Names
                                       /\ Closed(R[k]) \/ k <= Cardinality(R[k])}
<1>3. 0 \in K
  <2>1. IsFiniteSet(S) /\ Cardinality(S) \in Nat
    BY <1>2, FS_Subset, FS_CardinalityType
  <2>2. 0 <= Cardinality(S)
    BY <2>1
  <2> QED
    BY <1>1, <2>2
<1>4. ASSUME NEW k \in Nat, k \in K PROVE k + 1 \in K
  <2> SUFFICES ASSUME k + 1 <= N
               PROVE  /\ S \subseteq R[k + 1] /\ R[k + 1] \subseteq Names
                      /\ Closed(R[k + 1]) \/ k + 1 <= Cardinality(R[k + 1])
    OBVIOUS
  <2>1. k <= N
    BY <1>2
  <2>2. /\ S \subseteq R[k] /\ R[k] \subseteq Names
        /\ Closed(R[k]) \/ k <= Cardinality(R[k])
    BY <1>4, <2>1
  <2>3. R[k + 1] = R[k] \cup UNION {step[x] : x \in R[k]}
    BY <1>1
  <2>4. S \subseteq R[k + 1] /\ R[k + 1] \subseteq Names
    <3>1. \A x \in R[k] : step[x] \subseteq Names
      BY <2>2
    <3> QED
      BY <2>2, <2>3, <3>1
  <2>5. CASE Closed(R[k])
    <3>1. R[k + 1] = R[k]
      BY <2>3, <2>5
    <3> QED
      BY <2>4, <2>5, <3>1
  <2>6. CASE ~ Closed(R[k])
    <3>1. PICK y \in R[k + 1] : y \notin R[k]
      BY <2>3, <2>6
    <3>2. IsFiniteSet(R[k]) /\ IsFiniteSet(R[k + 1])
      BY <1>2, <2>2, <2>4, FS_Subset
    <3>3. /\ IsFiniteSet(R[k] \cup {y})
          /\ Cardinality(R[k] \cup {y}) = Cardinality(R[k]) + 1
      BY <3>1, <3>2, FS_AddElement
    <3>4. R[k] \cup {y} \in SUBSET R[k + 1]
      BY <2>3, <3>1
    <3>5. Cardinality(R[k] \cup {y}) <= Cardinality(R[k + 1])
      BY <3>2, <3>4, FS_Subset
    <3>6. Cardinality(R[k]) \in Nat /\ Cardinality(R[k + 1]) \in Nat
      BY <3>2, FS_CardinalityType
    <3>7. k <= Cardinality(R[k])
      BY <2>2, <2>6
    <3>8. k + 1 <= Cardinality(R[k + 1])
      BY <3>3, <3>5, <3>6, <3>7
    <3> QED
      BY <2>4, <3>8
  <2> QED
    BY <2>5, <2>6
<1> HIDE DEF K
<1>5. N \in K
  <2> HIDE DEF N
  <2> QED
    BY <1>2, <1>3, <1>4, Counting
<1>6. /\ S \subseteq R[N] /\ R[N] \subseteq Names
      /\ Closed(R[N]) \/ N <= Cardinality(R[N])
  BY <1>2, <1>5 DEF K
<1>7. CASE Closed(R[N])
  BY <1>1, <1>6, <1>7
<1>8. CASE N <= Cardinality(R[N])
  <2>1. /\ Cardinality(R[N]) <= Cardinality(Names)
        /\ Cardinality(Names) = Cardinality(R[N]) => Names = R[N]
    BY <1>2, <1>6, FS_Subset
  <2>2. Cardinality(R[N]) \in Nat
    BY <1>2, <1>6, FS_Subset, FS_CardinalityType
  <2>3. R[N] = Names
    BY <1>2, <1>8, <2>1, <2>2
  <2>4. \A x \in Names : step[x] \subseteq Names
    OBVIOUS
  <2> QED
    BY <1>1, <1>6, <2>3, <2>4
<1> QED
  BY <1>6, <1>7, <1>8

-----------------------------------------------------------------------------
\* A type reference followed: the recursion of Concrete, as Walk above.
Chase(n, len, f) ==
    f = [k \in 0..len |-> IF k = 0 THEN n
                          ELSE LET r == f[k - 1]
                               IN IF schema[r].kind = "alias" THEN schema[r].to ELSE r]

LEMMA ChaseExists ==
    ASSUME NEW a, NEW N \in Nat
    PROVE  \E f : Chase(a, N, f)
<1> DEFINE T == {n \in Nat : \E f : Chase(a, n, f)}
           On(r) == IF schema[r].kind = "alias" THEN schema[r].to ELSE r
<1>1. 0 \in T
  <2>1. Chase(a, 0, [k \in 0..0 |-> a])
    BY DEF Chase
  <2> QED
    BY <2>1
<1>2. ASSUME NEW n \in Nat, n \in T PROVE n + 1 \in T
  <2>1. PICK f : Chase(a, n, f)
    BY <1>2
  <2> DEFINE g == [k \in 0..(n + 1) |-> IF k <= n THEN f[k] ELSE On(f[n])]
             h == [k \in 0..(n + 1) |-> IF k = 0 THEN a ELSE On(g[k - 1])]
  <2>2. \A k \in 0..n : f[k] = IF k = 0 THEN a ELSE On(f[k - 1])
    BY <2>1 DEF Chase
  <2> HIDE DEF On
  <2>3. ASSUME NEW k \in 0..(n + 1) PROVE g[k] = h[k]
    <3>1. CASE k <= n
      BY <2>2, <3>1
    <3>2. CASE k = n + 1
      BY <3>2
    <3> QED
      BY <3>1, <3>2
  <2>4. g = h
    BY <2>3
  <2> HIDE DEF g
  <2>5. Chase(a, n + 1, g)
    BY <2>4 DEF Chase, On
  <2> QED
    BY <2>5
<1> HIDE DEF T
<1>3. N \in T
  BY <1>1, <1>2, Counting
<1> QED
  BY <1>3 DEF T

\* The type at the end of the chain is in every set that holds the reference
\* and, with a reference, what it refers to.
LEMMA ConcreteWithin ==
    ASSUME NEW a, NEW T, a \in T,
           \A x \in T : schema[x].kind = "alias" => schema[x].to \in T
    PROVE  Concrete(a) \in T
<1> DEFINE N == Cardinality(Names)
           R == CHOOSE f : Chase(a, N, f)
<1>1. N \in Nat
  BY FiniteNames
<1>2. Chase(a, N, R)
  <2> HIDE DEF N
  <2> QED
    BY <1>1, ChaseExists
<1>3. Concrete(a) = R[N]
  BY DEF Concrete, Chase
<1> HIDE DEF R, N
<1> DEFINE On(r) == IF schema[r].kind = "alias" THEN schema[r].to ELSE r
<1>4. \A k \in 0..N : R[k] = IF k = 0 THEN a ELSE On(R[k - 1])
  BY <1>2 DEF Chase
<1>5. \A x \in T : On(x) \in T
  OBVIOUS
<1> HIDE DEF On
<1> DEFINE K == {k \in Nat : k <= N => R[k] \in T}
<1>6. 0 \in K
  <2>1. 0 \in 0..N
    BY <1>1
  <2> QED
    BY <1>4, <2>1
<1>7. ASSUME NEW k \in Nat, k \in K PROVE k + 1 \in K
  <2> SUFFICES ASSUME k + 1 <= N PROVE R[k + 1] \in T
    OBVIOUS
  <2>1. R[k] \in T
    BY <1>1, <1>7
  <2>2. k + 1 \in 0..N /\ k + 1 # 0 /\ (k + 1) - 1 = k
    BY <1>1
  <2>3. R[k + 1] = On(R[k])
    BY <1>4, <2>2
  <2> QED
    BY <1>5, <2>1, <2>3
<1> HIDE DEF K
<1>8. N \in K
  BY <1>1, <1>6, <1>7, Counting
<1> QED
  BY <1>1, <1>3, <1>8 DEF K

-----------------------------------------------------------------------------
\* What the schema says of a name.
LEMMA Typed ==
    ASSUME schema \in Schemas, NEW n \in Names
    PROVE  /\ IsClass(n) => /\ schema[n].members \in Seq(MemberOf)
                            /\ Members(n) = Range(schema[n].members)
                            /\ schema[n].kind # "alias" /\ schema[n].kind # "list"
           /\ schema[n].kind \in {"alias", "list"} => schema[n].to \in Names /\ ~ IsClass(n)
           /\ ~ IsClass(n) => Members(n) = {} /\ schema[n].kind \in {"alias", "list", "leaf"}
           /\ Members(n) \subseteq MemberOf
<1>1. schema[n] \in Definition
  BY SchemaAssumption DEF WellFormed
<1>2. IsClass(n) => schema[n].members \in Seq(MemberOf)
  BY <1>1 DEF Definition, IsClass
<1>3. schema[n].kind \in {"alias", "list"} => schema[n].to \in Names
  BY <1>1 DEF Definition
<1>4. schema[n].kind \in {"record", "choice", "alias", "list", "leaf"}
  BY <1>1 DEF Definition
<1>5. IsClass(n) => Range(schema[n].members) \subseteq MemberOf
  BY <1>2 DEF Range
<1> QED
  BY <1>2, <1>3, <1>4, <1>5 DEF IsClass, Members

LEMMA Steps ==
    ASSUME schema \in Schemas
    PROVE  /\ TypeRefs \in [Names -> SUBSET Names]
           /\ \A n \in Names : \A m \in Members(n) : m \in MemberOf /\ m.to \in TypeRefs[n]
           /\ \A n \in Names : schema[n].kind \in {"alias", "list"} => schema[n].to \in TypeRefs[n]
<1>1. ASSUME NEW n \in Names
      PROVE  /\ TypeRefs[n] \in SUBSET Names
             /\ \A m \in Members(n) : m \in MemberOf /\ m.to \in TypeRefs[n]
             /\ schema[n].kind \in {"alias", "list"} => schema[n].to \in TypeRefs[n]
  <2>1. TypeRefs[n] = IF schema[n].kind \in {"alias", "list"} THEN {schema[n].to}
                      ELSE {m.to : m \in Members(n)}
    BY DEF TypeRefs
  <2>2. \A m \in Members(n) : m \in MemberOf /\ m.to \in Names /\ IsClass(n)
    BY Typed DEF MemberOf
  <2>3. CASE schema[n].kind \in {"alias", "list"}
    BY <2>1, <2>2, <2>3, Typed
  <2>4. CASE ~ schema[n].kind \in {"alias", "list"}
    BY <2>1, <2>2, <2>4
  <2> QED
    BY <2>3, <2>4
<1>2. TypeRefs = [n \in Names |-> TypeRefs[n]]
  BY DEF TypeRefs
<1> QED
  BY <1>1, <1>2

\* The closure holds its root and, with a type, the types of its members, what
\* it refers to and the type at the end of its chain.
LEMMA ClosureHolds ==
    ASSUME schema \in Schemas, NEW u \in Names
    PROVE  /\ u \in Closure({u}) /\ Closure({u}) \subseteq Names
           /\ \A n \in Closure({u}) : \A m \in Members(n) : m \in MemberOf /\ m.to \in Closure({u})
           /\ \A n \in Closure({u}) :
                 schema[n].kind \in {"alias", "list"} => schema[n].to \in Closure({u})
           /\ \A n \in Closure({u}) : Concrete(n) \in Closure({u})
<1> DEFINE C == Closure({u})
<1>1. /\ u \in C /\ C \subseteq Names
      /\ \A n \in C : TypeRefs[n] \subseteq C
  <2>1. {u} \in SUBSET Names
    OBVIOUS
  <2> QED
    BY <2>1, Steps, ReachCloses DEF Closure
<1> HIDE DEF C
<1>2. \A n \in C : \A m \in Members(n) : m \in MemberOf /\ m.to \in C
  BY <1>1, Steps
<1>3. \A n \in C : schema[n].kind \in {"alias", "list"} => schema[n].to \in C
  BY <1>1, Steps
<1>4. \A n \in C : Concrete(n) \in C
  BY <1>3, ConcreteWithin
<1> QED
  BY <1>1, <1>2, <1>3, <1>4 DEF C

LEMMA ReachableWithin ==
    ASSUME schema \in Schemas, NEW u \in Names, NEW t \in Closure({u})
    PROVE  Reachable(t) \subseteq Closure({u})
<1> DEFINE C == Closure({u})
           step == [x \in Names |->
                      {m.to : m \in {y \in Members(Concrete(x)) : IsClass(Concrete(y.to))}}]
<1>1. Reachable(t) = Reach({t}, step)
  BY DEF Reachable
<1>2. /\ C \subseteq Names
      /\ \A n \in C : \A m \in Members(n) : m.to \in C
      /\ \A n \in C : Concrete(n) \in C
  BY ClosureHolds
<1>3. \A x \in C : step[x] \subseteq C
  BY <1>2
<1>4. {t} \subseteq C
  OBVIOUS
<1> HIDE DEF C, step
<1>5. Reach({t}, step) \subseteq C
  BY <1>3, <1>4, ReachLeast
<1> QED
  BY <1>1, <1>5 DEF C

-----------------------------------------------------------------------------
\* Sequences of sequences, one after the other.
Joining(s, n, f) == f = [i \in 1..n |-> IF i = 1 THEN s[i] ELSE f[i - 1] \o s[i]]

LEMMA JoiningExists ==
    ASSUME NEW s, NEW N \in Nat
    PROVE  \E f : Joining(s, N, f)
<1> DEFINE T == {n \in Nat : \E f : Joining(s, n, f)}
<1>1. 0 \in T
  <2>1. [i \in 1..0 |-> s] = [i \in 1..0 |-> IF i = 1 THEN s[i] ELSE [j \in 1..0 |-> s][i - 1] \o s[i]]
    <3>1. 1..0 = {}
      OBVIOUS
    <3> QED
      BY <3>1
  <2>2. Joining(s, 0, [i \in 1..0 |-> s])
    BY <2>1 DEF Joining
  <2> QED
    BY <2>2
<1>2. ASSUME NEW n \in Nat, n \in T PROVE n + 1 \in T
  <2>1. PICK f : Joining(s, n, f)
    BY <1>2
  <2> DEFINE After(k, r) == IF k = 1 THEN s[k] ELSE r \o s[k]
             g == [k \in 1..(n + 1) |-> IF k <= n THEN f[k] ELSE After(k, f[n])]
             h == [k \in 1..(n + 1) |-> After(k, g[k - 1])]
  <2>2. \A k \in 1..n : f[k] = After(k, f[k - 1])
    BY <2>1 DEF Joining
  <2>6. \A x, y : After(1, x) = After(1, y)
    OBVIOUS
  <2> HIDE DEF After
  <2>3. ASSUME NEW k \in 1..(n + 1) PROVE g[k] = h[k]
    <3>1. CASE k = 1 /\ k <= n
      <4>1. f[k] = After(1, f[k - 1])
        BY <2>2, <3>1
      <4>2. After(1, f[k - 1]) = After(1, g[k - 1])
        BY <2>6
      <4> QED
        BY <3>1, <4>1, <4>2
    <3>2. CASE k = 1 /\ k = n + 1
      <4>1. After(1, f[n]) = After(1, g[k - 1])
        BY <2>6
      <4> QED
        BY <3>2, <4>1
    <3>3. CASE k # 1 /\ k <= n
      <4>1. k - 1 \in 1..(n + 1) /\ k - 1 <= n
        BY <3>3
      <4>2. g[k - 1] = f[k - 1]
        BY <4>1
      <4> QED
        BY <2>2, <3>3, <4>2
    <3>4. CASE k # 1 /\ k = n + 1
      <4>1. k - 1 = n /\ n \in 1..(n + 1) /\ n <= n
        BY <3>4
      <4>2. g[n] = f[n]
        BY <4>1
      <4> QED
        BY <3>4, <4>1, <4>2
    <3> QED
      BY <3>1, <3>2, <3>3, <3>4
  <2>4. g = h
    BY <2>3
  <2> HIDE DEF g
  <2>5. Joining(s, n + 1, g)
    BY <2>4 DEF Joining, After
  <2> QED
    BY <2>5
<1> HIDE DEF T
<1>3. N \in T
  BY <1>1, <1>2, Counting
<1> QED
  BY <1>3 DEF T

LEMMA ConcatRange ==
    ASSUME NEW S, NEW s \in Seq(S), NEW t \in Seq(S)
    PROVE  Range(s \o t) = Range(s) \cup Range(t)
<1>1. /\ s \o t \in Seq(S) /\ Len(s \o t) = Len(s) + Len(t)
      /\ \A i \in 1..(Len(s) + Len(t)) :
            (s \o t)[i] = IF i <= Len(s) THEN s[i] ELSE t[i - Len(s)]
  BY ConcatProperties
<1>2. Len(s) \in Nat /\ Len(t) \in Nat
  BY LenProperties
<1>3. /\ Range(s) = {s[i] : i \in 1..Len(s)} /\ Range(t) = {t[i] : i \in 1..Len(t)}
      /\ Range(s \o t) = {(s \o t)[i] : i \in 1..(Len(s) + Len(t))}
  BY <1>1, LenProperties DEF Range
<1>4. ASSUME NEW x \in Range(s \o t) PROVE x \in Range(s) \cup Range(t)
  <2>1. PICK i \in 1..(Len(s) + Len(t)) : x = (s \o t)[i]
    BY <1>3
  <2>2. i <= Len(s) \/ i - Len(s) \in 1..Len(t)
    BY <1>2
  <2>3. i <= Len(s) => i \in 1..Len(s)
    BY <1>2
  <2> QED
    BY <1>1, <1>3, <2>1, <2>2, <2>3
<1>5. ASSUME NEW x \in Range(s) PROVE x \in Range(s \o t)
  <2>1. PICK i \in 1..Len(s) : x = s[i]
    BY <1>3
  <2>2. i \in 1..(Len(s) + Len(t)) /\ i <= Len(s)
    BY <1>2
  <2>3. x = (s \o t)[i]
    BY <1>1, <2>1, <2>2
  <2> QED
    BY <1>3, <2>2, <2>3
<1>6. ASSUME NEW x \in Range(t) PROVE x \in Range(s \o t)
  <2>1. PICK i \in 1..Len(t) : x = t[i]
    BY <1>3
  <2> DEFINE k == i + Len(s)
  <2>2. k \in 1..(Len(s) + Len(t)) /\ ~(k <= Len(s)) /\ k - Len(s) = i
    BY <1>2
  <2> HIDE DEF k
  <2>3. x = (s \o t)[k]
    BY <1>1, <2>1, <2>2
  <2> QED
    BY <1>3, <2>2, <2>3
<1> QED
  BY <1>4, <1>5, <1>6

LEMMA FlattenWithin ==
    ASSUME NEW S, NEW n \in Nat, NEW s \in [1..n -> Seq(S)]
    PROVE  /\ FlattenSeq(s) \in Seq(S)
           /\ \A i \in 1..n : Range(s[i]) \subseteq Range(FlattenSeq(s))
<1>1. s \in Seq(Seq(S)) /\ Len(s) = n
  OBVIOUS
<1>2. CASE n = 0
  <2>1. s = <<>>
    BY <1>1, <1>2
  <2>2. FlattenSeq(s) = s
    BY <1>1, <1>2 DEF FlattenSeq
  <2>3. 1..n = {}
    BY <1>2
  <2>4. <<>> \in Seq(S)
    BY EmptySeq
  <2> QED
    BY <2>1, <2>2, <2>3, <2>4
<1>3. CASE n # 0
  <2> DEFINE F == CHOOSE f : Joining(s, n, f)
  <2>1. Joining(s, n, F)
    BY JoiningExists
  <2>2. FlattenSeq(s) = F[n]
    BY <1>1, <1>3 DEF FlattenSeq, Joining
  <2> HIDE DEF F
  <2>3. \A i \in 1..n : F[i] = IF i = 1 THEN s[i] ELSE F[i - 1] \o s[i]
    BY <2>1 DEF Joining
  <2> DEFINE Joined(k) == /\ F[k] \in Seq(S)
                          /\ \A i \in 1..k : Range(s[i]) \subseteq Range(F[k])
             K == {k \in Nat : k \in 1..n => Joined(k)}
  <2>4. 0 \in K
    OBVIOUS
  <2>5. ASSUME NEW k \in Nat, k \in K PROVE k + 1 \in K
    <3> SUFFICES ASSUME k + 1 \in 1..n PROVE Joined(k + 1)
      OBVIOUS
    <3>1. s[k + 1] \in Seq(S)
      OBVIOUS
    <3>2. CASE k = 0
      <4>1. k + 1 = 1
        BY <3>2
      <4>2. F[k + 1] = s[k + 1]
        BY <2>3, <4>1
      <4>3. \A i \in 1..(k + 1) : i = k + 1
        BY <3>2
      <4> QED
        BY <3>1, <4>2, <4>3
    <3>3. CASE k # 0
      <4>1. k \in 1..n /\ k + 1 # 1 /\ (k + 1) - 1 = k
        BY <3>3
      <4>2. Joined(k)
        BY <2>5, <4>1
      <4>3. F[k + 1] = F[k] \o s[k + 1]
        BY <2>3, <4>1
      <4>4. F[k + 1] \in Seq(S)
        BY <3>1, <4>2, <4>3, ConcatProperties
      <4>5. Range(F[k + 1]) = Range(F[k]) \cup Range(s[k + 1])
        BY <3>1, <4>2, <4>3, ConcatRange
      <4>6. \A i \in 1..(k + 1) : i = k + 1 \/ i \in 1..k
        OBVIOUS
      <4> QED
        BY <4>2, <4>4, <4>5, <4>6
    <3> QED
      BY <3>2, <3>3
  <2> HIDE DEF K
  <2>6. n \in K
    BY <2>4, <2>5, Counting
  <2>7. n \in 1..n
    BY <1>3
  <2> QED
    BY <2>2, <2>6, <2>7 DEF K
<1> QED
  BY <1>2, <1>3

\* What is in one of the sequences, and nothing else.
LEMMA FlattenRange ==
    ASSUME NEW S, NEW n \in Nat, NEW s \in [1..n -> Seq(S)]
    PROVE  \A x : x \in Range(FlattenSeq(s)) <=> \E i \in 1..n : x \in Range(s[i])
<1> DEFINE T == {x \in S : \E i \in 1..n : x \in Range(s[i])}
<1>1. ASSUME NEW i \in 1..n PROVE s[i] \in Seq(T)
  <2>1. s[i] \in Seq(S)
    OBVIOUS
  <2>2. \A k \in 1..Len(s[i]) : s[i][k] \in T
    BY <2>1, ElementOfSeq DEF Range
  <2>3. s[i] \in [1..Len(s[i]) -> T] /\ Len(s[i]) \in Nat
    BY <2>1, <2>2, LenProperties
  <2> HIDE DEF T
  <2> QED
    BY <2>3
<1> HIDE DEF T
<1>2. s \in [1..n -> Seq(T)]
  BY <1>1
<1>3. FlattenSeq(s) \in Seq(T)
  BY <1>2, FlattenWithin
<1>4. Range(FlattenSeq(s)) \subseteq T
  BY <1>3, LenProperties, ElementOfSeq DEF Range
<1>5. \A i \in 1..n : Range(s[i]) \subseteq Range(FlattenSeq(s))
  BY FlattenWithin
<1> QED
  BY <1>4, <1>5 DEF T

-----------------------------------------------------------------------------
\* The headers of the types of a closure and of their wrappers, and what the
\* files say that mention no other header.
HeadersOf(u) == {f \in Closure({u}) \X Nat :
                    f[2] # 0 => IsClass(f[1]) /\ f[2] \in 1..Len(schema[f[1]].members)}
Said(u) == ({"include", "nested"} \X HeadersOf(u))
             \cup ({"declare", "using", "class", "source", "wrapper"} \X (Names \cup (Names \X Nat)))

LEMMA ShortSeqs ==
    ASSUME NEW S
    PROVE  /\ <<>> \in Seq(S)
           /\ \A x \in S : <<x>> \in Seq(S)
           /\ \A x, y \in S : <<x, y>> \in Seq(S)
  OBVIOUS

LEMMA NamesSaid ==
    ASSUME schema \in Schemas, NEW u \in Names, NEW n \in Names
    PROVE  /\ \A w \in {"declare", "using", "class", "source", "wrapper"} : <<w, n>> \in Said(u)
           /\ \A i \in Nat : <<"wrapper", <<n, i>>>> \in Said(u)
  BY DEF Said

LEMMA HeaderSaid ==
    ASSUME schema \in Schemas, NEW u \in Names, NEW n \in Closure({u})
    PROVE  Header(n) \in HeadersOf(u) /\ Include(Header(n)) \in Said(u)
<1>1. Header(n) \in HeadersOf(u)
  BY DEF Header, HeadersOf
<1> QED
  BY <1>1 DEF Include, Said

\* The member i of a class, and the headers its mention takes.
LEMMA MemberSaid ==
    ASSUME schema \in Schemas, NEW u \in Names, NEW n \in Closure({u}), IsClass(n),
           NEW i \in 1..Len(schema[n].members)
    PROVE  /\ Numbered(n)[i] \in Members(n) /\ Numbered(n)[i] \in MemberOf
           /\ Numbered(n)[i].to \in Closure({u})
           /\ Include(<<n, i>>) \in Said(u)
           /\ Include(Header(Numbered(n)[i].to)) \in Said(u)
           /\ <<"declare", Numbered(n)[i].to>> \in Said(u)
<1>1. n \in Names /\ Closure({u}) \subseteq Names
  BY ClosureHolds
<1>2. schema[n].members \in Seq(MemberOf) /\ Members(n) = Range(schema[n].members)
  BY <1>1, Typed
<1>3. Numbered(n) = schema[n].members
  BY DEF Numbered
<1>4. Numbered(n)[i] \in Members(n) /\ Numbered(n)[i] \in MemberOf
  BY <1>2, <1>3 DEF Range
<1>5. Numbered(n)[i].to \in Closure({u})
  BY <1>4, ClosureHolds
<1>6. Include(<<n, i>>) \in Said(u)
  <2>1. <<n, i>> \in HeadersOf(u)
    BY DEF HeadersOf
  <2> QED
    BY <2>1 DEF Include, Said
<1> QED
  BY <1>1, <1>4, <1>5, <1>6, HeaderSaid, NamesSaid

LEMMA IncludeAllSaid ==
    ASSUME schema \in Schemas, NEW u \in Names, NEW S, S \subseteq Closure({u})
    PROVE  IncludeAll(S) \in Seq(Said(u))
<1>1. IsFiniteSet(S)
  <2>1. S \in SUBSET Names
    BY ClosureHolds
  <2> QED
    BY <2>1, FiniteNames, FS_Subset
<1>2. Cardinality(S) \in Nat /\ ExistsBijection(1..Cardinality(S), S)
  BY <1>1, FS_CardinalityType
<1> DEFINE n == Cardinality(S)
           f == SetToSeq(S)
<1>3. f \in [1..n -> S]
  <2>1. \E g \in [1..n -> S] : IsInjective(g)
    BY <1>2 DEF ExistsBijection, Bijection, Injection, IsInjective
  <2> QED
    BY <2>1 DEF SetToSeq
<1>4. IncludeAll(S) = [i \in 1..n |-> Include(Header(f[i]))]
  BY DEF IncludeAll
<1> HIDE DEF n, f
<1>5. \A i \in 1..n : Include(Header(f[i])) \in Said(u)
  BY <1>3, HeaderSaid
<1>6. n \in Nat
  BY <1>2 DEF n
<1> QED
  BY <1>4, <1>5, <1>6

\* Headers of classes.
LEMMA BeforeSaid ==
    ASSUME schema \in Schemas, NEW u \in Names, NEW n \in Closure({u}), IsClass(n),
           NEW i \in 1..Len(schema[n].members)
    PROVE  /\ BeforeRecord(n, i) \in Seq(Said(u)) /\ AfterRecord(n, i) \in Seq(Said(u))
           /\ BeforeChoice(n, i) \in Seq(Said(u)) /\ AfterChoice(n, i) \in Seq(Said(u))
<1> DEFINE I == Said(u)
           m == Numbered(n)[i]
           own == Include(<<n, i>>)
           its == Include(Header(m.to))
           decl == <<"declare", m.to>>
<1>1. own \in I /\ its \in I /\ decl \in I
  BY MemberSaid
<1>2. /\ <<>> \in Seq(I) /\ <<own>> \in Seq(I) /\ <<its>> \in Seq(I) /\ <<decl>> \in Seq(I)
      /\ <<own, its>> \in Seq(I)
  BY <1>1, ShortSeqs
<1>3. \A s, t \in Seq(I) : s \o t \in Seq(I)
  BY ConcatProperties
<1>4. /\ BeforeRecord(n, i) \in {<<>>, <<own, its>>, <<decl>>, <<its>>}
      /\ AfterRecord(n, i) \in {<<>>, <<own>>}
  BY DEF BeforeRecord, AfterRecord
<1>5. BeforeChoice(n, i) \in {<<>>, <<its>>, <<decl>>, <<>> \o <<>>, <<>> \o <<its>>,
                              <<own>> \o <<>>, <<own>> \o <<its>>}
  BY DEF BeforeChoice
<1>6. AfterChoice(n, i) \in {<<>>, <<own>>, <<its>>}
  BY DEF AfterChoice
<1> HIDE DEF own, its, decl, I
<1> QED
  BY <1>2, <1>3, <1>4, <1>5, <1>6 DEF I

LEMMA SortedSaid ==
    ASSUME NEW I, NEW items \in Seq(I)
    PROVE  Sorted(items) \in Seq(I)
<1>1. ASSUME NEW kinds PROVE Kept(items, kinds) \in Seq(I)
  <2> DEFINE n == Len(items)
             s == [i \in 1..n |-> IF items[i][1] \in kinds THEN <<items[i]>> ELSE <<>>]
  <2>1. n \in Nat /\ \A i \in 1..n : items[i] \in I
    BY LenProperties, ElementOfSeq
  <2>2. \A i \in 1..n : <<items[i]>> \in Seq(I) /\ <<>> \in Seq(I)
    BY <2>1, ShortSeqs
  <2>3. s \in [1..n -> Seq(I)]
    BY <2>2
  <2>4. Kept(items, kinds) = FlattenSeq(s)
    BY DEF Kept
  <2> HIDE DEF n, s
  <2> QED
    BY <2>1, <2>3, <2>4, FlattenWithin
<1> QED
  BY <1>1, ConcatProperties DEF Sorted

LEMMA DefinitionIncludesSaid ==
    ASSUME schema \in Schemas, NEW u \in Names, NEW n \in Closure({u})
    PROVE  DefinitionIncludes(n) \in Seq(Said(u))
<1> DEFINE C == Closure({u})
<1>1. \A m \in Members(n) : m.to \in C
  BY ClosureHolds
<1>2. OptionalIncludes(n) \subseteq C
  BY <1>1 DEF OptionalIncludes
<1>3. \A m \in Members(n) : ExtraIncludes(m.to, n) \subseteq C
  BY <1>1, ReachableWithin DEF ExtraIncludes
<1> HIDE DEF C
<1>4. CyclicElementIncludes(n) \subseteq C
  BY <1>3 DEF CyclicElementIncludes
<1>5. OptionalIncludes(n) \cup CyclicElementIncludes(n) \subseteq C
  BY <1>2, <1>4
<1>6. IncludeAll(OptionalIncludes(n) \cup CyclicElementIncludes(n)) \in Seq(Said(u))
  BY <1>5, IncludeAllSaid DEF C
<1> QED
  BY <1>6, ShortSeqs DEF DefinitionIncludes

LEMMA ClassHeaderSaid ==
    ASSUME schema \in Schemas, NEW u \in Names, NEW n \in Closure({u}), IsClass(n)
    PROVE  ClassHeader(n) \in Seq(Said(u))
<1> DEFINE I == Said(u)
           l == Len(Numbered(n))
           b == [i \in 1..l |-> IF Record(n) THEN BeforeRecord(n, i) ELSE BeforeChoice(n, i)]
           a == [i \in 1..l |-> IF Record(n) THEN AfterRecord(n, i) ELSE AfterChoice(n, i)]
           before == FlattenSeq(b)
           after == FlattenSeq(a)
           class == <<<<"class", n>>>>
<1>1. n \in Names
  BY ClosureHolds
<1>2. Numbered(n) = schema[n].members /\ schema[n].members \in Seq(MemberOf)
  BY <1>1, Typed DEF Numbered
<1>3. l \in Nat
  BY <1>2
<1>4. \A i \in 1..l : /\ BeforeRecord(n, i) \in Seq(I) /\ AfterRecord(n, i) \in Seq(I)
                      /\ BeforeChoice(n, i) \in Seq(I) /\ AfterChoice(n, i) \in Seq(I)
  BY <1>2, BeforeSaid
<1>5. ClassHeader(n) = (IF prefixed THEN Sorted(before \o DefinitionIncludes(n)) ELSE before)
                         \o class \o after
  BY DEF ClassHeader
<1>6. DefinitionIncludes(n) \in Seq(I)
  BY DefinitionIncludesSaid
<1>7. class \in Seq(I)
  <2>1. <<"class", n>> \in I
    BY <1>1, NamesSaid
  <2> HIDE DEF I
  <2> QED
    BY <2>1, ShortSeqs
<1> HIDE DEF I, l
<1>8. b \in [1..l -> Seq(I)] /\ a \in [1..l -> Seq(I)]
  BY <1>4
<1> HIDE DEF a, b
<1>9. before \in Seq(I) /\ after \in Seq(I)
  BY <1>3, <1>8, FlattenWithin
<1> HIDE DEF before, after, class
<1>10. before \o DefinitionIncludes(n) \in Seq(I)
  BY <1>6, <1>9, ConcatProperties
<1>11. Sorted(before \o DefinitionIncludes(n)) \in Seq(I)
  BY <1>10, SortedSaid
<1>12. (IF prefixed THEN Sorted(before \o DefinitionIncludes(n)) ELSE before) \in Seq(I)
  BY <1>9, <1>11
<1>13. (IF prefixed THEN Sorted(before \o DefinitionIncludes(n)) ELSE before) \o class \in Seq(I)
  BY <1>7, <1>12, ConcatProperties
<1> QED
  BY <1>5, <1>9, <1>13, ConcatProperties DEF I

\* Every header of a closure mentions headers of the closure only, and so does
\* the source file of its root.
LEMMA ContentsSaid ==
    ASSUME schema \in Schemas, NEW u \in Names, NEW f \in HeadersOf(u)
    PROVE  Contents(f) \in Seq(Said(u))
<1> DEFINE n == f[1]
<1>1. /\ n \in Closure({u}) /\ n \in Names /\ f[2] \in Nat
      /\ f[2] # 0 => IsClass(n) /\ f[2] \in 1..Len(schema[n].members)
  BY ClosureHolds DEF HeadersOf
<1>2. CASE f[2] # 0
  <2> DEFINE its == Include(Header(schema[n].members[f[2]].to))
             wrapper == <<"wrapper", f>>
  <2>1. Contents(f) = <<its, wrapper>>
    BY <1>2 DEF Contents
  <2>2. its \in Said(u)
    <3>1. Numbered(n) = schema[n].members
      BY <1>1, <1>2 DEF Numbered
    <3> QED
      BY <1>1, <1>2, <3>1, MemberSaid
  <2>3. wrapper \in Said(u)
    <3>1. f \in Names \X Nat
      BY <1>1 DEF HeadersOf
    <3> QED
      BY <3>1 DEF Said
  <2> HIDE DEF its, wrapper
  <2> QED
    BY <2>1, <2>2, <2>3, ShortSeqs
<1>3. CASE f[2] = 0 /\ IsClass(n)
  <2>1. Contents(f) = ClassHeader(n)
    BY <1>3 DEF Contents, IsClass
  <2> QED
    BY <1>1, <1>3, <2>1, ClassHeaderSaid
<1>4. CASE f[2] = 0 /\ schema[n].kind \in {"alias", "list"}
  <2> DEFINE to == schema[n].to
             its == Include(Header(to))
             decl == <<"declare", to>>
             using == <<"using", n>>
  <2>1. its \in Said(u) /\ decl \in Said(u) /\ using \in Said(u)
    <3>1. to \in Closure({u}) /\ to \in Names
      BY <1>1, <1>4, ClosureHolds
    <3> QED
      BY <1>1, <3>1, HeaderSaid, NamesSaid
  <2>2. Contents(f) \in {<<its, using>>, <<decl, using>>}
    BY <1>4 DEF Contents, AliasHeader, IsClass
  <2> HIDE DEF its, decl, using
  <2> QED
    BY <2>1, <2>2, ShortSeqs
<1>5. CASE f[2] = 0 /\ schema[n].kind = "leaf"
  <2> DEFINE class == <<"class", n>>
  <2>1. Contents(f) = <<class>>
    BY <1>5 DEF Contents, IsClass
  <2>2. class \in Said(u)
    BY <1>1, NamesSaid
  <2> HIDE DEF class
  <2> QED
    BY <2>1, <2>2, ShortSeqs
<1>6. IsClass(n) \/ schema[n].kind \in {"alias", "list"} \/ schema[n].kind = "leaf"
  BY <1>1, Typed
<1> QED
  BY <1>2, <1>3, <1>4, <1>5, <1>6

LEMMA SourceSaid ==
    ASSUME schema \in Schemas, NEW u \in Names
    PROVE  Source(u) \in Seq(Said(u))
<1> DEFINE I == Said(u)
           extra == IncludeAll(ExtraIncludes(schema[u].to, u) \ {schema[u].to})
           nested == [i \in DOMAIN extra |-> <<"nested", extra[i][2]>>]
           includes == CASE IsClass(u) /\ ~ prefixed -> DefinitionIncludes(u)
                         [] schema[u].kind = "list" /\ ~ prefixed -> extra
                         [] schema[u].kind = "list" /\ prefixed -> nested
                         [] OTHER -> <<>>
<1>1. u \in Closure({u})
  BY ClosureHolds
<1>2. Source(u) = <<Include(Header(u))>> \o includes \o <<<<"source", u>>>>
  BY DEF Source
<1>3. <<>> \in Seq(I) /\ DefinitionIncludes(u) \in Seq(I)
  BY <1>1, DefinitionIncludesSaid, ShortSeqs
<1>4. ASSUME schema[u].kind = "list" PROVE extra \in Seq(I) /\ nested \in Seq(I)
  <2> DEFINE S == ExtraIncludes(schema[u].to, u) \ {schema[u].to}
             n == Cardinality(S)
  <2>1. S \subseteq Closure({u})
    <3>1. schema[u].to \in Closure({u})
      BY <1>1, <1>4, ClosureHolds
    <3>2. Reachable(schema[u].to) \subseteq Closure({u})
      BY <3>1, ReachableWithin
    <3> QED
      BY <3>2 DEF ExtraIncludes
  <2>2. extra \in Seq(I)
    BY <2>1, IncludeAllSaid
  <2>3. extra = [i \in 1..n |-> Include(Header(SetToSeq(S)[i]))]
    BY DEF IncludeAll
  <2> HIDE DEF extra
  <2>4. DOMAIN extra = 1..Len(extra) /\ Len(extra) \in Nat
    BY <2>2, LenProperties
  <2>5. ASSUME NEW i \in 1..Len(extra) PROVE <<"nested", extra[i][2]>> \in I
    <3>1. extra[i] \in I
      BY <2>2, ElementOfSeq
    <3>2. extra[i][1] = "include"
      BY <2>3, <2>4 DEF Include
    <3>3. extra[i][2] \in HeadersOf(u)
      BY <3>1, <3>2 DEF Said
    <3> QED
      BY <3>3 DEF Said
  <2> HIDE DEF I
  <2>6. nested \in Seq(I)
    BY <2>4, <2>5
  <2> QED
    BY <2>2, <2>6
<1>5. Include(Header(u)) \in I
  BY <1>1, HeaderSaid
<1>6. <<"source", u>> \in I
  BY NamesSaid
<1> HIDE DEF I, extra, nested
<1>7. includes \in Seq(I)
  BY <1>3, <1>4
<1> HIDE DEF includes
<1>8. <<Include(Header(u))>> \in Seq(I) /\ <<<<"source", u>>>> \in Seq(I)
  BY <1>5, <1>6, ShortSeqs
<1>9. <<Include(Header(u))>> \o includes \in Seq(I)
  BY <1>7, <1>8, ConcatProperties
<1> QED
  BY <1>2, <1>8, <1>9, ConcatProperties DEF I

-----------------------------------------------------------------------------
\* What is left to read mentions headers of the closure only.
ReadInv == /\ schema \in Schemas /\ unit \in Names
           /\ todo \in Seq(Said(unit))
           /\ opened \subseteq HeadersOf(unit)

LEMMA ReadStart == Begin => ReadInv
<1> SUFFICES ASSUME Begin PROVE ReadInv
  OBVIOUS
<1>1. schema \in Schemas /\ unit \in Names /\ todo = Source(unit) /\ opened = {}
  BY DEF Begin
<1> QED
  BY <1>1, SourceSaid DEF ReadInv

LEMMA ReadStep == ReadInv /\ [Read]_reader => ReadInv'
<1> SUFFICES ASSUME ReadInv, [Read]_reader PROVE ReadInv'
  OBVIOUS
<1>1. schema' = schema /\ unit' = unit
  BY DEF Read, reader, Open, Skip, Declare, Define, Use, Fixed
<1>2. HeadersOf(unit)' = HeadersOf(unit)
  BY <1>1 DEF HeadersOf, Closure, Reach, TypeRefs, Members, IsClass
<1>3. Said(unit)' = Said(unit)
  BY <1>2 DEF Said
<1>4. /\ schema \in Schemas /\ unit \in Names
      /\ todo \in Seq(Said(unit)) /\ opened \subseteq HeadersOf(unit)
  BY DEF ReadInv
<1>5. todo # <<>> => Tail(todo) \in Seq(Said(unit)) /\ Head(todo) \in Said(unit)
  BY <1>4, HeadTailProperties
<1>6. todo' \in Seq(Said(unit)) /\ opened' \subseteq HeadersOf(unit)
  <2>1. CASE Open
    <3> DEFINE f == Head(todo)[2]
    <3>1. f \in HeadersOf(unit)
      <4>1. todo # <<>> /\ Head(todo)[1] \in {"include", "nested"}
        BY <2>1 DEF Open, Reading
      <4>2. Head(todo) \in Said(unit)
        BY <1>5, <4>1
      <4> QED
        BY <4>1, <4>2 DEF Said
    <3>2. Contents(f) \in Seq(Said(unit)) /\ Tail(todo) \in Seq(Said(unit))
      <4>1. todo # <<>>
        BY <2>1 DEF Open, Reading
      <4> QED
        BY <1>4, <1>5, <3>1, <4>1, ContentsSaid
    <3>3. todo' = Contents(f) \o Tail(todo) /\ opened' = opened \cup {f}
      BY <2>1 DEF Open
    <3>4. Contents(f) \o Tail(todo) \in Seq(Said(unit))
      BY <3>2, ConcatProperties
    <3> QED
      BY <1>4, <3>1, <3>3, <3>4
  <2>2. CASE Skip \/ Declare \/ Define \/ Use
    <3>1. todo # <<>> /\ todo' = Tail(todo) /\ opened' = opened
      BY <2>2 DEF Skip, Declare, Define, Use, Reading
    <3> QED
      BY <1>4, <1>5, <3>1
  <2>3. CASE UNCHANGED reader
    BY <1>4, <2>3 DEF reader
  <2> QED
    BY <2>1, <2>2, <2>3 DEF Read
<1> QED
  BY <1>1, <1>2, <1>3, <1>4, <1>6 DEF ReadInv

\* Compiling a type of the -pdu closure opens no header outside it
\* (Generator::compute_reachable against the includes of the emitted files),
\* for any schema, with or without a namespace.
THEOREM PduClosureIsEnough == Preprocess => []ClosureIsGenerated
<1>1. ReadInv => ClosureIsGenerated
  BY DEF ReadInv, HeadersOf, ClosureIsGenerated
<1> QED
  BY <1>1, ReadStart, ReadStep, PTL DEF Preprocess

-----------------------------------------------------------------------------
\* Paths in a graph of names.
Graph == [Names -> SUBSET Names]

LEMMA ReachFrom ==
    ASSUME NEW f \in Graph, NEW a \in Names
    PROVE  /\ a \in Reach({a}, f) /\ Reach({a}, f) \subseteq Names
           /\ \A x \in Reach({a}, f) : f[x] \subseteq Reach({a}, f)
           /\ \A x \in Reach({a}, f) : Reach({x}, f) \subseteq Reach({a}, f)
           /\ \A x \in Reach({a}, f) : x = a \/ Reaches(a, x, f)
<1> DEFINE A == Reach({a}, f)
           B == {a} \cup UNION {f[x] : x \in A}
<1>1. /\ a \in A /\ A \subseteq Names
      /\ \A x \in A : f[x] \subseteq A
  <2>1. {a} \in SUBSET Names
    OBVIOUS
  <2> QED
    BY <2>1, ReachCloses DEF Graph
<1>2. Reaches(a, a, f) <=> a \in UNION {f[x] : x \in A}
  BY DEF Reaches
<1>3. \A x : Reaches(a, x, f) <=> x \in UNION {f[y] : y \in A}
  BY DEF Reaches
<1>4. {a} \subseteq B
  OBVIOUS
<1> HIDE DEF A
<1>5. \A x \in A : Reach({x}, f) \subseteq A
  <2> TAKE x \in A
  <2>1. {x} \subseteq A
    OBVIOUS
  <2> QED
    BY <1>1, <2>1, ReachLeast
<1>6. \A x \in B : f[x] \subseteq B
  <2>1. B \subseteq A
    BY <1>1
  <2> QED
    BY <2>1
<1> HIDE DEF B
<1>7. A \subseteq B
  <2>1. Reach({a}, f) \subseteq B
    BY <1>4, <1>6, ReachLeast
  <2> QED
    BY <2>1 DEF A
<1>8. \A x \in A : x = a \/ Reaches(a, x, f)
  BY <1>3, <1>7 DEF B
<1> QED
  BY <1>1, <1>5, <1>8 DEF A

\* A path goes on from where another ends, and begins with a step.
LEMMA PathsJoin ==
    ASSUME NEW f \in Graph, NEW a \in Names, NEW b \in Reach({a}, f), NEW c, Reaches(b, c, f)
    PROVE  Reaches(a, c, f)
<1>1. PICK x \in Reach({b}, f) : c \in f[x]
  BY DEF Reaches
<1>2. x \in Reach({a}, f)
  BY <1>1, ReachFrom
<1> QED
  BY <1>1, <1>2 DEF Reaches

LEMMA StepThenPath ==
    ASSUME NEW f \in Graph, NEW a \in Names, NEW b \in f[a], NEW c \in Reach({b}, f)
    PROVE  Reaches(a, c, f)
<1>1. b \in Reach({a}, f) /\ a \in Reach({a}, f) /\ b \in Names
  BY ReachFrom DEF Graph
<1>2. c = b \/ Reaches(b, c, f)
  BY <1>1, ReachFrom
<1>3. CASE c = b
  BY <1>1, <1>3 DEF Reaches
<1>4. CASE Reaches(b, c, f)
  BY <1>1, <1>4, PathsJoin
<1> QED
  BY <1>2, <1>3, <1>4

LEMMA FirstStep ==
    ASSUME NEW f \in Graph, NEW a \in Names, NEW c, Reaches(a, c, f)
    PROVE  \E b \in f[a] : c \in Reach({b}, f)
<1> DEFINE T == {a} \cup UNION {Reach({b}, f) : b \in f[a]}
<1>1. \A b \in f[a] : b \in Names
  BY DEF Graph
<1>2. \A b \in f[a] : b \in Reach({b}, f) /\ \A x \in Reach({b}, f) : f[x] \subseteq Reach({b}, f)
  BY <1>1, ReachFrom
<1>3. \A x \in T : \A y \in f[x] : \E b \in f[a] : y \in Reach({b}, f)
  BY <1>2
<1>4. \A x \in T : f[x] \subseteq T
  BY <1>3
<1>5. {a} \subseteq T
  OBVIOUS
<1> HIDE DEF T
<1>6. Reach({a}, f) \subseteq T
  BY <1>4, <1>5, ReachLeast
<1>7. PICK x \in Reach({a}, f) : c \in f[x]
  BY DEF Reaches
<1> QED
  BY <1>3, <1>6, <1>7

\* The names on a cycle through n.
OnCycle(n, f) == {x \in Reach({n}, f) : n \in Reach({x}, f)}

\* If the steps between them are steps of another graph, it joins them too.
LEMMA CycleJoined ==
    ASSUME NEW f \in Graph, NEW g \in Graph, NEW n \in Names,
           \A x, y \in OnCycle(n, f) : y \in f[x] => y \in g[x],
           NEW a \in OnCycle(n, f), NEW b \in OnCycle(n, f)
    PROVE  b \in Reach({a}, g)
<1> DEFINE C == OnCycle(n, f)
           T == {z \in Reach({n}, f) : z \in C => z \in Reach({a}, g)}
<1>1. a \in Names /\ b \in Names
  BY ReachFrom DEF OnCycle
<1>2. a \in T
  BY <1>1, ReachFrom DEF OnCycle
<1>3. ASSUME NEW z \in T, NEW w \in f[z] PROVE w \in T
  <2>1. z \in Reach({n}, f) /\ z \in Names
    BY ReachFrom
  <2>2. w \in Reach({n}, f) /\ w \in Names
    BY <2>1, ReachFrom
  <2>3. ASSUME w \in C PROVE w \in Reach({a}, g)
    <3>1. n \in Reach({w}, f)
      BY <2>3 DEF OnCycle
    <3>2. w \in Reach({z}, f)
      BY <2>1, ReachFrom
    <3>3. n \in Reach({z}, f)
      BY <2>1, <3>1, <3>2, ReachFrom
    <3>4. z \in C
      BY <2>1, <3>3 DEF OnCycle
    <3>5. z \in Reach({a}, g) /\ w \in g[z]
      BY <2>3, <3>4
    <3> QED
      BY <1>1, <3>5, ReachFrom
  <2> QED
    BY <2>2, <2>3
<1>4. b \in Reach({a}, f)
  <2>1. n \in Reach({a}, f) /\ b \in Reach({n}, f)
    BY DEF OnCycle
  <2> QED
    BY <1>1, <2>1, ReachFrom
<1>5. b \in C
  OBVIOUS
<1> HIDE DEF T
<1>6. Reach({a}, f) \subseteq T
  <2>1. {a} \subseteq T /\ \A x \in T : f[x] \subseteq T
    BY <1>2, <1>3
  <2> QED
    BY <2>1, ReachLeast
<1> QED
  BY <1>4, <1>5, <1>6 DEF T

\* Each of them has one of them after it.
LEMMA CycleGoesOn ==
    ASSUME NEW f \in Graph, NEW n \in Names, Reaches(n, n, f), NEW a \in OnCycle(n, f)
    PROVE  \E b \in OnCycle(n, f) : b \in f[a]
<1>1. a \in Names /\ a \in Reach({n}, f) /\ n \in Reach({a}, f)
  BY ReachFrom DEF OnCycle
<1>2. Reaches(a, n, f)
  <2>1. a = n \/ n # a
    OBVIOUS
  <2> QED
    BY <1>1, <2>1, ReachFrom
<1>3. PICK b \in f[a] : n \in Reach({b}, f)
  BY <1>1, <1>2, FirstStep
<1>4. b \in Reach({n}, f)
  BY <1>1, <1>3, ReachFrom
<1> QED
  BY <1>3, <1>4 DEF OnCycle

-----------------------------------------------------------------------------
\* What values have inside them.
LEMMA Graphs ==
    ASSUME schema \in Schemas
    PROVE  /\ \A n \in Names : Concrete(n) \in Names
           /\ ClassMembers \in Graph /\ HeldByValue \in Graph /\ Embeds \in Graph
           /\ Uncut \in Graph /\ CppHolds \in Graph /\ RustHolds \in Graph
<1>1. \A n \in Names : \A m \in Members(n) : m.to \in Names
  BY Typed DEF MemberOf
<1>2. \A n \in Names : schema[n].kind \in {"alias", "list"} => schema[n].to \in Names
  BY Typed
<1>3. \A n \in Names : Concrete(n) \in Names
  BY <1>2, ConcreteWithin
<1>4. ClassMembers \in Graph
  BY <1>1 DEF Graph, ClassMembers
<1>5. HeldByValue \in Graph
  BY <1>1 DEF Graph, HeldByValue
<1>6. Embeds \in Graph
  BY <1>1 DEF Graph, Embeds
<1>7. CppHolds \in Graph
  BY <1>1, <1>3 DEF Graph, CppHolds
<1>8. RustHolds \in Graph
  BY <1>1, <1>3 DEF Graph, RustHolds
<1>9. Uncut \in Graph
  <2>1. ASSUME NEW n \in Names PROVE Uncut[n] \subseteq Names
    <3>1. CASE IsClass(n)
      BY <1>1, <3>1 DEF Uncut
    <3>2. CASE ~ IsClass(n) /\ schema[n].kind \in {"alias", "list"}
      BY <1>2, <3>2 DEF Uncut
    <3>3. CASE ~ IsClass(n) /\ schema[n].kind = "leaf"
      BY <3>3 DEF Uncut
    <3> QED
      BY <3>1, <3>2, <3>3, Typed
  <2> QED
    BY <2>1 DEF Graph, Uncut
<1> QED
  BY <1>3, <1>4, <1>5, <1>6, <1>7, <1>8, <1>9

\* The types found to have a finite value: the recursion of Finite.
Finding(len, f) ==
    f = [k \in 0..len |->
            IF k = 0 THEN {}
            ELSE LET r == f[k - 1]
                 IN r \cup {n \in Names : CASE Record(n) -> \A m \in Members(n) : m.opt \/ m.many \/ m.to \in r
                                            [] schema[n].kind = "alias" -> schema[n].to \in r
                                            [] OTHER -> TRUE}]

LEMMA FindingExists ==
    ASSUME NEW N \in Nat
    PROVE  \E f : Finding(N, f)
<1> DEFINE T == {n \in Nat : \E f : Finding(n, f)}
           More(r) == r \cup {n \in Names :
                                 CASE Record(n) -> \A m \in Members(n) : m.opt \/ m.many \/ m.to \in r
                                   [] schema[n].kind = "alias" -> schema[n].to \in r
                                   [] OTHER -> TRUE}
<1>1. 0 \in T
  <2>1. Finding(0, [k \in 0..0 |-> {}])
    BY DEF Finding
  <2> QED
    BY <2>1
<1>2. ASSUME NEW n \in Nat, n \in T PROVE n + 1 \in T
  <2>1. PICK f : Finding(n, f)
    BY <1>2
  <2> DEFINE g == [k \in 0..(n + 1) |-> IF k <= n THEN f[k] ELSE More(f[n])]
             h == [k \in 0..(n + 1) |-> IF k = 0 THEN {} ELSE More(g[k - 1])]
  <2>2. \A k \in 0..n : f[k] = IF k = 0 THEN {} ELSE More(f[k - 1])
    BY <2>1 DEF Finding
  <2> HIDE DEF More
  <2>3. ASSUME NEW k \in 0..(n + 1) PROVE g[k] = h[k]
    <3>1. CASE k <= n
      BY <2>2, <3>1
    <3>2. CASE k = n + 1
      BY <3>2
    <3> QED
      BY <3>1, <3>2
  <2>4. g = h
    BY <2>3
  <2> HIDE DEF g
  <2>5. Finding(n + 1, g)
    BY <2>4 DEF Finding, More
  <2> QED
    BY <2>5
<1> HIDE DEF T
<1>3. N \in T
  BY <1>1, <1>2, Counting
<1> QED
  BY <1>3 DEF T

\* A SEQUENCE of finite values has no mandatory member of its own type.
LEMMA FiniteRecord ==
    ASSUME schema \in Schemas, Finite, NEW n \in Names, Record(n), NEW m \in Members(n),
           ~ m.opt, ~ m.many
    PROVE  m.to # n
<1> SUFFICES ASSUME m.to = n PROVE FALSE
  OBVIOUS
<1> DEFINE N == Cardinality(Names)
           R == CHOOSE f : Finding(N, f)
<1>1. N \in Nat
  BY FiniteNames
<1>2. Finding(N, R)
  <2> HIDE DEF N
  <2> QED
    BY <1>1, FindingExists
<1>3. R[N] = Names
  BY DEF Finite, Finding
<1> HIDE DEF R, N
<1> DEFINE Has(x, r) == CASE Record(x) -> \A i \in Members(x) : i.opt \/ i.many \/ i.to \in r
                          [] schema[x].kind = "alias" -> schema[x].to \in r
                          [] OTHER -> TRUE
<1>4. \A k \in 0..N : R[k] = IF k = 0 THEN {} ELSE R[k - 1] \cup {x \in Names : Has(x, R[k - 1])}
  BY <1>2 DEF Finding
<1>5. ASSUME NEW r, Has(n, r) PROVE n \in r
  <2>1. schema[n].kind # "alias"
    BY DEF Record
  <2>2. \A i \in Members(n) : i.opt \/ i.many \/ i.to \in r
    BY <1>5, <2>1
  <2> QED
    BY <2>2
<1> HIDE DEF Has
<1> DEFINE K == {k \in Nat : k <= N => n \notin R[k]}
<1>6. 0 \in K
  <2>1. 0 \in 0..N
    BY <1>1
  <2> QED
    BY <1>4, <2>1
<1>7. ASSUME NEW k \in Nat, k \in K PROVE k + 1 \in K
  <2> SUFFICES ASSUME k + 1 <= N PROVE n \notin R[k + 1]
    OBVIOUS
  <2>1. n \notin R[k]
    BY <1>1, <1>7
  <2>2. k + 1 \in 0..N /\ k + 1 # 0 /\ (k + 1) - 1 = k
    BY <1>1
  <2>3. R[k + 1] = R[k] \cup {x \in Names : Has(x, R[k])}
    BY <1>4, <2>2
  <2> QED
    BY <1>5, <2>1, <2>3
<1> HIDE DEF K
<1>8. N \in K
  BY <1>1, <1>6, <1>7, Counting
<1> QED
  BY <1>1, <1>3, <1>8 DEF K

\* An alternative the CHOICE is inside of is held behind a pointer.
LEMMA InsideIsBoxed ==
    ASSUME schema \in Schemas, NEW n \in Names, IsClass(n), ~ Record(n), NEW m \in Members(n),
           n \in Reach({m.to}, Embeds)
    PROVE  Boxed(n, m)
<1> DEFINE a == m.to
           T == Reach({a}, HeldByValue) \cup {x \in Names : ~ IsClass(x)}
<1>1. a \in Names
  BY Typed DEF MemberOf
<1>2. /\ a \in Reach({a}, HeldByValue)
      /\ \A x \in Reach({a}, HeldByValue) : /\ HeldByValue[x] \subseteq Reach({a}, HeldByValue)
                                            /\ x \in Names
                                            /\ x = a \/ Reaches(a, x, HeldByValue)
  BY <1>1, Graphs, ReachFrom
<1>3. ASSUME NEW x \in T, NEW y \in Embeds[x] PROVE y \in T
  <2>1. x \in Names
    BY <1>2
  <2>2. PICK i \in Members(x) : y = i.to /\ ~ i.many /\ ~ (Record(x) /\ i.opt)
    BY <2>1 DEF Embeds
  <2>3. IsClass(x) /\ y \in Names
    BY <2>1, <2>2, Typed DEF MemberOf
  <2>4. x \in Reach({a}, HeldByValue)
    BY <2>3
  <2>5. CASE IsClass(y) /\ ~ (~ Record(x) /\ y = x)
    <3>1. y \in HeldByValue[x]
      BY <2>1, <2>2, <2>5 DEF HeldByValue
    <3> QED
      BY <1>2, <2>4, <3>1
  <2>6. CASE y = x
    BY <2>6
  <2>7. CASE ~ IsClass(y)
    BY <2>3, <2>7
  <2> QED
    BY <2>5, <2>6, <2>7
<1>4. Reach({a}, Embeds) \subseteq T
  <2>1. {a} \subseteq T /\ \A x \in T : Embeds[x] \subseteq T
    BY <1>2, <1>3
  <2> HIDE DEF T
  <2> QED
    BY <2>1, ReachLeast
<1>5. n \in Reach({a}, HeldByValue)
  BY <1>4
<1>6. n = a \/ Reaches(a, n, HeldByValue)
  BY <1>2, <1>5
<1>7. IsClass(a)
  <2> SUFFICES ASSUME ~ IsClass(a) PROVE n = a
    OBVIOUS
  <2>1. Members(a) = {}
    BY <1>1, Typed
  <2>2. Embeds[a] = {}
    BY <1>1, <2>1 DEF Embeds
  <2>3. {a} \subseteq {a} /\ \A x \in {a} : Embeds[x] \subseteq {a}
    BY <2>2
  <2>4. Reach({a}, Embeds) \subseteq {a}
    BY <2>3, ReachLeast
  <2> QED
    BY <2>4
<1> QED
  BY <1>6, <1>7 DEF Boxed, AlternativeInCycle

\* In C++ what a class has inside is reached without passing a cut.
LEMMA CppStep ==
    ASSUME schema \in Schemas, Regular, NEW n \in Names, NEW c \in CppHolds[n]
    PROVE  Reaches(n, c, Uncut)
<1>1. PICK m \in Members(n) : /\ c = Concrete(m.to) /\ ~ m.many
                              /\ ~ (Record(n) /\ m.opt) /\ ~ Boxed(n, m)
  BY DEF CppHolds
<1>2. IsClass(n) /\ m.to \in Names
  BY Typed DEF MemberOf
<1>3. ~ Cut(n, m)
  <2>1. CASE m.to = n
    <3>1. CASE Record(n)
      <4>1. Finite
        BY DEF Regular
      <4> QED
        BY <1>1, <2>1, <3>1, <4>1, FiniteRecord
    <3>2. CASE ~ Record(n)
      BY <1>1, <1>2, <2>1, <3>2 DEF Boxed, AlternativeInCycle
    <3> QED
      BY <3>1, <3>2
  <2>2. CASE ~ Record(n) /\ n \in Reach({m.to}, Embeds)
    BY <1>1, <1>2, <2>2, InsideIsBoxed
  <2> QED
    BY <1>1, <2>1, <2>2 DEF Cut
<1>4. m.to \in Uncut[n]
  BY <1>2, <1>3 DEF Uncut
<1>5. c \in Reach({m.to}, Uncut)
  <2> DEFINE step == [x \in Names |-> IF schema[x].kind = "alias" THEN {schema[x].to} ELSE {}]
             T == Chain(m.to) \cap Reach({m.to}, Uncut)
  <2>1. \A x \in Names : schema[x].kind = "alias" => schema[x].to \in Names /\ ~ IsClass(x)
    BY Typed
  <2>2. step \in Graph
    BY <2>1 DEF Graph
  <2>3. Chain(m.to) = Reach({m.to}, step)
    BY DEF Chain
  <2>4. \A x \in Names : schema[x].kind = "alias" => step[x] = {schema[x].to}
    OBVIOUS
  <2>5. \A x \in Chain(m.to) : ~ CyclicAlias(x)
    BY <1>1 DEF Regular
  <2> HIDE DEF step
  <2>6. /\ m.to \in Chain(m.to) /\ Chain(m.to) \subseteq Names
        /\ \A x \in Chain(m.to) : step[x] \subseteq Chain(m.to)
    BY <1>2, <2>2, <2>3, ReachFrom
  <2>7. /\ m.to \in Reach({m.to}, Uncut)
        /\ \A x \in Reach({m.to}, Uncut) : Uncut[x] \subseteq Reach({m.to}, Uncut)
    BY <1>2, Graphs, ReachFrom
  <2>8. ASSUME NEW x \in T, schema[x].kind = "alias" PROVE schema[x].to \in T
    <3>1. x \in Names /\ ~ IsClass(x) /\ ~ CyclicAlias(x)
      BY <2>1, <2>5, <2>6, <2>8
    <3>2. Uncut[x] = {schema[x].to}
      BY <2>8, <3>1 DEF Uncut
    <3> QED
      BY <2>4, <2>6, <2>7, <2>8, <3>1, <3>2
  <2>9. m.to \in T
    BY <2>6, <2>7
  <2> HIDE DEF T
  <2>10. Concrete(m.to) \in T
    BY <2>8, <2>9, ConcreteWithin
  <2> QED
    BY <1>1, <2>10 DEF T
<1> QED
  BY <1>4, <1>5, Graphs, StepThenPath

LEMMA CppFinite ==
    ASSUME schema \in Schemas, Regular, NEW n \in Names
    PROVE  ~ Reaches(n, n, CppHolds)
<1> SUFFICES ASSUME Reaches(n, n, CppHolds) PROVE FALSE
  OBVIOUS
<1>1. Uncut \in Graph /\ CppHolds \in Graph
  BY Graphs
<1>2. ASSUME NEW x \in Reach({n}, Uncut), NEW y, Reaches(x, y, Uncut)
      PROVE  Reaches(n, y, Uncut) /\ y \in Reach({n}, Uncut)
  <2>1. Reaches(n, y, Uncut)
    BY <1>1, <1>2, PathsJoin
  <2> QED
    BY <1>1, <2>1, ReachFrom DEF Reaches
<1>3. Reach({n}, Uncut) \subseteq Names /\ n \in Reach({n}, Uncut)
  BY <1>1, ReachFrom
<1>4. \A x \in Reach({n}, Uncut) : \A y \in CppHolds[x] : Reaches(x, y, Uncut)
  BY <1>3, CppStep
<1>5. {n} \subseteq Reach({n}, Uncut)
      /\ \A x \in Reach({n}, Uncut) : CppHolds[x] \subseteq Reach({n}, Uncut)
  BY <1>2, <1>3, <1>4
<1>6. Reach({n}, CppHolds) \subseteq Reach({n}, Uncut)
  BY <1>5, ReachLeast
<1>7. PICK x \in Reach({n}, CppHolds) : n \in CppHolds[x]
  BY DEF Reaches
<1>8. Reaches(n, n, Uncut)
  BY <1>2, <1>4, <1>6, <1>7
<1> QED
  BY <1>8 DEF Regular

\* In Rust: what a class has inside is a type its definition reaches, and on a
\* cycle it is a member of class type, under its own name.
LEMMA RustStep ==
    ASSUME schema \in Schemas, RustRegular, NEW n \in Names, Reaches(n, n, RustHolds),
           NEW x \in OnCycle(n, RustHolds), NEW y \in OnCycle(n, RustHolds), y \in RustHolds[x]
    PROVE  /\ IsClass(x)
           /\ \E m \in Members(x) : m.to = y /\ IsClass(y) /\ ~ m.many /\ ~ RustBoxed(x, m)
<1>1. RustHolds \in Graph /\ TypeRefs \in Graph
  BY Graphs, Steps DEF Graph
<1>2. ASSUME NEW z \in OnCycle(n, RustHolds) PROVE z \in Names /\ IsClass(z)
  <2>1. z \in Names
    BY <1>1, ReachFrom DEF OnCycle
  <2>2. PICK w \in RustHolds[z] : TRUE
    BY <1>1, CycleGoesOn
  <2>3. Members(z) # {}
    BY <2>1, <2>2 DEF RustHolds
  <2> QED
    BY <2>1, <2>3, Typed
<1>3. ASSUME NEW z \in Names, NEW m \in Members(z)
      PROVE  /\ m.to \in TypeRefs[z] /\ m.to \in Names
             /\ Concrete(m.to) \in Reach({m.to}, TypeRefs)
  <2>1. m.to \in TypeRefs[z] /\ m.to \in Names
    BY Steps DEF MemberOf
  <2>2. /\ m.to \in Reach({m.to}, TypeRefs) /\ Reach({m.to}, TypeRefs) \subseteq Names
        /\ \A w \in Reach({m.to}, TypeRefs) : TypeRefs[w] \subseteq Reach({m.to}, TypeRefs)
    BY <1>1, <2>1, ReachFrom
  <2>3. \A w \in Reach({m.to}, TypeRefs) :
           schema[w].kind = "alias" => schema[w].to \in Reach({m.to}, TypeRefs)
    BY <2>2, Steps
  <2> QED
    BY <2>1, <2>2, <2>3, ConcreteWithin
<1>4. ASSUME NEW z \in Names, NEW w \in RustHolds[z] PROVE w \in Reach({z}, TypeRefs)
  <2>1. PICK m \in Members(z) : w = Concrete(m.to)
    BY <1>4 DEF RustHolds
  <2>2. m.to \in TypeRefs[z] /\ w \in Reach({m.to}, TypeRefs)
    BY <1>3, <2>1
  <2>3. m.to \in Reach({z}, TypeRefs)
    BY <1>1, <2>2, ReachFrom
  <2> QED
    BY <1>1, <2>2, <2>3, ReachFrom
<1>5. \A z \in Names : Reach({z}, RustHolds) \subseteq Reach({z}, TypeRefs)
  <2> TAKE z \in Names
  <2>1. z \in Reach({z}, TypeRefs) /\ Reach({z}, TypeRefs) \subseteq Names
    BY <1>1, ReachFrom
  <2>2. \A w \in Reach({z}, TypeRefs) : RustHolds[w] \subseteq Reach({z}, TypeRefs)
    BY <1>1, <1>4, <2>1, ReachFrom
  <2>3. {z} \subseteq Reach({z}, TypeRefs)
    BY <2>1
  <2> QED
    BY <2>2, <2>3, ReachLeast
<1>6. x \in Names /\ y \in Names /\ IsClass(x) /\ IsClass(y)
  BY <1>2
<1>7. PICK m \in Members(x) : y = Concrete(m.to) /\ ~ m.many /\ ~ RustBoxed(x, m)
  BY <1>6 DEF RustHolds
<1>8. schema[m.to].kind # "alias"
  <2> SUFFICES ASSUME schema[m.to].kind = "alias" PROVE FALSE
    OBVIOUS
  <2>1. m.to \in TypeRefs[x] /\ m.to \in Names /\ y \in Reach({m.to}, TypeRefs)
    BY <1>3, <1>6, <1>7
  <2>2. x \in Reach({y}, RustHolds)
    <3>1. n \in Reach({y}, RustHolds) /\ x \in Reach({n}, RustHolds)
      BY DEF OnCycle
    <3> QED
      BY <1>1, <1>6, <3>1, ReachFrom
  <2>3. x \in Reach({y}, TypeRefs)
    BY <1>5, <1>6, <2>2
  <2>4. x \in Reach({m.to}, TypeRefs)
    BY <1>1, <2>1, <2>3, ReachFrom
  <2>5. Reaches(m.to, m.to, TypeRefs)
    BY <2>1, <2>4 DEF Reaches
  <2> QED
    BY <2>1, <2>5 DEF RustRegular
<1>9. Concrete(m.to) = m.to
  <2>1. \A w \in {m.to} : schema[w].kind = "alias" => schema[w].to \in {m.to}
    BY <1>8
  <2>2. Concrete(m.to) \in {m.to}
    BY <2>1, ConcreteWithin
  <2> QED
    BY <2>2
<1> QED
  BY <1>6, <1>7, <1>9

LEMMA RustFinite ==
    ASSUME schema \in Schemas, RustRegular, NEW n \in Names
    PROVE  ~ Reaches(n, n, RustHolds)
<1> SUFFICES ASSUME Reaches(n, n, RustHolds) PROVE FALSE
  OBVIOUS
<1> DEFINE C == OnCycle(n, RustHolds)
           inner == [x \in Names |-> IF Record(x) THEN {} ELSE Embeds[x] \ {x}]
<1>1. RustHolds \in Graph /\ ClassMembers \in Graph /\ Embeds \in Graph
  BY Graphs
<1>2. n \in C
  BY <1>1, ReachFrom DEF OnCycle
<1>3. C \subseteq Names
  BY <1>1, ReachFrom DEF OnCycle
<1>4. \A x, y \in C : y \in RustHolds[x] =>
         \E m \in Members(x) : m.to = y /\ IsClass(y) /\ ~ m.many /\ ~ RustBoxed(x, m)
  BY RustStep
<1>5. \A x, y \in C : y \in RustHolds[x] => y \in ClassMembers[x]
  BY <1>3, <1>4 DEF ClassMembers
<1>6. ASSUME NEW x \in C PROVE ~ Record(x)
  <2> SUFFICES ASSUME Record(x) PROVE FALSE
    OBVIOUS
  <2>1. PICK y \in C : y \in RustHolds[x]
    BY <1>1, CycleGoesOn
  <2>2. y \in ClassMembers[x] /\ x \in Names /\ y \in Names
    BY <1>3, <1>5, <2>1
  <2>3. x \in Reach({y}, ClassMembers)
    BY <1>1, <1>5, <2>1, CycleJoined
  <2>4. Reaches(y, x, ClassMembers)
    <3>1. CASE x = y
      BY <1>1, <2>2, <3>1, ReachFrom DEF Reaches
    <3>2. CASE x # y
      BY <1>1, <2>2, <2>3, <3>2, ReachFrom
    <3> QED
      BY <3>1, <3>2
  <2>5. PICK m \in Members(x) : m.to = y /\ IsClass(y) /\ ~ RustBoxed(x, m)
    BY <1>4, <2>1
  <2> QED
    BY <2>4, <2>5 DEF RustBoxed, MemberInCycle
<1>7. inner \in Graph
  BY <1>1 DEF Graph
<1>8. ASSUME NEW x \in C, NEW y \in C, y \in RustHolds[x] PROVE y \in inner[x]
  <2>1. PICK m \in Members(x) : m.to = y /\ ~ m.many /\ ~ RustBoxed(x, m)
    BY <1>4, <1>8
  <2>2. ~ Record(x) /\ x \in Names
    BY <1>3, <1>6
  <2>3. y # x
    BY <2>1, <2>2 DEF RustBoxed
  <2>4. y \in Embeds[x]
    BY <2>1, <2>2 DEF Embeds
  <2> QED
    BY <2>2, <2>3, <2>4
<1>9. ~ Reaches(n, n, inner)
  BY <1>2, <1>6 DEF RustRegular
<1> HIDE DEF inner
<1>10. PICK x \in Reach({n}, RustHolds) : n \in RustHolds[x]
  BY DEF Reaches
<1>11. x \in C
  <2>1. x \in Names
    BY <1>1, <1>10, ReachFrom
  <2>2. n \in Reach({x}, RustHolds)
    BY <1>1, <1>10, <2>1, ReachFrom
  <2> QED
    BY <1>10, <2>2 DEF OnCycle
<1>12. x \in Reach({n}, inner)
  BY <1>1, <1>2, <1>7, <1>8, <1>11, CycleJoined
<1>13. n \in inner[x]
  BY <1>2, <1>8, <1>10, <1>11
<1> QED
  BY <1>9, <1>12, <1>13 DEF Reaches

\* No generated type contains itself: the pointers the C++ backend puts where a
\* CHOICE reaches itself by value, and the boxes the Rust backend puts where a
\* SEQUENCE reaches itself over members, break every cycle of a schema whose
\* cycles the rules of Regular and RustRegular admit.
THEOREM TypesAreFinite == Preprocess => []SizesAreFinite
<1>1. ReadInv => SizesAreFinite
  BY CppFinite, RustFinite DEF ReadInv, SizesAreFinite
<1> QED
  BY <1>1, ReadStart, ReadStep, PTL DEF Preprocess

-----------------------------------------------------------------------------
\* What the files say, as sets: the lines of a class for one member.
LEMMA ShortRanges ==
    /\ Range(<<>>) = {}
    /\ \A x : Range(<<x>>) = {x}
    /\ \A x, y : Range(<<x, y>>) = {x, y}
<1>1. Range(<<>>) = {}
  BY DEF Range
<1>2. \A x : Range(<<x>>) = {x}
  BY DEF Range
<1>3. ASSUME NEW x, NEW y PROVE Range(<<x, y>>) = {x, y}
  <2>1. DOMAIN <<x, y>> = {1, 2} /\ <<x, y>>[1] = x /\ <<x, y>>[2] = y
    OBVIOUS
  <2> QED
    BY <2>1 DEF Range
<1> QED
  BY <1>1, <1>2, <1>3

LEMMA RecordLines ==
    ASSUME NEW n, NEW i
    PROVE  LET m == Numbered(n)[i]
           IN /\ Range(BeforeRecord(n, i)) =
                   IF m.many
                     THEN IF m.to = n THEN {} ELSE {Include(<<n, i>>), Include(Header(m.to))}
                     ELSE IF m.opt /\ IsClass(m.to) THEN {<<"declare", m.to>>}
                                                    ELSE {Include(Header(m.to))}
              /\ Range(AfterRecord(n, i)) =
                   IF m.many /\ m.to = n THEN {Include(<<n, i>>)} ELSE {}
  BY ShortRanges DEF BeforeRecord, AfterRecord

LEMMA ChoiceLines ==
    ASSUME NEW n, NEW i
    PROVE  LET m == Numbered(n)[i]
               cyclic == AlternativeInCycle(n, m.to)
           IN /\ Range(BeforeChoice(n, i)) =
                   IF m.many \/ ~ cyclic
                     THEN {x \in {Include(<<n, i>>), Include(Header(m.to))} :
                              \/ x = Include(<<n, i>>) /\ m.many /\ ~ cyclic
                              \/ x = Include(Header(m.to)) /\ m.to # n}
                     ELSE IF m.to = n THEN {} ELSE {<<"declare", m.to>>}
              /\ Range(AfterChoice(n, i)) =
                   IF ~ cyclic THEN {}
                   ELSE IF m.many THEN {Include(<<n, i>>)}
                   ELSE IF m.to = n THEN {} ELSE {Include(Header(m.to))}
<1> DEFINE m == Numbered(n)[i]
           cyclic == AlternativeInCycle(n, m.to)
           own == Include(<<n, i>>)
           its == Include(Header(m.to))
           leaf == IF m.to = n THEN <<>> ELSE <<its>>
<1>1. Range(AfterChoice(n, i)) = IF ~ cyclic THEN {}
                                 ELSE IF m.many THEN {own}
                                 ELSE IF m.to = n THEN {} ELSE {its}
  BY ShortRanges DEF AfterChoice
<1>2. Range(leaf) = IF m.to = n THEN {} ELSE {its}
  BY ShortRanges
<1>3. leaf \in Seq({its})
  BY ShortSeqs
<1>4. /\ Range(<<>> \o leaf) = Range(leaf)
      /\ Range(<<own>> \o leaf) = {own} \cup Range(leaf)
  <2> DEFINE S == {own, its}
  <2>1. <<>> \in Seq(S) /\ <<own>> \in Seq(S) /\ leaf \in Seq(S)
    BY ShortSeqs
  <2>2. Range(<<>>) = {} /\ Range(<<own>>) = {own}
    BY ShortRanges
  <2> DEFINE none == <<>>
             one == <<own>>
  <2> HIDE DEF leaf, own, its, S, m, none, one
  <2>3. none \in Seq(S) /\ one \in Seq(S) /\ leaf \in Seq(S)
    BY <2>1 DEF none, one
  <2>4. Range(none \o leaf) = Range(none) \cup Range(leaf)
    BY <2>3, ConcatRange
  <2>5. Range(one \o leaf) = Range(one) \cup Range(leaf)
    BY <2>3, ConcatRange
  <2> QED
    BY <2>2, <2>4, <2>5 DEF none, one
<1>5. BeforeChoice(n, i) = IF m.many THEN (IF cyclic THEN <<>> ELSE <<own>>) \o leaf
                           ELSE IF ~ cyclic THEN leaf
                           ELSE IF m.to = n THEN <<>> ELSE <<<<"declare", m.to>>>>
  BY DEF BeforeChoice
<1> DEFINE before == BeforeChoice(n, i)
           after == AfterChoice(n, i)
           declares == <<"declare", m.to>>
<1> HIDE DEF leaf, own, its, cyclic, before, after, declares
<1>6. SUFFICES
        /\ Range(before) =
             IF m.many \/ ~ cyclic
               THEN {x \in {own, its} : (x = own /\ m.many /\ ~ cyclic) \/ (x = its /\ m.to # n)}
               ELSE IF m.to = n THEN {} ELSE {declares}
        /\ Range(after) =
             IF ~ cyclic THEN {}
             ELSE IF m.many THEN {own}
             ELSE IF m.to = n THEN {} ELSE {its}
  BY DEF own, its, cyclic, before, after, declares
<1>7. Range(after) = IF ~ cyclic THEN {}
                     ELSE IF m.many THEN {own}
                     ELSE IF m.to = n THEN {} ELSE {its}
  BY <1>1 DEF after
<1>8. ASSUME m.many \/ ~ cyclic
      PROVE  Range(before) = {x \in {own, its} : (x = own /\ m.many /\ ~ cyclic) \/ (x = its /\ m.to # n)}
  <2>1. Range(before) = IF m.many /\ ~ cyclic THEN {own} \cup Range(leaf) ELSE Range(leaf)
    BY <1>4, <1>5, <1>8 DEF before
  <2> QED
    BY <1>2, <2>1
<1>9. ASSUME ~ (m.many \/ ~ cyclic)
      PROVE  Range(before) = IF m.to = n THEN {} ELSE {declares}
  <2>1. before = IF m.to = n THEN <<>> ELSE <<declares>>
    BY <1>5, <1>9 DEF before, declares
  <2>2. Range(<<>>) = {} /\ Range(<<declares>>) = {declares}
    BY ShortRanges
  <2> QED
    BY <2>1, <2>2
<1> QED
  BY <1>7, <1>8, <1>9

\* The lines of a header, without a namespace and sorted for one.
LEMMA SortedRange ==
    ASSUME NEW I, NEW items \in Seq(I), \A x \in I : x[1] \in {"include", "declare"}
    PROVE  Range(Sorted(items)) = Range(items)
<1> DEFINE n == Len(items)
           Keeps(kinds) == [i \in 1..n |-> IF items[i][1] \in kinds THEN <<items[i]>> ELSE <<>>]
<1>1. n \in Nat /\ (\A i \in 1..n : items[i] \in I) /\ Range(items) = {items[i] : i \in 1..n}
  BY LenProperties, ElementOfSeq DEF Range
<1>2. ASSUME NEW kinds
      PROVE  /\ Kept(items, kinds) \in Seq(I)
             /\ Range(Kept(items, kinds)) = {x \in Range(items) : x[1] \in kinds}
  <2>1. \A i \in 1..n : <<items[i]>> \in Seq(I) /\ <<>> \in Seq(I)
    BY <1>1, ShortSeqs
  <2>2. Keeps(kinds) \in [1..n -> Seq(I)]
    BY <2>1
  <2>3. Kept(items, kinds) = FlattenSeq(Keeps(kinds))
    BY DEF Kept
  <2>4. ASSUME NEW i \in 1..n, NEW x
        PROVE  x \in Range(Keeps(kinds)[i]) <=> x = items[i] /\ items[i][1] \in kinds
    <3>1. Keeps(kinds)[i] = IF items[i][1] \in kinds THEN <<items[i]>> ELSE <<>>
      OBVIOUS
    <3> QED
      BY <3>1, ShortRanges
  <2> HIDE DEF Keeps
  <2>5. Kept(items, kinds) \in Seq(I)
    BY <1>1, <2>2, <2>3, FlattenWithin
  <2>6. \A x : x \in Range(Kept(items, kinds)) <=> \E i \in 1..n : x \in Range(Keeps(kinds)[i])
    BY <1>1, <2>2, <2>3, FlattenRange
  <2> HIDE DEF n
  <2>7. \A x : x \in Range(Kept(items, kinds)) <=> \E i \in 1..n : x = items[i] /\ items[i][1] \in kinds
    BY <2>4, <2>6
  <2>8. \A x : x \in Range(Kept(items, kinds)) <=> x \in Range(items) /\ x[1] \in kinds
    BY <1>1, <2>7
  <2> QED
    BY <2>5, <2>8
<1>3. /\ Kept(items, {"include"}) \in Seq(I) /\ Kept(items, {"declare"}) \in Seq(I)
      /\ Range(Kept(items, {"include"})) = {x \in Range(items) : x[1] \in {"include"}}
      /\ Range(Kept(items, {"declare"})) = {x \in Range(items) : x[1] \in {"declare"}}
  BY <1>2
<1>4. Range(Sorted(items)) = Range(Kept(items, {"include"})) \cup Range(Kept(items, {"declare"}))
  BY <1>3, ConcatRange DEF Sorted
<1>5. \A x \in Range(items) : x[1] \in {"include", "declare"}
  BY <1>1
<1> HIDE DEF n
<1> QED
  BY <1>3, <1>4, <1>5

LEMMA IncludeAllRange ==
    ASSUME schema \in Schemas, NEW S \in SUBSET Names
    PROVE  /\ IncludeAll(S) \in Seq({Include(Header(x)) : x \in S})
           /\ Range(IncludeAll(S)) = {Include(Header(x)) : x \in S}
<1>1. IsFiniteSet(S)
  BY FiniteNames, FS_Subset
<1>2. Cardinality(S) \in Nat /\ ExistsBijection(1..Cardinality(S), S)
  BY <1>1, FS_CardinalityType
<1> DEFINE n == Cardinality(S)
           f == SetToSeq(S)
<1>3. f \in [1..n -> S] /\ IsInjective(f)
  <2>1. \E g \in [1..n -> S] : IsInjective(g)
    BY <1>2 DEF ExistsBijection, Bijection, Injection, IsInjective
  <2> QED
    BY <2>1 DEF SetToSeq
<1>4. IncludeAll(S) = [i \in 1..n |-> Include(Header(f[i]))]
  BY DEF IncludeAll
<1>5. \A x \in S : \E i \in 1..n : f[i] = x
  <2>1. f \in Injection(1..n, S)
    BY <1>3 DEF Injection, IsInjective
  <2>2. Cardinality(1..n) = n /\ IsFiniteSet(1..n)
    BY <1>2, FS_Interval
  <2> HIDE DEF f
  <2>3. f \in Surjection(1..n, S)
    BY <1>1, <2>1, <2>2, FS_Injection
  <2> QED
    BY <2>3 DEF Surjection
<1> HIDE DEF n, f
<1> DEFINE T == {Include(Header(x)) : x \in S}
<1>6. IncludeAll(S) \in Seq(T)
  <2>1. \A i \in 1..n : Include(Header(f[i])) \in T
    BY <1>3
  <2>2. IncludeAll(S) \in [1..n -> T]
    BY <1>4, <2>1
  <2> HIDE DEF T
  <2> QED
    BY <1>2, <2>2 DEF n
<1>7. Range(IncludeAll(S)) = T
  BY <1>3, <1>4, <1>5 DEF Range
<1> QED
  BY <1>6, <1>7

-----------------------------------------------------------------------------
\* What the header of n may open: the wrappers of its own SEQUENCE OF members
\* and the headers of the types in a set.
Mentions(n, S, h) ==
    \/ h[1] = n /\ (h[2] # 0 => schema[n].members[h[2]].many)
    \/ h[2] = 0 /\ h[1] \in S

\* The declaration a header is for.
Anchor(f) == IF f[2] # 0 THEN <<"wrapper", f>>
             ELSE <<IF schema[f[1]].kind \in {"alias", "list"} THEN "using" ELSE "class", f[1]>>

\* What has to come before it: headers, and declarations of other names.
ElementOf(f) == schema[f[1]].members[f[2]].to
FirstIncludes(f) == IF f[2] # 0 THEN {Header(ElementOf(f))} ELSE {Header(d) : d \in Uncut[f[1]]}
FirstNames(f) == (CASE f[2] # 0                              -> {}
                    [] f[2] = 0 /\ IsClass(f[1])             -> ThroughContainers[f[1]]
                    [] f[2] = 0 /\ schema[f[1]].kind = "alias" -> {schema[f[1]].to}
                    [] OTHER                                 -> {}) \ (Uncut[f[1]] \cup {f[1]})

Lines == {"include", "declare"}

\* A sequence of the elements in its range.
LEMMA WithinRange ==
    ASSUME NEW S, NEW T, NEW s \in Seq(S), Range(s) \subseteq T
    PROVE  s \in Seq(T)
<1>1. s \in [1..Len(s) -> S] /\ Len(s) \in Nat
  BY LenProperties
<1>2. \A i \in 1..Len(s) : s[i] \in T
  BY <1>1 DEF Range
<1>3. s \in [1..Len(s) -> T]
  BY <1>1, <1>2
<1> QED
  BY <1>1, <1>3

\* AlternativeInCycle boxes just the alternatives that Cut cuts.
LEMMA CutAlternative ==
    ASSUME schema \in Schemas, NEW n \in Names, IsClass(n), ~ Record(n),
           NEW m \in Members(n), ~ m.many
    PROVE  AlternativeInCycle(n, m.to) <=> Cut(n, m)
<1>1. Cut(n, m) <=> m.to = n \/ n \in Reach({m.to}, Embeds)
  BY DEF Cut
<1>2. ASSUME Cut(n, m) PROVE AlternativeInCycle(n, m.to)
  <2>1. CASE m.to = n
    BY <2>1 DEF AlternativeInCycle
  <2>2. CASE n \in Reach({m.to}, Embeds)
    BY <2>2, InsideIsBoxed DEF Boxed
  <2> QED
    BY <1>1, <1>2, <2>1, <2>2
<1>3. ASSUME Reaches(m.to, n, HeldByValue) PROVE n \in Reach({m.to}, Embeds)
  <2>1. m.to \in Names
    BY Typed DEF MemberOf
  <2>2. /\ m.to \in Reach({m.to}, Embeds) /\ Reach({m.to}, Embeds) \subseteq Names
        /\ \A x \in Reach({m.to}, Embeds) : Embeds[x] \subseteq Reach({m.to}, Embeds)
    BY <2>1, Graphs, ReachFrom
  <2>3. \A x \in Names : HeldByValue[x] \subseteq Embeds[x]
    BY DEF HeldByValue, Embeds
  <2>4. {m.to} \subseteq Reach({m.to}, Embeds)
        /\ \A x \in Reach({m.to}, Embeds) : HeldByValue[x] \subseteq Reach({m.to}, Embeds)
    BY <2>2, <2>3
  <2>5. Reach({m.to}, HeldByValue) \subseteq Reach({m.to}, Embeds)
    BY <2>4, ReachLeast
  <2> QED
    BY <1>3, <2>4, <2>5 DEF Reaches
<1> QED
  BY <1>1, <1>2, <1>3 DEF AlternativeInCycle

\* What headers open are headers of types of the schema.
LEMMA OpensGraph ==
    ASSUME schema \in Schemas
    PROVE  /\ Opens \in Graph /\ ThroughContainers \in Graph
           /\ \A n \in Names : /\ OpensFirst(n) \subseteq Opens[n]
                               /\ CyclicElementIncludes(n) \subseteq Names
                               /\ OptionalIncludes(n) \subseteq Names
<1>1. \A n \in Names : \A m \in Members(n) : m.to \in Names
  BY Typed DEF MemberOf
<1>2. ThroughContainers \in Graph
  BY <1>1 DEF ThroughContainers, Graph
<1>3. ASSUME NEW n \in Names
      PROVE  CyclicElementIncludes(n) \subseteq Names /\ OptionalIncludes(n) \subseteq Names
  <2>1. \A m \in Members(n) : ExtraIncludes(m.to, n) \subseteq Names
    <3> TAKE m \in Members(n)
    <3>1. m.to \in Names
      BY <1>1
    <3>2. m.to \in Closure({m.to}) /\ Closure({m.to}) \subseteq Names
      BY <3>1, ClosureHolds
    <3>3. Reachable(m.to) \subseteq Closure({m.to})
      BY <3>1, <3>2, ReachableWithin
    <3> QED
      BY <3>2, <3>3 DEF ExtraIncludes
  <2> QED
    BY <1>1, <2>1 DEF CyclicElementIncludes, OptionalIncludes
<1>4. Uncut \in Graph
  BY Graphs
<1>5. Opens \in Graph
  <2>1. ASSUME NEW n \in Names PROVE Opens[n] \subseteq Names
    <3>1. Uncut[n] \subseteq Names /\ ThroughContainers[n] \subseteq Names
      BY <1>2, <1>4 DEF Graph
    <3> QED
      BY <1>3, <3>1 DEF Opens
  <2> QED
    BY <2>1 DEF Opens, Graph
<1>6. ASSUME NEW n \in Names PROVE OpensFirst(n) \subseteq Opens[n]
  <2>1. CASE Record(n)
    BY <2>1 DEF OpensFirst
  <2>2. CASE ~ Record(n) /\ IsClass(n)
    <3>1. Uncut[n] \subseteq ThroughContainers[n]
      BY <2>2 DEF Uncut, ThroughContainers
    <3>2. Opens[n] = ThroughContainers[n] \ {n}
      BY <2>2 DEF Opens
    <3> QED
      BY <2>2, <3>1, <3>2 DEF OpensFirst
  <2>3. CASE ~ Record(n) /\ ~ IsClass(n)
    BY <2>3 DEF OpensFirst, Opens
  <2> QED
    BY <2>1, <2>2, <2>3
<1> QED
  BY <1>2, <1>3, <1>5, <1>6

LEMMA DefinitionIncludesRange ==
    ASSUME schema \in Schemas, NEW n \in Names
    PROVE  \A x : x \in Range(DefinitionIncludes(n)) <=>
              /\ Record(n)
              /\ \E y \in OptionalIncludes(n) \cup CyclicElementIncludes(n) : x = Include(Header(y))
<1>1. OptionalIncludes(n) \cup CyclicElementIncludes(n) \in SUBSET Names
  BY OpensGraph
<1>2. Range(IncludeAll(OptionalIncludes(n) \cup CyclicElementIncludes(n)))
        = {Include(Header(x)) : x \in OptionalIncludes(n) \cup CyclicElementIncludes(n)}
  BY <1>1, IncludeAllRange
<1> QED
  BY <1>2, ShortRanges DEF DefinitionIncludes

\* A header of a class: lines, the class, and lines after it.
SaidBefore(n, x) ==
    \/ \E i \in 1..Len(schema[n].members) :
          x \in Range(IF Record(n) THEN BeforeRecord(n, i) ELSE BeforeChoice(n, i))
    \/ prefixed /\ x \in Range(DefinitionIncludes(n))
SaidAfter(n, x) ==
    \E i \in 1..Len(schema[n].members) :
       x \in Range(IF Record(n) THEN AfterRecord(n, i) ELSE AfterChoice(n, i))

\* The header of a class is the lines before it, the class and the lines after it.
LEMMA ClassLines ==
    ASSUME schema \in Schemas, NEW u \in Names, NEW n \in Closure({u}), IsClass(n)
    PROVE  \E b, a \in Seq(Said(u)) :
              /\ ClassHeader(n) = (b \o <<<<"class", n>>>>) \o a
              /\ \A x : x \in Range(b) <=> SaidBefore(n, x)
              /\ \A x : x \in Range(a) <=> SaidAfter(n, x)
<1> DEFINE I == Said(u)
           l == Len(schema[n].members)
           b == [i \in 1..l |-> IF Record(n) THEN BeforeRecord(n, i) ELSE BeforeChoice(n, i)]
           a == [i \in 1..l |-> IF Record(n) THEN AfterRecord(n, i) ELSE AfterChoice(n, i)]
           D == DefinitionIncludes(n)
           before == FlattenSeq(b)
           after == FlattenSeq(a)
           first == IF prefixed THEN Sorted(before \o D) ELSE before
<1>1. n \in Names /\ Closure({u}) \subseteq Names
  BY ClosureHolds
<1>2. Numbered(n) = schema[n].members /\ l \in Nat
  BY <1>1, Typed DEF Numbered
<1>3. \A i \in 1..l : b[i] \in Seq(I) /\ a[i] \in Seq(I)
  BY BeforeSaid
<1>4. ClassHeader(n) = (first \o <<<<"class", n>>>>) \o after
  BY <1>2 DEF ClassHeader
<1>5. D \in Seq(I)
  BY DefinitionIncludesSaid
<1>6. \A x \in Range(D) : x[1] \in Lines
  BY <1>1, DefinitionIncludesRange DEF Include, Lines
<1>7. ASSUME NEW i \in 1..l PROVE \A x \in Range(b[i]) : x[1] \in Lines
  <2>1. CASE Record(n)
    BY <2>1, RecordLines DEF Include, Lines
  <2>2. CASE ~ Record(n)
    BY <2>2, ChoiceLines DEF Include, Lines
  <2> QED
    BY <2>1, <2>2
<1> DEFINE J == {x \in I : x[1] \in Lines}
<1>8. /\ \A i \in 1..l : \A x : x \in Range(b[i]) <=>
            x \in Range(IF Record(n) THEN BeforeRecord(n, i) ELSE BeforeChoice(n, i))
      /\ \A i \in 1..l : \A x : x \in Range(a[i]) <=>
            x \in Range(IF Record(n) THEN AfterRecord(n, i) ELSE AfterChoice(n, i))
  OBVIOUS
<1>9. b \in [1..l -> Seq(I)] /\ a \in [1..l -> Seq(I)]
  <2>1. DOMAIN b = 1..l /\ DOMAIN a = 1..l /\ b = [i \in 1..l |-> b[i]] /\ a = [i \in 1..l |-> a[i]]
    OBVIOUS
  <2> HIDE DEF I, a, b
  <2> QED
    BY <1>3, <2>1
<1> HIDE DEF I, l, b, a, D
<1>10. /\ before \in Seq(I) /\ after \in Seq(I)
       /\ \A x : x \in Range(before) <=> \E i \in 1..l : x \in Range(b[i])
       /\ \A x : x \in Range(after) <=> \E i \in 1..l : x \in Range(a[i])
  BY <1>2, <1>9, FlattenWithin, FlattenRange
<1> HIDE DEF before, after
<1>11. /\ before \o D \in Seq(I)
       /\ Range(before \o D) = Range(before) \cup Range(D)
  BY <1>5, <1>10, ConcatProperties, ConcatRange
<1>12. before \o D \in Seq(J)
  <2>1. Range(before \o D) \subseteq I
    BY <1>11, LenProperties, ElementOfSeq DEF Range
  <2>2. Range(before \o D) \subseteq J
    BY <1>6, <1>7, <1>10, <1>11, <2>1
  <2> HIDE DEF J
  <2> QED
    BY <1>11, <2>2, WithinRange
<1>13. Range(Sorted(before \o D)) = Range(before \o D)
  <2>1. \A x \in J : x[1] \in {"include", "declare"}
    BY DEF Lines
  <2> HIDE DEF J
  <2> QED
    BY <1>12, <2>1, SortedRange
<1>14. first \in Seq(I)
  BY <1>10, <1>11, SortedSaid
<1>15. \A x : x \in Range(first) <=>
          (\E i \in 1..l : x \in Range(b[i])) \/ (prefixed /\ x \in Range(D))
  BY <1>10, <1>11, <1>13
<1> HIDE DEF first
<1>16. \A x : x \in Range(after) <=> \E i \in 1..l : x \in Range(a[i])
  BY <1>10
<1>17. first \in Seq(Said(u)) /\ after \in Seq(Said(u))
  BY <1>10, <1>14 DEF I
<1> QED
  BY <1>4, <1>8, <1>15, <1>16, <1>17 DEF l, D, SaidBefore, SaidAfter

\* A member by its position.
LEMMA Indexed ==
    ASSUME schema \in Schemas, NEW n \in Names, IsClass(n)
    PROVE  /\ \A m \in Members(n) : \E i \in 1..Len(schema[n].members) : Numbered(n)[i] = m
           /\ \A i \in 1..Len(schema[n].members) :
                 Numbered(n)[i] = schema[n].members[i] /\ Numbered(n)[i] \in Members(n)
<1>1. schema[n].members \in Seq(MemberOf) /\ Members(n) = Range(schema[n].members)
  BY Typed
<1>2. Numbered(n) = schema[n].members
  BY DEF Numbered
<1>3. Members(n) = {schema[n].members[i] : i \in 1..Len(schema[n].members)}
  BY <1>1, LenProperties DEF Range
<1> QED
  BY <1>2, <1>3

\* What the lines of a SEQUENCE's header open and declare.
LEMMA RecordOpens ==
    ASSUME schema \in Schemas, NEW n \in Names, Record(n)
    PROVE  /\ \A f \in Names, k \in Nat : SaidBefore(n, Include(<<f, k>>)) =>
                 /\ Mentions(n, OpensFirst(n), <<f, k>>)
                 /\ k # 0 => f = n /\ schema[n].members[k].to # n
           /\ \A f \in Names, k \in Nat : SaidAfter(n, Include(<<f, k>>)) =>
                 Mentions(n, Opens[n], <<f, k>>)
           /\ \A d \in Uncut[n] : SaidBefore(n, Include(Header(d)))
           /\ \A t \in ThroughContainers[n] \ (Uncut[n] \cup {n}) : SaidBefore(n, <<"declare", t>>)
           /\ \A d \in Opens[n] : SaidBefore(n, Include(Header(d)))
<1> DEFINE l == Len(schema[n].members)
           M(i) == schema[n].members[i]
           D(x) == \E y \in OptionalIncludes(n) \cup CyclicElementIncludes(n) : x = Include(Header(y))
<1>1. IsClass(n)
  BY DEF Record, IsClass
<1>2. /\ \A m \in Members(n) : \E i \in 1..l : M(i) = m
      /\ \A i \in 1..l : M(i) \in Members(n) /\ Numbered(n)[i] = M(i)
  BY <1>1, Indexed
<1>3. \A m \in Members(n) : Cut(n, m) <=> m.to = n \/ (m.opt /\ ~ m.many /\ IsClass(m.to))
  BY DEF Cut
<1>4. Uncut[n] = {m.to : m \in {x \in Members(n) : ~ Cut(n, x)}}
  BY <1>1 DEF Uncut
<1>5. ThroughContainers[n] = {m.to : m \in Members(n)}
  BY DEF ThroughContainers
<1>6. OpensFirst(n) = Opens[n]
      /\ Opens[n] = (IF prefixed THEN ThroughContainers[n] \cup CyclicElementIncludes(n) ELSE Uncut[n]) \ {n}
  BY <1>1 DEF OpensFirst, Opens
<1>7. OptionalIncludes(n) = {m.to : m \in {x \in Members(n) : x.opt /\ ~ x.many /\ IsClass(x.to)}} \ {n}
  BY DEF OptionalIncludes
<1>8. /\ \A i \in 1..l : Range(BeforeRecord(n, i)) =
            IF M(i).many
              THEN IF M(i).to = n THEN {} ELSE {Include(<<n, i>>), Include(Header(M(i).to))}
              ELSE IF M(i).opt /\ IsClass(M(i).to) THEN {<<"declare", M(i).to>>}
                                                   ELSE {Include(Header(M(i).to))}
      /\ \A i \in 1..l : Range(AfterRecord(n, i)) =
            IF M(i).many /\ M(i).to = n THEN {Include(<<n, i>>)} ELSE {}
  BY <1>2, RecordLines
<1>9. \A x : SaidBefore(n, x) <=>
               (\E i \in 1..l : x \in Range(BeforeRecord(n, i))) \/ (prefixed /\ D(x))
  BY DefinitionIncludesRange DEF SaidBefore
<1>10. \A x : SaidAfter(n, x) <=> \E i \in 1..l : x \in Range(AfterRecord(n, i))
  BY DEF SaidAfter
<1>11. \A f, g, k, j : Include(<<f, k>>) = Include(<<g, j>>) <=> f = g /\ k = j
  BY DEF Include
<1>12. \A f, k, t : Include(<<f, k>>) # <<"declare", t>>
  BY DEF Include
<1> HIDE DEF l, M
<1>13. ASSUME NEW f \in Names, NEW k \in Nat, SaidBefore(n, Include(<<f, k>>))
      PROVE  /\ Mentions(n, OpensFirst(n), <<f, k>>)
             /\ k # 0 => f = n /\ schema[n].members[k].to # n
  <2>1. CASE prefixed /\ D(Include(<<f, k>>))
    <3>1. f \in OptionalIncludes(n) \cup CyclicElementIncludes(n) /\ k = 0
      BY <1>11, <2>1 DEF Header
    <3>2. f \in ThroughContainers[n] \cup CyclicElementIncludes(n)
      BY <1>5, <1>7, <3>1
    <3> QED
      BY <1>6, <2>1, <3>1, <3>2 DEF Mentions
  <2>2. ASSUME NEW i \in 1..l, Include(<<f, k>>) \in Range(BeforeRecord(n, i))
        PROVE  /\ Mentions(n, OpensFirst(n), <<f, k>>)
               /\ k # 0 => f = n /\ schema[n].members[k].to # n
    <3>1. \/ M(i).many /\ M(i).to # n /\ f = n /\ k = i
          \/ f = M(i).to /\ k = 0 /\ (M(i).many \/ ~ (M(i).opt /\ IsClass(M(i).to)))
      <4> DEFINE R == Range(BeforeRecord(n, i))
      <4>1. R = IF M(i).many
                  THEN IF M(i).to = n THEN {} ELSE {Include(<<n, i>>), Include(<<M(i).to, 0>>)}
                  ELSE IF M(i).opt /\ IsClass(M(i).to) THEN {<<"declare", M(i).to>>}
                                                       ELSE {Include(<<M(i).to, 0>>)}
        BY <1>8 DEF Header
      <4>2. Include(<<f, k>>) \in R
        BY <2>2
      <4> HIDE DEF R
      <4>3. CASE M(i).many
        BY <1>11, <4>1, <4>2, <4>3
      <4>4. CASE ~ M(i).many
        BY <1>11, <1>12, <4>1, <4>2, <4>4
      <4> QED
        BY <4>3, <4>4
    <3>2. CASE f = n /\ k = i /\ M(i).many /\ M(i).to # n
      BY <3>2 DEF Mentions, M
    <3>3. CASE f = M(i).to /\ k = 0 /\ (M(i).many \/ ~ (M(i).opt /\ IsClass(M(i).to)))
      <4>1. f = n \/ f \in Uncut[n]
        BY <1>2, <1>3, <1>4, <3>3
      <4>2. Uncut[n] \subseteq ThroughContainers[n]
        BY <1>4, <1>5
      <4>3. f = n \/ f \in Opens[n]
        BY <1>6, <4>1, <4>2
      <4> QED
        BY <1>6, <3>3, <4>3 DEF Mentions
    <3> QED
      BY <3>1, <3>2, <3>3
  <2> QED
    BY <1>9, <1>13, <2>1, <2>2
<1>14. ASSUME NEW f \in Names, NEW k \in Nat, SaidAfter(n, Include(<<f, k>>))
      PROVE  Mentions(n, Opens[n], <<f, k>>)
  <2>1. PICK i \in 1..l : Include(<<f, k>>) \in Range(AfterRecord(n, i))
    BY <1>10, <1>14
  <2>2. M(i).many /\ f = n /\ k = i
    <3>1. Range(AfterRecord(n, i)) = IF M(i).many /\ M(i).to = n THEN {Include(<<n, i>>)} ELSE {}
      BY <1>8
    <3>2. M(i).many /\ Include(<<f, k>>) = Include(<<n, i>>)
      BY <2>1, <3>1
    <3> QED
      BY <1>11, <3>2
  <2> QED
    BY <2>2 DEF Mentions, M
<1>15. ASSUME NEW d \in Uncut[n] PROVE SaidBefore(n, Include(Header(d)))
  <2>1. PICK m \in Members(n) : d = m.to /\ ~ Cut(n, m)
    BY <1>4
  <2>2. PICK i \in 1..l : M(i) = m
    BY <1>2
  <2>3. Include(Header(d)) \in Range(BeforeRecord(n, i))
    BY <1>3, <1>8, <2>1, <2>2
  <2> QED
    BY <1>9, <2>3
<1>16. ASSUME NEW t \in ThroughContainers[n] \ (Uncut[n] \cup {n})
      PROVE  SaidBefore(n, <<"declare", t>>)
  <2>1. PICK m \in Members(n) : t = m.to /\ Cut(n, m)
    BY <1>4, <1>5
  <2>2. PICK i \in 1..l : M(i) = m
    BY <1>2
  <2>3. <<"declare", t>> \in Range(BeforeRecord(n, i))
    BY <1>3, <1>8, <2>1, <2>2
  <2> QED
    BY <1>9, <2>3
<1>17. ASSUME NEW d \in Opens[n] PROVE SaidBefore(n, Include(Header(d)))
  <2>1. CASE d \in Uncut[n]
    BY <1>15, <2>1
  <2>2. CASE d \notin Uncut[n]
    <3>1. prefixed /\ d # n /\ d \in ThroughContainers[n] \cup CyclicElementIncludes(n)
      BY <1>6, <2>2
    <3>2. d \in CyclicElementIncludes(n) \/ d \in OptionalIncludes(n)
      BY <1>3, <1>4, <1>5, <1>7, <2>2, <3>1
    <3> QED
      BY <1>9, <3>1, <3>2
  <2> QED
    BY <2>1, <2>2
<1> QED
  BY <1>13, <1>14, <1>15, <1>16, <1>17

\* And those of a CHOICE's header.
LEMMA ChoiceOpens ==
    ASSUME schema \in Schemas, NEW n \in Names, IsClass(n), ~ Record(n)
    PROVE  /\ \A f \in Names, k \in Nat : SaidBefore(n, Include(<<f, k>>)) =>
                 /\ Mentions(n, OpensFirst(n), <<f, k>>)
                 /\ k # 0 => f = n /\ schema[n].members[k].to # n
           /\ \A f \in Names, k \in Nat : SaidAfter(n, Include(<<f, k>>)) =>
                 Mentions(n, Opens[n], <<f, k>>)
           /\ \A d \in Uncut[n] : SaidBefore(n, Include(Header(d)))
           /\ \A t \in ThroughContainers[n] \ (Uncut[n] \cup {n}) : SaidBefore(n, <<"declare", t>>)
           /\ \A d \in Opens[n] : SaidBefore(n, Include(Header(d))) \/ SaidAfter(n, Include(Header(d)))
<1> DEFINE l == Len(schema[n].members)
           M(i) == schema[n].members[i]
           C(i) == AlternativeInCycle(n, M(i).to)
           own(i) == Include(<<n, i>>)
           its(i) == Include(<<M(i).to, 0>>)
<1>1. /\ \A m \in Members(n) : \E i \in 1..l : M(i) = m
      /\ \A i \in 1..l : M(i) \in Members(n) /\ Numbered(n)[i] = M(i)
  BY Indexed
<1>2. \A i \in 1..l : (~ M(i).many => (C(i) <=> Cut(n, M(i)))) /\ (M(i).to = n => C(i))
  BY <1>1, CutAlternative DEF AlternativeInCycle
<1>3. \A i \in 1..l : (M(i).many => (Cut(n, M(i)) <=> M(i).to = n)) /\ (M(i).to = n => Cut(n, M(i)))
  BY DEF Cut
<1>4. Uncut[n] = {m.to : m \in {x \in Members(n) : ~ Cut(n, x)}}
  BY DEF Uncut
<1>5. ThroughContainers[n] = {m.to : m \in Members(n)}
  BY DEF ThroughContainers
<1>6. OpensFirst(n) = Uncut[n] \ {n} /\ Opens[n] = ThroughContainers[n] \ {n}
  BY DEF OpensFirst, Opens
<1>7. ASSUME NEW i \in 1..l
      PROVE  /\ M(i).many \/ ~ C(i) => \A x : x \in Range(BeforeChoice(n, i)) <=>
                                          \/ x = own(i) /\ M(i).many /\ ~ C(i)
                                          \/ x = its(i) /\ M(i).to # n
             /\ ~ (M(i).many \/ ~ C(i)) => \A x : x \in Range(BeforeChoice(n, i)) <=>
                                          x = <<"declare", M(i).to>> /\ M(i).to # n
             /\ \A x : x \in Range(AfterChoice(n, i)) <=>
                          \/ x = own(i) /\ M(i).many /\ C(i)
                          \/ x = its(i) /\ ~ M(i).many /\ C(i) /\ M(i).to # n
  <2>1. Numbered(n)[i] = M(i)
    BY <1>1
  <2>2. /\ Range(BeforeChoice(n, i)) =
              IF M(i).many \/ ~ C(i)
                THEN {x \in {own(i), its(i)} :
                         (x = own(i) /\ M(i).many /\ ~ C(i)) \/ (x = its(i) /\ M(i).to # n)}
                ELSE IF M(i).to = n THEN {} ELSE {<<"declare", M(i).to>>}
        /\ Range(AfterChoice(n, i)) =
              IF ~ C(i) THEN {}
              ELSE IF M(i).many THEN {own(i)}
              ELSE IF M(i).to = n THEN {} ELSE {its(i)}
    BY <2>1, ChoiceLines DEF Header
  <2> HIDE DEF M, C, own, its
  <2>3. CASE M(i).many \/ ~ C(i)
    BY <2>2, <2>3
  <2>4. CASE ~ (M(i).many \/ ~ C(i))
    BY <2>2, <2>4
  <2> QED
    BY <2>3, <2>4
<1>8. \A x : SaidBefore(n, x) <=> \E i \in 1..l : x \in Range(BeforeChoice(n, i))
  BY DefinitionIncludesRange DEF SaidBefore
<1>9. \A x : SaidAfter(n, x) <=> \E i \in 1..l : x \in Range(AfterChoice(n, i))
  BY DEF SaidAfter
<1>10. \A f, g, k, j : Include(<<f, k>>) = Include(<<g, j>>) <=> f = g /\ k = j
  BY DEF Include
<1>11. \A f, k, t : Include(<<f, k>>) # <<"declare", t>>
  BY DEF Include
<1>12. \A d : Header(d) = <<d, 0>>
  BY DEF Header
<1>13. \A f \in Names, k \in Nat : k # 0 /\ f = n /\ M(k).many => \A S : Mentions(n, S, <<f, k>>)
  BY DEF Mentions
<1>14. \A S : \A f \in Names : f \in S => Mentions(n, S, <<f, 0>>)
  BY DEF Mentions
<1>15. l \in Nat
  BY Typed
<1> HIDE DEF l, M, C
<1>16. ASSUME NEW f \in Names, NEW k \in Nat, SaidBefore(n, Include(<<f, k>>))
       PROVE  /\ Mentions(n, OpensFirst(n), <<f, k>>)
              /\ k # 0 => f = n /\ M(k).to # n
  <2>1. PICK i \in 1..l : Include(<<f, k>>) \in Range(BeforeChoice(n, i))
    BY <1>8, <1>16
  <2>2. M(i).many \/ ~ C(i)
    <3> SUFFICES ASSUME ~ (M(i).many \/ ~ C(i)) PROVE FALSE
      OBVIOUS
    <3>1. Include(<<f, k>>) = <<"declare", M(i).to>>
      BY <1>7, <2>1
    <3> QED
      BY <1>11, <3>1
  <2>3. CASE Include(<<f, k>>) = own(i) /\ M(i).many /\ ~ C(i)
    <3>1. f = n /\ k = i /\ k # 0 /\ M(i).to # n
      BY <1>2, <1>10, <1>15, <2>3
    <3> QED
      BY <1>13, <2>3, <3>1
  <2>4. CASE Include(<<f, k>>) = its(i) /\ M(i).to # n
    <3>1. f = M(i).to /\ k = 0
      BY <1>10, <2>4
    <3>2. ~ Cut(n, M(i)) /\ M(i) \in Members(n)
      BY <1>1, <1>2, <1>3, <2>2, <2>4
    <3>3. f \in OpensFirst(n)
      BY <1>4, <1>6, <2>4, <3>1, <3>2
    <3> QED
      BY <1>14, <3>1, <3>3
  <2>5. \/ Include(<<f, k>>) = own(i) /\ M(i).many /\ ~ C(i)
        \/ Include(<<f, k>>) = its(i) /\ M(i).to # n
    BY <1>7, <2>1, <2>2
  <2> QED
    BY <2>3, <2>4, <2>5
<1>17. ASSUME NEW f \in Names, NEW k \in Nat, SaidAfter(n, Include(<<f, k>>))
       PROVE  Mentions(n, Opens[n], <<f, k>>)
  <2>1. PICK i \in 1..l : Include(<<f, k>>) \in Range(AfterChoice(n, i))
    BY <1>9, <1>17
  <2>2. \/ Include(<<f, k>>) = own(i) /\ M(i).many
        \/ Include(<<f, k>>) = its(i) /\ M(i).to # n
    BY <1>7, <2>1
  <2>3. CASE Include(<<f, k>>) = own(i) /\ M(i).many
    <3>1. f = n /\ k = i /\ k # 0
      BY <1>10, <1>15, <2>3
    <3> QED
      BY <1>13, <2>3, <3>1
  <2>4. CASE Include(<<f, k>>) = its(i) /\ M(i).to # n
    <3>1. f = M(i).to /\ k = 0 /\ M(i) \in Members(n)
      BY <1>1, <1>10, <2>4
    <3>2. f \in Opens[n]
      BY <1>5, <1>6, <2>4, <3>1
    <3> QED
      BY <1>14, <3>1, <3>2
  <2> QED
    BY <2>2, <2>3, <2>4
<1>18. ASSUME NEW d \in Uncut[n] PROVE SaidBefore(n, Include(Header(d)))
  <2>1. PICK i \in 1..l : d = M(i).to /\ ~ Cut(n, M(i))
    BY <1>1, <1>4
  <2>2. (M(i).many \/ ~ C(i)) /\ M(i).to # n
    BY <1>2, <1>3, <2>1
  <2>3. Include(Header(d)) \in Range(BeforeChoice(n, i))
    BY <1>7, <1>12, <2>1, <2>2
  <2> QED
    BY <1>8, <2>3
<1>19. ASSUME NEW t \in ThroughContainers[n] \ (Uncut[n] \cup {n})
       PROVE  SaidBefore(n, <<"declare", t>>)
  <2>1. PICK i \in 1..l : t = M(i).to /\ Cut(n, M(i))
    BY <1>1, <1>4, <1>5
  <2>2. ~ (M(i).many \/ ~ C(i)) /\ M(i).to # n
    BY <1>2, <1>3, <2>1
  <2>3. <<"declare", t>> \in Range(BeforeChoice(n, i))
    BY <1>7, <2>1, <2>2
  <2> QED
    BY <1>8, <2>3
<1>20. ASSUME NEW d \in Opens[n]
       PROVE  SaidBefore(n, Include(Header(d))) \/ SaidAfter(n, Include(Header(d)))
  <2>1. PICK i \in 1..l : d = M(i).to /\ M(i).to # n
    BY <1>1, <1>5, <1>6
  <2>2. CASE M(i).many \/ ~ C(i)
    <3>1. Include(Header(d)) \in Range(BeforeChoice(n, i))
      BY <1>7, <1>12, <2>1, <2>2
    <3> QED
      BY <1>8, <3>1
  <2>3. CASE ~ (M(i).many \/ ~ C(i))
    <3>1. Include(Header(d)) \in Range(AfterChoice(n, i))
      BY <1>7, <1>12, <2>1, <2>3
    <3> QED
      BY <1>9, <3>1
  <2> QED
    BY <2>2, <2>3
<1> QED
  BY <1>16, <1>17, <1>18, <1>19, <1>20 DEF M

-----------------------------------------------------------------------------
\* The headers there are, and the lines of files.
Files == {f \in Names \X Nat :
             f[2] # 0 => /\ IsClass(f[1]) /\ f[2] \in 1..Len(schema[f[1]].members)
                         /\ schema[f[1]].members[f[2]].many}
Item == ({"include", "nested"} \X Files) \cup {Anchor(f) : f \in Files}
           \cup ({"declare", "source"} \X Names)

\* Which headers f opens before its declaration, and at all.
OpenedFirst(f, h) ==
    IF f[2] # 0 THEN h = Header(ElementOf(f))
    ELSE /\ Mentions(f[1], OpensFirst(f[1]), h)
         /\ h[2] # 0 => h[1] = f[1] /\ ElementOf(h) # h[1]
OpenedBy(f, h) ==
    IF f[2] # 0 THEN h = Header(ElementOf(f)) ELSE Mentions(f[1], Opens[f[1]], h)

\* A file: lines, its declaration, and lines after it.
Shape(f, b, a) ==
    /\ b \in Seq(Item) /\ a \in Seq(Item) /\ Anchor(f) \in Item
    /\ Contents(f) = (b \o <<Anchor(f)>>) \o a
    /\ \A x \in Range(b) \cup Range(a) : x[1] \in Lines
    /\ \A h \in FirstIncludes(f) : Include(h) \in Range(b)
    /\ \A t \in FirstNames(f) : <<"declare", t>> \in Range(b)
    /\ f[2] = 0 => \A d \in Opens[f[1]] : Include(Header(d)) \in Range(b) \cup Range(a)
    /\ \A h \in Files : Include(h) \in Range(b) => OpenedFirst(f, h)
    /\ \A h \in Files : Include(h) \in Range(b) \cup Range(a) => OpenedBy(f, h)

\* The header of a type, and the lines about it.
LEMMA ItemsAre ==
    ASSUME NEW n \in Names
    PROVE  /\ Header(n) \in Files /\ Header(n) = <<n, 0>>
           /\ Include(Header(n)) \in Item
           /\ <<"declare", n>> \in Item /\ <<"source", n>> \in Item
           /\ Anchor(Header(n)) \in Item
  BY DEF Header, Files, Include, Item

\* The header of a class has the shape of a file.
LEMMA ClassShape ==
    ASSUME schema \in Schemas, NEW n \in Names, IsClass(n)
    PROVE  \E b, a : Shape(Header(n), b, a)
<1> DEFINE f == Header(n)
<1>1. n \in Closure({n}) /\ Closure({n}) \subseteq Names
  BY ClosureHolds
<1>2. PICK b \in Seq(Said(n)), a \in Seq(Said(n)) :
         /\ ClassHeader(n) = (b \o <<<<"class", n>>>>) \o a
         /\ \A x : x \in Range(b) <=> SaidBefore(n, x)
         /\ \A x : x \in Range(a) <=> SaidAfter(n, x)
  BY <1>1, ClassLines
<1>3. f[1] = n /\ f[2] = 0 /\ f \in Files
  BY ItemsAre DEF Header
<1>4. Anchor(f) = <<"class", n>> /\ Anchor(f) \in Item
  BY <1>3, ItemsAre DEF Anchor, IsClass
<1>5. Contents(f) = (b \o <<Anchor(f)>>) \o a
  <2>1. Contents(f) = ClassHeader(n)
    <3> HIDE DEF f
    <3> QED
      BY <1>3 DEF Contents, IsClass
  <2> QED
    BY <1>2, <1>4, <2>1
<1>6. /\ \A g \in Names, k \in Nat : SaidBefore(n, Include(<<g, k>>)) =>
            /\ Mentions(n, OpensFirst(n), <<g, k>>)
            /\ k # 0 => g = n /\ schema[n].members[k].to # n
      /\ \A g \in Names, k \in Nat : SaidAfter(n, Include(<<g, k>>)) => Mentions(n, Opens[n], <<g, k>>)
      /\ \A d \in Uncut[n] : SaidBefore(n, Include(Header(d)))
      /\ \A t \in ThroughContainers[n] \ (Uncut[n] \cup {n}) : SaidBefore(n, <<"declare", t>>)
      /\ \A d \in Opens[n] : SaidBefore(n, Include(Header(d))) \/ SaidAfter(n, Include(Header(d)))
  BY RecordOpens, ChoiceOpens
<1>7. \A x \in Range(b) \cup Range(a) : x \in Said(n)
  BY <1>2, LenProperties, ElementOfSeq DEF Range
<1>8. ASSUME NEW x \in Range(b) \cup Range(a) PROVE x[1] \in Lines
  <2>1. SaidBefore(n, x) \/ SaidAfter(n, x)
    BY <1>2
  <2>2. CASE \E i \in 1..Len(schema[n].members) :
                x \in Range(BeforeRecord(n, i)) \/ x \in Range(AfterRecord(n, i))
    BY <2>2, RecordLines DEF Lines, Include
  <2>3. CASE \E i \in 1..Len(schema[n].members) :
                x \in Range(BeforeChoice(n, i)) \/ x \in Range(AfterChoice(n, i))
    BY <2>3, ChoiceLines DEF Lines, Include
  <2>4. CASE x \in Range(DefinitionIncludes(n))
    BY <2>4, DefinitionIncludesRange DEF Lines, Include
  <2> QED
    BY <2>1, <2>2, <2>3, <2>4 DEF SaidBefore, SaidAfter
<1>9. \A h \in Names \X Nat : h = <<h[1], h[2]>> /\ h[1] \in Names /\ h[2] \in Nat
  OBVIOUS
<1>10. OpensFirst(n) \subseteq Opens[n]
  BY OpensGraph
<1>11. ASSUME NEW h \in Names \X Nat, Include(h) \in Range(b)
       PROVE  OpenedFirst(f, h) /\ OpenedBy(f, h)
  <2>1. /\ Mentions(n, OpensFirst(n), h)
        /\ h[2] # 0 => h[1] = n /\ schema[n].members[h[2]].to # n
    BY <1>2, <1>6, <1>9, <1>11
  <2>2. h[2] # 0 => h[1] = n /\ ElementOf(h) # h[1]
    BY <2>1 DEF ElementOf
  <2>3. Mentions(n, Opens[n], h)
    BY <1>10, <2>1 DEF Mentions
  <2> QED
    BY <1>3, <2>1, <2>2, <2>3 DEF OpenedFirst, OpenedBy
<1>12. ASSUME NEW h \in Names \X Nat, Include(h) \in Range(a) PROVE OpenedBy(f, h)
  <2>1. Mentions(n, Opens[n], h)
    BY <1>2, <1>6, <1>9, <1>12
  <2> QED
    BY <1>3, <2>1 DEF OpenedBy
<1>13. ASSUME NEW x \in Range(b) \cup Range(a) PROVE x \in Item
  <2>1. x \in Said(n) /\ x[1] \in Lines
    BY <1>7, <1>8
  <2>2. CASE x[1] = "declare"
    <3>1. x \in {"declare"} \X (Names \cup (Names \X Nat))
      BY <2>1, <2>2 DEF Said
    <3>2. SaidBefore(n, x) \/ SaidAfter(n, x)
      BY <1>2
    <3>3. \A m \in Members(n) : m.to \in Names
      BY Typed DEF MemberOf
    <3>4. \A i \in 1..Len(schema[n].members) : Numbered(n)[i] \in Members(n)
      BY Indexed
    <3>5. ASSUME NEW i \in 1..Len(schema[n].members),
                 x \in Range(BeforeRecord(n, i)) \/ x \in Range(AfterRecord(n, i))
          PROVE  x = <<"declare", Numbered(n)[i].to>>
      BY <2>2, <3>5, RecordLines DEF Include
    <3>6. ASSUME NEW i \in 1..Len(schema[n].members),
                 x \in Range(BeforeChoice(n, i)) \/ x \in Range(AfterChoice(n, i))
          PROVE  x = <<"declare", Numbered(n)[i].to>>
      BY <2>2, <3>6, ChoiceLines DEF Include
    <3>7. x \notin Range(DefinitionIncludes(n))
      BY <2>2, DefinitionIncludesRange DEF Include
    <3>8. PICK i \in 1..Len(schema[n].members) : x = <<"declare", Numbered(n)[i].to>>
      BY <3>2, <3>5, <3>6, <3>7 DEF SaidBefore, SaidAfter
    <3> QED
      BY <3>3, <3>4, <3>8 DEF Item
  <2>3. CASE x[1] = "include"
    <3>1. x \in {"include"} \X HeadersOf(n)
      BY <2>1, <2>3 DEF Said
    <3>2. PICK h \in HeadersOf(n) : x = Include(h)
      BY <3>1 DEF Include
    <3>3. h \in Names \X Nat /\ (h[2] # 0 => IsClass(h[1]) /\ h[2] \in 1..Len(schema[h[1]].members))
      BY <1>1 DEF HeadersOf
    <3>4. OpenedBy(f, h)
      BY <1>11, <1>12, <3>2, <3>3
    <3>5. h[2] # 0 => h[1] = n /\ schema[n].members[h[2]].many
      BY <1>3, <3>4 DEF OpenedBy, Mentions
    <3>6. h \in Files
      BY <3>3, <3>5 DEF Files
    <3> QED
      BY <3>2, <3>6 DEF Item, Include
  <2> QED
    BY <2>1, <2>2, <2>3 DEF Lines
<1>14. b \in Seq(Item) /\ a \in Seq(Item)
  BY <1>2, <1>13, WithinRange
<1>15. FirstIncludes(f) = {Header(d) : d \in Uncut[n]}
       /\ FirstNames(f) = ThroughContainers[n] \ (Uncut[n] \cup {n})
  <2> HIDE DEF f
  <2>1. FirstIncludes(f) = {Header(d) : d \in Uncut[n]}
    BY <1>3 DEF FirstIncludes
  <2>2. FirstNames(f) = ThroughContainers[n] \ (Uncut[n] \cup {n})
    BY <1>3 DEF FirstNames, IsClass
  <2> QED
    BY <2>1, <2>2
<1>16. Files \subseteq Names \X Nat
  BY DEF Files
<1>17. Shape(f, b, a)
  <2>1. \A h \in FirstIncludes(f) : Include(h) \in Range(b)
    BY <1>2, <1>6, <1>15
  <2>2. \A t \in FirstNames(f) : <<"declare", t>> \in Range(b)
    BY <1>2, <1>6, <1>15
  <2>3. \A d \in Opens[n] : Include(Header(d)) \in Range(b) \cup Range(a)
    BY <1>2, <1>6
  <2>4. \A h \in Files : Include(h) \in Range(b) => OpenedFirst(f, h)
    BY <1>11, <1>16
  <2>5. \A h \in Files : Include(h) \in Range(b) \cup Range(a) => OpenedBy(f, h)
    BY <1>11, <1>12, <1>16
  <2> HIDE DEF f
  <2> QED
    BY <1>3, <1>4, <1>5, <1>8, <1>14, <2>1, <2>2, <2>3, <2>4, <2>5 DEF Shape
<1> QED
  BY <1>17

-----------------------------------------------------------------------------
\* A declaration tells the file it stands in.
LEMMA Anchors ==
    ASSUME NEW f \in Files
    PROVE  /\ f[2] # 0 => Anchor(f) = <<"wrapper", f>>
           /\ f[2] = 0 => /\ f = Header(f[1])
                          /\ schema[f[1]].kind \in {"alias", "list"} => Anchor(f) = <<"using", f[1]>>
                          /\ schema[f[1]].kind \notin {"alias", "list"} => Anchor(f) = <<"class", f[1]>>
           /\ Anchor(f)[1] \in {"wrapper", "using", "class"}
           /\ \A g \in Files : Anchor(g) = Anchor(f) => g = f
<1>1. \A g \in Files : g = <<g[1], g[2]>>
  BY DEF Files
<1>2. \A g \in Files : /\ g[2] # 0 => Anchor(g) = <<"wrapper", g>>
                       /\ g[2] = 0 => /\ g = Header(g[1])
                                      /\ Anchor(g) = <<"using", g[1]>> \/ Anchor(g) = <<"class", g[1]>>
  BY <1>1 DEF Anchor, Header
<1>3. /\ f[2] = 0 /\ schema[f[1]].kind \in {"alias", "list"} => Anchor(f) = <<"using", f[1]>>
      /\ f[2] = 0 /\ schema[f[1]].kind \notin {"alias", "list"} => Anchor(f) = <<"class", f[1]>>
  BY DEF Anchor
<1>4. ASSUME NEW g \in Files, Anchor(g) = Anchor(f) PROVE g = f
  <2>1. CASE f[2] # 0
    BY <1>2, <1>4, <2>1
  <2>2. CASE f[2] = 0
    <3>1. g[2] = 0 /\ g[1] = f[1]
      BY <1>2, <1>4, <2>2
    <3> QED
      BY <1>2, <2>2, <3>1
  <2> QED
    BY <2>1, <2>2
<1>5. Anchor(f)[1] \in {"wrapper", "using", "class"}
  BY <1>2
<1> QED
  BY <1>2, <1>3, <1>4, <1>5

\* One line, a declaration, nothing after it.
LEMMA ShortFile ==
    ASSUME NEW x \in Item, NEW y \in Item
    PROVE  /\ <<x, y>> = (<<x>> \o <<y>>) \o <<>>
           /\ <<y>> = (<<>> \o <<y>>) \o <<>>
           /\ <<x>> \in Seq(Item) /\ <<>> \in Seq(Item)
<1> DEFINE I == Item
<1> HIDE DEF I
<1>1. <<>> \in Seq(I) /\ <<x>> \in Seq(I) /\ <<y>> \in Seq(I)
  BY ShortSeqs DEF I
<1>2. <<x>> \o <<y>> = <<x, y>>
  <2>1. Append(<<x>>, y) = <<x>> \o <<y>>
    BY <1>1, AppendIsConcat DEF I
  <2>2. Append(<<x>>, y) = <<x, y>>
    <3>1. <<x, y>> \in Seq(I) /\ Append(<<x>>, y) \in Seq(I) /\ Len(<<x, y>>) = 2 /\ Len(<<x>>) = 1
      BY <1>1, ShortSeqs, AppendProperties DEF I
    <3>2. /\ Len(Append(<<x>>, y)) = 2
          /\ \A i \in 1..2 : Append(<<x>>, y)[i] = <<x, y>>[i]
      BY <1>1, <3>1, AppendProperties DEF I
    <3> QED
      BY <3>1, <3>2, SeqEqual
  <2> QED
    BY <2>1, <2>2
<1>3. <<>> \o <<y>> = <<y>>
  BY <1>1, ConcatEmptySeq
<1>4. <<x, y>> \o <<>> = <<x, y>> /\ <<y>> \o <<>> = <<y>>
  <2>1. <<x, y>> \in Seq(I)
    BY ShortSeqs DEF I
  <2> QED
    BY <1>1, <2>1, ConcatEmptySeq
<1> QED
  BY <1>1, <1>2, <1>3, <1>4 DEF I

\* So has every other header, and that of a wrapper.
LEMMA FileShape ==
    ASSUME schema \in Schemas, NEW f \in Files
    PROVE  \E b, a : Shape(f, b, a)
<1> DEFINE n == f[1]
<1>1. n \in Names /\ f \in Names \X Nat /\ f = <<n, f[2]>>
  BY DEF Files
<1>2. CASE f[2] # 0
  <2> DEFINE to == ElementOf(f)
             x == Include(Header(to))
  <2>1. IsClass(n) /\ f[2] \in 1..Len(schema[n].members)
    BY <1>2 DEF Files
  <2>2. to \in Names
    <3>1. schema[n].members[f[2]] \in Members(n)
      BY <1>1, <2>1, Indexed
    <3> QED
      BY <1>1, <3>1, Typed DEF ElementOf, MemberOf
  <2>3. Anchor(f) = <<"wrapper", f>> /\ Anchor(f) \in Item /\ x \in Item
    BY <1>2, <2>2, Anchors, ItemsAre DEF Item
  <2>4. Contents(f) = <<x, Anchor(f)>>
    BY <1>2, <2>3 DEF Contents, ElementOf
  <2>5. /\ FirstIncludes(f) = {Header(to)}
        /\ FirstNames(f) = {}
    BY <1>2 DEF FirstIncludes, FirstNames
  <2>6. Range(<<x>>) = {x} /\ Range(<<>>) = {}
    BY ShortRanges
  <2>7. x[1] \in Lines
    BY DEF Lines, Include
  <2>8. \A h : Include(h) = x => h = Header(to)
    BY DEF Include
  <2>9. \A h : h = Header(to) => OpenedFirst(f, h) /\ OpenedBy(f, h)
    BY <1>2 DEF OpenedFirst, OpenedBy
  <2>10. Contents(f) = (<<x>> \o <<Anchor(f)>>) \o <<>> /\ <<x>> \in Seq(Item) /\ <<>> \in Seq(Item)
    BY <2>3, <2>4, ShortFile
  <2> HIDE DEF to, x, n
  <2>11. Shape(f, <<x>>, <<>>)
    BY <1>2, <2>3, <2>5, <2>6, <2>7, <2>8, <2>9, <2>10 DEF Shape, x
  <2> QED
    BY <2>11
<1>3. CASE f[2] = 0 /\ IsClass(n)
  <2>1. f = Header(n)
    BY <1>1, <1>3 DEF Header
  <2>2. \E b, a : Shape(Header(n), b, a)
    BY <1>1, <1>3, ClassShape
  <2> QED
    BY <2>1, <2>2
<1>4. CASE f[2] = 0 /\ schema[n].kind \in {"alias", "list"} /\ ~ CyclicAlias(n)
  <2> DEFINE to == schema[n].to
             x == Include(Header(to))
  <2>1. to \in Names /\ ~ IsClass(n)
    BY <1>1, <1>4, Typed
  <2>2. Anchor(f) = <<"using", n>> /\ Anchor(f) \in Item /\ x \in Item
    BY <1>4, <2>1, Anchors, ItemsAre DEF Item
  <2>3. Contents(f) = <<x, Anchor(f)>>
    <3>1. CASE schema[n].kind = "list"
      BY <1>4, <2>1, <2>2, <3>1 DEF Contents
    <3>2. CASE schema[n].kind = "alias"
      <4>1. ~ AliasWouldCycle(n)
        BY <1>4, <3>2 DEF AliasWouldCycle, CyclicAlias
      <4>2. AliasHeader(n) = <<x, Anchor(f)>>
        BY <2>2, <4>1 DEF AliasHeader
      <4> QED
        BY <1>4, <2>1, <3>2, <4>2 DEF Contents
    <3> QED
      BY <1>4, <3>1, <3>2
  <2>4. Uncut[n] = {to} /\ Opens[n] = {to} \ {n}
    BY <1>1, <1>4, <2>1 DEF Uncut, Opens, IsClass, Record
  <2>5. /\ FirstIncludes(f) = {Header(to)}
        /\ FirstNames(f) = {}
    BY <1>4, <2>1, <2>4 DEF FirstIncludes, FirstNames
  <2>6. Range(<<x>>) = {x} /\ Range(<<>>) = {}
    BY ShortRanges
  <2>7. x[1] \in Lines
    BY DEF Lines, Include
  <2>8. \A h : Include(h) = x => h = Header(to)
    BY DEF Include
  <2>9. OpensFirst(n) = {to} \ {n}
    BY <2>1, <2>4 DEF OpensFirst, Record, IsClass
  <2>10. OpenedFirst(f, Header(to)) /\ OpenedBy(f, Header(to))
    BY <1>4, <2>4, <2>9 DEF OpenedFirst, OpenedBy, Mentions, Header
  <2>11. Contents(f) = (<<x>> \o <<Anchor(f)>>) \o <<>> /\ <<x>> \in Seq(Item) /\ <<>> \in Seq(Item)
    BY <2>2, <2>3, ShortFile
  <2> HIDE DEF to, x
  <2>12. Shape(f, <<x>>, <<>>)
    BY <1>4, <2>2, <2>4, <2>5, <2>6, <2>7, <2>8, <2>10, <2>11 DEF Shape, x
  <2> QED
    BY <2>12
<1>5. CASE f[2] = 0 /\ schema[n].kind = "alias" /\ CyclicAlias(n)
  <2> DEFINE to == schema[n].to
             x == <<"declare", to>>
  <2>1. to \in Names /\ ~ IsClass(n)
    BY <1>1, <1>5, Typed
  <2>2. Anchor(f) = <<"using", n>> /\ Anchor(f) \in Item /\ x \in Item
    BY <1>5, <2>1, Anchors, ItemsAre DEF Item
  <2>3. Contents(f) = <<x, Anchor(f)>>
    <3>1. AliasWouldCycle(n)
      BY <1>5 DEF AliasWouldCycle, CyclicAlias
    <3>2. AliasHeader(n) = <<x, Anchor(f)>>
      BY <2>2, <3>1 DEF AliasHeader
    <3> QED
      BY <1>5, <2>1, <3>2 DEF Contents
  <2>4. Uncut[n] = {} /\ Opens[n] = {}
    BY <1>1, <1>5, <2>1 DEF Uncut, Opens, IsClass, Record
  <2>5. /\ FirstIncludes(f) = {}
        /\ FirstNames(f) \subseteq {to}
    BY <1>5, <2>1, <2>4 DEF FirstIncludes, FirstNames
  <2>6. Range(<<x>>) = {x} /\ Range(<<>>) = {}
    BY ShortRanges
  <2>7. x[1] \in Lines
    BY DEF Lines
  <2>8. \A h : Include(h) # x
    BY DEF Include
  <2>9. Contents(f) = (<<x>> \o <<Anchor(f)>>) \o <<>> /\ <<x>> \in Seq(Item) /\ <<>> \in Seq(Item)
    BY <2>2, <2>3, ShortFile
  <2> HIDE DEF to, x
  <2>10. Shape(f, <<x>>, <<>>)
    BY <1>5, <2>2, <2>4, <2>5, <2>6, <2>7, <2>8, <2>9 DEF Shape, x
  <2> QED
    BY <2>10
<1>6. CASE f[2] = 0 /\ schema[n].kind = "leaf"
  <2>1. ~ IsClass(n)
    BY <1>6 DEF IsClass
  <2>2. Anchor(f) = <<"class", n>> /\ Anchor(f) \in Item
    BY <1>6, <2>1, Anchors, ItemsAre DEF Item
  <2>3. Contents(f) = <<Anchor(f)>>
    BY <1>6, <2>1, <2>2 DEF Contents
  <2>4. Uncut[n] = {} /\ Opens[n] = {}
    BY <1>1, <1>6, <2>1 DEF Uncut, Opens, IsClass, Record
  <2>5. /\ FirstIncludes(f) = {}
        /\ FirstNames(f) = {}
    BY <1>6, <2>1, <2>4 DEF FirstIncludes, FirstNames
  <2>6. Range(<<>>) = {}
    BY ShortRanges
  <2>7. Contents(f) = (<<>> \o <<Anchor(f)>>) \o <<>> /\ <<>> \in Seq(Item)
    BY <2>2, <2>3, ShortFile
  <2>8. Shape(f, <<>>, <<>>)
    BY <1>6, <2>2, <2>4, <2>5, <2>6, <2>7 DEF Shape
  <2> QED
    BY <2>8
<1> QED
  BY <1>1, <1>2, <1>3, <1>4, <1>5, <1>6, Typed DEF CyclicAlias

-----------------------------------------------------------------------------
\* What is true while a source file is read, of the lines left (s), the headers
\* opened and the names declared and defined.  A declaration waits for the
\* headers and names it needs, which are read before it or are left before it.
Waiting(s, op, dec) ==
    \A g \in Files : \A j \in 1..Len(s) : s[j] = Anchor(g) =>
       /\ g \in op
       /\ \A h \in FirstIncludes(g) : h \in op \/ \E i \in 1..(j - 1) : s[i] = Include(h)
       /\ \A t \in FirstNames(g) : t \in dec \/ \E i \in 1..(j - 1) : s[i] = <<"declare", t>>

\* What is left before the declaration of d comes from headers under its own.
Beneath(d, f) == \/ f[1] \in Under(d)
                 \/ f = Header(d)
                 \/ f[1] = d /\ f[2] # 0 /\ ElementOf(f) # d
Speaks(x, f) == x \in {Include(f), <<"nested", f>>, Anchor(f)}
Ordered(s) ==
    \A d \in Names, f \in Files : \A j \in 1..Len(s) : s[j] = Anchor(Header(d)) =>
       \A i \in 1..(j - 1) : Speaks(s[i], f) => Beneath(d, f)

\* The definitions are the last line.
SourceLast(s) == \A i \in 1..Len(s) : s[i][1] = "source" => i = Len(s)

\* A nested include is one of those of the unit's own source file.
Nested(n) == IF prefixed /\ schema[n].kind = "list"
               THEN {<<"nested", Header(x)>> : x \in ExtraIncludes(schema[n].to, n)} ELSE {}
NestedAsked(s) == \A i \in 1..Len(s) : s[i][1] = "nested" => s[i] \in Nested(unit)

\* The headers a file opens are opened or left, before the nested includes and
\* the definitions.
Pending(x, s) ==
    \E i \in 1..Len(s) : /\ s[i] = Include(Header(x))
                         /\ \A k \in 1..i : s[k][1] \notin {"nested", "source"}
Promised(x, s, op) == Header(x) \in op \/ Pending(x, s)
Asked(n) == IF Record(n) /\ ~ prefixed THEN OptionalIncludes(n) \cup CyclicElementIncludes(n) ELSE {}
Scheduled(s, op) ==
    /\ Promised(unit, s, op)
    /\ \A x \in Asked(unit) : Promised(x, s, op)
    /\ \A n \in Names : Header(n) \in op => \A d \in Opens[n] : Promised(d, s, op)

\* The headers read up to their declarations.
Past(n, s, op) == Header(n) \in op /\ \A j \in 1..Len(s) : s[j] # Anchor(Header(n))
PastDeclared(s, op, dec, comp) ==
    \A n \in Names : Past(n, s, op) =>
       n \in dec /\ (schema[n].kind \notin {"alias", "list"} => n \in comp)
Followed(s, op) ==
    \A a \in Names : schema[a].kind = "alias" /\ ~ CyclicAlias(a) /\ Past(a, s, op) =>
       Past(schema[a].to, s, op)

\* The first line of s dropped and C put in front: where the lines are.
LEMMA Prepended ==
    ASSUME NEW I, NEW C \in Seq(I), NEW s \in Seq(I), s # <<>>
    PROVE  /\ C \o Tail(s) \in Seq(I)
           /\ Len(C) \in Nat /\ Len(s) \in Nat /\ Len(s) >= 1 /\ Head(s) = s[1]
           /\ Len(C \o Tail(s)) = Len(C) + Len(s) - 1
           /\ \A k \in 1..Len(C) : (C \o Tail(s))[k] = C[k]
           /\ \A i \in 2..Len(s) : /\ Len(C) + i - 1 \in 1..Len(C \o Tail(s))
                                   /\ (C \o Tail(s))[Len(C) + i - 1] = s[i]
           /\ \A j \in 1..Len(C \o Tail(s)) :
                 \/ j \in 1..Len(C)
                 \/ j - Len(C) + 1 \in 2..Len(s) /\ (C \o Tail(s))[j] = s[j - Len(C) + 1]
<1> DEFINE t == Tail(s)
           u == C \o t
<1>1. /\ t \in Seq(I) /\ Len(t) = Len(s) - 1
      /\ \A i \in 1..Len(t) : t[i] = s[i + 1]
  BY HeadTailProperties
<1>2. Len(C) \in Nat /\ Len(s) \in Nat /\ Len(s) >= 1
  BY EmptySeq, LenProperties
<1>3. Head(s) = s[1]
  OBVIOUS
<1> HIDE DEF t
<1>4. /\ u \in Seq(I) /\ Len(u) = Len(C) + Len(t)
      /\ \A i \in 1..Len(C) + Len(t) : u[i] = IF i <= Len(C) THEN C[i] ELSE t[i - Len(C)]
  BY <1>1, ConcatProperties
<1> HIDE DEF u
<1>5. ASSUME NEW k \in 1..Len(C) PROVE u[k] = C[k]
  <2>1. k \in 1..Len(C) + Len(t) /\ k <= Len(C)
    BY <1>1, <1>2
  <2> QED
    BY <1>4, <2>1
<1>6. ASSUME NEW i \in 2..Len(s)
      PROVE  Len(C) + i - 1 \in 1..Len(u) /\ u[Len(C) + i - 1] = s[i]
  <2> DEFINE j == Len(C) + i - 1
  <2>1. j \in 1..Len(C) + Len(t) /\ ~ (j <= Len(C)) /\ j - Len(C) = i - 1
        /\ i - 1 \in 1..Len(t) /\ (i - 1) + 1 = i
    BY <1>1, <1>2
  <2> HIDE DEF j
  <2>2. u[j] = t[i - 1] /\ t[i - 1] = s[i]
    BY <1>1, <1>4, <2>1
  <2> QED
    BY <1>4, <2>1, <2>2 DEF j
<1>7. ASSUME NEW j \in 1..Len(u), j \notin 1..Len(C)
      PROVE  j - Len(C) + 1 \in 2..Len(s) /\ u[j] = s[j - Len(C) + 1]
  <2>1. j \in 1..Len(C) + Len(t) /\ ~ (j <= Len(C)) /\ j - Len(C) \in 1..Len(t)
        /\ (j - Len(C)) + 1 \in 2..Len(s)
    BY <1>1, <1>2, <1>4, <1>7
  <2>2. u[j] = t[j - Len(C)] /\ t[j - Len(C)] = s[(j - Len(C)) + 1]
    BY <1>1, <1>4, <2>1
  <2> QED
    BY <2>1, <2>2
<1> QED
  BY <1>1, <1>2, <1>3, <1>4, <1>5, <1>6, <1>7 DEF t, u

-----------------------------------------------------------------------------
\* A file line by line: p is the line of its declaration.
Placed(f, p) ==
    LET C == Contents(f)
    IN /\ C \in Seq(Item) /\ p \in 1..Len(C) /\ C[p] = Anchor(f)
       /\ \A k \in 1..Len(C) : k # p => C[k][1] \in Lines
       /\ \A h \in FirstIncludes(f) : \E k \in 1..(p - 1) : C[k] = Include(h)
       /\ \A t \in FirstNames(f) : \E k \in 1..(p - 1) : C[k] = <<"declare", t>>
       /\ f[2] = 0 => \A d \in Opens[f[1]] : \E k \in 1..Len(C) : C[k] = Include(Header(d))
       /\ \A h \in Files : \A k \in 1..(p - 1) : C[k] = Include(h) => OpenedFirst(f, h)
       /\ \A h \in Files : \A k \in 1..Len(C) : C[k] = Include(h) => OpenedBy(f, h)

\* Every file has its declaration on one line.
LEMMA FilePlaced ==
    ASSUME schema \in Schemas, NEW f \in Files
    PROVE  \E p \in Nat : Placed(f, p)
<1> DEFINE C == Contents(f)
           A == Anchor(f)
<1>1. PICK b, a : Shape(f, b, a)
  BY FileShape
<1>2. /\ b \in Seq(Item) /\ a \in Seq(Item) /\ A \in Item
      /\ C = (b \o <<A>>) \o a
      /\ \A x \in Range(b) \cup Range(a) : x[1] \in Lines
  BY <1>1 DEF Shape
<1> DEFINE I == Item
           p == Len(b) + 1
           ba == b \o <<A>>
<1>3. /\ b \in Seq(I) /\ a \in Seq(I) /\ <<A>> \in Seq(I) /\ Len(<<A>>) = 1 /\ <<A>>[1] = A
  BY <1>2, ShortSeqs
<1> HIDE DEF I, C, A
<1>4. /\ ba \in Seq(I) /\ Len(ba) = Len(b) + 1
      /\ \A i \in 1..Len(b) + 1 : ba[i] = IF i <= Len(b) THEN b[i] ELSE <<A>>[i - Len(b)]
  BY <1>3, ConcatProperties
<1>5. Len(b) \in Nat /\ Len(a) \in Nat
  BY <1>3, LenProperties
<1> HIDE DEF ba
<1>6. /\ C \in Seq(I) /\ Len(C) = p + Len(a)
      /\ \A i \in 1..p + Len(a) : C[i] = IF i <= p THEN ba[i] ELSE a[i - p]
  <2>1. /\ ba \o a \in Seq(I) /\ Len(ba \o a) = Len(ba) + Len(a)
        /\ \A i \in 1..Len(ba) + Len(a) : (ba \o a)[i] = IF i <= Len(ba) THEN ba[i] ELSE a[i - Len(ba)]
    <3>1. ba \in Seq(I) /\ a \in Seq(I)
      BY <1>3, <1>4
    <3> QED
      BY <3>1, ConcatProperties
  <2> QED
    BY <1>2, <1>4, <2>1 DEF ba
<1>7. p \in 1..Len(C) /\ C[p] = A
  <2>1. p \in 1..p + Len(a) /\ p <= p /\ p \in 1..Len(b) + 1 /\ ~ (p <= Len(b)) /\ p - Len(b) = 1
    BY <1>5
  <2>2. C[p] = ba[p] /\ ba[p] = <<A>>[1]
    BY <1>4, <1>6, <2>1
  <2> QED
    BY <1>3, <1>6, <2>1, <2>2
<1>8. ASSUME NEW k \in 1..(p - 1) PROVE k \in 1..Len(b) /\ C[k] = b[k] /\ k \in 1..Len(C) /\ k # p
  <2>1. k \in 1..p + Len(a) /\ k <= p /\ k \in 1..Len(b) + 1 /\ k <= Len(b) /\ k # p
    BY <1>5
  <2>2. C[k] = ba[k] /\ ba[k] = b[k]
    BY <1>4, <1>6, <2>1
  <2> QED
    BY <1>6, <2>1, <2>2
<1>9. ASSUME NEW k \in 1..Len(C), k > p PROVE k - p \in 1..Len(a) /\ C[k] = a[k - p]
  <2>1. k \in 1..p + Len(a) /\ ~ (k <= p) /\ k - p \in 1..Len(a)
    BY <1>5, <1>6, <1>9
  <2> QED
    BY <1>6, <2>1
<1>10. ASSUME NEW k \in 1..Len(a) PROVE p + k \in 1..Len(C) /\ C[p + k] = a[k]
  <2>1. p + k \in 1..p + Len(a) /\ ~ (p + k <= p) /\ (p + k) - p = k
    BY <1>5
  <2> QED
    BY <1>6, <2>1
<1>11. /\ \A k \in 1..Len(b) : b[k] \in Range(b)
       /\ \A k \in 1..Len(a) : a[k] \in Range(a)
       /\ \A x \in Range(b) : \E k \in 1..Len(b) : b[k] = x
       /\ \A x \in Range(a) : \E k \in 1..Len(a) : a[k] = x
  BY <1>3, LenProperties DEF Range
<1>12. 1..(p - 1) = 1..Len(b) /\ 1..(p - 1) \subseteq 1..Len(C)
  BY <1>5, <1>6
<1>13. \A x \in Range(b) : \E k \in 1..(p - 1) : C[k] = x
  BY <1>8, <1>11, <1>12
<1>14. \A x \in Range(b) \cup Range(a) : \E k \in 1..Len(C) : C[k] = x
  BY <1>10, <1>11, <1>12, <1>13
<1>15. \A k \in 1..(p - 1) : C[k] \in Range(b)
  BY <1>8, <1>11
<1>16. ASSUME NEW k \in 1..Len(C), k # p PROVE C[k] \in Range(b) \cup Range(a)
  <2>1. k \in 1..(p - 1) \/ k > p
    BY <1>5, <1>6, <1>16
  <2> QED
    BY <1>9, <1>11, <1>15, <2>1
<1>17. A[1] \notin Lines
  BY Anchors DEF Lines, A
<1>18. \A h \in Files : Include(h)[1] \in Lines
  BY DEF Include, Lines
<1>19. p \in Nat
  BY <1>5
<1> HIDE DEF p
<1>20. \A h \in FirstIncludes(f) : \E k \in 1..(p - 1) : C[k] = Include(h)
  BY <1>1, <1>13 DEF Shape
<1>21. \A t \in FirstNames(f) : \E k \in 1..(p - 1) : C[k] = <<"declare", t>>
  BY <1>1, <1>13 DEF Shape
<1>22. f[2] = 0 => \A d \in Opens[f[1]] : \E k \in 1..Len(C) : C[k] = Include(Header(d))
  BY <1>1, <1>14 DEF Shape
<1>23. \A h \in Files : \A k \in 1..(p - 1) : C[k] = Include(h) => OpenedFirst(f, h)
  <2>1. \A h \in Files : Include(h) \in Range(b) => OpenedFirst(f, h)
    BY <1>1 DEF Shape
  <2> QED
    BY <1>15, <2>1
<1>24. \A h \in Files : \A k \in 1..Len(C) : C[k] = Include(h) => OpenedBy(f, h)
  <2>1. \A h \in Files : Include(h) \in Range(b) \cup Range(a) => OpenedBy(f, h)
    BY <1>1 DEF Shape
  <2>2. \A h \in Files : \A k \in 1..Len(C) : C[k] = Include(h) => k # p
    BY <1>7, <1>17, <1>18
  <2> QED
    BY <1>16, <2>1, <2>2
<1>25. Placed(f, p)
  BY <1>2, <1>6, <1>7, <1>16, <1>20, <1>21, <1>22, <1>23, <1>24 DEF Placed, C, A, I
<1> QED
  BY <1>19, <1>25

-----------------------------------------------------------------------------
\* The first of the lines is read, and C put in its place.
LEMMA WaitingStep ==
    ASSUME NEW s \in Seq(Item), s # <<>>, NEW C \in Seq(Item), NEW op, NEW dec, NEW op2, NEW dec2,
           op \subseteq op2, dec \subseteq dec2, Waiting(s, op, dec),
           \A h : s[1] = Include(h) => h \in op2,
           \A t : s[1] = <<"declare", t>> => t \in dec2,
           \A g \in Files : \A j \in 1..Len(C) : C[j] = Anchor(g) =>
              /\ g \in op2
              /\ \A h \in FirstIncludes(g) : \E i \in 1..(j - 1) : C[i] = Include(h)
              /\ \A t \in FirstNames(g) : \E i \in 1..(j - 1) : C[i] = <<"declare", t>>
    PROVE  Waiting(C \o Tail(s), op2, dec2)
<1> DEFINE u == C \o Tail(s)
           c == Len(C)
           I == Item
<1>1. s \in Seq(I) /\ C \in Seq(I)
  OBVIOUS
<1> HIDE DEF I
<1>2. /\ c \in Nat /\ Len(s) \in Nat
      /\ \A k \in 1..c : u[k] = C[k]
      /\ \A i \in 2..Len(s) : c + i - 1 \in 1..Len(u) /\ u[c + i - 1] = s[i]
      /\ \A j \in 1..Len(u) : \/ j \in 1..c
                              \/ j - c + 1 \in 2..Len(s) /\ u[j] = s[j - c + 1]
  BY <1>1, Prepended
<1> HIDE DEF u
<1> SUFFICES ASSUME NEW g \in Files, NEW j \in 1..Len(u), u[j] = Anchor(g)
             PROVE  /\ g \in op2
                    /\ \A h \in FirstIncludes(g) : h \in op2 \/ \E i \in 1..(j - 1) : u[i] = Include(h)
                    /\ \A t \in FirstNames(g) : t \in dec2 \/ \E i \in 1..(j - 1) : u[i] = <<"declare", t>>
  BY DEF Waiting, u
<1>3. CASE j \in 1..c
  <2>1. C[j] = Anchor(g)
    BY <1>2, <1>3
  <2>2. \A i \in 1..(j - 1) : u[i] = C[i]
    BY <1>2, <1>3
  <2>3. /\ g \in op2
        /\ \A h \in FirstIncludes(g) : \E i \in 1..(j - 1) : C[i] = Include(h)
        /\ \A t \in FirstNames(g) : \E i \in 1..(j - 1) : C[i] = <<"declare", t>>
    BY <1>3, <2>1
  <2> HIDE DEF c
  <2>4. ASSUME NEW h \in FirstIncludes(g) PROVE \E i \in 1..(j - 1) : u[i] = Include(h)
    BY <2>2, <2>3
  <2>5. ASSUME NEW t \in FirstNames(g) PROVE \E i \in 1..(j - 1) : u[i] = <<"declare", t>>
    BY <2>2, <2>3
  <2> QED
    BY <2>3, <2>4, <2>5
<1>4. CASE j \notin 1..c
  <2> DEFINE k == j - c + 1
  <2>1. k \in 2..Len(s) /\ s[k] = Anchor(g) /\ k \in 1..Len(s)
    BY <1>2, <1>4
  <2>2. /\ g \in op
        /\ \A h \in FirstIncludes(g) : h \in op \/ \E i \in 1..(k - 1) : s[i] = Include(h)
        /\ \A t \in FirstNames(g) : t \in dec \/ \E i \in 1..(k - 1) : s[i] = <<"declare", t>>
    <3> HIDE DEF k
    <3> QED
      BY <2>1 DEF Waiting
  <2>3. ASSUME NEW x, NEW i \in 1..(k - 1), s[i] = x
        PROVE  s[1] = x \/ \E l \in 1..(j - 1) : u[l] = x
    <3>1. CASE i = 1
      BY <2>3, <3>1
    <3>2. CASE i # 1
      <4>1. i \in 2..Len(s) /\ c + i - 1 \in 1..(j - 1)
        BY <1>2, <2>1, <3>2
      <4>2. u[c + i - 1] = x
        BY <1>2, <2>3, <4>1
      <4> QED
        BY <4>1, <4>2
    <3> QED
      BY <3>1, <3>2
  <2> HIDE DEF k
  <2>4. \A x : (\E i \in 1..(k - 1) : s[i] = x) => s[1] = x \/ \E l \in 1..(j - 1) : u[l] = x
    BY <2>3
  <2>5. ASSUME NEW h \in FirstIncludes(g) PROVE h \in op2 \/ \E i \in 1..(j - 1) : u[i] = Include(h)
    BY <2>2, <2>4
  <2>6. ASSUME NEW t \in FirstNames(g) PROVE t \in dec2 \/ \E i \in 1..(j - 1) : u[i] = <<"declare", t>>
    BY <2>2, <2>4
  <2> QED
    BY <2>2, <2>5, <2>6
<1> QED
  BY <1>3, <1>4

\* What is left before a declaration stays beneath it, if C adds only such lines.
LEMMA OrderedStep ==
    ASSUME NEW s \in Seq(Item), s # <<>>, NEW C \in Seq(Item), Ordered(s),
           \A d \in Names, f \in Files : \A j \in 1..Len(C) : C[j] = Anchor(Header(d)) =>
              \A i \in 1..(j - 1) : Speaks(C[i], f) => Beneath(d, f),
           \A d \in Names, f \in Files : \A j \in 2..Len(s) : s[j] = Anchor(Header(d)) =>
              \A i \in 1..Len(C) : Speaks(C[i], f) => Beneath(d, f)
    PROVE  Ordered(C \o Tail(s))
<1> DEFINE u == C \o Tail(s)
           c == Len(C)
           I == Item
<1>1. s \in Seq(I) /\ C \in Seq(I)
  OBVIOUS
<1> HIDE DEF I
<1>2. /\ c \in Nat /\ Len(s) \in Nat
      /\ \A k \in 1..c : u[k] = C[k]
      /\ \A j \in 1..Len(u) : \/ j \in 1..c
                              \/ j - c + 1 \in 2..Len(s) /\ u[j] = s[j - c + 1]
      /\ Len(u) = c + Len(s) - 1
  BY <1>1, Prepended
<1> HIDE DEF u
<1> SUFFICES ASSUME NEW d \in Names, NEW f \in Files, NEW j \in 1..Len(u), u[j] = Anchor(Header(d)),
                    NEW i \in 1..(j - 1), Speaks(u[i], f)
             PROVE  Beneath(d, f)
  BY DEF Ordered, u
<1>3. i \in 1..Len(u)
  BY <1>2
<1>4. CASE j \in 1..c
  <2>1. C[j] = Anchor(Header(d)) /\ u[i] = C[i]
    BY <1>2, <1>4
  <2> HIDE DEF c
  <2> QED
    BY <1>4, <2>1 DEF c
<1>5. CASE j \notin 1..c /\ i \in 1..c
  <2> DEFINE k == j - c + 1
  <2>1. k \in 2..Len(s) /\ s[k] = Anchor(Header(d)) /\ u[i] = C[i]
    BY <1>2, <1>5
  <2> HIDE DEF c, k
  <2> QED
    BY <1>5, <2>1 DEF c
<1>6. CASE j \notin 1..c /\ i \notin 1..c
  <2> DEFINE k == j - c + 1
             l == i - c + 1
  <2>1. k \in 1..Len(s) /\ s[k] = Anchor(Header(d)) /\ l \in 1..(k - 1) /\ u[i] = s[l]
    BY <1>2, <1>3, <1>6
  <2> HIDE DEF k, l
  <2> QED
    BY <2>1 DEF Ordered
<1> QED
  BY <1>4, <1>5, <1>6

-----------------------------------------------------------------------------
\* The definitions stay the last line.
LEMMA SourceLastStep ==
    ASSUME NEW s \in Seq(Item), s # <<>>, NEW C \in Seq(Item), SourceLast(s),
           \A k \in 1..Len(C) : C[k][1] # "source"
    PROVE  SourceLast(C \o Tail(s))
<1> DEFINE u == C \o Tail(s)
           I == Item
<1>1. s \in Seq(I) /\ C \in Seq(I)
  OBVIOUS
<1> HIDE DEF I
<1>2. /\ Len(C) \in Nat /\ Len(s) \in Nat
      /\ \A k \in 1..Len(C) : u[k] = C[k]
      /\ \A j \in 1..Len(u) : \/ j \in 1..Len(C)
                              \/ j - Len(C) + 1 \in 2..Len(s) /\ u[j] = s[j - Len(C) + 1]
      /\ Len(u) = Len(C) + Len(s) - 1
  BY <1>1, Prepended
<1> HIDE DEF u
<1> SUFFICES ASSUME NEW j \in 1..Len(u), u[j][1] = "source" PROVE j = Len(u)
  BY DEF SourceLast, u
<1>3. j \notin 1..Len(C)
  BY <1>2
<1> DEFINE k == j - Len(C) + 1
<1>4. k \in 1..Len(s) /\ s[k][1] = "source"
  BY <1>2, <1>3
<1> HIDE DEF k
<1>5. k = Len(s)
  BY <1>4 DEF SourceLast
<1> QED
  BY <1>2, <1>5 DEF k

\* The nested includes left are those that were left.
LEMMA NestedStep ==
    ASSUME NEW s \in Seq(Item), s # <<>>, NEW C \in Seq(Item), NestedAsked(s),
           \A k \in 1..Len(C) : C[k][1] # "nested"
    PROVE  NestedAsked(C \o Tail(s))
<1> DEFINE u == C \o Tail(s)
           I == Item
<1>1. s \in Seq(I) /\ C \in Seq(I)
  OBVIOUS
<1> HIDE DEF I
<1>2. /\ \A k \in 1..Len(C) : u[k] = C[k]
      /\ \A j \in 1..Len(u) : \/ j \in 1..Len(C)
                              \/ j - Len(C) + 1 \in 2..Len(s) /\ u[j] = s[j - Len(C) + 1]
      /\ Len(s) \in Nat
  BY <1>1, Prepended
<1> HIDE DEF u
<1> SUFFICES ASSUME NEW j \in 1..Len(u), u[j][1] = "nested" PROVE u[j] \in Nested(unit)
  BY DEF NestedAsked, u
<1>3. j \notin 1..Len(C)
  BY <1>2
<1> DEFINE k == j - Len(C) + 1
<1>4. k \in 1..Len(s) /\ u[j] = s[k]
  BY <1>2, <1>3
<1> HIDE DEF k
<1> QED
  BY <1>4 DEF NestedAsked

\* A header promised stays promised, and those in C are.
LEMMA PromisedStep ==
    ASSUME NEW s \in Seq(Item), s # <<>>, NEW C \in Seq(Item), NEW op, NEW op2, op \subseteq op2,
           \A k \in 1..Len(C) : C[k][1] \notin {"nested", "source"},
           \A h : s[1] = Include(h) => h \in op2,
           NEW x, Promised(x, s, op) \/ \E k \in 1..Len(C) : C[k] = Include(Header(x))
    PROVE  Promised(x, C \o Tail(s), op2)
<1> DEFINE u == C \o Tail(s)
           c == Len(C)
           I == Item
           X == Include(Header(x))
           Far == {"nested", "source"}
<1>1. s \in Seq(I) /\ C \in Seq(I)
  OBVIOUS
<1> HIDE DEF I
<1>2. /\ c \in Nat /\ Len(s) \in Nat
      /\ \A k \in 1..c : u[k] = C[k]
      /\ \A i \in 2..Len(s) : c + i - 1 \in 1..Len(u) /\ u[c + i - 1] = s[i]
      /\ \A j \in 1..Len(u) : \/ j \in 1..c
                              \/ j - c + 1 \in 2..Len(s) /\ u[j] = s[j - c + 1]
      /\ Len(u) = c + Len(s) - 1 /\ Len(s) >= 1
  BY <1>1, Prepended
<1>3. \A k \in 1..c : C[k][1] \notin Far
  OBVIOUS
<1> HIDE DEF u, c
<1>4. CASE \E k \in 1..c : C[k] = X
  <2>1. PICK k \in 1..c : C[k] = X
    BY <1>4
  <2>2. k \in 1..Len(u) /\ u[k] = X
    BY <1>2, <2>1
  <2>3. ASSUME NEW i \in 1..k PROVE u[i][1] \notin Far
    <3>1. i \in 1..c
      BY <1>2, <2>1
    <3> QED
      BY <1>2, <1>3, <3>1
  <2>4. Pending(x, u)
    BY <2>2, <2>3 DEF Pending
  <2> QED
    BY <2>4 DEF Promised, u
<1>5. CASE Header(x) \in op
  BY <1>5 DEF Promised
<1>6. CASE Pending(x, s)
  <2>1. PICK i \in 1..Len(s) : s[i] = X /\ \A k \in 1..i : s[k][1] \notin Far
    BY <1>6 DEF Pending
  <2>2. CASE i = 1
    <3>1. Header(x) \in op2
      BY <2>1, <2>2
    <3> QED
      BY <3>1 DEF Promised
  <2>3. CASE i # 1
    <3> DEFINE j == c + i - 1
    <3>1. j \in 1..Len(u) /\ u[j] = X
      BY <1>2, <2>1, <2>3
    <3>2. ASSUME NEW k \in 1..j PROVE u[k][1] \notin Far
      <4>1. k \in 1..Len(u)
        BY <1>2, <3>1
      <4>2. CASE k \in 1..c
        BY <1>2, <1>3, <4>2
      <4>3. CASE k \notin 1..c
        <5>1. k - c + 1 \in 1..i /\ u[k] = s[k - c + 1]
          BY <1>2, <4>1, <4>3
        <5> QED
          BY <2>1, <5>1
      <4> QED
        BY <4>2, <4>3
    <3> HIDE DEF j
    <3>3. Pending(x, u)
      BY <3>1, <3>2 DEF Pending
    <3> QED
      BY <3>3 DEF Promised, u
  <2> QED
    BY <2>2, <2>3
<1>7. (\E k \in 1..c : C[k] = X) \/ Header(x) \in op \/ Pending(x, s)
  BY DEF Promised, c
<1> QED
  BY <1>4, <1>5, <1>6, <1>7

\* What is past stays past; what becomes past is what was read.
LEMMA PastGrows ==
    ASSUME NEW s \in Seq(Item), s # <<>>, NEW C \in Seq(Item), NEW op, NEW op2, op \subseteq op2,
           NEW n, Past(n, s, op) \/ (Header(n) \in op2 /\ \A j \in 2..Len(s) : s[j] # Anchor(Header(n))),
           \A k \in 1..Len(C) : C[k] # Anchor(Header(n))
    PROVE  Past(n, C \o Tail(s), op2)
<1> DEFINE u == C \o Tail(s)
           I == Item
<1>1. s \in Seq(I) /\ C \in Seq(I)
  OBVIOUS
<1> HIDE DEF I
<1>2. /\ \A k \in 1..Len(C) : u[k] = C[k]
      /\ \A j \in 1..Len(u) : \/ j \in 1..Len(C)
                              \/ j - Len(C) + 1 \in 2..Len(s) /\ u[j] = s[j - Len(C) + 1]
      /\ Len(s) \in Nat
  BY <1>1, Prepended
<1>3. Header(n) \in op2 /\ \A j \in 2..Len(s) : s[j] # Anchor(Header(n))
  BY <1>2 DEF Past
<1> HIDE DEF u
<1>4. \A j \in 1..Len(u) : u[j] # Anchor(Header(n))
  BY <1>2, <1>3
<1> QED
  BY <1>3, <1>4 DEF Past, u

\* What is past has no declaration in C, and was past unless it has just been read.
LEMMA PastBefore ==
    ASSUME NEW s \in Seq(Item), s # <<>>, NEW C \in Seq(Item), NEW op, NEW op2,
           NEW n, Past(n, C \o Tail(s), op2)
    PROVE  /\ \A k \in 1..Len(C) : C[k] # Anchor(Header(n))
           /\ Header(n) \in op /\ s[1] # Anchor(Header(n)) => Past(n, s, op)
           /\ Header(n) \in op2
<1> DEFINE u == C \o Tail(s)
           I == Item
<1>1. s \in Seq(I) /\ C \in Seq(I)
  OBVIOUS
<1> HIDE DEF I
<1>2. /\ \A k \in 1..Len(C) : u[k] = C[k]
      /\ \A i \in 2..Len(s) : Len(C) + i - 1 \in 1..Len(u) /\ u[Len(C) + i - 1] = s[i]
      /\ Len(C) \in Nat /\ Len(s) \in Nat /\ Len(u) = Len(C) + Len(s) - 1 /\ Len(s) >= 1
  BY <1>1, Prepended
<1>3. \A j \in 1..Len(u) : u[j] # Anchor(Header(n))
  BY DEF Past
<1> HIDE DEF u
<1>4. \A k \in 1..Len(C) : k \in 1..Len(u)
  BY <1>2
<1>5. \A k \in 1..Len(C) : C[k] # Anchor(Header(n))
  BY <1>2, <1>3, <1>4
<1>6. \A i \in 2..Len(s) : s[i] # Anchor(Header(n))
  BY <1>2, <1>3
<1>7. s[1] # Anchor(Header(n)) => \A i \in 1..Len(s) : s[i] # Anchor(Header(n))
  BY <1>2, <1>6
<1>8. Header(n) \in op2
  BY DEF Past
<1> QED
  BY <1>5, <1>7, <1>8 DEF Past

-----------------------------------------------------------------------------
\* What is read under a header.
LEMMA ElementOpens ==
    ASSUME schema \in Schemas, NEW f \in Files, f[2] # 0
    PROVE  /\ ElementOf(f) \in Names /\ f[1] \in Names
           /\ ElementOf(f) # f[1] => /\ ElementOf(f) \in Uncut[f[1]]
                                     /\ ElementOf(f) \in OpensFirst(f[1])
                                     /\ ElementOf(f) \in Opens[f[1]]
<1> DEFINE n == f[1]
           m == schema[n].members[f[2]]
<1>1. n \in Names /\ IsClass(n) /\ f[2] \in 1..Len(schema[n].members) /\ m.many
  BY DEF Files
<1>2. m \in Members(n)
  BY <1>1, Indexed
<1>3. m.to \in Names /\ ElementOf(f) = m.to
  BY <1>1, <1>2, Typed DEF MemberOf, ElementOf
<1> HIDE DEF m, n
<1>4. ASSUME m.to # n PROVE m.to \in Uncut[n] /\ m.to \in OpensFirst(n)
  <2>1. ~ Cut(n, m)
    BY <1>1, <1>4 DEF Cut
  <2>2. m.to \in Uncut[n]
    BY <1>1, <1>2, <2>1 DEF Uncut
  <2>3. m.to \in ThroughContainers[n]
    BY <1>1, <1>2 DEF ThroughContainers
  <2>4. CASE Record(n)
    <3>1. m.to \in Opens[n]
      BY <1>1, <1>4, <2>2, <2>3, <2>4 DEF Opens
    <3> QED
      BY <2>2, <2>4, <3>1 DEF OpensFirst
  <2>5. CASE ~ Record(n)
    BY <1>4, <2>2, <2>5 DEF OpensFirst
  <2> QED
    BY <2>2, <2>4, <2>5
<1>5. OpensFirst(n) \subseteq Opens[n]
  BY <1>1, OpensGraph
<1> QED
  BY <1>1, <1>3, <1>4, <1>5 DEF n

\* Under(d) is closed but for d itself.
LEMMA UnderHolds ==
    ASSUME schema \in Schemas, NEW d \in Names
    PROVE  /\ OpensFirst(d) \subseteq Under(d) /\ Under(d) \subseteq Names
           /\ \A x \in Under(d) : \A y \in Opens[x] : y # d => y \in Under(d)
           /\ d \notin Under(d)
<1> DEFINE step == [x \in Names |-> Opens[x] \ {d}]
           U == Under(d)
           T == Names \ {d}
<1>1. Opens \in Graph /\ OpensFirst(d) \subseteq Opens[d]
  BY OpensGraph
<1>2. step \in [Names -> SUBSET Names]
  BY <1>1 DEF Graph
<1>3. OpensFirst(d) \in SUBSET Names /\ OpensFirst(d) \subseteq T
  <2>1. Opens[d] \subseteq Names
    BY <1>1 DEF Graph
  <2>2. d \notin OpensFirst(d)
    BY DEF OpensFirst, Opens
  <2> QED
    BY <1>1, <2>1, <2>2
<1>4. U = Reach(OpensFirst(d), step)
  BY DEF Under
<1>5. \A x \in Names : step[x] = Opens[x] \ {d}
  OBVIOUS
<1>6. \A x \in T : step[x] \subseteq T
  BY <1>1 DEF Graph
<1> HIDE DEF step, U, T
<1>7. OpensFirst(d) \subseteq U /\ U \subseteq Names /\ \A x \in U : step[x] \subseteq U
  BY <1>2, <1>3, <1>4, ReachCloses
<1>8. U \subseteq T
  BY <1>3, <1>4, <1>6, ReachLeast
<1>9. \A x \in U : \A y \in Opens[x] : y # d => y \in U
  BY <1>5, <1>7
<1> QED
  BY <1>7, <1>8, <1>9 DEF U, T

\* A header beneath d opens headers beneath d.
LEMMA BeneathOpens ==
    ASSUME schema \in Schemas, NEW d \in Names, NEW g \in Files, NEW h \in Files
    PROVE  /\ Beneath(d, g) /\ g # Header(d) /\ OpenedBy(g, h) => Beneath(d, h)
           /\ OpenedFirst(Header(d), h) => Beneath(d, h)
<1>1. \A f \in Files : f = <<f[1], f[2]>> /\ f[1] \in Names
  BY DEF Files
<1>2. /\ OpensFirst(d) \subseteq Under(d)
      /\ \A x \in Under(d) : \A y \in Opens[x] : y # d => y \in Under(d)
  BY UnderHolds
<1>3. \A f \in Files : f[2] = 0 /\ f[1] = d => f = Header(d)
  BY <1>1 DEF Header
<1>4. \A y : Header(y)[1] = y /\ Header(y)[2] = 0
  BY DEF Header
<1>5. ASSUME Beneath(d, g), g # Header(d), OpenedBy(g, h) PROVE Beneath(d, h)
  <2>1. g[1] \in Under(d) \/ (g[1] = d /\ g[2] # 0 /\ ElementOf(g) # d)
    BY <1>5 DEF Beneath
  <2>2. CASE g[2] # 0
    <3>1. h = Header(ElementOf(g)) /\ h[1] = ElementOf(g)
      BY <1>4, <1>5, <2>2 DEF OpenedBy
    <3>2. CASE ElementOf(g) = d
      BY <3>1, <3>2 DEF Beneath
    <3>3. CASE ElementOf(g) # d /\ g[1] = d
      <4>1. ElementOf(g) \in OpensFirst(d)
        BY <2>2, <3>3, ElementOpens
      <4> QED
        BY <1>2, <3>1, <4>1 DEF Beneath
    <3>4. CASE ElementOf(g) # d /\ g[1] \in Under(d)
      <4>1. ElementOf(g) = g[1] \/ ElementOf(g) \in Opens[g[1]]
        BY <2>2, ElementOpens
      <4> QED
        BY <1>2, <3>1, <3>4, <4>1 DEF Beneath
    <3> QED
      BY <2>1, <3>2, <3>3, <3>4
  <2>3. CASE g[2] = 0
    <3>1. g[1] \in Under(d)
      BY <2>1, <2>3
    <3>2. h[1] = g[1] \/ (h[2] = 0 /\ h[1] \in Opens[g[1]])
      BY <1>5, <2>3 DEF OpenedBy, Mentions
    <3>3. h[1] \in Under(d) \/ (h[2] = 0 /\ h[1] = d)
      BY <1>2, <3>1, <3>2
    <3> QED
      BY <1>3, <3>3 DEF Beneath
  <2> QED
    BY <2>2, <2>3, <1>1 DEF Files
<1>6. ASSUME OpenedFirst(Header(d), h) PROVE Beneath(d, h)
  <2>1. /\ Mentions(d, OpensFirst(d), h)
        /\ h[2] # 0 => h[1] = d /\ ElementOf(h) # h[1]
    BY <1>4, <1>6 DEF OpenedFirst
  <2>2. CASE h[2] # 0
    BY <2>1, <2>2 DEF Beneath
  <2>3. CASE h[2] = 0 /\ h[1] = d
    BY <1>3, <2>3 DEF Beneath
  <2>4. CASE h[2] = 0 /\ h[1] # d
    <3>1. h[1] \in OpensFirst(d)
      BY <2>1, <2>4 DEF Mentions
    <3> QED
      BY <1>2, <3>1 DEF Beneath
  <2> QED
    BY <2>2, <2>3, <2>4
<1> QED
  BY <1>5, <1>6

-----------------------------------------------------------------------------
\* The inductive invariant.
State(s, op, dec, comp) ==
    /\ s \in Seq(Item) /\ op \subseteq Files
    /\ Waiting(s, op, dec) /\ Ordered(s) /\ SourceLast(s) /\ NestedAsked(s) /\ Scheduled(s, op)
    /\ PastDeclared(s, op, dec, comp)
    /\ Regular => Followed(s, op)

\* At a declaration, what it needs has been read up to its own.
LEMMA AtDeclaration ==
    ASSUME schema \in Schemas, Regular, NEW s \in Seq(Item), s # <<>>, NEW op, NEW dec,
           Waiting(s, op, dec), Ordered(s),
           NEW g \in Files, s[1] = Anchor(g), NEW d \in Names, Header(d) \in FirstIncludes(g)
    PROVE  Past(d, s, op)
<1>1. Len(s) \in Nat /\ 1 \in 1..Len(s)
  BY EmptySeq, LenProperties
<1>2. /\ \A n \in Names : ~ Reaches(n, n, Uncut)
      /\ \A n \in Names : \A x \in Uncut[n] : n \notin Under(x)
  BY DEF Regular
<1>3. \A n \in Names : n \notin Uncut[n]
  <2> SUFFICES ASSUME NEW n \in Names, n \in Uncut[n] PROVE FALSE
    OBVIOUS
  <2>1. Uncut \in Graph
    BY Graphs
  <2>2. n \in Reach({n}, Uncut)
    BY <2>1, ReachFrom
  <2> QED
    BY <1>2, <2>2 DEF Reaches
<1>4. \A x, y : Header(x) = Header(y) <=> x = y
  BY DEF Header
<1>5. /\ Header(d) \in Files /\ Header(d)[1] = d /\ Header(d)[2] = 0
      /\ g[1] \in Names
  BY ItemsAre DEF Header, Files
<1>6. g[2] = 0 => d \in Uncut[g[1]] /\ g = Header(g[1])
  <2> SUFFICES ASSUME g[2] = 0 PROVE d \in Uncut[g[1]]
    BY Anchors
  <2>1. PICK x \in Uncut[g[1]] : Header(d) = Header(x)
    BY DEF FirstIncludes
  <2> QED
    BY <1>4, <2>1
<1>7. g[2] # 0 => d = ElementOf(g) /\ g # Header(d)
  <2> SUFFICES ASSUME g[2] # 0 PROVE d = ElementOf(g)
    BY <1>5
  <2>1. Header(d) = Header(ElementOf(g))
    BY DEF FirstIncludes
  <2> QED
    BY <1>4, <2>1
<1>8. g # Header(d)
  BY <1>3, <1>5, <1>6, <1>7
<1>9. ~ Beneath(d, g)
  <2> SUFFICES ASSUME Beneath(d, g) PROVE FALSE
    OBVIOUS
  <2>1. g[1] \in Under(d)
    BY <1>6, <1>7, <1>8 DEF Beneath
  <2>2. d \notin Under(d)
    BY UnderHolds
  <2>3. d \in Uncut[g[1]]
    BY <1>6, <1>7, <2>1, <2>2, ElementOpens
  <2> QED
    BY <1>2, <1>5, <2>1, <2>3
<1>10. Header(d) \in op
  <2>1. \A h \in FirstIncludes(g) : h \in op \/ \E i \in 1..(1 - 1) : s[i] = Include(h)
    BY <1>1 DEF Waiting
  <2> QED
    BY <2>1
<1>11. ASSUME NEW j \in 1..Len(s), s[j] = Anchor(Header(d)) PROVE FALSE
  <2>1. j # 1
    BY <1>5, <1>8, <1>11, Anchors
  <2>2. 1 \in 1..(j - 1)
    BY <1>1, <2>1
  <2>3. Speaks(s[1], g)
    BY DEF Speaks
  <2>4. Beneath(d, g)
    BY <1>11, <2>2, <2>3 DEF Ordered
  <2> QED
    BY <1>9, <2>4
<1> QED
  BY <1>10, <1>11 DEF Past

\* A reference on no cycle needs what it refers to.
LEMMA AliasUncut ==
    ASSUME schema \in Schemas, NEW a \in Names, schema[a].kind = "alias", ~ CyclicAlias(a)
    PROVE  schema[a].to \in Names /\ Uncut[a] = {schema[a].to}
           /\ Header(schema[a].to) \in FirstIncludes(Header(a))
<1>1. schema[a].to \in Names /\ ~ IsClass(a)
  BY Typed
<1>2. Uncut[a] = {schema[a].to}
  BY <1>1 DEF Uncut
<1> QED
  BY <1>1, <1>2 DEF FirstIncludes, Header

\* Any line but the include of a new header.
LEMMA TailKeeps ==
    ASSUME schema \in Schemas, NEW s, NEW op, NEW dec, NEW comp, NEW dec2, NEW comp2,
           State(s, op, dec, comp), s # <<>>, dec \subseteq dec2, comp \subseteq comp2,
           \A h : s[1] = Include(h) => h \in op,
           \A t : s[1] = <<"declare", t>> => t \in dec2,
           \A n \in Names : s[1] = Anchor(Header(n)) =>
              n \in dec2 /\ (schema[n].kind \notin {"alias", "list"} => n \in comp2)
    PROVE  State(Tail(s), op, dec2, comp2)
<1> DEFINE I == Item
           C == <<>>
           u == C \o Tail(s)
<1>1. /\ s \in Seq(I) /\ op \subseteq Files
      /\ Waiting(s, op, dec) /\ Ordered(s) /\ SourceLast(s) /\ NestedAsked(s) /\ Scheduled(s, op)
      /\ PastDeclared(s, op, dec, comp)
      /\ Regular => Followed(s, op)
  BY DEF State
<1>2. C \in Seq(I) /\ Len(C) = 0 /\ 1..Len(C) = {}
  BY EmptySeq
<1>3. u = Tail(s) /\ u \in Seq(I)
  <2> HIDE DEF I
  <2>1. Tail(s) \in Seq(I)
    BY <1>1, HeadTailProperties
  <2> QED
    BY <2>1, ConcatEmptySeq
<1> HIDE DEF C
<1>4. Waiting(u, op, dec2)
  BY <1>1, <1>2, WaitingStep
<1>5. Ordered(u)
  BY <1>1, <1>2, OrderedStep
<1>6. SourceLast(u) /\ NestedAsked(u)
  BY <1>1, <1>2, SourceLastStep, NestedStep
<1>7. Scheduled(u, op)
  <2>1. \A x : Promised(x, s, op) => Promised(x, u, op)
    BY <1>1, <1>2, PromisedStep
  <2> HIDE DEF u
  <2> QED
    BY <1>1, <2>1 DEF Scheduled
<1>8. \A n : Past(n, s, op) => Past(n, u, op)
  BY <1>1, <1>2, PastGrows
<1>9. \A n : Past(n, u, op) => Header(n) \in op /\ (s[1] # Anchor(Header(n)) => Past(n, s, op))
  BY <1>1, <1>2, PastBefore
<1> HIDE DEF u
<1>10. PastDeclared(u, op, dec2, comp2)
  <2> SUFFICES ASSUME NEW n \in Names, Past(n, u, op)
               PROVE  n \in dec2 /\ (schema[n].kind \notin {"alias", "list"} => n \in comp2)
    BY DEF PastDeclared
  <2>1. CASE s[1] = Anchor(Header(n))
    BY <2>1
  <2>2. CASE s[1] # Anchor(Header(n))
    <3>1. Past(n, s, op)
      BY <1>9, <2>2
    <3> QED
      BY <1>1, <3>1 DEF PastDeclared
  <2> QED
    BY <2>1, <2>2
<1>11. Regular => Followed(u, op)
  <2> SUFFICES ASSUME Regular, NEW a \in Names, schema[a].kind = "alias", ~ CyclicAlias(a),
                      Past(a, u, op)
               PROVE  Past(schema[a].to, u, op)
    BY DEF Followed
  <2>1. CASE s[1] = Anchor(Header(a))
    <3>1. Header(a) \in Files
      BY ItemsAre
    <3>2. Past(schema[a].to, s, op)
      BY <1>1, <2>1, <3>1, AliasUncut, AtDeclaration
    <3> QED
      BY <1>8, <3>2
  <2>2. CASE s[1] # Anchor(Header(a))
    <3>1. Past(a, s, op)
      BY <1>9, <2>2
    <3>2. Past(schema[a].to, s, op)
      BY <1>1, <3>1 DEF Followed
    <3> QED
      BY <1>8, <3>2
  <2> QED
    BY <2>1, <2>2
<1> QED
  BY <1>1, <1>3, <1>4, <1>5, <1>6, <1>7, <1>10, <1>11 DEF State

\* The include of a new header.
LEMMA OpenKeeps ==
    ASSUME schema \in Schemas, NEW s, NEW op, NEW dec, NEW comp,
           State(s, op, dec, comp), s # <<>>,
           NEW g \in Files, s[1] = Include(g) \/ s[1] = <<"nested", g>>, g \notin op
    PROVE  State(Contents(g) \o Tail(s), op \cup {g}, dec, comp)
<1> DEFINE I == Item
           C == Contents(g)
           u == C \o Tail(s)
           op2 == op \cup {g}
<1>1. /\ s \in Seq(I) /\ op \subseteq Files
      /\ Waiting(s, op, dec) /\ Ordered(s) /\ SourceLast(s) /\ NestedAsked(s) /\ Scheduled(s, op)
      /\ PastDeclared(s, op, dec, comp)
      /\ Regular => Followed(s, op)
  BY DEF State
<1>2. PICK p \in Nat :
         /\ C \in Seq(I) /\ p \in 1..Len(C) /\ C[p] = Anchor(g)
         /\ \A k \in 1..Len(C) : k # p => C[k][1] \in Lines
         /\ \A h \in FirstIncludes(g) : \E k \in 1..(p - 1) : C[k] = Include(h)
         /\ \A t \in FirstNames(g) : \E k \in 1..(p - 1) : C[k] = <<"declare", t>>
         /\ g[2] = 0 => \A d \in Opens[g[1]] : \E k \in 1..Len(C) : C[k] = Include(Header(d))
         /\ \A h \in Files : \A k \in 1..(p - 1) : C[k] = Include(h) => OpenedFirst(g, h)
         /\ \A h \in Files : \A k \in 1..Len(C) : C[k] = Include(h) => OpenedBy(g, h)
  BY FilePlaced DEF Placed
<1> HIDE DEF C
<1>3. Len(C) \in Nat /\ Len(s) \in Nat /\ 1 \in 1..Len(s)
  <2> HIDE DEF I
  <2> QED
    BY <1>1, <1>2, EmptySeq, LenProperties
<1>4. u \in Seq(I)
  <2> HIDE DEF I
  <2> QED
    BY <1>1, <1>2, HeadTailProperties, ConcatProperties
<1>5. \A f \in Files : Anchor(f)[1] \in {"wrapper", "using", "class"} /\ Anchor(f)[1] \notin Lines
  BY Anchors DEF Lines
<1>6. \A k \in 1..Len(C) : \A f \in Files : C[k] = Anchor(f) => k = p /\ f = g
  <2>1. \A k \in 1..Len(C) : \A f \in Files : C[k] = Anchor(f) => k = p
    BY <1>2, <1>5
  <2> QED
    BY <1>2, <2>1, Anchors
<1>7. \A k \in 1..Len(C) : C[k][1] \notin {"nested", "source"}
  <2>1. \A k \in 1..Len(C) : C[k][1] \in Lines \cup {"wrapper", "using", "class"}
    BY <1>2, <1>5
  <2> QED
    BY <2>1 DEF Lines
<1>8. /\ \A h : s[1] = Include(h) => h = g
      /\ \A t : s[1] # <<"declare", t>>
      /\ s[1][1] \in {"include", "nested"}
  BY DEF Include
<1>9. \A h \in Files : Header(h[1]) = h \/ h[2] # 0
  BY Anchors
<1>10. \A n \in Names : Header(n) \in Files /\ Header(n)[1] = n /\ Header(n)[2] = 0
  BY ItemsAre DEF Header
<1>11. ASSUME NEW f \in Files, NEW k \in 1..Len(C), Speaks(C[k], f)
       PROVE  \/ C[k] = Include(f) /\ k # p
              \/ f = g /\ k = p
  <2>1. CASE k = p
    <3>1. C[k] # Include(f) /\ C[k] # <<"nested", f>>
      BY <1>2, <1>5, <2>1 DEF Include
    <3>2. C[k] = Anchor(f)
      BY <1>11, <3>1 DEF Speaks
    <3> QED
      BY <1>6, <2>1, <3>2
  <2>2. CASE k # p
    <3>1. C[k][1] \in Lines
      BY <1>2, <2>2
    <3>2. C[k] # Anchor(f) /\ C[k] # <<"nested", f>>
      BY <1>5, <3>1 DEF Lines
    <3>3. C[k] \in {Include(f), <<"nested", f>>, Anchor(f)}
      BY <1>11 DEF Speaks
    <3>4. C[k] = Include(f)
      BY <3>2, <3>3
    <3> QED
      BY <2>2, <3>4
  <2> QED
    BY <2>1, <2>2
<1>12. Waiting(u, op2, dec)
  <2>1. \A f \in Files : \A j \in 1..Len(C) : C[j] = Anchor(f) =>
           /\ f \in op2
           /\ \A h \in FirstIncludes(f) : \E i \in 1..(j - 1) : C[i] = Include(h)
           /\ \A t \in FirstNames(f) : \E i \in 1..(j - 1) : C[i] = <<"declare", t>>
    <3> SUFFICES ASSUME NEW f \in Files, NEW j \in 1..Len(C), C[j] = Anchor(f)
                 PROVE  /\ f \in op2
                        /\ \A h \in FirstIncludes(f) : \E i \in 1..(j - 1) : C[i] = Include(h)
                        /\ \A t \in FirstNames(f) : \E i \in 1..(j - 1) : C[i] = <<"declare", t>>
      OBVIOUS
    <3>1. j = p /\ f = g
      BY <1>6
    <3> QED
      BY <1>2, <3>1
  <2>2. op \subseteq op2 /\ (\A h : s[1] = Include(h) => h \in op2)
        /\ (\A t : s[1] = <<"declare", t>> => t \in dec) /\ dec \subseteq dec
    BY <1>8
  <2> HIDE DEF op2
  <2> QED
    BY <1>1, <1>2, <2>1, <2>2, WaitingStep
<1>13. Ordered(u)
  <2>1. ASSUME NEW d \in Names, NEW f \in Files, NEW j \in 1..Len(C), C[j] = Anchor(Header(d)),
               NEW i \in 1..(j - 1), Speaks(C[i], f)
        PROVE  Beneath(d, f)
    <3>1. j = p /\ g = Header(d)
      BY <1>6, <1>10, <2>1
    <3>2. i \in 1..Len(C) /\ i # p /\ i \in 1..(p - 1)
      BY <1>3, <3>1
    <3>3. C[i] = Include(f)
      BY <1>11, <2>1, <3>2
    <3>4. OpenedFirst(g, f)
      BY <1>2, <3>2, <3>3
    <3> QED
      BY <3>1, <3>4, BeneathOpens
  <2>2. ASSUME NEW d \in Names, NEW f \in Files, NEW j \in 2..Len(s), s[j] = Anchor(Header(d)),
               NEW i \in 1..Len(C), Speaks(C[i], f)
        PROVE  Beneath(d, f)
    <3>1. j \in 1..Len(s) /\ 1 \in 1..(j - 1)
      BY <1>3
    <3>2. Header(d) \in op
      BY <1>1, <1>10, <2>2, <3>1 DEF Waiting
    <3>3. Beneath(d, g)
      <4>1. Speaks(s[1], g)
        BY DEF Speaks
      <4> QED
        BY <1>1, <2>2, <3>1, <4>1 DEF Ordered
    <3>4. CASE f = g
      BY <3>3, <3>4
    <3>5. CASE C[i] = Include(f)
      <4>1. OpenedBy(g, f)
        BY <1>2, <3>5
      <4> QED
        BY <3>2, <3>3, <4>1, BeneathOpens
    <3> QED
      BY <1>11, <2>2, <3>4, <3>5
  <2>3. \A d \in Names, f \in Files : \A j \in 1..Len(C) : C[j] = Anchor(Header(d)) =>
           \A i \in 1..(j - 1) : Speaks(C[i], f) => Beneath(d, f)
    BY <2>1
  <2>4. \A d \in Names, f \in Files : \A j \in 2..Len(s) : s[j] = Anchor(Header(d)) =>
           \A i \in 1..Len(C) : Speaks(C[i], f) => Beneath(d, f)
    BY <2>2
  <2> QED
    BY <1>1, <1>2, <2>3, <2>4, OrderedStep
<1>14. SourceLast(u) /\ NestedAsked(u)
  <2>1. \A k \in 1..Len(C) : C[k][1] # "source" /\ C[k][1] # "nested"
    BY <1>7
  <2> QED
    BY <1>1, <1>2, <2>1, SourceLastStep, NestedStep
<1>15. Scheduled(u, op2)
  <2>1. op \subseteq op2 /\ \A h : s[1] = Include(h) => h \in op2
    BY <1>8
  <2>2. ASSUME NEW x, Promised(x, s, op) \/ \E k \in 1..Len(C) : C[k] = Include(Header(x))
        PROVE  Promised(x, u, op2)
    <3> HIDE DEF op2
    <3> QED
      BY <1>1, <1>2, <1>7, <2>1, <2>2, PromisedStep
  <2> HIDE DEF u
  <2>3. ASSUME NEW n \in Names, Header(n) \in op2, NEW d \in Opens[n] PROVE Promised(d, u, op2)
    <3>1. CASE Header(n) \in op
      <4>1. Promised(d, s, op)
        BY <1>1, <3>1 DEF Scheduled
      <4> QED
        BY <2>2, <4>1
    <3>2. CASE Header(n) = g
      <4>1. \E k \in 1..Len(C) : C[k] = Include(Header(d))
        BY <1>2, <1>10, <3>2
      <4> QED
        BY <2>2, <4>1
    <3> QED
      BY <2>3, <3>1, <3>2
  <2>4. Promised(unit, u, op2) /\ \A x \in Asked(unit) : Promised(x, u, op2)
    BY <1>1, <2>2 DEF Scheduled
  <2> HIDE DEF op2
  <2> QED
    BY <2>3, <2>4 DEF Scheduled
<1>16. \A n \in Names : Header(n) \in op => \A k \in 1..Len(C) : C[k] # Anchor(Header(n))
  BY <1>6, <1>10
<1>17. ASSUME NEW n \in Names, Past(n, u, op2) PROVE Past(n, s, op)
  <2>1. /\ \A k \in 1..Len(C) : C[k] # Anchor(Header(n))
        /\ Header(n) \in op /\ s[1] # Anchor(Header(n)) => Past(n, s, op)
        /\ Header(n) \in op2
    <3> HIDE DEF op2
    <3> QED
      BY <1>1, <1>2, <1>17, PastBefore
  <2>2. s[1] # Anchor(Header(n))
    BY <1>5, <1>8, <1>10
  <2>3. Header(n) # g
    BY <1>2, <2>1
  <2> QED
    BY <2>1, <2>2, <2>3
<1>18. ASSUME NEW n \in Names, Past(n, s, op) PROVE Past(n, u, op2)
  <2>1. Header(n) \in op /\ op \subseteq op2
    BY <1>18 DEF Past
  <2>2. \A k \in 1..Len(C) : C[k] # Anchor(Header(n))
    BY <1>16, <2>1
  <2> HIDE DEF op2
  <2> QED
    BY <1>1, <1>2, <1>18, <2>1, <2>2, PastGrows
<1> HIDE DEF u, op2
<1>19. PastDeclared(u, op2, dec, comp)
  BY <1>1, <1>17 DEF PastDeclared
<1>20. Regular => Followed(u, op2)
  <2> SUFFICES ASSUME Regular, NEW a \in Names, schema[a].kind = "alias", ~ CyclicAlias(a),
                      Past(a, u, op2)
               PROVE  Past(schema[a].to, u, op2)
    BY DEF Followed
  <2>1. Past(a, s, op)
    BY <1>17
  <2>2. Past(schema[a].to, s, op)
    BY <1>1, <2>1 DEF Followed
  <2>3. schema[a].to \in Names
    BY Typed
  <2> QED
    BY <1>18, <2>2, <2>3
<1>21. op2 \subseteq Files
  BY <1>1 DEF op2
<1> QED
  BY <1>1, <1>4, <1>12, <1>13, <1>14, <1>15, <1>19, <1>20, <1>21 DEF State, u, op2, C

-----------------------------------------------------------------------------
\* With finite values only, a chain of references ends.
LEMMA ConcreteEnds ==
    ASSUME schema \in Schemas, Finite, NEW a \in Names
    PROVE  schema[Concrete(a)].kind # "alias"
<1> DEFINE N == Cardinality(Names)
           R == CHOOSE f : Finding(N, f)
           C == CHOOSE f : Chase(a, N, f)
<1>1. N \in Nat
  BY FiniteNames
<1>2. Finding(N, R) /\ Chase(a, N, C)
  <2> HIDE DEF N
  <2> QED
    BY <1>1, FindingExists, ChaseExists
<1>3. R[N] = Names
  BY DEF Finite, Finding
<1>4. Concrete(a) = C[N]
  BY DEF Concrete, Chase
<1> HIDE DEF R, C, N
<1> DEFINE Has(x, r) == CASE Record(x) -> \A i \in Members(x) : i.opt \/ i.many \/ i.to \in r
                          [] schema[x].kind = "alias" -> schema[x].to \in r
                          [] OTHER -> TRUE
           On(r) == IF schema[r].kind = "alias" THEN schema[r].to ELSE r
<1>5. \A k \in 0..N : R[k] = IF k = 0 THEN {} ELSE R[k - 1] \cup {x \in Names : Has(x, R[k - 1])}
  BY <1>2 DEF Finding
<1>6. \A k \in 0..N : C[k] = IF k = 0 THEN a ELSE On(C[k - 1])
  BY <1>2 DEF Chase
<1>7. \A x, r : schema[x].kind = "alias" /\ Has(x, r) => schema[x].to \in r
  BY DEF Record
<1>8. \A x : schema[x].kind = "alias" => On(x) = schema[x].to
  OBVIOUS
<1>9. \A x : schema[x].kind # "alias" => On(x) = x
  OBVIOUS
<1> HIDE DEF Has, On
<1> DEFINE K == {k \in Nat : k + 1 <= N =>
                    /\ R[k] \subseteq R[k + 1]
                    /\ \A x \in R[k + 1] : schema[x].kind = "alias" => schema[x].to \in R[k]}
<1>10. ASSUME NEW k \in Nat, k + 1 <= N
       PROVE  R[k + 1] = R[k] \cup {x \in Names : Has(x, R[k])} /\ R[0] = {}
  <2>1. k + 1 \in 0..N /\ k + 1 # 0 /\ (k + 1) - 1 = k /\ 0 \in 0..N
    BY <1>1, <1>10
  <2> QED
    BY <1>5, <2>1
<1>11. 0 \in K
  <2> SUFFICES ASSUME 0 + 1 <= N
               PROVE  /\ R[0] \subseteq R[0 + 1]
                      /\ \A x \in R[0 + 1] : schema[x].kind = "alias" => schema[x].to \in R[0]
    OBVIOUS
  <2>1. R[0 + 1] = R[0] \cup {x \in Names : Has(x, R[0])} /\ R[0] = {}
    BY <1>10
  <2> QED
    BY <1>7, <2>1
<1>12. ASSUME NEW k \in Nat, k \in K PROVE k + 1 \in K
  <2> SUFFICES ASSUME (k + 1) + 1 <= N
               PROVE  /\ R[k + 1] \subseteq R[(k + 1) + 1]
                      /\ \A x \in R[(k + 1) + 1] : schema[x].kind = "alias" => schema[x].to \in R[k + 1]
    OBVIOUS
  <2>1. R[(k + 1) + 1] = R[k + 1] \cup {x \in Names : Has(x, R[k + 1])}
    BY <1>10
  <2>2. k + 1 <= N
    BY <1>1
  <2>3. /\ R[k] \subseteq R[k + 1]
        /\ \A x \in R[k + 1] : schema[x].kind = "alias" => schema[x].to \in R[k]
    BY <1>12, <2>2
  <2> QED
    BY <1>7, <2>1, <2>3
<1> HIDE DEF K
<1>13. \A k \in Nat : k \in K
  BY <1>11, <1>12, Counting
<1> DEFINE L == {k \in Nat : k <= N /\ schema[C[k]].kind = "alias" => C[k] \in R[N - k]}
<1>14. 0 \in L
  <2>1. 0 \in 0..N /\ N - 0 = N
    BY <1>1
  <2> QED
    BY <1>3, <1>6, <2>1
<1>15. ASSUME NEW k \in Nat, k \in L PROVE k + 1 \in L
  <2> SUFFICES ASSUME k + 1 <= N, schema[C[k + 1]].kind = "alias" PROVE C[k + 1] \in R[N - (k + 1)]
    OBVIOUS
  <2> DEFINE j == N - (k + 1)
  <2>1. j \in Nat /\ j + 1 = N - k /\ j + 1 <= N /\ k <= N
    BY <1>1
  <2>2. k + 1 \in 0..N /\ k + 1 # 0 /\ (k + 1) - 1 = k
    BY <1>1
  <2>3. C[k + 1] = On(C[k])
    BY <1>6, <2>2
  <2>4. schema[C[k]].kind = "alias"
    BY <1>9, <2>3
  <2>5. C[k] \in R[j + 1]
    BY <1>15, <2>1, <2>4
  <2> HIDE DEF j
  <2>6. schema[C[k]].to \in R[j]
    BY <1>13, <2>1, <2>4, <2>5 DEF K
  <2> QED
    BY <1>8, <2>3, <2>4, <2>6 DEF j
<1> HIDE DEF L
<1>16. N \in L
  BY <1>1, <1>14, <1>15, Counting
<1>17. schema[C[N]].kind = "alias" => C[N] \in R[0]
  <2>1. N <= N /\ N - N = 0
    BY <1>1
  <2> QED
    BY <1>16, <2>1 DEF L
<1>18. R[0] = {}
  <2>1. 0 \in 0..N
    BY <1>1
  <2> QED
    BY <1>5, <2>1
<1> QED
  BY <1>4, <1>17, <1>18

\* A set that holds what a reference on no cycle refers to holds the end of a
\* chain without a reference on a cycle, and any end that is no class.
LEMMA ChainWithin ==
    ASSUME schema \in Schemas, NEW d \in Names, NEW T, d \in T, T \subseteq Names,
           \A x \in T : schema[x].kind = "alias" /\ ~ CyclicAlias(x) => schema[x].to \in T
    PROVE  /\ (\A x \in Chain(d) : ~ CyclicAlias(x)) => Concrete(d) \in T
           /\ ~ IsClass(Concrete(d)) => Concrete(d) \in T
<1> DEFINE step == [x \in Names |-> IF schema[x].kind = "alias" THEN {schema[x].to} ELSE {}]
           P == Chain(d)
           U == T \cup {x \in Names : IsClass(x)}
<1>1. step \in Graph
  BY Typed DEF Graph
<1>2. P = Reach({d}, step)
  BY DEF Chain
<1>3. \A x \in Names : schema[x].kind = "alias" => step[x] = {schema[x].to}
  OBVIOUS
<1> HIDE DEF step, P
<1>4. d \in P /\ P \subseteq Names /\ \A x \in P : step[x] \subseteq P
  BY <1>1, <1>2, ReachFrom
<1>5. ASSUME \A x \in P : ~ CyclicAlias(x) PROVE Concrete(d) \in T
  <2>1. d \in T \cap P /\ \A x \in T \cap P : schema[x].kind = "alias" => schema[x].to \in T \cap P
    BY <1>3, <1>4, <1>5
  <2>2. Concrete(d) \in T \cap P
    BY <2>1, ConcreteWithin
  <2> QED
    BY <2>2
<1>6. ASSUME NEW x \in U, schema[x].kind = "alias" PROVE schema[x].to \in U
  <2>1. x \in T
    BY <1>6 DEF IsClass
  <2>2. schema[x].to \in Names
    BY <1>6, <2>1, Typed
  <2>3. CASE CyclicAlias(x)
    BY <2>2, <2>3 DEF CyclicAlias
  <2>4. CASE ~ CyclicAlias(x)
    BY <1>6, <2>1, <2>4
  <2> QED
    BY <2>3, <2>4
<1>7. Concrete(d) \in U
  <2>1. d \in U
    OBVIOUS
  <2> HIDE DEF U
  <2> QED
    BY <1>6, <2>1, ConcreteWithin
<1> QED
  BY <1>5, <1>7 DEF P

\* A set of types whose headers have been opened, and those they open.
LEMMA OpenedElements ==
    ASSUME schema \in Schemas, Regular, NEW O, O \subseteq Names, \A n \in O : Opens[n] \subseteq O
    PROVE  /\ \A x \in O : schema[x].kind = "alias" /\ ~ CyclicAlias(x) => schema[x].to \in O
           /\ \A n \in O : Reach({n}, Opens) \subseteq O
           /\ \A t \in O : (\A x \in Chain(t) : ~ CyclicAlias(x)) => Elements(t) \subseteq O
           /\ \A n \in O : \A t \in ElementNames(n) :
                 t \in O /\ Fetched(n) \subseteq O => Elements(t) \subseteq O
<1>1. ASSUME NEW x \in O, schema[x].kind = "alias", ~ CyclicAlias(x) PROVE schema[x].to \in O
  <2>1. Uncut[x] = {schema[x].to}
    BY <1>1, AliasUncut
  <2>2. Opens[x] = {schema[x].to} \ {x}
    BY <1>1, <2>1 DEF Opens, Record, IsClass
  <2> QED
    BY <2>2
<1>2. ASSUME NEW n \in O PROVE Reach({n}, Opens) \subseteq O
  <2>1. {n} \subseteq O
    OBVIOUS
  <2> QED
    BY <2>1, ReachLeast
<1>3. \A n \in Names : \A t \in ElementNames(n) :
         IsClass(Concrete(t)) => Concrete(t) \in Reach({n}, Opens) \cup Fetched(n)
  BY DEF Regular
<1>4. \A t \in Names : Concrete(t) \in Names
  BY Graphs
<1>5. ASSUME NEW e \in O, schema[e].kind = "list", IsClass(Concrete(schema[e].to))
      PROVE  Concrete(schema[e].to) \in O
  <2>1. ElementNames(e) = {schema[e].to} /\ Fetched(e) = {}
    BY <1>5 DEF ElementNames, Fetched, Record
  <2>2. Concrete(schema[e].to) \in Reach({e}, Opens)
    BY <1>3, <1>5, <2>1
  <2> QED
    BY <1>2, <2>2
<1>6. ASSUME NEW t \in O, Concrete(t) \in O PROVE Elements(t) \subseteq O
  <2> DEFINE e == Concrete(t)
  <2>1. CASE schema[e].kind = "list"
    BY <1>5, <1>6, <2>1 DEF Elements
  <2>2. CASE schema[e].kind # "list"
    BY <1>6, <2>2 DEF Elements
  <2> QED
    BY <2>1, <2>2
<1>7. \A t \in O : /\ (\A x \in Chain(t) : ~ CyclicAlias(x)) => Concrete(t) \in O
                   /\ ~ IsClass(Concrete(t)) => Concrete(t) \in O
  BY <1>1, ChainWithin
<1>8. ASSUME NEW n \in O, NEW t \in ElementNames(n), t \in O, Fetched(n) \subseteq O
      PROVE  Elements(t) \subseteq O
  <2>1. CASE IsClass(Concrete(t))
    <3>1. Concrete(t) \in O
      BY <1>2, <1>3, <1>8, <2>1
    <3> QED
      BY <1>6, <1>8, <3>1
  <2>2. CASE ~ IsClass(Concrete(t))
    BY <1>6, <1>7, <1>8, <2>2
  <2> QED
    BY <2>1, <2>2
<1> QED
  BY <1>1, <1>2, <1>6, <1>7, <1>8

\* What the source file of the unit needs has been opened.
LEMMA SourceOpened ==
    ASSUME schema \in Schemas, Regular, NEW O, O \subseteq Names, \A n \in O : Opens[n] \subseteq O,
           unit \in O, schema[unit].kind # "alias", Asked(unit) \subseteq O
    PROVE  SourceNeeds(unit) \subseteq {c \in O : IsClass(c)}
<1>1. /\ \A t \in O : (\A x \in Chain(t) : ~ CyclicAlias(x)) => Elements(t) \subseteq O
      /\ \A n \in O : \A t \in ElementNames(n) :
            t \in O /\ Fetched(n) \subseteq O => Elements(t) \subseteq O
  BY OpenedElements
<1>2. \A n \in Names : \A m \in Members(n) :
         ~ m.many => \A x \in Chain(m.to) : ~ CyclicAlias(x)
  BY DEF Regular
<1>3. ASSUME NEW n \in O, IsClass(n), Fetched(n) \subseteq O,
             \A m \in Members(n) : Record(n) /\ m.opt /\ ~ m.many /\ IsClass(m.to) => m.to \in O
      PROVE  Parts(n) \subseteq O
  <2> SUFFICES ASSUME NEW m \in Members(n), Record(n) \/ ~ m.many PROVE Elements(m.to) \subseteq O
    BY DEF Parts
  <2>1. m.to \in Names /\ m.to \in ThroughContainers[n]
    BY Typed DEF MemberOf, ThroughContainers
  <2>2. ~ Cut(n, m) => m.to \in Uncut[n]
    BY <1>3 DEF Uncut
  <2>3. m.to \in O
    <3>1. CASE m.to = n
      BY <3>1
    <3>2. CASE m.to # n /\ (~ Record(n) \/ prefixed)
      <4>1. m.to \in Opens[n]
        BY <1>3, <2>1, <3>2 DEF Opens
      <4> QED
        BY <4>1
    <3>3. CASE m.to # n /\ Record(n) /\ ~ prefixed
      <4>1. CASE Cut(n, m)
        BY <1>3, <3>3, <4>1 DEF Cut
      <4>2. CASE ~ Cut(n, m)
        <5>1. m.to \in Opens[n]
          BY <1>3, <2>2, <3>3, <4>2 DEF Opens
        <5> QED
          BY <5>1
      <4> QED
        BY <4>1, <4>2
    <3> QED
      BY <3>1, <3>2, <3>3
  <2>4. CASE m.many
    <3>1. Record(n)
      BY <2>4
    <3>2. m.to \in ElementNames(n)
      BY <2>4, <3>1 DEF ElementNames, Record
    <3> QED
      BY <1>1, <1>3, <2>3, <3>2
  <2>5. CASE ~ m.many
    BY <1>1, <1>2, <2>3, <2>5
  <2> QED
    BY <2>4, <2>5
<1>4. ASSUME NEW c \in O, Inline(c) PROVE Parts(c) \subseteq O
  <2>1. Record(c) /\ IsClass(c) /\ Fetched(c) = {} /\ \A m \in Members(c) : ~ m.opt
    BY <1>4 DEF Inline, Record, IsClass, Fetched
  <2> QED
    BY <1>3, <2>1
<1>5. IsClass(unit) => Parts(unit) \subseteq O
  <2> SUFFICES ASSUME IsClass(unit) PROVE Parts(unit) \subseteq O
    OBVIOUS
  <2>1. CASE ~ Record(unit)
    <3>1. Fetched(unit) = {}
      BY <2>1 DEF Fetched
    <3> QED
      BY <1>3, <2>1, <3>1
  <2>2. CASE Record(unit) /\ prefixed
    <3>1. Opens[unit] = (ThroughContainers[unit] \cup CyclicElementIncludes(unit)) \ {unit}
      BY <2>2 DEF Opens
    <3>2. ThroughContainers[unit] \cup CyclicElementIncludes(unit) \subseteq O
      BY <3>1
    <3>3. Fetched(unit) \subseteq O
      BY <3>2 DEF Fetched
    <3>4. \A m \in Members(unit) : m.to \in O
      <4>1. ThroughContainers[unit] = {m.to : m \in Members(unit)}
        BY DEF ThroughContainers
      <4> QED
        BY <3>2, <4>1
    <3> QED
      BY <1>3, <3>3, <3>4
  <2>3. CASE Record(unit) /\ ~ prefixed
    <3>1. OptionalIncludes(unit) \cup CyclicElementIncludes(unit) \subseteq O
      BY <2>3 DEF Asked
    <3>2. Fetched(unit) \subseteq O
      BY <3>1 DEF Fetched
    <3>3. \A m \in Members(unit) : m.opt /\ ~ m.many /\ IsClass(m.to) => m.to \in O
      BY <3>1 DEF OptionalIncludes
    <3> QED
      BY <1>3, <3>2, <3>3
  <2> QED
    BY <2>1, <2>2, <2>3
<1>6. ~ IsClass(unit) => Elements(unit) \subseteq O
  <2> SUFFICES ASSUME ~ IsClass(unit) PROVE Elements(unit) \subseteq O
    OBVIOUS
  <2>1. \A x \in {unit} : schema[x].kind = "alias" => schema[x].to \in {unit}
    OBVIOUS
  <2>2. Concrete(unit) \in {unit}
    BY <2>1, ConcreteWithin
  <2>3. Concrete(unit) = unit
    BY <2>2
  <2>4. CASE schema[unit].kind = "list"
    <3>1. ElementNames(unit) = {schema[unit].to} /\ Fetched(unit) = {}
      BY <2>4 DEF ElementNames, Fetched, Record
    <3>2. IsClass(Concrete(schema[unit].to)) => Concrete(schema[unit].to) \in Reach({unit}, Opens)
      BY <3>1 DEF Regular
    <3>3. Reach({unit}, Opens) \subseteq O
      BY OpenedElements
    <3> QED
      BY <2>3, <2>4, <3>2, <3>3 DEF Elements
  <2>5. CASE schema[unit].kind # "list"
    BY <2>3, <2>5 DEF Elements
  <2> QED
    BY <2>4, <2>5
<1> DEFINE S == IF IsClass(unit) THEN Parts(unit) ELSE Elements(unit)
           step == [c \in Names |-> IF Inline(c) THEN Parts(c) ELSE {}]
           T == {c \in O : IsClass(c)}
<1>7. \A t : Elements(t) \subseteq {c \in Elements(t) : IsClass(c)}
  BY DEF Elements
<1>8. \A n : Parts(n) \subseteq {c \in Parts(n) : IsClass(c)}
  BY <1>7 DEF Parts
<1>9. S \subseteq T
  BY <1>5, <1>6, <1>7, <1>8
<1>10. \A x \in T : step[x] \subseteq T
  BY <1>4, <1>8
<1>11. SourceNeeds(unit) = Reach(S, step)
  BY DEF SourceNeeds
<1> HIDE DEF S, step, T
<1>12. Reach(S, step) \subseteq T
  BY <1>9, <1>10, ReachLeast
<1> QED
  BY <1>11, <1>12 DEF T

-----------------------------------------------------------------------------
\* Before a file is read.
LEMMA SourceState ==
    ASSUME schema \in Schemas, unit \in Names
    PROVE  State(Source(unit), {}, {}, {})
<1> DEFINE I == Item
           s == Source(unit)
           first == Include(Header(unit))
           last == <<"source", unit>>
           E == ExtraIncludes(schema[unit].to, unit) \ {schema[unit].to}
           extra == IncludeAll(E)
           nested == [i \in DOMAIN extra |-> <<"nested", extra[i][2]>>]
           includes == CASE IsClass(unit) /\ ~ prefixed -> DefinitionIncludes(unit)
                         [] schema[unit].kind = "list" /\ ~ prefixed -> extra
                         [] schema[unit].kind = "list" /\ prefixed -> nested
                         [] OTHER -> <<>>
           X == {Include(Header(x)) : x \in Names}
           J == X \cup Nested(unit)
<1>1. \A x \in Names : Header(x) \in Files /\ Include(Header(x)) \in Item
  BY ItemsAre
<1>2. s = (<<first>> \o includes) \o <<last>>
  BY DEF Source
<1>3. schema[unit].kind = "list" => ExtraIncludes(schema[unit].to, unit) \subseteq Names
  <2> SUFFICES ASSUME schema[unit].kind = "list" PROVE ExtraIncludes(schema[unit].to, unit) \subseteq Names
    OBVIOUS
  <2>1. schema[unit].to \in Names
    BY Typed
  <2>2. schema[unit].to \in Closure({schema[unit].to}) /\ Closure({schema[unit].to}) \subseteq Names
    BY <2>1, ClosureHolds
  <2>3. Reachable(schema[unit].to) \subseteq Closure({schema[unit].to})
    BY <2>1, <2>2, ReachableWithin
  <2> QED
    BY <2>2, <2>3 DEF ExtraIncludes
<1>4. X \subseteq Item /\ J \subseteq Item /\ X \subseteq J
  <2>1. Nested(unit) \subseteq Item
    <3> SUFFICES ASSUME NEW y \in Nested(unit) PROVE y \in Item
      OBVIOUS
    <3>1. PICK x \in Names : y = <<"nested", Header(x)>>
      BY <1>3 DEF Nested
    <3> QED
      BY <1>1, <3>1 DEF Item
  <2> QED
    BY <1>1, <2>1
<1>5. \A S \in SUBSET Names : /\ IncludeAll(S) \in Seq(X)
                              /\ Range(IncludeAll(S)) = {Include(Header(x)) : x \in S}
  <2> TAKE S \in SUBSET Names
  <2> DEFINE T == {Include(Header(x)) : x \in S}
  <2>1. IncludeAll(S) \in Seq(T) /\ Range(IncludeAll(S)) = T
    BY IncludeAllRange
  <2>2. T \subseteq X
    OBVIOUS
  <2> HIDE DEF X, T
  <2>3. IncludeAll(S) \in Seq(X)
    <3>1. Range(IncludeAll(S)) \subseteq X
      BY <2>1, <2>2
    <3> QED
      BY <2>1, <3>1, WithinRange
  <2> QED
    BY <2>1, <2>3 DEF T
<1>6. IsClass(unit) /\ ~ prefixed =>
         includes \in Seq(X) /\ \A x \in Asked(unit) : Include(Header(x)) \in Range(includes)
  <2> SUFFICES ASSUME IsClass(unit), ~ prefixed
               PROVE  includes \in Seq(X) /\ \A x \in Asked(unit) : Include(Header(x)) \in Range(includes)
    OBVIOUS
  <2>1. includes = DefinitionIncludes(unit)
    BY DEF IsClass
  <2> HIDE DEF includes, X
  <2>2. CASE Record(unit)
    <3> DEFINE S == OptionalIncludes(unit) \cup CyclicElementIncludes(unit)
    <3>1. S \in SUBSET Names
      BY OpensGraph
    <3>2. includes = IncludeAll(S) /\ Asked(unit) = S
      BY <2>1, <2>2 DEF DefinitionIncludes, Asked
    <3> HIDE DEF S
    <3> QED
      BY <1>5, <3>1, <3>2
  <2>3. CASE ~ Record(unit)
    BY <2>1, <2>3, EmptySeq DEF DefinitionIncludes, Asked
  <2> QED
    BY <2>2, <2>3
<1>7. ~ (IsClass(unit) /\ ~ prefixed) => Asked(unit) = {}
  BY DEF Asked, Record, IsClass
<1>8. includes \in Seq(J)
  <2>1. CASE IsClass(unit) /\ ~ prefixed
    <3> HIDE DEF includes, X, J
    <3> QED
      BY <1>4, <1>6, <2>1, SeqMonotonic
  <2>2. CASE schema[unit].kind = "list"
    <3>1. ~ IsClass(unit)
      BY <2>2 DEF IsClass
    <3>2. E \in SUBSET Names
      BY <1>3, <2>2
    <3>3. extra \in Seq(X) /\ Range(extra) = {Include(Header(x)) : x \in E}
      <4> HIDE DEF X, E
      <4> QED
        BY <1>5, <3>2
    <3>4. includes = IF prefixed THEN nested ELSE extra
      <4> HIDE DEF nested, extra
      <4> QED
        BY <2>2, <3>1
    <3>5. CASE ~ prefixed
      <4> HIDE DEF includes, extra, X, J
      <4> QED
        BY <1>4, <3>3, <3>4, <3>5, SeqMonotonic
    <3>6. CASE prefixed
      <4> HIDE DEF includes, extra, X
      <4>1. DOMAIN extra = 1..Len(extra) /\ Len(extra) \in Nat
        BY <3>3, LenProperties
      <4>2. ASSUME NEW i \in 1..Len(extra) PROVE <<"nested", extra[i][2]>> \in J
        <5>1. extra[i] \in Range(extra)
          BY <4>1 DEF Range
        <5>2. PICK x \in E : extra[i] = Include(Header(x))
          BY <3>3, <5>1
        <5>3. extra[i][2] = Header(x)
          BY <5>2 DEF Include
        <5>4. <<"nested", Header(x)>> \in Nested(unit)
          BY <2>2, <3>6 DEF Nested
        <5> QED
          BY <5>3, <5>4
      <4> HIDE DEF J
      <4>3. nested \in Seq(J)
        BY <4>1, <4>2
      <4> QED
        BY <3>4, <3>6, <4>3
    <3> QED
      BY <3>5, <3>6
  <2>3. CASE ~ (IsClass(unit) /\ ~ prefixed) /\ schema[unit].kind # "list"
    <3>1. includes = <<>>
      BY <2>3
    <3> HIDE DEF includes, J
    <3> QED
      BY <3>1, EmptySeq
  <2> QED
    BY <2>1, <2>2, <2>3
<1> HIDE DEF includes, extra, nested
<1> DEFINE K == Len(includes)
           fi == <<first>> \o includes
<1>9. first \in J /\ first \in I /\ last \in I
  BY <1>1, ItemsAre DEF Item
<1>10. /\ includes \in Seq(I) /\ <<first>> \in Seq(I) /\ <<last>> \in Seq(I)
       /\ Len(<<first>>) = 1 /\ <<first>>[1] = first /\ Len(<<last>>) = 1 /\ <<last>>[1] = last
  <2>1. includes \in Seq(I)
    <3> HIDE DEF J
    <3> QED
      BY <1>4, <1>8, SeqMonotonic
  <2> HIDE DEF first, last
  <2> QED
    BY <1>9, <2>1, ShortSeqs
<1>11. K \in Nat /\ \A i \in 1..K : includes[i] \in J
  <2> HIDE DEF J
  <2> QED
    BY <1>8, LenProperties, ElementOfSeq
<1> HIDE DEF I, first, last, s
<1>12. /\ fi \in Seq(I) /\ Len(fi) = 1 + K
       /\ \A i \in 1..1 + K : fi[i] = IF i <= 1 THEN <<first>>[i] ELSE includes[i - 1]
  BY <1>10, ConcatProperties
<1> HIDE DEF fi
<1>13. /\ fi \o <<last>> \in Seq(I) /\ Len(fi \o <<last>>) = Len(fi) + 1
       /\ \A i \in 1..Len(fi) + 1 : (fi \o <<last>>)[i] = IF i <= Len(fi) THEN fi[i] ELSE <<last>>[i - Len(fi)]
  <2>1. fi \in Seq(I) /\ <<last>> \in Seq(I) /\ Len(<<last>>) = 1
    BY <1>10, <1>12
  <2> QED
    BY <2>1, ConcatProperties
<1>14. /\ s \in Seq(I) /\ Len(s) = K + 2
       /\ \A i \in 1..Len(fi) + 1 : s[i] = IF i <= Len(fi) THEN fi[i] ELSE <<last>>[i - Len(fi)]
  <2>1. s = fi \o <<last>>
    BY <1>2 DEF fi
  <2>2. Len(fi) + 1 = K + 2
    BY <1>11, <1>12
  <2> QED
    BY <1>13, <2>1, <2>2
<1>15. s[1] = first
  <2>1. 1 \in 1..Len(fi) + 1 /\ 1 <= Len(fi) /\ 1 \in 1..1 + K
    BY <1>11, <1>12
  <2>2. fi[1] = <<first>>[1]
    BY <1>12, <2>1
  <2>3. s[1] = fi[1]
    BY <1>14, <2>1
  <2> QED
    BY <1>10, <2>2, <2>3
<1>16. ASSUME NEW i \in 1..K PROVE i + 1 \in 1..Len(s) /\ s[i + 1] = includes[i]
  <2>1. /\ i + 1 \in 1..Len(fi) + 1 /\ i + 1 <= Len(fi) /\ i + 1 \in 1..1 + K /\ ~ (i + 1 <= 1)
        /\ (i + 1) - 1 = i /\ i + 1 \in 1..K + 2
    BY <1>11, <1>12
  <2>2. fi[i + 1] = includes[i]
    BY <1>12, <2>1
  <2>3. s[i + 1] = fi[i + 1]
    BY <1>14, <2>1
  <2> QED
    BY <1>14, <2>1, <2>2, <2>3
<1>17. s[K + 2] = last
  <2>1. K + 2 \in 1..Len(fi) + 1 /\ ~ (K + 2 <= Len(fi)) /\ (K + 2) - Len(fi) = 1
    BY <1>11, <1>12
  <2>2. s[K + 2] = <<last>>[1]
    BY <1>14, <2>1
  <2> QED
    BY <1>10, <2>2
<1>18. \A i \in 1..Len(s) : i = 1 \/ (i - 1 \in 1..K /\ i = (i - 1) + 1) \/ i = K + 2
  BY <1>11, <1>14
<1>19. \A i \in 1..Len(s) : s[i] \in J \/ (s[i] = last /\ i = Len(s))
  <2> HIDE DEF J
  <2> TAKE i \in 1..Len(s)
  <2>1. CASE i = 1
    BY <1>9, <1>15, <2>1
  <2>2. CASE i - 1 \in 1..K /\ i = (i - 1) + 1
    <3>1. s[(i - 1) + 1] = includes[i - 1]
      BY <1>16, <2>2
    <3>2. includes[i - 1] \in J
      BY <1>11, <2>2
    <3> QED
      BY <2>2, <3>1, <3>2
  <2>3. CASE i = K + 2
    BY <1>14, <1>17, <2>3
  <2> QED
    BY <1>18, <2>1, <2>2, <2>3
<1>20. \A y \in J : /\ y[1] \in {"include", "nested"}
                    /\ y[1] = "nested" => y \in Nested(unit)
  BY DEF Include, Nested
<1>21. last[1] = "source" /\ first = Include(Header(unit)) /\ first[1] = "include"
  BY DEF last, first, Include
<1>22. \A y \in X : y[1] = "include"
  BY DEF Include
<1> HIDE DEF J, X
<1>23. \A i \in 1..Len(s) : s[i][1] \in {"include", "nested", "source"}
  BY <1>19, <1>20, <1>21
<1>24. Waiting(s, {}, {}) /\ Ordered(s)
  <2>1. \A i \in 1..Len(s) : \A f \in Files : s[i] # Anchor(f)
    BY <1>23, Anchors
  <2>2. \A d \in Names : Header(d) \in Files
    BY <1>1
  <2> QED
    BY <2>1, <2>2 DEF Waiting, Ordered
<1>25. SourceLast(s) /\ NestedAsked(s)
  BY <1>19, <1>20, <1>21 DEF SourceLast, NestedAsked
<1>26. Scheduled(s, {})
  <2>1. 1 \in 1..Len(s)
    BY <1>11, <1>14
  <2>2. Pending(unit, s)
    BY <1>15, <1>21, <2>1 DEF Pending
  <2>3. ASSUME NEW x \in Asked(unit) PROVE Pending(x, s)
    <3>1. includes \in Seq(X) /\ Include(Header(x)) \in Range(includes)
      BY <1>6, <1>7, <2>3
    <3>2. PICK i \in 1..K : includes[i] = Include(Header(x))
      BY <3>1, LenProperties DEF Range
    <3>3. \A k \in 1..K : includes[k][1] = "include"
      BY <1>22, <3>1, ElementOfSeq
    <3>4. i + 1 \in 1..Len(s) /\ s[i + 1] = Include(Header(x))
      BY <1>16, <3>2
    <3>5. ASSUME NEW k \in 1..(i + 1) PROVE s[k][1] = "include"
      <4>1. CASE k = 1
        BY <1>15, <1>21, <4>1
      <4>2. CASE k # 1
        <5>1. k - 1 \in 1..K /\ (k - 1) + 1 = k
          BY <1>11, <4>2
        <5>2. s[k] = includes[k - 1]
          BY <1>16, <5>1
        <5> QED
          BY <3>3, <5>1, <5>2
      <4> QED
        BY <4>1, <4>2
    <3>6. \A k \in 1..(i + 1) : s[k][1] \notin {"nested", "source"}
      BY <3>5
    <3> QED
      BY <3>4, <3>6 DEF Pending
  <2> QED
    BY <2>2, <2>3 DEF Scheduled, Promised
<1>27. PastDeclared(s, {}, {}, {}) /\ Followed(s, {})
  BY DEF PastDeclared, Followed, Past
<1> QED
  BY <1>14, <1>24, <1>25, <1>26, <1>27 DEF State, I, s

-----------------------------------------------------------------------------
\* What is read up to the end of a chain is defined.
LEMMA PastDefined ==
    ASSUME schema \in Schemas, Regular, NEW s, NEW op, Followed(s, op),
           PastDeclared(s, op, declared, complete), NEW d \in Names, Past(d, s, op),
           \A x \in Chain(d) : ~ CyclicAlias(x)
    PROVE  Defined(d)
<1> DEFINE T == {x \in Names : Past(x, s, op)}
           c == Concrete(d)
<1>1. \A x \in T : schema[x].kind = "alias" /\ ~ CyclicAlias(x) => schema[x].to \in T
  BY Typed DEF Followed
<1>2. d \in T /\ T \subseteq Names
  OBVIOUS
<1> HIDE DEF T
<1>3. c \in T
  BY <1>1, <1>2, ChainWithin
<1>4. schema[c].kind # "alias"
  BY ConcreteEnds DEF Regular
<1>5. d \in declared /\ (schema[c].kind \notin {"alias", "list"} => c \in complete)
  BY <1>2, <1>3 DEF PastDeclared, T
<1> QED
  BY <1>4, <1>5 DEF Defined

\* The first line left is a line.
LEMMA StateAtHead ==
    ASSUME schema \in Schemas, State(todo, opened, declared, complete), todo # <<>>
    PROVE  /\ Head(todo) = todo[1] /\ Len(todo) \in Nat /\ 1 \in 1..Len(todo) /\ todo[1] \in Item
           /\ todo \in Seq(Item)
<1> DEFINE I == Item
<1>1. todo \in Seq(I)
  BY DEF State
<1> HIDE DEF I
<1>2. /\ Len(todo) \in Nat /\ Head(todo) = todo[1] /\ 1 \in 1..Len(todo) /\ todo[1] \in I
  <2>1. Len(todo) \in Nat /\ Head(todo) = todo[1] /\ Len(todo) >= 1
    BY <1>1, Prepended
  <2> QED
    BY <1>1, <2>1, ElementOfSeq
<1> QED
  BY <1>1, <1>2 DEF I

\* Which item a line is, by its first word.
LEMMA Items ==
    ASSUME schema \in Schemas, NEW x \in Item
    PROVE  /\ x[1] \in {"class", "using", "wrapper"} => \E f \in Files : x = Anchor(f)
           /\ x[1] \in {"include", "nested"} => x[2] \in Files /\ x = <<x[1], x[2]>>
           /\ x[1] \in {"declare", "source"} => x[2] \in Names /\ x = <<x[1], x[2]>>
<1>1. \A f \in Files : Anchor(f)[1] \in {"wrapper", "using", "class"}
  BY Anchors
<1>2. \/ x \in {"include", "nested"} \X Files
      \/ \E f \in Files : x = Anchor(f)
      \/ x \in {"declare", "source"} \X Names
  BY DEF Item
<1> QED
  BY <1>1, <1>2

\* At a declaration, the names it needs have been declared, and defined where
\* no reference on a cycle stands between.
LEMMA DeclarationCompiles ==
    ASSUME schema \in Schemas, Regular, State(todo, opened, declared, complete), todo # <<>>,
           NEW f \in Files, todo[1] = Anchor(f)
    PROVE  /\ \A d \in Names : Header(d) \in FirstIncludes(f) =>
                 /\ d \in declared
                 /\ (\A x \in Chain(d) : ~ CyclicAlias(x)) => Defined(d)
           /\ \A t \in FirstNames(f) : t \in declared
<1>1. /\ Waiting(todo, opened, declared) /\ Ordered(todo) /\ Followed(todo, opened)
      /\ PastDeclared(todo, opened, declared, complete) /\ todo \in Seq(Item)
  BY DEF State
<1>2. ASSUME NEW d \in Names, Header(d) \in FirstIncludes(f)
      PROVE  /\ d \in declared
             /\ (\A x \in Chain(d) : ~ CyclicAlias(x)) => Defined(d)
  <2>1. Past(d, todo, opened)
    BY <1>1, <1>2, AtDeclaration
  <2>2. d \in declared
    BY <1>1, <2>1 DEF PastDeclared
  <2>3. (\A x \in Chain(d) : ~ CyclicAlias(x)) => Defined(d)
    BY <1>1, <2>1, PastDefined
  <2> QED
    BY <2>2, <2>3
<1>3. 1 \in 1..Len(todo)
  BY StateAtHead
<1>4. \A t \in FirstNames(f) : t \in declared \/ \E i \in 1..(1 - 1) : todo[i] = <<"declare", t>>
  BY <1>1, <1>3 DEF Waiting
<1> QED
  BY <1>2, <1>4

\* At each declaration in a header, what HeadersStandAlone asks.
LEMMA HeadersCompile ==
    ASSUME schema \in Schemas, unit \in Names, Regular, State(todo, opened, declared, complete)
    PROVE  HeadersStandAlone
<1>1. ASSUME Reading("class")
      PROVE  LET n == Head(todo)[2]
             IN \A m \in Members(n) :
                   /\ m.to = n \/ m.to \in declared
                   /\ ~ m.many /\ ~ Boxed(n, m) /\ ~ (Record(n) /\ m.opt) => Defined(m.to)
  <2>1. todo # <<>> /\ Head(todo)[1] = "class"
    BY <1>1 DEF Reading
  <2>2. Head(todo) = todo[1] /\ todo[1] \in Item
    BY <2>1, StateAtHead
  <2>3. PICK f \in Files : todo[1] = Anchor(f)
    BY <2>1, <2>2, Items
  <2> DEFINE n == f[1]
  <2>4. f[2] = 0 /\ Head(todo)[2] = n /\ n \in Names
    <3>1. n \in Names
      BY DEF Files
    <3>2. f[2] = 0
      BY <2>1, <2>2, <2>3, Anchors
    <3> QED
      BY <2>1, <2>2, <2>3, <3>1, <3>2, Anchors
  <2> SUFFICES ASSUME NEW m \in Members(n)
               PROVE  /\ m.to = n \/ m.to \in declared
                      /\ ~ m.many /\ ~ Boxed(n, m) /\ ~ (Record(n) /\ m.opt) => Defined(m.to)
    BY <2>4
  <2>5. IsClass(n) /\ m.to \in Names /\ m.to \in ThroughContainers[n]
    BY <2>4, Typed DEF MemberOf, ThroughContainers
  <2>6. /\ \A d \in Names : Header(d) \in FirstIncludes(f) =>
              /\ d \in declared
              /\ (\A x \in Chain(d) : ~ CyclicAlias(x)) => Defined(d)
        /\ \A t \in FirstNames(f) : t \in declared
    BY <2>1, <2>3, DeclarationCompiles
  <2>7. \A d \in Uncut[n] : Header(d) \in FirstIncludes(f)
    BY <2>4 DEF FirstIncludes
  <2>8. FirstNames(f) = ThroughContainers[n] \ (Uncut[n] \cup {n})
    <3> HIDE DEF n
    <3> QED
      BY <2>4, <2>5 DEF FirstNames, IsClass, n
  <2>9. m.to = n \/ m.to \in declared
    BY <2>5, <2>6, <2>7, <2>8
  <2>10. ASSUME ~ m.many, ~ Boxed(n, m), ~ (Record(n) /\ m.opt) PROVE Defined(m.to)
    <3>1. ~ Cut(n, m)
      <4>1. CASE Record(n)
        <5>1. m.to # n
          BY <2>4, <2>10, <4>1, FiniteRecord DEF Regular
        <5> QED
          BY <2>10, <4>1, <5>1 DEF Cut
      <4>2. CASE ~ Record(n)
        BY <2>4, <2>5, <2>10, <4>2, CutAlternative DEF Boxed
      <4> QED
        BY <4>1, <4>2
    <3>2. m.to \in Uncut[n]
      BY <2>4, <2>5, <3>1 DEF Uncut
    <3>3. \A x \in Chain(m.to) : ~ CyclicAlias(x)
      BY <2>4, <2>10 DEF Regular
    <3> QED
      BY <2>5, <2>6, <2>7, <3>2, <3>3
  <2> QED
    BY <2>9, <2>10
<1>2. ASSUME Reading("using") PROVE schema[Head(todo)[2]].to \in declared
  <2>1. todo # <<>> /\ Head(todo)[1] = "using"
    BY <1>2 DEF Reading
  <2>2. Head(todo) = todo[1] /\ todo[1] \in Item
    BY <2>1, StateAtHead
  <2>3. PICK f \in Files : todo[1] = Anchor(f)
    BY <2>1, <2>2, Items
  <2> DEFINE n == f[1]
             to == schema[n].to
  <2>4. f[2] = 0 /\ Head(todo)[2] = n /\ n \in Names /\ schema[n].kind \in {"alias", "list"}
    <3>1. n \in Names
      BY DEF Files
    <3>2. f[2] = 0
      BY <2>1, <2>2, <2>3, Anchors
    <3>3. schema[n].kind \in {"alias", "list"}
      BY <2>1, <2>2, <2>3, <3>2, Anchors
    <3> QED
      BY <2>1, <2>2, <2>3, <3>1, <3>2, <3>3, Anchors
  <2>5. to \in Names /\ ~ IsClass(n)
    BY <2>4, Typed
  <2>6. /\ \A d \in Names : Header(d) \in FirstIncludes(f) => d \in declared
        /\ \A t \in FirstNames(f) : t \in declared
    BY <2>1, <2>3, DeclarationCompiles
  <2>7. CASE ~ CyclicAlias(n)
    <3>1. Uncut[n] = {to}
      BY <2>4, <2>5, <2>7 DEF Uncut
    <3>2. Header(to) \in FirstIncludes(f)
      BY <2>4, <3>1 DEF FirstIncludes
    <3> QED
      BY <2>4, <2>5, <2>6, <3>2
  <2>8. CASE CyclicAlias(n)
    <3>1. Uncut[n] = {} /\ schema[n].kind = "alias" /\ to # n
      BY <2>4, <2>5, <2>8 DEF Uncut, CyclicAlias
    <3> HIDE DEF n
    <3>2. FirstNames(f) = {to} \ ({} \cup {n})
      BY <2>4, <2>5, <3>1 DEF FirstNames, n
    <3> QED
      BY <2>4, <2>6, <3>1, <3>2
  <2> QED
    BY <2>7, <2>8
<1>3. ASSUME Reading("wrapper")
      PROVE  schema[Head(todo)[2][1]].members[Head(todo)[2][2]].to \in declared
  <2>1. todo # <<>> /\ Head(todo)[1] = "wrapper"
    BY <1>3 DEF Reading
  <2>2. Head(todo) = todo[1] /\ todo[1] \in Item
    BY <2>1, StateAtHead
  <2>3. PICK f \in Files : todo[1] = Anchor(f)
    BY <2>1, <2>2, Items
  <2>4. f[2] # 0 /\ Head(todo)[2] = f
    <3>1. f[2] # 0
      BY <2>1, <2>2, <2>3, Anchors
    <3> QED
      BY <2>1, <2>2, <2>3, <3>1, Anchors
  <2>5. ElementOf(f) \in Names
    BY <2>4, ElementOpens
  <2>6. Header(ElementOf(f)) \in FirstIncludes(f)
    BY <2>4 DEF FirstIncludes
  <2>7. ElementOf(f) \in declared
    BY <2>1, <2>3, <2>5, <2>6, DeclarationCompiles
  <2> QED
    BY <2>4, <2>7 DEF ElementOf
<1>4. ASSUME Reading("nested") PROVE Head(todo)[2] \in opened
  <2>1. todo # <<>> /\ Head(todo)[1] = "nested"
    BY <1>4 DEF Reading
  <2>2. Head(todo) = todo[1] /\ 1 \in 1..Len(todo)
    BY <2>1, StateAtHead
  <2>3. todo[1] \in Nested(unit)
    BY <2>1, <2>2 DEF State, NestedAsked
  <2>4. PICK x \in ExtraIncludes(schema[unit].to, unit) : todo[1] = <<"nested", Header(x)>>
    BY <2>3 DEF Nested
  <2>5. x \in Reach({unit}, Opens)
    BY <2>3 DEF Regular, Nested
  <2> DEFINE O == {y \in Names : Header(y) \in opened}
  <2>6. \A y : Promised(y, todo, opened) => Header(y) \in opened
    <3>1. \A y : ~ Pending(y, todo)
      <4> SUFFICES ASSUME NEW i \in 1..Len(todo), \A k \in 1..i : todo[k][1] \notin {"nested", "source"}
                   PROVE  FALSE
        BY DEF Pending
      <4> QED
        BY <2>1, <2>2
    <3> QED
      BY <3>1 DEF Promised
  <2>7. unit \in O /\ \A n \in O : Opens[n] \subseteq O
    <3>1. Opens \in Graph
      BY OpensGraph
    <3>2. Promised(unit, todo, opened) /\ \A n \in O : \A d \in Opens[n] : Promised(d, todo, opened)
      BY DEF State, Scheduled
    <3> QED
      BY <2>6, <3>1, <3>2 DEF Graph
  <2>8. {unit} \subseteq O
    BY <2>7
  <2> HIDE DEF O
  <2>9. Reach({unit}, Opens) \subseteq O
    BY <2>7, <2>8, ReachLeast
  <2>10. Header(x) \in opened
    BY <2>5, <2>9 DEF O
  <2>11. Head(todo)[2] = Header(x)
    BY <2>2, <2>4
  <2> QED
    BY <2>10, <2>11
<1> QED
  BY <1>1, <1>2, <1>3, <1>4 DEF HeadersStandAlone

\* At the definitions, what SourcesSeeTheirParts asks.
LEMMA SourceCompiles ==
    ASSUME schema \in Schemas, unit \in Names, schema[unit].kind # "alias", Regular,
           State(todo, opened, declared, complete)
    PROVE  SourcesSeeTheirParts
<1> SUFFICES ASSUME Reading("source") PROVE SourceNeeds(unit) \subseteq complete
  BY DEF SourcesSeeTheirParts
<1>1. todo # <<>> /\ Head(todo)[1] = "source"
  BY DEF Reading
<1>2. Head(todo) = todo[1] /\ 1 \in 1..Len(todo) /\ Len(todo) \in Nat
  BY <1>1, StateAtHead
<1>3. 1 = Len(todo)
  BY <1>1, <1>2 DEF State, SourceLast
<1> DEFINE O == {y \in Names : Header(y) \in opened}
<1>4. \A y : Promised(y, todo, opened) => Header(y) \in opened
  <2>1. \A y : ~ Pending(y, todo)
    <3> SUFFICES ASSUME NEW i \in 1..Len(todo), \A k \in 1..i : todo[k][1] \notin {"nested", "source"}
                 PROVE  FALSE
      BY DEF Pending
    <3> QED
      BY <1>1, <1>2
  <2> QED
    BY <2>1 DEF Promised
<1>5. unit \in O /\ Asked(unit) \subseteq O /\ \A n \in O : Opens[n] \subseteq O
  <2>1. Opens \in Graph /\ Asked(unit) \subseteq Names
    BY OpensGraph DEF Asked
  <2>2. /\ Promised(unit, todo, opened)
        /\ \A x \in Asked(unit) : Promised(x, todo, opened)
        /\ \A n \in O : \A d \in Opens[n] : Promised(d, todo, opened)
    BY DEF State, Scheduled
  <2> QED
    BY <1>4, <2>1, <2>2 DEF Graph
<1>6. \A x \in O : Past(x, todo, opened)
  <2>1. \A x \in Names : Anchor(Header(x))[1] \in {"wrapper", "using", "class"}
    BY ItemsAre, Anchors
  <2>2. ASSUME NEW j \in 1..Len(todo) PROVE j = 1
    <3>1. Len(todo) = 1
      BY <1>3
    <3>2. j \in 1..1
      BY <3>1
    <3> QED
      BY <3>2
  <2>3. todo[1][1] = "source"
    BY <1>1, <1>2
  <2>4. \A x \in Names : todo[1] # Anchor(Header(x))
    BY <2>1, <2>3
  <2>5. ASSUME NEW x \in O, NEW j \in 1..Len(todo) PROVE todo[j] # Anchor(Header(x))
    <3>1. j = 1
      BY <2>2
    <3> QED
      BY <2>4, <3>1
  <2>6. \A x \in O : Header(x) \in opened
    OBVIOUS
  <2> HIDE DEF O
  <2> QED
    BY <2>5, <2>6 DEF Past
<1>7. \A x \in O : IsClass(x) => x \in complete
  BY <1>6 DEF State, PastDeclared, IsClass
<1>8. O \subseteq Names
  OBVIOUS
<1> HIDE DEF O
<1>9. SourceNeeds(unit) \subseteq {c \in O : IsClass(c)}
  BY <1>5, <1>8, SourceOpened
<1> QED
  BY <1>7, <1>9

-----------------------------------------------------------------------------
\* The schema does not change, nor what is said of it.
LEMMA SchemaFrozen ==
    ASSUME schema' = schema, prefixed' = prefixed
    PROVE  /\ Uncut' = Uncut /\ Opens' = Opens /\ ThroughContainers' = ThroughContainers
           /\ (\A n : Under(n)' = Under(n)) /\ (\A n : CyclicAlias(n)' = CyclicAlias(n))
           /\ (\A n : Asked(n)' = Asked(n)) /\ (\A n : Nested(n)' = Nested(n))
           /\ Regular' = Regular
<1>1. Uncut' = Uncut
  BY DEF Uncut, Cut, CyclicAlias, Reaches, Embeds, Reach, ThroughContainers, Members, Record, IsClass
<1>2. Opens' = Opens
  BY <1>1 DEF Opens, CyclicElementIncludes, ExtraIncludes, Reachable, Concrete, Reaches, Reach,
              ThroughContainers, Members, Record, IsClass
<1>3. ThroughContainers' = ThroughContainers
  BY DEF ThroughContainers, Members, IsClass
<1>4. ASSUME NEW n PROVE Under(n)' = Under(n)
  BY <1>1, <1>2 DEF Under, OpensFirst, Reach, Record
<1>5. ASSUME NEW n PROVE CyclicAlias(n)' = CyclicAlias(n)
  BY <1>3 DEF CyclicAlias, Reaches, Reach, IsClass
<1>6. ASSUME NEW n PROVE Asked(n)' = Asked(n)
  BY DEF Asked, OptionalIncludes, CyclicElementIncludes, ExtraIncludes, Reachable, Concrete, Reaches,
         Reach, ThroughContainers, Members, Record, IsClass
<1>7. ASSUME NEW n PROVE Nested(n)' = Nested(n)
  BY DEF Nested, Header, ExtraIncludes, Reachable, Concrete, Reach, Members, IsClass
<1>8. /\ \A n : Members(n)' = Members(n)
      /\ \A n : Record(n)' = Record(n)
      /\ \A n : IsClass(n)' = IsClass(n)
  BY DEF Members, Record, IsClass
<1>9. Finite' = Finite
  BY DEF Finite, Members, Record, IsClass
<1>10. ASSUME NEW n PROVE Chain(n)' = Chain(n)
  BY DEF Chain, Reach
<1>11. ASSUME NEW n PROVE ElementNames(n)' = ElementNames(n)
  BY <1>8 DEF ElementNames
<1>12. ASSUME NEW t PROVE Concrete(t)' = Concrete(t)
  BY DEF Concrete
<1>13. ASSUME NEW n PROVE CyclicElementIncludes(n)' = CyclicElementIncludes(n)
  BY DEF CyclicElementIncludes, ExtraIncludes, Reachable, Concrete, Reaches, Reach,
         ThroughContainers, Members, IsClass
<1>14. ASSUME NEW n PROVE Fetched(n)' = Fetched(n)
  BY <1>8, <1>13 DEF Fetched, Inline
<1>15. ASSUME NEW t, NEW n PROVE ExtraIncludes(t, n)' = ExtraIncludes(t, n)
  BY DEF ExtraIncludes, Reachable, Concrete, Reach, Members, IsClass
<1>16. ASSUME NEW S PROVE Reach(S, Opens)' = Reach(S, Opens)
  BY <1>2 DEF Reach
<1>17. (\A n \in Names : ~ Reaches(n, n, Uncut))' = (\A n \in Names : ~ Reaches(n, n, Uncut))
  BY <1>1 DEF Reaches, Reach
<1>18. (\A n \in Names : \A d \in Uncut[n] : n \notin Under(d))'
         = (\A n \in Names : \A d \in Uncut[n] : n \notin Under(d))
  BY <1>1, <1>4
<1>19. (\A n \in Names : \A m \in Members(n) :
           ~ m.many => \A x \in Chain(m.to) : ~ CyclicAlias(x))'
         = (\A n \in Names : \A m \in Members(n) :
               ~ m.many => \A x \in Chain(m.to) : ~ CyclicAlias(x))
  BY <1>5, <1>8, <1>10
<1>20. (\A n \in Names : \A t \in ElementNames(n) :
           IsClass(Concrete(t)) => Concrete(t) \in Reach({n}, Opens) \cup Fetched(n))'
         = (\A n \in Names : \A t \in ElementNames(n) :
               IsClass(Concrete(t)) => Concrete(t) \in Reach({n}, Opens) \cup Fetched(n))
  BY <1>8, <1>11, <1>12, <1>14, <1>16
<1>21. (\A n \in Names : prefixed /\ schema[n].kind = "list" =>
           ExtraIncludes(schema[n].to, n) \subseteq Reach({n}, Opens))'
         = (\A n \in Names : prefixed /\ schema[n].kind = "list" =>
               ExtraIncludes(schema[n].to, n) \subseteq Reach({n}, Opens))
  BY <1>15, <1>16
<1>22. Regular' = Regular
  BY <1>9, <1>17, <1>18, <1>19, <1>20, <1>21 DEF Regular
<1> QED
  BY <1>1, <1>2, <1>3, <1>4, <1>5, <1>6, <1>7, <1>22

\* So the invariant in the next state is that of the next lines and names.
LEMMA StateFrozen ==
    ASSUME schema' = schema, prefixed' = prefixed, unit' = unit
    PROVE  State(todo, opened, declared, complete)' <=> State(todo', opened', declared', complete')
<1>1. /\ Uncut' = Uncut /\ Opens' = Opens /\ ThroughContainers' = ThroughContainers
      /\ (\A n : Under(n)' = Under(n)) /\ (\A n : CyclicAlias(n)' = CyclicAlias(n))
      /\ (\A n : Asked(n)' = Asked(n)) /\ (\A n : Nested(n)' = Nested(n))
      /\ Regular' = Regular
  BY SchemaFrozen
<1>2. Files' = Files
  BY DEF Files, IsClass
<1>3. ASSUME NEW f PROVE Anchor(f)' = Anchor(f)
  BY DEF Anchor
<1>4. Item' = Item
  BY <1>2, <1>3 DEF Item
<1>5. Waiting(todo, opened, declared)' <=> Waiting(todo', opened', declared')
  BY <1>1, <1>2 DEF Waiting, Anchor, FirstIncludes, FirstNames, ElementOf, Header, Include, IsClass
<1>6. Ordered(todo)' <=> Ordered(todo')
  BY <1>1, <1>2 DEF Ordered, Speaks, Beneath, ElementOf, Anchor, Header, Include
<1>7. SourceLast(todo)' <=> SourceLast(todo')
  BY DEF SourceLast
<1>8. NestedAsked(todo)' <=> NestedAsked(todo')
  BY <1>1 DEF NestedAsked
<1>9. Scheduled(todo, opened)' <=> Scheduled(todo', opened')
  BY <1>1 DEF Scheduled, Promised, Pending, Header, Include
<1>10. PastDeclared(todo, opened, declared, complete)' <=> PastDeclared(todo', opened', declared', complete')
  BY DEF PastDeclared, Past, Anchor, Header
<1>11. Followed(todo, opened)' <=> Followed(todo', opened')
  BY <1>1 DEF Followed, Past, Anchor, Header
<1> QED
  BY <1>1, <1>2, <1>4, <1>5, <1>6, <1>7, <1>8, <1>9, <1>10, <1>11 DEF State

\* The invariant of a compilation.
CompileInv == /\ schema \in Schemas /\ unit \in Names /\ schema[unit].kind # "alias"
              /\ State(todo, opened, declared, complete)

\* It holds at the start, before the first line.
LEMMA CompileStart == Begin => CompileInv
<1> SUFFICES ASSUME Begin PROVE CompileInv
  OBVIOUS
<1>1. /\ schema \in Schemas /\ unit \in Names /\ schema[unit].kind # "alias"
      /\ todo = Source(unit) /\ opened = {} /\ declared = {} /\ complete = {}
  BY DEF Begin
<1> QED
  BY <1>1, SourceState DEF CompileInv

LEMMA CompileStep == CompileInv /\ [Read]_reader => CompileInv'
<1> SUFFICES ASSUME CompileInv, [Read]_reader PROVE CompileInv'
  OBVIOUS
<1>1. schema' = schema /\ unit' = unit /\ prefixed' = prefixed
  BY DEF Read, reader, Open, Skip, Declare, Define, Use, Fixed
<1>2. /\ schema \in Schemas /\ unit \in Names /\ schema[unit].kind # "alias"
      /\ State(todo, opened, declared, complete)
  BY DEF CompileInv
<1>3. State(todo, opened, declared, complete)' <=> State(todo', opened', declared', complete')
  BY <1>1, StateFrozen
<1>4. todo # <<>> => Head(todo) = todo[1] /\ todo[1] \in Item
  BY <1>2, StateAtHead
<1>5. \A f \in Files : Anchor(f)[1] \in {"wrapper", "using", "class"}
  BY Anchors
<1>6. State(todo', opened', declared', complete')
  <2>1. CASE Open
    <3> DEFINE g == todo[1][2]
    <3>1. /\ todo # <<>> /\ todo[1][1] \in {"include", "nested"} /\ g \notin opened
          /\ opened' = opened \cup {g} /\ todo' = Contents(g) \o Tail(todo)
          /\ declared' = declared /\ complete' = complete
      BY <1>4, <2>1 DEF Open, Reading
    <3>2. g \in Files /\ (todo[1] = Include(g) \/ todo[1] = <<"nested", g>>)
      BY <1>2, <1>4, <3>1, Items DEF Include
    <3> HIDE DEF g
    <3>3. State(Contents(g) \o Tail(todo), opened \cup {g}, declared, complete)
      BY <1>2, <3>1, <3>2, OpenKeeps
    <3> QED
      BY <3>1, <3>3
  <2>2. CASE Skip
    <3>1. /\ todo # <<>> /\ todo[1][1] \in {"include", "nested"} /\ todo[1][2] \in opened
          /\ todo' = Tail(todo) /\ opened' = opened /\ declared' = declared /\ complete' = complete
      BY <1>4, <2>2 DEF Skip, Reading
    <3>2. \A h : todo[1] = Include(h) => h \in opened
      BY <3>1 DEF Include
    <3>3. \A t : todo[1] # <<"declare", t>>
      BY <3>1
    <3>4. \A n \in Names : todo[1] # Anchor(Header(n))
      BY <1>5, <3>1, ItemsAre
    <3>5. State(Tail(todo), opened, declared, complete)
      BY <1>2, <3>1, <3>2, <3>3, <3>4, TailKeeps
    <3> QED
      BY <3>1, <3>5
  <2>3. CASE Declare
    <3>1. /\ todo # <<>> /\ todo[1][1] \in {"declare", "using"}
          /\ declared' = declared \cup {todo[1][2]}
          /\ todo' = Tail(todo) /\ opened' = opened /\ complete' = complete
      BY <1>4, <2>3 DEF Declare, Reading
    <3>2. \A h : todo[1] # Include(h)
      BY <3>1 DEF Include
    <3>3. \A t : todo[1] = <<"declare", t>> => t \in declared'
      BY <3>1
    <3>4. ASSUME NEW n \in Names, todo[1] = Anchor(Header(n))
          PROVE  n \in declared' /\ schema[n].kind \in {"alias", "list"}
      <4>1. Header(n) \in Files /\ Header(n)[1] = n /\ Header(n)[2] = 0
        BY ItemsAre DEF Header
      <4>2. schema[n].kind \in {"alias", "list"}
        BY <3>1, <3>4, <4>1, Anchors
      <4>3. todo[1] = <<"using", n>>
        BY <3>4, <4>1, <4>2, Anchors
      <4> QED
        BY <3>1, <4>2, <4>3
    <3>5. declared \subseteq declared'
      BY <3>1
    <3>6. State(Tail(todo), opened, declared', complete)
      BY <1>2, <3>1, <3>2, <3>3, <3>4, <3>5, TailKeeps
    <3> QED
      BY <3>1, <3>6
  <2>4. CASE Define
    <3>1. /\ todo # <<>> /\ todo[1][1] = "class"
          /\ declared' = declared \cup {todo[1][2]} /\ complete' = complete \cup {todo[1][2]}
          /\ todo' = Tail(todo) /\ opened' = opened
      BY <1>4, <2>4 DEF Define, Reading
    <3>2. (\A h : todo[1] # Include(h)) /\ \A t : todo[1] # <<"declare", t>>
      BY <3>1 DEF Include
    <3>3. ASSUME NEW n \in Names, todo[1] = Anchor(Header(n))
          PROVE  n \in declared' /\ n \in complete'
      <4>1. Header(n) \in Files /\ Header(n)[1] = n /\ Header(n)[2] = 0
        BY ItemsAre DEF Header
      <4>2. todo[1] = <<"class", n>>
        BY <3>1, <3>3, <4>1, Anchors
      <4> QED
        BY <3>1, <4>2
    <3>4. declared \subseteq declared' /\ complete \subseteq complete'
      BY <3>1
    <3>5. State(Tail(todo), opened, declared', complete')
      BY <1>2, <3>1, <3>2, <3>3, <3>4, TailKeeps
    <3> QED
      BY <3>1, <3>5
  <2>5. CASE Use
    <3>1. /\ todo # <<>> /\ todo[1][1] \in {"wrapper", "source"}
          /\ todo' = Tail(todo) /\ opened' = opened /\ declared' = declared /\ complete' = complete
      BY <1>4, <2>5 DEF Use, Reading
    <3>2. (\A h : todo[1] # Include(h)) /\ \A t : todo[1] # <<"declare", t>>
      BY <3>1 DEF Include
    <3>3. ASSUME NEW n \in Names PROVE todo[1] # Anchor(Header(n))
      <4>1. Header(n) \in Files /\ Header(n)[2] = 0
        BY ItemsAre DEF Header
      <4>2. Anchor(Header(n))[1] \in {"using", "class"}
        BY <4>1, Anchors
      <4> QED
        BY <3>1, <4>2
    <3>4. State(Tail(todo), opened, declared, complete)
      BY <1>2, <3>1, <3>2, <3>3, TailKeeps
    <3> QED
      BY <3>1, <3>4
  <2>6. CASE UNCHANGED reader
    BY <1>2, <2>6 DEF reader
  <2> QED
    BY <2>1, <2>2, <2>3, <2>4, <2>5, <2>6 DEF Read
<1> QED
  BY <1>1, <1>2, <1>3, <1>6 DEF CompileInv

\* Every generated C++ header and source file compiles: a class is defined after
\* the classes it holds by value and the names it mentions, an alias after what
\* it names, no header is read inside the namespace, and the definitions see
\* every class their values are made of (the include, forward declaration and
\* boxing decisions of CppBackend.cpp and Generator.cpp), for any Regular
\* schema of any number of types, with or without a namespace.
THEOREM SourcesCompile == Preprocess => []FilesCompile
<1>1. CompileInv => FilesCompile
  <2> SUFFICES ASSUME CompileInv PROVE FilesCompile
    OBVIOUS
  <2>1. CASE Regular
    BY <2>1, HeadersCompile, SourceCompiles DEF CompileInv, FilesCompile
  <2>2. CASE ~ Regular
    BY <2>2 DEF FilesCompile, HeadersStandAlone, SourcesSeeTheirParts
  <2> QED
    BY <2>1, <2>2
<1> QED
  BY <1>1, CompileStart, CompileStep, PTL DEF Preprocess
=============================================================================
