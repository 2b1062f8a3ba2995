------------------------------ MODULE OutputDir ------------------------------
(***************************************************************************)
(* The output directory of the compiler (-o) over many runs of it:         *)
(* Generator::generate and update_manifest, write_if_changed and           *)
(* RustBackend::finalize_output.                                           *)
(*                                                                         *)
(* A run writes its files one by one, then deletes what earlier runs       *)
(* listed and it does not write (--remove-stale), then the directories     *)
(* that left empty, then rewrites the list (.asn1cpp-generated), then      *)
(* lib.rs.  It may end before that: with an error, for a construct the     *)
(* backend cannot generate, or killed between any two of these steps.      *)
(* Between runs the user puts files of his own into the directory, although*)
(* he is told not to, and deletes files.  Schemas, backends and options    *)
(* change from run to run.                                                 *)
(***************************************************************************)
EXTENDS Naturals, Sequences

CONSTANTS
    File,       \* paths of sources below the output directory
    Dir,        \* its sub-directories, one level of them (JavaBackend's
                \* output_stem: one per module)
    Top,        \* the output directory itself
    DirOf,      \* [File -> Dir \cup {Top}]
    LangOf,     \* [File -> Target]: the backend whose extension the path has
    Target,     \* the backends, "rust" the one that writes lib.rs
    Input,      \* what a run compiles: [target, files, text, fails]: the files
                \* in the order they are written, what goes into each, and
                \* whether the type after them cannot be generated
    Text,       \* contents of generated files
    Own,        \* the contents of a user's file
    Absent,     \* no file
    None,       \* no run, no lib.rs
    Slash       \* TRUE: "-o gen/", FALSE: "-o gen"

Written(c) == {c.files[i] : i \in 1..Len(c.files)}

ASSUME FileAssumption ==
    /\ Top \notin Dir /\ DirOf \in [File -> Dir \cup {Top}]
    /\ LangOf \in [File -> Target]
    /\ Own \notin Text /\ Absent \notin Text /\ Own # Absent
\* A backend's files have its own extensions (declaration_extension,
\* definition_extension).
ASSUME InputAssumption ==
    /\ Input \subseteq [target : Target, files : Seq(File),
                        text : [File -> Text], fails : BOOLEAN]
    /\ \A c \in Input, f \in File : f \in Written(c) => LangOf[f] = c.target
    /\ Slash \in BOOLEAN

VARIABLES
    disk,       \* [File -> Text + Own + Absent]
    litter,     \* SUBSET File: "<path>.tmp" is there, left by a killed run
    dirs,       \* SUBSET Dir: the sub-directories there are
    manifest,   \* SUBSET File: the lines of .asn1cpp-generated
    lib,        \* None or the files lib.rs declares as modules
    run,        \* None or the run in progress
                \* what the properties need to remember of the past:
    good,       \* None or the run that exited 0, with nothing after it
    strays,     \* SUBSET File: written by a run that never came to list them
    mine,       \* SUBSET File: put there by the user, under a path not listed
    hollow,     \* SUBSET Dir: emptied by the user or a run that was killed
    torn        \* SUBSET File: declared in lib.rs and deleted by the user or
                \* by a run that was killed before it came to lib.rs

ghosts == <<good, strays, mine, hollow, torn>>
vars == <<disk, litter, dirs, manifest, lib, run, ghosts>>

Step == {"types", "removing", "listing", "crate"}
Run == [input : Input, removes : BOOLEAN, at : Step, done : Nat,
        kept : SUBSET File, todo : SUBSET File, emptied : SUBSET (Dir \cup {Top})]

ASSUME NoneAssumption == None \notin Run

Init ==
    /\ disk = [f \in File |-> Absent] /\ litter = {} /\ dirs = {}
    /\ manifest = {} /\ lib = None /\ run = None
    /\ good = None /\ strays = {} /\ mine = {} /\ hollow = {} /\ torn = {}

-----------------------------------------------------------------------------
There(f) == disk[f] # Absent
Empty(d) == \A f \in File : DirOf[f] = d => ~There(f) /\ f \notin litter

\* known_files_: the files the run has written or found up to date.
Known == {run.input.files[i] : i \in 1..run.done}

\* A run begins.
Start(c, removes) ==
    /\ run = None
    /\ run' = [input |-> c, removes |-> removes, at |-> "types", done |-> 0,
               kept |-> {}, todo |-> {}, emptied |-> {}]
    /\ good' = None
    /\ UNCHANGED <<disk, litter, dirs, manifest, lib, strays, mine, hollow, torn>>

NextFile == run.input.files[run.done + 1]
MoreTypes == run # None /\ run.at = "types" /\ run.done < Len(run.input.files)

\* Mutant: a file that is there is left as it is, whatever it holds.
WriteIfMissing ==
    LET f == NextFile
    IN  /\ MoreTypes
        /\ disk' = IF There(f) THEN disk ELSE [disk EXCEPT ![f] = run.input.text[f]]
        /\ litter' = litter \ {f}
        /\ dirs' = dirs \cup ({DirOf[f]} \ {Top})
        /\ run' = [run EXCEPT !.done = @ + 1]
        /\ mine' = mine \ {f} /\ hollow' = hollow \ {DirOf[f]} /\ torn' = torn \ {f}
        /\ UNCHANGED <<manifest, lib, good, strays>>

\* write_if_changed of the next file.  Contents that differ, a user's included,
\* are replaced, through "<path>.tmp" and a rename.
WriteFile ==
    LET f == NextFile
        same == disk[f] = run.input.text[f]
    IN  /\ MoreTypes
        /\ disk' = [disk EXCEPT ![f] = run.input.text[f]]
        /\ litter' = IF same THEN litter ELSE litter \ {f}
        /\ dirs' = dirs \cup ({DirOf[f]} \ {Top})
        /\ run' = [run EXCEPT !.done = @ + 1]
        /\ mine' = mine \ {f} /\ hollow' = hollow \ {DirOf[f]} /\ torn' = torn \ {f}
        /\ UNCHANGED <<manifest, lib, good, strays>>

Generated ==
    run # None /\ run.at = "types" /\ run.done = Len(run.input.files) /\ ~run.input.fails

\* Mutant: what the directory holds is taken for what earlier runs wrote.
UnlessWritten == {f \in File \ Known : There(f)}

\* update_manifest: files earlier runs wrote and this one did not.
Stale == {f \in manifest \ Known : There(f)}

\* Of these, the ones --remove-stale deletes: with this backend's extension.
Doomed ==
    IF run.removes THEN {f \in Stale : LangOf[f] = run.input.target} ELSE {}

\* All types are generated; the list of the runs before is read.
ReadManifest ==
    /\ Generated
    /\ run' = [run EXCEPT !.at = "removing", !.todo = Doomed, !.kept = Stale \ Doomed]
    /\ UNCHANGED <<disk, litter, dirs, manifest, lib, ghosts>>

RemoveFile(f) ==
    /\ run # None /\ run.at = "removing" /\ f \in run.todo
    /\ disk' = [disk EXCEPT ![f] = Absent]
    /\ run' = [run EXCEPT !.todo = @ \ {f}, !.emptied = @ \cup {DirOf[f]}]
    /\ UNCHANGED <<litter, dirs, manifest, lib, ghosts>>

\* The directories the deletions left empty; a .tmp left over keeps one.
RemoveDirs ==
    LET gone == {d \in run.emptied \ {Top} : Empty(d)}
    IN  /\ run # None /\ run.at = "removing" /\ run.todo = {}
        /\ dirs' = dirs \ gone /\ hollow' = hollow \ gone
        /\ run' = [run EXCEPT !.at = "listing"]
        /\ UNCHANGED <<disk, litter, manifest, lib, good, strays, mine, torn>>

\* Mutant: files that are kept are not listed again.
ListOnlyWritten ==
    /\ run # None /\ run.at = "listing"
    /\ manifest' = Known
    /\ strays' = strays \ Known
    /\ run' = [run EXCEPT !.at = "crate"]
    /\ UNCHANGED <<disk, litter, dirs, lib, good, mine, hollow, torn>>

\* The list: what this run wrote and what it left of the runs before.
WriteManifest ==
    /\ run # None /\ run.at = "listing"
    /\ manifest' = Known \cup run.kept
    /\ strays' = strays \ (Known \cup run.kept)
    /\ run' = [run EXCEPT !.at = "crate"]
    /\ UNCHANGED <<disk, litter, dirs, lib, good, mine, hollow, torn>>

\* RustBackend: the files written whose parent_path() is the output directory.
\* That of "gen/A.rs" is "gen", which is no equal of "gen/".
Modules == {f \in Known : DirOf[f] = Top /\ ~Slash}

\* Mutant: lib.rs is written once.
FinishOnce ==
    /\ run # None /\ run.at = "crate"
    /\ lib' = IF run.input.target = "rust" /\ lib = None THEN Modules ELSE lib
    /\ torn' = IF run.input.target = "rust" THEN {} ELSE torn
    /\ good' = [input |-> run.input, removes |-> run.removes]
    /\ run' = None
    /\ UNCHANGED <<disk, litter, dirs, manifest, strays, mine, hollow>>

\* finalize_output, and the run exits 0.
Finish ==
    /\ run # None /\ run.at = "crate"
    /\ lib' = IF run.input.target = "rust" THEN Modules ELSE lib
    /\ torn' = IF run.input.target = "rust" THEN {} ELSE torn
    /\ good' = [input |-> run.input, removes |-> run.removes]
    /\ run' = None
    /\ UNCHANGED <<disk, litter, dirs, manifest, strays, mine, hollow>>

-----------------------------------------------------------------------------
\* What the ghosts remember of a run that ends early.
EndsEarly ==
    /\ run' = None
    /\ strays' = strays \cup (Known \ manifest)
    /\ UNCHANGED <<disk, manifest, lib, good, mine>>

\* A backend throws for a type it cannot generate: "error: ...", exit 1.
Unsupported ==
    /\ run # None /\ run.at = "types" /\ run.done = Len(run.input.files) /\ run.input.fails
    /\ EndsEarly
    /\ UNCHANGED <<litter, dirs, hollow, torn>>

\* The run is killed, or a file operation throws, between two steps.
Kill ==
    /\ run # None
    /\ EndsEarly
    /\ hollow' = {d \in dirs : Empty(d)}
    /\ torn' = IF lib = None THEN {} ELSE {f \in lib : ~There(f)}
    /\ UNCHANGED <<litter, dirs>>

\* The same while it writes "<path>.tmp".
KillInWrite ==
    /\ MoreTypes /\ disk[NextFile] # run.input.text[NextFile]
    /\ EndsEarly
    /\ litter' = litter \cup {NextFile}
    /\ dirs' = dirs \cup ({DirOf[NextFile]} \ {Top})
    /\ hollow' = hollow \ {DirOf[NextFile]}
    /\ UNCHANGED torn

-----------------------------------------------------------------------------
\* The user puts a file of his own into the directory.
Put(f) ==
    /\ run = None /\ disk[f] # Own
    /\ disk' = [disk EXCEPT ![f] = Own]
    /\ dirs' = dirs \cup ({DirOf[f]} \ {Top})
    /\ mine' = IF f \in manifest THEN mine ELSE mine \cup {f}
    /\ good' = None /\ strays' = strays \ {f}
    /\ hollow' = hollow \ {DirOf[f]} /\ torn' = torn \ {f}
    /\ UNCHANGED <<litter, manifest, lib, run>>

\* He deletes a file, his own or a generated one.
Take(f) ==
    /\ run = None /\ There(f)
    /\ disk' = [disk EXCEPT ![f] = Absent]
    /\ mine' = mine \ {f} /\ good' = None /\ strays' = strays \ {f}
    /\ hollow' = IF DirOf[f] \in Dir THEN hollow \cup {DirOf[f]} ELSE hollow
    /\ torn' = IF lib # None /\ f \in lib THEN torn \cup {f} ELSE torn
    /\ UNCHANGED <<litter, dirs, manifest, lib, run>>

Compile ==
    \/ \E c \in Input, removes \in BOOLEAN : Start(c, removes)
    \/ WriteFile
    \/ ReadManifest
    \/ \E f \in File : RemoveFile(f)
    \/ RemoveDirs
    \/ WriteManifest
    \/ Finish

Next ==
    \/ Compile
    \/ Unsupported
    \/ Kill
    \/ KillInWrite
    \/ \E f \in File : Put(f) \/ Take(f)

Spec == Init /\ [][Next]_vars

-----------------------------------------------------------------------------
\* A file has a directory to be in, and only a run in its deletions has any
\* left to do.
TypeOK ==
    /\ disk \in [File -> Text \cup {Own, Absent}]
    /\ litter \subseteq File /\ dirs \subseteq Dir /\ manifest \subseteq File
    /\ lib # None => lib \subseteq File
    /\ run # None =>
        /\ run \in Run /\ run.done <= Len(run.input.files)
        /\ run.at # "removing" => run.todo = {}
    /\ good # None => good \in [input : Input, removes : BOOLEAN]
    /\ strays \subseteq File /\ mine \subseteq File
    /\ hollow \subseteq Dir /\ torn \subseteq File
    /\ \A f \in File : There(f) => DirOf[f] \in dirs \cup {Top}

\* "Generated ... code in: gen/" is true whatever the runs before left behind,
\* killed and failed ones included: every file of the run has its contents and
\* is listed, and nothing is listed that is not there.
SuccessIsComplete ==
    good # None =>
        /\ \A f \in Written(good.input) : disk[f] = good.input.text[f]
        /\ Written(good.input) \subseteq manifest
        /\ \A f \in manifest : There(f)

\* After a run with --remove-stale a build that compiles every file there sees
\* the run's output and the user's files; what else is there, a run that ended
\* early left, or is a user's deletion's directory.
OnlyOutput ==
    good # None /\ good.removes =>
        /\ \A f \in File :
            There(f) /\ LangOf[f] = good.input.target /\ f \notin Written(good.input) =>
                disk[f] = Own \/ f \in strays
        /\ \A d \in dirs : Empty(d) => d \in hollow

\* No generated file is forgotten, over changes of schema, backend and options:
\* it is listed, so that some --remove-stale run finds it, or a run wrote it
\* that ended early ("Kept, and still listed, so a later --remove-stale run
\* finds it").
ListedOrStray ==
    \A f \in File : disk[f] \in Text =>
        f \in manifest \cup strays \/ (run # None /\ f \in Known)

\* "A file no run listed (a user's own source, a hand-maintained sources.mk) is
\* never touched" unless a run generates a file of that name.
UserFilesKept == \A f \in mine : disk[f] = Own

\* A crate that compiled goes on finding its modules after a run with another
\* schema, backend or --remove-stale, and after one that failed: lib.rs
\* declares what is there, but for deletions by the user or by a run that was
\* killed on its way to lib.rs.
LibResolves ==
    run = None /\ lib # None => \A f \in lib : There(f) \/ f \in torn

=============================================================================
