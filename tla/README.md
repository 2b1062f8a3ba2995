# A TLA+ model of gambas-asn1

This directory holds specifications of the gambas-asn1 compiler and its C++ runtime, the TLC configurations that check
them on small instances, and TLAPS proofs of their main properties for every value of the constants. Paths below are
relative to the repository; `PROJECT.json` maps each definition to the lines it models, lists the hazards with the
properties that watch them, and names for every property a change of the code's model that the property catches.

1. [The system](#1-the-system)
2. [The modules and how they correspond to the code](#2-the-modules)
3. [Runs, bounds and fairness](#3-runs-bounds-and-fairness)
4. [What is proved](#4-what-is-proved)
5. [Where code and documents disagree](#5-where-code-and-documents-disagree)
6. [What is not modelled](#6-what-is-not-modelled)
7. [Plan](#7-plan)

To repeat a check: `tlc -config <component>.cfg MC<component>.tla`; to repeat a proof: `tlapm <component>Proofs.tla`.

## 1. The system

gambas-asn1 compiles ASN.1 modules to C++, Rust or Java classes with tables that describe them. A runtime per language
walks the tables to encode and decode in BER, PER (aligned and unaligned), XER and JER. Nearly everything is a
sequential call. What is hard is of three kinds:

- what outlives a call: objects decoded into again and again, also after a decode that failed; values held twice;
  programs of different schema versions that pass one message on; one trie shared by threads; a directory that many
  compiler runs write into;
- what two parts of the program work out separately and must agree on: the compiler's check of a schema, the tables it
  writes from it and the codec that walks them; an encoder and a decoder; four encoding rules; three backends;
- what happens at an edge: a length that changes its form, a message cut off, a value at the end of a machine integer,
  a type that contains itself.

| Component | State | Operations | Interacts with | Hard behaviour | Correct when |
|---|---|---|---|---|---|
| CHOICE storage: `ChoiceInterface`, generated classes | `_present`, `active_lifecycle`, the shared buffer `val_` | decode (4 rules), `set_present`, accessors, copy, move, fill, encode | every codec writes name and buffer, in its own order | a failed or skipped decode, then reuse | no accessor reinterprets another alternative's bytes; the object holds what the last success stored in it |
| Contained values: `Containing<T>` | raw bytes, inner value, status, dirty flag, rules of the bytes | decode, inline text, `set`, `set_value`, copy, move, fill, encode | decoder registries passed on streams, codecs, `deep_copy` | which of bytes and value is current; streams made in passing | bytes and value agree; meaning survives every hop; a modified value is never written as its old bytes |
| BER projection: `BerProjection`, `BerProjectionResult` | the sealed trie; per thread slots, offsets, found flags | `add_path`, `finalize`, `bind`, `apply`, `load`, `commit` | `BerCursor`, the application's optionals; threads share the trie | registration that throws half way; frames with unknown, missing, broken fields | each thread sees exactly the fields of its own frame; a commit changes one field |
| PER SEQUENCE/SET with additions: `SequencePerHandler` | the object's members | encode, decode, failures within | open types, programs of other versions | stale members of a reused object; additions the table lacks | a member means what its setter meant; what was decoded can be sent on; losses are counted |
| SEQUENCE, SET, SEQUENCE OF under all rules: the handlers of the four codecs, `deep_copy` | the object's members and lists | encode, decode, copy | `set_present`, `set_default`, `resize` of the generated classes | four decoders that find and clear members in four ways; lists refilled in place | an object means what the sender meant, whatever it held before and whatever the rules |
| PER lengths and fragments: `PerCodec` | position in the stream, items so far | length determinants, sizes, fragments | every PER handler | 127/128, 16K and multiples, items without bits | the decoder reads what the encoder wrote, or fails, and always ends |
| BER framing: `BerReader`, `BerWriter`, `DecodeDepth`, `BerCursor` | open elements, depth | open/close, definite and indefinite lengths, retagging, in-place writes | every BER handler | contents that move when their length is known; nesting limit | what was written is read back; what was cut off is noticed; damage stays where it is |
| Builtin types: tables, values, PER, XER, JER, filler | none between calls | constrain, validate, fill, encode, decode, relay | tables of three backends | edges of machine integers, SIZE and FROM in all their forms | the table says what the constraint says; what it admits survives every encoding |
| Output directory: `Generator`, `write_if_changed`, `RustBackend` | files, `.asn1cpp-generated`, `lib.rs`, directories | a compiler run, step by step | the user's own files, other backends' runs | runs that fail or are killed; options that change | success means complete; nothing generated is forgotten; the user's files are left alone |
| Name resolution: `Resolver`, `main.cpp` | symbol tables, scopes, instances | the passes, module by module | imports, parameterised types, class fields, values | order of modules and passes; names rewritten in place | a name means what the schema says; values end in literals |
| Tags: `Resolver`, `Generator`, `BerCodec`, `RustBackend`, `ber::object` | the checked schema, the tables, the walk | check, tabulate, encode, decode | two backends and two runtimes | tags worked out in several places | what the check admits is read back; what it refuses would be misread; Rust and C++ understand each other |
| Generated files of recursive schemas: `Generator`, `CppBackend`, `RustBackend` | headers and what they include | boxing, forward declarations, `-pdu` closure | the C++ preprocessor | cycles of types | every class finds what it needs before it; every type has a size |
| Validation walk, visitor, inspector, table dump | none | walks | tables | | |
| Compiler front end; text of the generated sources | the tree | parse, print | | | |
| Rust and Java runtimes | as C++ | as C++ | | | |
| Test and validation tools | none | scripts | the three runtimes | | |

The C++ runtime is the reference of this model: the repository's cross-validation sweep compares the other two with it.

## 2. The modules

Each component has a module with its state and one action per operation (or step of it, where others come between) and
an `MC` module with the instance TLC checks; eight have modules of theorems. Definitions whose comment begins with
"Mutant" are changes of the code that the properties have to catch; nothing else uses them.

### ChoiceStorage

`present`, `held` and `val` are `_present`, the alternative `active_lifecycle` belongs to, and the buffer. BER, XER and
JER emplace the alternative if its name differs, decode it, and name it only when that went well (`DecodeThenName`,
`DecodeFailsUnnamed`, `DecodeFailsNamed`); PER names it before it decodes the contents (`NameThenDecode`). `SkipUnknown`
is the alternative of a later version, `RejectEarly` a decode that never touched the object. `SetPresent`, `Assign`,
`CopyAssign`, `MoveAssign`, `Fill` and `Encode` are the generated class, `deep_copy`, `RandomFiller` and the encoders.
`misread`, `failed`, `stored` and `vouched` are history: whether an accessor ever met another alternative's bytes, the
objects whose last decode failed, what the last success stored, and the objects of which that is claimed. A decode that
skips an unknown alternative reports success and stores nothing: its object is not vouched for (section 5).

The interface does not say whether an object may be used after a failed decode. `TrustsFailedObject` is that question:
with FALSE the application discards such an object (assigns, moves or copies over it), with TRUE it reads or decodes
into it again.

### ContainedValue

The bytes of a contained field are abstracted to the rules they are in, the value they encode and the dress around it
(padding, encryption), which is what a decoder tells apart; `Misread` says what bytes read as in the wrong rules. A
field's configuration (`FieldSpec`) combines `ContainedSpec` with the decoder's entries in the application's registry
and in the defaults, and the place the field has in the outer type, because `encode_open_type` and the SET OF encoder
make streams without the application's settings (`EncodeKind`) and the latter's failure is not read (`Reported`).
`WireBytes`, `Derives` and `Fails` are `contained_wire_bytes`; `DecodeBytes`, `DecodeInline` and `DecodeInlineFails`
the decodes; `Set`, `SetValue`, `Fill`, `Copy`, `Move` the class. `meant` follows the value the last program to set it
meant, through any number of messages; `origin` the bytes an object was given.

### Projection and BerProjection

`Projection` is what a program is promised: registered fields, targets that show them, an `apply` that begins and ends,
a `commit` that replaces one field. `BerProjection` is the code: the arena of trie nodes with `add_path` one component
at a time and the three ways it ends (`AddThrows`, `AddInterior`, `AddLeaf`), `finalize`, and per thread the nested
`walk()` calls one TLV at a time (`SkipTLV`, `MeetLeaf`, `Enter`, `Return`), so walks of several threads interleave.
A place in a frame is named by the path of the field its sender put there; the code compares tags only (`TagOf`).
`Implements` is the refinement: `registered` is the domain of the handles, `shows` and `view` are read off bindings,
found flags and targets, and a thread is `busy` while its walk stack is not empty. `EveryThreadSeesItsFrame` proves it: every
action maps to the action of `Projection` with its name, or to none (`BuildMaps`, `WalkMaps`, `UseMaps`), the step with
which the outermost walk returns to `End`.

### PerExtensions

One extensible SEQUENCE, members numbered as in the newest table, an older program's table being a prefix. The wire is
the extension bit, the bitmap's length and bits, and what is sent for each member; encoder and decoder walk the table
in the same order, so positions are not spelled out. `Encode` and `EncodeFails` are the encoder, `DecodeRoot` and
`DecodeAddition` the paths of `decode_members` (root, no extension bit, bit clear, beyond the bitmap, inside a group),
`SkippedCount` the two streams' counts. A decode that fails leaves the members before the failure decoded and the rest
as they were (`DecodeFailsBefore`, `DecodeFailsIn`, `DecodeFailsSkipping`). The message stays in the channel, to be
read again and by other programs. `told` follows each member's meaning (its value, or its DEFAULT when absent) from the
application that set it; `lost` and `newer` say what a receiver could not keep and from whom it came.

### Members

One SEQUENCE or SET object under all four rules (in PER the root only; PerExtensions has the additions). `Encode` is the
message a rule's encoder writes; `Swap`, `Add`, `Drop`, `Damage`, `SpellNull` and `SpellDefault` are what another
encoder may write for the same value, what an older or newer version leaves out or adds, and damage. `WalkMember` and
`WalkTable` are the table walk of BER, PER and XER (`InTableOrder` is BER's `set_in_table_order`), `JerKey`, `JerWalk`
and `DecodeObject` JER's loop over the keys; the four `Refill`s are what each decoder does to the list it finds.
`told` is what the members should mean, `verdict` whether the decode succeeded and whether the message was sound.
XER is given new objects only: an empty XER list leaves the old elements (section 5).

### Transfer and PerLength

`Transfer` is the promise of a counted value: items arrive in order, and the transfer ends, whole or with an error.
`PerLength` is the code: `PutPrefix`, `PutOffset`, `PutRest` and the fragments on one side, the same decisions from
the bits alone on the other (`GetBit`, `GetOffset`, `GetFixed`, `GetFragment`, `GetRest`), one chunk a step, between them `Cut` and `Change`. `Unit` stands
for 16K, `Blocks` for the four units of a fragment, `Limit` for the 200 items without bits a list may have.
`ImplementsTransfer` is the refinement.

### Names

The passes of `Resolver` in `main.cpp`'s order, module by module: `Collect`, `OwnNames` and `ResolveImport` (one clause
a step) to `EndImports`, `ResolveTypes`, `ResolveFields`, `Instantiate` (one definition of the queue a step),
`NextModule`, `ResolveValues`. `symbols`, `scope`, `global`, `cache` and `queue` are the resolver's maps. `Declared`,
`Meant` and `Meaning` say what a name means from the text of the schema alone; the properties compare the two.

### Tags and RustTags

`Tags` runs a schema through the three parts that must agree: `Refuse` or `Compile` (the resolver's distinctness check,
then `Row` and the tags `Generator` writes), `Send` and `SendNewer` (what this encoder, another encoder of a SET, or a
newer version's sends), `Receive` (BerCodec's dispatch). `Regular` names the six situations in which check, tables and
codec are known not to agree (section 5) and excludes them. `RustTags` compiles the same schema as `RustBackend` does
and walks it as `ber::object` of the Rust runtime does: `BackendsInteroperate` compares a Rust peer with a C++ one.

### Headers

The state machine is the C++ preprocessor reading one generated source file, each header at most once: `Open`, `Skip`,
`Declare`, `Define`, `Use`. What the files contain (`Contents`, `Source`) is the generator's: which
types are in a cycle, what is boxed, forward-declared or included late, the wrapper of each SEQUENCE OF, with and
without a namespace prefix. `SizesAreFinite` also covers the boxes of the Rust backend, `ClosureIsGenerated` the `-pdu`
selection.

`Regular` says which recursive schemas are promised to compile: every value is finite; no cycle consists of references
the generator does not cut (`Uncut`); what a type needs before its own declaration does not open that type's header on
the way (`Under`); nothing is held by value through a reference that is itself on a cycle; and the class behind an
element of a vector is opened by the type's own files. It speaks of the graph of types only, never of lines or of an
order of reading: that this suffices is what `FilesCompile` says. Section 5 lists schemas it leaves out and what happens
to them.

### BerOctets and Framing

`BerOctets` has identifiers, lengths and the contents octets of the builtin types, as operators. `Framing` is one record
from writer to reader: `Begin`, `Put`, `End` with lengths filled in when an element is closed, `BeginIndefinite` and
`PutLong` for what other encoders may write, `Retag` for IMPLICIT; then `Deliver`, `Cut`, `Patch` (through
`BerMutableCursor`) or `Corrupt` (each mode of `BerCorruptor`); then the reader, one element a step. Octets have `Bits`
bits, so all changes of form happen within a few octets.

### Constraining, Primitives, PerPrimitives, TextPrimitives, PrimitiveFiller and Scalars

`Constraining` goes from a constraint's tree to the table of each backend: `Generator`'s flattening, PerNkmSize,
ENUMERATED numbering, the storage class of INTEGER, and what each backend prints. `Primitives` is the value and its
`validate()`, `PerPrimitives` the PER bits of it, `TextPrimitives` the XER and JER forms as tokens, `PrimitiveFiller`
the draws, repairs and deliberate misses of the generator of test values. `Scalars` composes them: one value set or
filled in one program, written by any codec (or by another's lenient encoder, `PeerXer` and `PeerJer`), read by the
other program with the same table, relayed in another encoding. Machine integers have `Width` bits, octets `OctetBits`.

### OutputDir

The output directory over many compiler runs. A run is `Start`, `WriteFile` per file, `ReadManifest`, `RemoveFile` per
stale file in any order, `RemoveDirs`, `WriteManifest` and `Finish` (which writes `lib.rs` for Rust); it may end before
that by `Unsupported` (the backend throws for a type it cannot generate), `Kill` (between any two steps) or
`KillInWrite` (its `.tmp` is left). `Put` and `Take` are the user between runs. `good` is the run that exited 0 with
nothing after it; `strays`, `mine`, `hollow` and `torn` remember which files a failed run wrote and never listed, which
are the user's, and which directories and modules deletions outside a normal run left behind.

## 3. Runs, bounds and fairness

| Run | Shows | Distinct states |
|---|---|---|
| `choice_storage` | Two objects of one CHOICE under all four rules, by an application that discards objects whose BER, XER or JER decode failed: no accessor misreads, an object holds what the last success stored in it. | 1.3 thousand |
| `contained` | A field in six sound configurations through messages, edits, copies and moves: bytes and value agree, meaning survives every hop, edits are dressed by the registered decoder. | 277 thousand |
| `projection` | A thread over every trie that `add_path` calls for four paths build, one of which throws: handles name their paths, commits touch what they are bound to, and the code implements `Projection`. | 143 thousand |
| `per_extensions` | A newer and an older program exchange, edit and forward one SEQUENCE: meanings survive, what was decoded encodes, losses are counted. | 250 thousand |
| `members` | One SET object sent, reordered, extended, damaged and decoded under all rules into an object in use: it means what was sent, and a decode succeeds exactly on sound messages. | 387 thousand |
| `per_length` | Every count through every form of a length, whole, cut off or changed: whole arrives whole, a cut is noticed, lists of items without bits stay short, every call ends, and the code implements `Transfer`. | 126 thousand |
| `framing` | Records at every change of form, written, retagged, delivered, cut, damaged or patched: read back, noticed, contained. | 1.05 million |
| `scalars` | Every builtin type with constraints at the edges, set or filled, through every encoding and on to another: tables mean what the constraints say, admitted values survive, fills are admitted, backends agree. | 824 thousand |
| `names` | Two modules that use each other's names and a third that competes for an object identifier, in both orders: imports are exported, names keep their meaning, values end. | 304 thousand |
| `tags` | Types of up to three components in modules of each tag default: what is accepted reads back, what is refused would be misread, the Rust tables understand the C++ ones. | 333 thousand |
| `headers` | Recursive schemas of three types, with and without a namespace: every generated source compiles, every type has a size, the closure is generated. | 1.46 million |
| `output_dir` | Rust and Java runs of changing schemas that succeed, fail or are killed, with and without `--remove-stale`, and a user. | 1.85 million |

Bounds, each named in its `MC` module or `.cfg`:

- *ChoiceStorage*: two objects (copy and move need two), three alternatives (the old, the new and one more, so that a
  stale name can differ from both), two values besides the default-constructed one. Objects and values are
  interchangeable, so symmetry is sound: nothing in the module compares them other than by equality.
- *ContainedValue*: two objects, two values, three given byte strings (`MCGiven`), chosen so that bytes in the wrong
  rules read as the other value in two cases and as nothing in the other two. The six configurations are those of the
  repository's contained-value tests and a cipher registered by an application. `OneLive` explores a state further only
  while one object is untouched, or the two are a value and its fresh copy, or what a move left: the operations of two
  objects meet only in copy, move and the message, all of which it keeps. The objects are symmetric, the values are
  not (`MCMisread` tells them apart).
- *BerProjection*: one thread with two targets, four asked paths (a member of a SEQUENCE, a CHOICE, an alternative
  below it, a path whose second component does not exist), three frames: complete, reordered with a member missing and
  one undecodable, and broken half way; all have a member unknown to the program. One thread suffices for the checks
  because no action of a walk writes a variable of the trie or of another thread; the theorems are for any set of
  threads. The targets are symmetric.
- *PerExtensions*: two programs, one knowing both additions, one only the first and with older types for the members;
  one mandatory and one DEFAULT root member, a group of a mandatory and an optional member, a DEFAULT addition. The
  two objects may exchange any number of messages. `OneEdited` explores a state further only while one of the objects
  is as a decode left it or is new; a message stays in the channel, so an edited sender's message still meets every
  receiver. The theorems have no such bound.
- *Members*: a SET of a mandatory scalar, an OPTIONAL NULL, a DEFAULT and a SET OF with up to two elements (one member
  of each kind the code tells apart), messages up to two edits away from what this encoder writes (`MaxEdits`).
- *PerLength*: `Unit` 3 and `Blocks` 2, counts up to 14: two full fragments and a rest, every multiple of a unit and of
  a fragment, with their neighbours; six kinds of SIZE; `Limit` below the unit, as 200 is below 16K. The theorems are
  for any unit.
- *Framing*: octets of three bits, so that lengths change form at 4, 8 and 64 and tag numbers at 3; up to three
  elements open or written, the depth limit at two (one element more than the limit is written).
- *Scalars*: integers of 10 bits and octets of 5, ASCII up to 15, strings up to three characters; bounds at, below and
  above each edge of a machine integer, every form of SIZE and FROM alone and together, as member and as assignment.
- *Names*: four families of programs: references, generics and class fields of two modules with and without a name in
  common; object identifiers under each policy; circles and chains of values, of two modules and of three;
  a duplicate. Both orders of the files.
- *Tags*: one component of any form, or two, or three of fewer forms, each optional or not, the extension marker in
  every place, for SEQUENCE, SET and CHOICE and the three tag defaults.
- *Headers*: three types, A with two members, B and C with one; A reaches the others (or C is a SEQUENCE OF A) and one
  of them is recursive. Three types are not enough for every way in which headers meet: some schemas that do not compile
  take four or five (section 5). The theorems of section 4 are for any number.
- *OutputDir*: five paths (two Rust files, a Java file in a sub-directory, one in the directory itself, one the user
  may have beside the first), five inputs (two Rust schemas of which the second changes one type and drops the other,
  one that fails after its first file, Java with and without `--flat-package`), two texts, any number of runs.
  `OneOfTheUsers` explores on while one file is the user's own; the theorems have no such bound.

`CHECK_DEADLOCK FALSE` stands where the system stops when its one message, schema or source file is dealt with:
PerLength, Names, Headers, Framing and Scalars. Elsewhere deadlock is checked and none occurs.

*Fairness.* Only `FairSpec` of PerLength states any: weak fairness of `Encode` and of `Decode`. Both are loops of one
synchronous call that does nothing else until it returns, so a step of the loop that can be taken is taken; cutting off
or changing an encoding is not fair. Under it `EveryCallEnds`: although the number of fragments comes from the input,
the decoder ends, because every turn takes a header off the stream. The refinement includes the abstract
specification's own liveness (the transfer ends). In the other modules a call is one action, or its end follows from
the finite input it walks over; nothing waits for another actor, retries or schedules, so that a fairness assumption
would say only that the application goes on calling. What resembles progress there is stated as safety: an `apply` ends
with the right fields (`Implements`), a run that exits 0 has done everything (`SuccessIsComplete`), a reader that ends
has seen everything (`ReadsBack`, `CursorSeesAll`).

## 4. What is proved

Every theorem is for all values of the constants that satisfy the named assumptions of its module.

| Module | Theorems | Under | Inductive invariant |
|---|---|---|---|
| ChoiceStorageProofs | `TypeCorrect`; `Safety` (NeverMisread), `Agreement` (NamedIsHeld), `Faithfulness` (HoldsWhatWasStored) | the last three: `Discipline`, the program decodes PER only or discards objects whose other decode failed | name and buffer agree in usable objects; only BER, XER and JER put an object into `failed`; vouched objects hold what was stored |
| ContainedValueProofs | `TypeCorrect`; `Coherence`, `Meaning` (Understood and CarriesMeaning), `Dressing`, `Preservation` (BytesKept) | all but the first: `SoundFields`, every configuration is sound | the properties themselves, and what they need of objects nobody decoded: bytes of an object with a meaning read as it, a decoder that cannot see the value leaves none, origins of message and bytes match, inline messages are text |
| BerProjectionProofs | `Registration` (HandlesNameFields), `TypeCorrect`, `CommitsTouchTheirField` (UnprojectedUntouched) | `DistinctTags`: siblings have tags of their own | `TrieInv`: the arena is a prefix tree of the paths added so far, an `add_path` in progress stands at the node of its prefix, each leaf's index is its path's position; `UseInv`: a field has one node, so no path has two indices and the indices fit the slots (`IndicesFit`, by counting); nothing is read before the trie is sealed; a nested walk stands at the node of the place it walks; a slot holds its own path's place |
| | `EveryThreadSeesItsFrame` (Implements: `Spec` implements Projection) | `DistinctTags`; `FieldsOnce`: a frame has a field once | `WalkInv`: a target is bound to one handle; the walks of a thread are nested, each inside the TLV the one before it has passed last; for every registered field the frame delivers, its slot is filled, or one of the nested walks has it still ahead; `count` is the number of slots filled |
| PerExtensionsProofs | `TypeCorrect`, `EndToEnd` (Meanings), `LossesCounted`, `SkipsMeanNewer`, `DecodedCanBeSent` (DecodedEncodes) | the last: `PlainGroups`, no DEFAULT member in a group | `Carried`, the packet in the channel carries its sender's meanings; `Agree`, Meanings extended to members an object does not know; `Readable`, older types hold nothing they cannot express |
| PerLengthProofs | `TypeCorrect`, `RoundTrip` (IntactIsWhole), `CutsAreNoticed` (CutIsNoticed), `BareListsStayShort` (BareListsAreShort), `RefinesTransfer` (the safety part of ImplementsTransfer) | `LimitAssumption`: the limit is below the unit | the chunks written are linked: each begins with the item after the one before it (`from`, which only the proof reads), only the last one has a length; the reader stands at a chunk with the items before it read |
| MembersProofs | `MembersMean` (MeansWhatWasSent), `MembersAccepted` (AcceptsTheSound) | `XerFindsNoList`: XER decodes into new objects, or there are no lists | `MembersInv`: the message on the wire has no member twice and is in the order its rules prescribe; it is sound just if its mandatory members are there and every value decodes (`Acceptable`), and a sound one says what was meant (`Conveys`), by the set of its items alone; an object vouched for holds values its members can have |
| NamesProofs | `ScopesAreExported` (ImportsAreExported), `ValuesEnd` (ValuesAreGrounded), `NamesMean` (NamesKeepTheirMeaning) | `NamesAssumption`: names that are written have one part | `SeenInv`: an entry of a scope is the module's own or was brought by a clause, whose source exports it; `ApartInv`: the modules collected so far have names of their own, or an error says otherwise. Without the second the module a clause matched by identifier need not be the one whose exports were asked, as `resolve_imports` passes its name on. `TablesInv`, while there is no error: the tables hold the text's names and those of instances, which have more parts (`FreshNames`, by counting); scopes lead to the text's definitions; the global table knows the own names of every module passed; the modules passed by the last pass have a trail without an error for each value. `SenseInv`, while no two modules use one name for two things: each definition in the tables is the text's or what its pass made of it (`MeansInv`), and each cached name leads to the body its generic's text has for its actual parameter |
| GeneratedFilesProofs, on OutputDir | `TypeCorrect`, `Completeness` (SuccessIsComplete), `Cleanliness` (OnlyOutput), `NothingForgotten` (ListedOrStray), `UserFiles` (UserFilesKept), `CrateResolves` (LibResolves) | - | the properties, and `RunKnows` (what a run at each step has written, deleted and kept), `MineApart` (the user's files are not listed), `HollowKnown`, `LibKnown` |
| GeneratedFilesProofs, on Headers | `PduClosureIsEnough` (ClosureIsGenerated), `TypesAreFinite` (SizesAreFinite) | - | `ReadInv`: whatever is left to read names headers of types in the closure only |
| | `SourcesCompile` (FilesCompile) | `Regular`, in the property itself | `State`, of all lines left: a declaration still to come is that of an opened header, and the headers and names it needs are opened and declared or stand before it (`Waiting`); whatever stands before it comes from headers under its own (`Ordered`); what an opened header or the source opens is opened or left before the definitions (`Scheduled`); a type past its declaration is declared and, if a class, complete (`PastDeclared`), and past a reference so is what it names (`Followed`); the definitions are the last line |

The invariants are not inductive alone for the same reason everywhere: a property speaks of what a caller sees after a
call, and the call starts from what earlier ones left in places the property does not mention (the buffer of a failed
object, the message in the channel, the nodes of a path that threw, the fragments already on the wire, the list of a
killed run).

The assumptions are where the code needs help; section 5 says what happens without each: `Discipline` (a CHOICE decoded
into again), `SoundFields` (the two about contained values), `PlainGroups` (a DEFAULT in an absent group),
`DistinctTags` (two members with one tag). `FieldsOnce` is what an encoding of a SEQUENCE or SET is; a frame that repeats
a field counts it twice towards the leaves the walk still has to find (`BerProjection.cpp:209`), so the walk ends early.
`XerFindsNoList` is the empty XER list that leaves
the old elements. `NoneAssumption` and `TokenAssumption` say that the tokens for what is absent, null, broken or foreign
are none of the values they stand beside (but for the null of a NULL member). `LimitAssumption` holds with the code's 200 and 16K;
`ProgramsAssumption` (a program has a module) is the grammar's. `NamesAssumption` is too: what is written in a schema is
one name, while an instance's is made of two and more (`Resolver.hpp:847`), with an underscore no name of ASN.1 has.

`ValuesEnd` says that the check of values suffices, for chains of any length through any number of modules. The path of
`check_value_ref_chain` grows with every link, and there are no more names to put on it than pairs of a module and a
definition (`TrailsEnd`), so a chain without an error ends; that it is the chain of the text, although the code looks
its names up in the scope of the module it began in, is `HopKeeps`, and needs that no two modules use one name for two
things. Without that premise the property is false (section 5).

The four decoders of Members are recursive functions over the table or the keys. What such a function computes is
proved in three steps (`Encode`, `Walk`, `JerWalk`): its equation has a solution, which the CHOOSE behind it then takes;
a lemma about one member or key (`CodedNext`, `WalkStep`, `JerStep`); and induction with the set of the numbers that
have the property (`Inductive`), which needs no induction theorem with an operator as its parameter. The three meet in
what a message says as a set of items, so that order, additions and spelled-out absence drop out
(`TableOrder`, `SwapFits`, `InsertedFits`).

`NamesMean` says that the passes that rewrite definitions in place, in the order of files and definitions, and before
every name they meet is settled, keep what the text says. The invariant follows each definition through its pass: until
then it is the text's, and after it a field is what its class says, an instance a reference to the name in `cache`
(`Kept`). That suffices because a class and a generic are rewritten by no pass, so a body taken from one half-way is the
text's (`PlainSeen`), and because the head of the queue is the only definition a step rewrites while new names are none
the text or the cache has (`ScannedOnce`, `NamesOfInstances`). At the end a link of the text is one that
`follow_aliases` takes, or two through an instance (`LinkIsFollowed`), whatever module the walk began in. The property
has `Near` for the one limit left: `follow_aliases` gives up after 64 definitions (`Resolver.hpp:485`), so chains of up
to 31 links are followed, whatever they consist of. TLC checks the property in programs whose chains are all shorter.

The theorems on Headers are about graphs of any size. `Reach` follows a relation as many steps as there are names; that
this is the least set closed under it (`ReachCloses`, `ReachLeast`) is a count: a round that adds nothing is the last,
and there cannot be more rounds than names. `PduClosureIsEnough` then needs of each file only that it mentions what its
type refers to (`FlattenWithin` and the `Said` lemmas, one for each list the generator writes), `TypesAreFinite` only
the edges: a class held in C++ is reached from its holder by steps that are not cut, so a class inside itself would be a
cycle that is never cut; in Rust a cycle by value has no reference to a type on it (`CycleJoined`) and no SEQUENCE, whose
members in a cycle are boxed, so that it is one of CHOICEs alone.

`SourcesCompile` follows the preprocessor. `FilesCompile` looks at the first line left to read, and the lines behind it
come from headers interrupted at any depth, so the invariant is about all of them: the lines of each file are first
described as a set and by what stands before the declaration (`Placed`), and `State` relates the lines left, the headers
opened and the names declared. It is kept when the first line is read (`TailKeeps`) and when a header's lines are put in
place of the directive (`OpenKeeps`). The hard case is a header that is opened while one that opened it waits for its
declaration: the new header may not need what waits. Everything read below a header is within `Under`, so this is the
clause of `Regular` on `Under`; without it the invariant is not inductive and the property false. At the end
(`SourceCompiles`) every class the definitions need has been opened through the chain of inline types, however the
elements' names are written (`ConcreteEnds`: a chain of references that ends does so within as many steps as there are
names).

Only model-checked: all of Framing, Scalars and Tags. They compare recursive operators over octets, constraint trees and
nested types, which the prover does not take. Liveness (`EveryCallEnds`, and that of `Transfer`) is out of its reach as well.

## 5. Where code and documents disagree

The runs check the instances in which the code keeps its promises. While they were found, the following came up; each
was a counterexample of TLC or is excluded by the named definition.

*Objects and messages*

- **A CHOICE decoded into again after a failed BER decode** (`BerCodec.cpp:947`): the failed decode emplaces its
  alternative and leaves `_present` naming the old one; decoding the old alternative again emplaces nothing and works on
  the other type's storage, against `TypeDescriptor.hpp:177`. XER (1051-1066) and JER (1239-1245) have the same order,
  PER (1443-1446) names first. `TrustsFailedObject = TRUE` shows it.
- **A skipped alternative** (`BerCodec.cpp:1048`, `PerCodec.cpp:1467`): `book.md:1314` has `_present` 0 after "an unknown
  extension skipped on decode". The skip reports success and touches nothing, so that is true of a new object, which is
  what `tests/seq/test_choice_unknown_ext.cpp` decodes into; one decoded into again still names, shows and re-encodes the
  alternative of the message before. `HoldsWhatWasStored` claims nothing of such an object (`SkipUnknown` takes it out of
  `vouched`); `NeverMisread` holds of it, as what it names is still what it holds.
- **The order of a SET in BER.** The table of known limitations says that "out-of-order SETs from other encoders are not
  handled" (`book.md:2122`). They are: C++ puts the components into table order before it walks them
  (`BerCodec.cpp:746`), and so does Rust (`object.rs:275`); `tests/seq/test_set_order.cpp` and `tests/rust/set_order`
  check it, `TypeDescriptor.hpp:232`, `book.md:443` and 2343 and `backend-guide.md:247` promise it. `AcceptsTheSound`,
  `ReadsBack` of Tags and `BackendsInteroperate` follow the code and those; the limitation is out of date.
- **A modified contained value in a SET OF** (`BerCodec.cpp:591`): the failure of an element's encode is recorded in a
  writer nobody asks, so the old bytes go out; `book.md:650` rules that out.
- **A modified contained value in a PER addition** (`PerCodec.cpp:310`, 1223): the open type's stream has no contained
  options, so the default decoder's encode side is used in place of the application's, against
  `ContainedDecoders.hpp:127`.
- **Two members with one tag** (`BerProjection.cpp:213`): the projection matches by tag alone and a commit overwrites a
  field that is not projected, against `book.md:2171`.
- **A DEFAULT in an absent group** (`PerCodec.cpp:1310`): decode fills it in, which makes the group present without its
  mandatory members, and the object no longer encodes (the comment at 1233 and `tests/seq/test_ext_group.cpp`).
- **Skipped additions inside a known addition** are counted in the open type's sub-stream, which is dropped with its
  count (`PerCodec.cpp:323`), while `book.md:801` reads as if all were counted. `LossIsCounted` is about root members
  and additions beyond the table.
- **An absent DEFAULT in XER and JER** (`XerCodec.cpp:966`, `JerCodec.cpp:1163`) stays absent, while `book.md:1053` and
  `TypeDescriptor.hpp:166` have `set_default` called; BER and PER call it. `Meaning` reads absence as the DEFAULT.
- **An empty list in XER** leaves the elements the object had; `Reuse` in `Members.cfg` leaves XER out.
- **A mandatory member without a value** ends its BER encode without `encode_failed` (`BerCodec.cpp:677`).

*The compiler*

- **`-o gen/` with the Rust backend** (`RustBackend.cpp:2559`): `lib.rs` declares no module, against `book.md:1464`.
- **Aliases of another module** are followed in the scope of the module that asked (`Resolver.hpp:498`), whatever its
  comment (560) says; `Collisions` excludes names two modules use for two things. An imported name replaces a module's
  own of the same name (`Own module wins`, says the comment at 523), a qualified reference to a name its module does not
  define is no error, and a qualified instance forgets its module.
- **A circle of values through three modules** is not found when their names collide (`Resolver.hpp:1106`, 1119): the
  whole chain is looked up in the scope of the module it began in, so with `v ::= w`, `w ::= x`, `x ::= v` in A, B and C,
  each importing the name it uses from the next, and a literal in each module under the third name, every walk comes to
  its own module's literal and the schema compiles. `ValuesAreGrounded` has the premise `~Collisions` for it.
- **Tags.** `Regular` excludes: an optional component before the marker (the check stops at it, the decoder does not);
  AUTOMATIC tags of a CHOICE inside another type; IMPLICIT over a type with an EXPLICIT tag; an alias that is tagged
  again; ANY without a tag; unknown alternatives not seen. `decode_value` called with a type that has an EXPLICIT tag of
  its own ignores it (`BerCodec.cpp:202`, against `BerCodec.hpp:70`).
- **Rust and C++ on tags**, excluded by `BackendsDiffer`: a mandatory SET member of a CHOICE type with a tag of its own
  is matched against the alternatives' tags and decoded last (`object.rs:263`, whose comment speaks of untagged ones);
  an EXPLICIT tag over a type with a tag of its own loses the inner one (`RustBackend.cpp:1466`); ANY as an alternative
  is refused (134). Outside the instance: a SEQUENCE with an EXPLICIT tag of its own is written IMPLICIT (1798).
- **Recursive schemas that do not compile**, which `Regular` leaves out: a named SEQUENCE OF or an alias that is held by
  value on a cycle; mutual recursion through inline SEQUENCE OFs only; an alternative SEQUENCE OF whose element reaches
  the CHOICE by value (`Generator.cpp:2701`); a cycle that is cut at a CHOICE and entered elsewhere, as with
  `K1 ::= CHOICE {K2}`, `K2 ::= CHOICE {T}`, `T ::= SEQUENCE {D}`, `D ::= SEQUENCE {K1}`, where D's header reads T before
  D is complete; an element named by a reference on a cycle (`D ::= SEQUENCE {SEQUENCE OF C, D OPTIONAL}`, `C ::= D`),
  whose header only forward-declares the class, in a type that opens it nowhere else (`B ::= SEQUENCE {SEQUENCE OF C}`);
  with `-fprefix`, where the includes of cyclic elements move up into the header, some schemas that compile without
  (`A ::= CHOICE {B, C, D}`, `B ::= SEQUENCE {A}`, `C ::= CHOICE {A}`, `D ::= CHOICE {E}`,
  `E ::= SEQUENCE {D, SEQUENCE OF C}`). `Regular` also leaves out some schemas that do compile. With
  `-fprefix`, the include of an OPTIONAL member's type goes into the header although the comment at 2105 speaks of a
  forward declaration (2244). Rust boxes a CHOICE's direct reference to itself only (`RustBackend.cpp:1937`), so two
  CHOICEs that hold each other have no size; `backend-guide.md:398` promises otherwise.

*Builtin types and framing*

- **INTEGER**: `(a..large)` with negative `a` becomes signed with a negative upper bound, which nothing satisfies; a
  large lower bound is cast to a negative one; a named value above INT64_MAX as upper bound becomes -1; a later,
  smaller range keeps the first one's large bound; MIN..N has no upper bound in `validate()`; a value out of range is
  masked in PER without an error (`backend-guide.md:222`).
- **SIZE and FROM**: unions, single values, open endpoints and a second SIZE are not looked at, several FROMs are
  united; SIZE(1 | ..., ...) marks C++ tables alone as extensible; a string with SIZE(n..MAX, ...) has an extension bit
  and an OCTET or BIT STRING has none; FROM of UTF8String is kept for assignments and dropped for members; an alias of
  IA5String without SIZE or FROM loses the natural alphabet; visible UTF8String sizes count octets in PER and
  characters in `validate()` (`book.md:880`); Rust tables of assignments drop FROM and large upper bounds.
- **ENUMERATED**: root and extension are sorted together, so a newer version whose extension has a smaller number
  renumbers the root; an unknown value is written as the first extension item in PER.
- **Text**: a JER number that is cut short still decodes; a JER BIT STRING written as an array decodes to none; an XER
  decimal REAL becomes a binary one. `BmpLimit` and `Halved` keep half characters out of the filler's checks, which
  fills BMPString and UniversalString with narrow characters and ignores their FROM.
- **BerCorruptor**: raising the number of a tag in long form can turn it into a short one (`LONG_BUMP`), more than the
  "small type drift" its comment announces.

## 6. What is not modelled

Within the modelled components:

- *ChoiceStorage*: nested CHOICEs (an alternative's value is atomic); `on_error: fail` of a contained alternative is
  the error of `DecodeFailsNamed`.
- *ContainedValue*: the inner type's own encoding (a value is atomic, `Misread` says what a mix-up of rules does); the
  warning text of `zero_padding`.
- *BerProjection*: octets and lengths within a TLV (`Size` is all that commit asks); the depth limit.
- *PerExtensions*: a DEFAULT without a generated setter is treated as OPTIONAL; bit positions (PerLength has the
  length determinants, PerPrimitives the contents).
- *Members*: contents of scalar members; nested objects (a member's value is atomic or a list).
- *PerLength*: octet alignment of aligned PER; what the items are.
- *Names*: parameters other than one type; object classes beyond a field's type; value set and information object
  definitions.
- *Tags and RustTags*: SEQUENCE OF, which adds nothing to dispatch; the precomputed `tag_index`, which answers as the
  scan does; the Rust reader of XER, JER and PER.
- *Headers*: contained fields, members of builtin types, collections of collections.
- *Framing*: the class bits of identifiers, `BerLayer`'s cache, REAL contents, contained values.
- *Scalars*: decimal and binary REAL contents, OBJECT IDENTIFIER and time as text, ANY, layout and number formatting.
- *OutputDir*: more than one level of sub-directories; a disk that fills up while a file is written (the short write is
  not noticed by `write_if_changed`, and the run goes on to exit 0), power loss, two compilers in one directory, and
  a user at work while the compiler runs. Stale files are deleted in set order by the code and in any order here.

Components left out:

- *Validation walk, typed visitor, inspector, table dump*: walks that change nothing.
- *Random filler on structured values*: generation of test data; what it does to a CHOICE and to a contained field is an
  action of those modules.
- *Compiler front end, the text of the generated sources, contained-field selection*: a grammar, printing and an options
  file; compiled and run by the repository's own build of every sample.
- *Rust and Java runtimes*, other than the BER dispatch of the former: further implementations of the same tables.
- *Test and validation scripts*: sequential scripts without state of their own.

## 7. Plan

Done: the twelve systems above and the theorems of section 4. What would add most next:

1. composition of ChoiceStorage and ContainedValue: contained values inside a CHOICE alternative and inside an extension
   addition, where the storage, the options on the stream and the failed decode meet;
2. PerExtensions over PerLength's chunks in place of members that are sent whole, so that a cut inside an open type
   meets the skipping of additions;
3. the Java backend's rows beside RustTags.
