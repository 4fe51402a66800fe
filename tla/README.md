# Relink (`elf_loader`): a TLA+ verification project

Relink loads ELF files at run time: it reads and maps an image, resolves and
applies its relocations, runs its initialisers, and keeps it and what it
depends on mapped until the last reference is dropped. The repository also has
`gen-elf`, a generator of the shared libraries its tests load. This directory
models both, checks the models with TLC on small instances, and proves the
most important properties with TLAPS for every instance.

Paths below are relative to the repository; `src/` is the library crate.

## The parts and how they interact

1. A `Loader` reads headers through an `ElfReader` into a buffer shared by all
   its loads, decides on the kind of file, and builds an image
   (`src/loader.rs`, `src/image`, `src/input`).
2. Building an image maps its segments: from program headers
   (`src/segment/program.rs`) or, for an object file, from sections
   (`src/segment/section.rs`), over one reservation (`src/segment/mod.rs`,
   `src/os`).
3. Relocation resolves symbols in a scope of loaded images with the hash
   tables of `src/elf/hash` and the versions of `src/elf/version.rs`, and
   writes into the image: `src/relocation/dynamic.rs` for libraries and
   executables, `src/relocation/static.rs` and `PltGotSection` for objects.
4. A lazily bound image calls back into the loader, from any thread, through
   its PLT: `dl_runtime_resolve` (`src/arch`) and `dl_fixup`.
5. A `LoadedCore` keeps the image and its dependencies alive; the last drop
   runs the finalisers and unmaps (`src/image/common/core.rs`).
6. `gen-elf` (`tools/gen-elf/src/dylib`) writes libraries whose stubs have to
   fit the loader's half of lazy binding.

## Modules

| Module | Models | Source |
| --- | --- | --- |
| `ImageLifecycle` | ownership: handles, dependency slices, relocation in progress, calls, lazy binding, recursive drops, finalisers | `src/image/common/core.rs`, `src/relocation/dynamic.rs` |
| `Relocation` | the passes over one dynamic image, handlers, RELRO, initialisers, then `dl_fixup` by several threads | `src/relocation/dynamic.rs`, `utils.rs` |
| `StaticLink` | relocation of an object, GOT and PLT allocated on demand | `src/segment/section.rs`, `src/arch/x86_64.rs`, `src/relocation/static.rs` |
| `ObjectBinding` | what `StaticLink` promises, without tables | abstract |
| `SegmentMap` | reservation, mapping, copying, zero-filling, protection and release; the kernel's part | `src/segment/mod.rs`, `src/os/unix.rs` |
| `ProgramSegments` | the segments of `PT_LOAD` headers, RELRO | `src/segment/program.rs` |
| `SectionSegments` | the segments made of an object's sections, GOT and PLT | `src/segment/section.rs` |
| `HashWords`, `ElfHashes`, `SymbolLookup` | 32-bit hashes; hash functions; lookup through GNU, SysV and custom tables, versions, scopes | `src/elf/hash`, `src/elf/version.rs`, `src/elf/symbol.rs` |
| `ElfDynamic`, `LoadPipeline` | the dynamic section; loads from open to image, with failures | `src/elf/dynamic.rs`, `src/loader.rs`, `src/image`, `src/input` |
| `GenElf` | the stages of `DylibWriter::write` | `tools/gen-elf/src` |
| `GenElfLazy` | a library of gen-elf's, bound lazily and called | `src/arch`, `src/relocation/dynamic.rs` |

The `MC...` modules and the `.cfg` files are the instances.
`ImageLifecycleProofs`, `...Safety` and `...Leaks`, `RelocationProofs`,
`StaticLinkProofs`, `ProgramSegmentsProofs`, `SymbolLookupProofs` and
`LoadPipelineProofs` hold the proofs.
Definitions have the names of the functions they model where there is one;
`PROJECT.json` gives the lines. Definitions introduced by a comment "Mutant:"
are wrong versions of the definition after them, used to see that a property
notices.

### State and actions

*ImageLifecycle.* An `Arc` is the set of places that own a reference
(`Handles`: variables, scopes of relocations in progress, elements of deps
slices, the value a thread is dropping); a count of zero is a reference nobody
owns. `Load`, `Clone`, `CloneCore`, `Call`, `Return`, `Relocate`, `Drop` are the
program's operations; `BindNow`, `BindLazy`, `BindFails`, `Collect`, `Unscope`,
`Relocated` are the stages of `relocate_impl`; `Fixup...` those of `dl_fixup`,
which upgrades weak references one library at a time; `ReleaseCore`, `Unmap`,
`ReleaseDeps`, `DrainDeps`, `FreeSlice` those of a drop. A custom `lazy_scope`
is abstracted here and modelled in `Relocation`.

*Relocation.* A slot holds who provided its value. Relative entries are one
step, the others one step each, with the choice of the pre handler, the default
logic (`find_symbol_addr`, local and weak symbols, the `pre_find`, scope,
`post_find` order) and the post handler. `dl_fixup` reads, resolves and writes
in separate steps of each thread.

*SegmentMap.* Memory is a function from addresses to what a byte holds: an
offset in the file, zero, unmapped, or foreign. Each system call is a step, and
may fail wherever the code checks for it.

*SymbolLookup.* Images carry the tables a static linker writes; a lookup is
followed read by read with the shared `PreCompute`. The hash functions are
constants of the module, so that the proofs hold for any; the instance gives
them the ones of `ElfHashes` (32 bits, as two halves). A version slot the file does not define is
uninitialised memory: any outcome.

*LoadPipeline.* One action per stage of a load. Readers: files through libc
(short reads are asked again), through raw system calls (a short read panics),
and memory (a read beyond the data panics). Sizes are in units of a program
header. An error or a panic drops what the load owns.

*GenElf.* One action per stage of `write()`. Code is its length and the
addresses patched into it, one record per architecture; a name is its length.
*GenElfLazy* then takes one step per jump: helper, stub, lazy part of the
stub, PLT0 with the resolver.

## Runs

| Run | Checks | Distinct states |
| --- | --- | --- |
| `lifecycle` | two libraries and an object, two threads, three variables: nothing an image is bound to is unmapped, code that runs is mapped, nothing leaks, finalisers run once | 380,714 (symmetry) |
| `cores` | a chain of three libraries, two threads, ElfCore clones: no leak; drops end | 320,110 |
| `relocation` | dependencies cover every provider; no write after RELRO; initialisers see a relocated image; a bound slot stays bound; GOT and eager jump slots agree | 738,980 |
| `static_link` | tables are large enough; entries keep leading to their symbols; refinement of `ObjectBinding` | 467,836 |
| `program_segments` | contents, protection, containment, release and no fault of mapped images, with a failure at any system call | 503,008 |
| `section_segments` | place, separation, protection and containment of sections | 116,016 |
| `symbol_lookup` | first definition found; no walk out of a table; exact versions; symbol count; lookups end | 438,473 |
| `load_pipeline` | ownership across failing loads; the hook sees its file; headers in memory; dispatch; dynamic section; loads end | 199,670 |
| `gen_elf` | file layout; relocation slots; tables; lazy calls, for six architectures | 19,190 |
| `object_deps` | violated: a relocated object keeps no reference to the libraries it is bound to | |
| `empty_init` | violated: an image without relocation entries is not initialised | |
| `lazy_riscv32` | violated: a riscv32 library of gen-elf's cannot be bound lazily by the loader | |

The three violations are disagreements between the code and its documentation
or tests; `PROJECT.json` quotes the lines.

- `object_deps`: `RawObject::relocate_impl` returns a `LoadedCore` with an empty
  dependency slice. A library it was bound to can be unmapped under it.
- `empty_init`: the early return of `relocate_impl` skips `finish()`.
- `lazy_riscv32`: gen-elf's PLT0 takes the resolver from word 2 of `.got.plt`,
  the loader stores it in word 0; the stub passes an index, the resolver
  expects eight times the index.

### Bounds, and why they are enough

- *lifecycle*: two libraries are the smallest dependency graph, and an object
  is bound to either; three variables hold them or a clone, two threads race a
  drop with a call, a lazy binding or another drop. The theorems lift the bound.
  *cores* takes a chain c, b, a of which c and b are relocated, so that a drop
  goes from the slice of c into that of b and to a; a has no relocations. Two
  variables are enough to build the chain: a slice keeps what a variable no
  longer holds.
- *relocation*: `MaxRela = MaxPlt = 1` entries per table: entries of one table
  do not interact except through the flags and the end of the loop, which one
  entry per table reaches; the pair of a GOT entry and a jump slot is what
  `SameFunction` needs, two threads on one slot what `BoundOnce` needs. Two
  libraries, eight symbols: one for each way the lookup can end, and one the
  image defines itself.
- *static_link*: three entries reach a slot, a stub and a repeated use in every
  order. Again the theorems lift the bound.
- The theorems lift the bounds of *relocation*, *program_segments*,
  *symbol_lookup* and *load_pipeline* for every property but the liveness ones.
- *program_segments*, *section_segments*: a page of 4 bytes; addresses, sizes
  and tails below, at and above page boundaries; two headers, so that one can
  end on the page the other starts next to; PT_GNU_RELRO any part of a segment;
  a reservation that is made or refused; two sections with a GOT and a PLT.
- *symbol_lookup*: two names whose GNU hashes differ in the low bit only, the
  bit that ends a chain; one image of two symbols or two images of one.
- *load_pipeline*: two loads, so that the second finds the buffer of the first;
  fourteen files: each kind, cut short at each place, malformed.
- *gen_elf*: every list of up to two relocations out of every class, a longer
  one with every class (relative, GOT, COPY, IRELATIVE, JUMP_SLOT), and one that
  names a function twice; with base_addr 0, the default, and one that is not.

`CHECK_DEADLOCK FALSE` is given where the system may stop: a program that has
dropped everything, a finished relocation, a written file.

### Fairness

All liveness properties (`DropEnds`, `LookupEnds`, `LoadEnds`) assume weak
fairness of the steps a thread takes once it is inside the library (`FairSpec`
of the modules says which), so that a call that has been made goes on. These
steps include the returns of the functions of an image or of the program that
the library calls: initialisers and finalisers (`Collect`, `Unmap`), relocation
handlers, and the hook of a load. A library that calls a function that never
returns does not return either. None of the other steps waits for a lock or for
another thread, so a scheduler that runs every runnable thread provides the
fairness. That the program makes a call, that a function called through a
symbol returns, and that something fails is never assumed. `DropEnds` allows for
an abort in `dl_fixup` ("lazy bind fail"), which ends the process.

## Proofs

Every theorem holds for all values of the constants that the named ASSUMEs of
the modules allow: sets of images, variables, threads and names of any size,
tables and scopes of any length, any page size, any number of loads. The
ASSUMEs say what the constants are (types; `Sym` of `StaticLink` finite) and,
in `LoadPipeline`, that a `PT_PHDR` header describes the table it is in and that
a dynamic section has a DT_NULL. Three hypotheses are stated with the theorems
that need them, below. Each inductive
invariant was checked with TLC on the instance of its run before it was proved,
with its infinite sets (all scopes, all records) cut down to those of the
instance.

**Ownership** (`ImageLifecycleSafety`). `DependenciesOutlive` and `CodeMapped`
state `NoDanglingBinding` and `RunningCodeMapped` for programs that keep no
`ElfCore` clones (`CoreVar = {}`): a clone keeps an image mapped without its
dependencies, so the properties are not claimed there. Objects are excepted in
the properties themselves: they retain nothing (run `object_deps`).
`NoDanglingBinding` is
not inductive: why a bound library is still mapped depends on who owns it, and
that moves from the scope, to the flags, to the slice, and during a drop from
the slice to the thread that drains it. The inductive invariant `Parts` says
so, in five groups: an owned image is usable and a mapped one is owned
(`OwnParts`); handles have the shapes their places allow (`ShapeParts`); what a
thread inside relocation works on (`JobParts`); what an image reaches is in the
scope of its relocation or in its slice, and the slice lives as long as the
image is reachable (`CoverParts`); drops and lazy bindings under way
(`DropParts`). Each action has a lemma with a step per conjunct it can disturb;
the conjuncts whose variables it leaves alone come from one lemma (`Frame`).
`TypeCorrect` is proved first, without the restriction. What places can own a
reference is said once (`CoreOwners`, `SliceOwners`), and the proofs of the steps
go through it.

**Leaks** (`ImageLifecycleLeaks`). `NothingLeaks` and `FinalisersRunOnce` hold
for every program, ElfCore clones included. `NoLeak` speaks only of the end: the
invariant `Owned` says in every state that a mapped image has an owner or a
thread that drops it, a slice with elements an owner or a thread that drains it,
and that a value moved through `relocate_impl` is not lost on the way. That
leaves references that own one another. `Acyclic` excludes them: among any
slices there is one that no element of the others shares. It is preserved
because a slice is filled while nobody can hold it (`UnbuiltOnce`: one variable
may build it, nobody has seen it) and only shrinks afterwards.

**Relocation** (`RelocationProofs`). `DependenciesCover`, `FunctionIsOne` and
`InitialisersRunRelocated` are invariants, `RelroIsReadOnly` and `BindsOnce` action
properties. `IInv` says how far the passes have come and what that means for the
slots behind them (`Progress`), that the provider of a slot's value has been
flagged or is in the lazy scope (`SlotsFlagged`), and that all threads inside
`dl_fixup` for a slot carry the same value (`FixAgrees`): that is what makes two
unsynchronised writes of a slot harmless. `InitialisersRunRelocated` has one
exception, which the property names: an eager jump slot whose symbol no lookup
finds keeps the contents of the file (`src/relocation/dynamic.rs:247-256`), and
the image is initialised all the same. `FunctionIsOne` is about GOT entries and
eager jump slots: `dl_fixup` searches the lazy scope and may find another
definition.

**Object tables** (`StaticLinkProofs`). `TablesFit` and `EntriesKeepLeading`
hold when the first pass could read every relocation section
(`Unreadable = {}`; with a read error, which the code swallows, the tables can
be too small). The invariant `IInv` counts: every map entry has taken one GOT
slot, a stub a slot and a stub, and only counted symbols are in the maps, so
the indices stay within the cardinalities the first pass computed.

**Refinement** (`StaticLinkProofs`). `ImplementsBinding`: under the mapping
of `want`, `bound` and `outcome` to `Wants`, `Bound` and `Outcome`, every step of the linker is
a step of `ObjectBinding` or a stutter. The step that matters is one that
allocates: what earlier references lead to, through tables that have just been
written, must not change. That is `EntriesLead` before and after the step. An
entry that cannot be applied ends the binding as failed, whether the relocator
returns an error or, for a slot or stub out of reach, panics at an unwrap.

**Program segments** (`ProgramSegmentsProofs`). `LoadIsContained`,
`LoadIsReleased`, `StoresDoNotFault`, `ImageReadsAsHeadersSay` and
`ImageProtectedAsHeadersSay` hold for all PT_LOAD headers whose pages are apart,
whatever the system calls do. A refused reservation is a case of its own
(`Unreserved`): the code does not compare its result with MAP_FAILED
(`src/os/unix.rs:105`). MAP_FAILED is not the address of a page, so the first
mapping of the file is refused and the drop on the error path panics at the
unwrap of `munmap` (`src/segment/mod.rs:471`), or, with the file in memory, the
first store ends the process: neither an image nor the `Err` that
`create_space` documents comes out (`NoFault`). Where there is a reservation, the
invariant gives each segment its place in the reservation (`Reserved`, `Segments`) and says
of every byte what it holds at each point of the loop: nothing yet, the file's
pages with their surplus behind the data, the copy, or the final contents
(`Blank`, `Filed`, `Filled`, `InPlace`); `Open` and `Shields` say the same of
protection. RELRO is rounded outwards: the pages that hold its first and its last
byte become read-only with all that is on them, which `ImageProtected` says; a
linker that ends it on a page boundary loses nothing by it. The arithmetic of
rounding to pages is in lemmas of its own.

**Lookup** (`SymbolLookupProofs`). `WalksStayInside`, `VersionIsExact` and
`CountIsPast` hold whatever the hash functions compute. `FirstIsFound` has the
hypothesis `VersionHashesAgree`: `get_version` hashes a version name with
`SymbolVersion::dl_elf_hash` and compares with what static linkers computed with
the function of `ElfHash::hash`. TLC evaluates that they agree on the names of
`ElfHashes` (`HashesAgree`); for all names it is an induction over the bytes with
bitwise operators. The invariant says that a walk is at a symbol of the bucket of
the name (`Walk`), that cached hashes are those of the name (`Cached`), and that
nothing behind the walk, in this bucket or in an earlier image, was an answer
(`Missed`). A request with a version that reaches an image that has the name but no
versions panics (`src/elf/version.rs:400`) where `get_version` documents an `Option`;
`FoundFirst` says exactly when. `CountIsPast` is about the tables of dynamic images;
the count of an object leaves out its STT_FILE symbols, and `CountReaches` says by
how much it falls short of the last index.

**Loading** (`LoadPipelineProofs`). `NothingKept`, `HookSeesFile`,
`PhdrsAreOfFile`, `LoadDispatches` and `DynamicIsRead`. The invariant says who owns what is mapped
at each stage (`Owned`), which internal loader works on which kind of file
(`Dispatched`), and that the shared header buffer and the builder hold a prefix
of the headers of the file under way, not of an earlier one (`Parsing`).
`DynamicIsRead` is about the pass over a dynamic section of any length: after m
entries the locals hold the last entry of every tag and the DT_NEEDED entries in
order (`ReadSoFar`), so at DT_NULL they hold what `Says` asks for. The pass is a
recursive function; that it exists and what it computes is proved by a least
counterexample (`SmallestOf`, `PassesExist`, `ScanReads`). `ImagesReadable` carries
the result to every image that has been parsed, lazily or not.

**Only model-checked**: all liveness (`DropEnds`, `LookupEnds`, `LoadEnds`), which is beyond the provers; `SectionSegments` and `GenElf`, whose
passes over sections and relocation lists are recursive functions that would each
need an induction of their own like that of the dynamic section; what the hash
functions compute.

## What the models assume

- Files are what static linkers write: one of DT_RELR and a DT_RELA prefix for
  relative entries, `p_paddr = p_vaddr`, `e_phentsize` the size of a header,
  `PT_INTERP` in UTF-8, at least one `PT_LOAD`. Malformed files are in
  `LoadPipeline` as far as headers and the dynamic section go.
- An address hint is honoured. The reservation of an object succeeds; that of
  an image with program headers may be refused.
- Only what may be written has a zero-filled tail.
- Hash sums wrap, as in a release build.
- Sections behind an empty one of the same unit and offset are left out
  (`Shadowed`): `create_segment` gives the corrected address to the empty one.
- A custom hash table may return any of several symbols of one name.
- A function with two JUMP_SLOT entries is left out of `LazyCallBinds`: its
  stub is generated with the first index and patched with the last slot.

Observations outside the properties: `ElfBinary::read` panics beyond the data
where its comment promises an `Err` (`src/input/backend.rs:66`); gen-elf's
`RelocEntry::with_addend` has no effect, since `patch_reloc` overwrites the
addend; on every architecture the first
relocation of `.got` has word 0 for its slot, where `patch_got` puts the address of
`.dynamic` (`got_size` adds a word for it, at the end: `tools/gen-elf/src/dylib/reloc.rs:67`,
`:195`, `:357`), so that its addend, with REL, or the relocation itself, with RELA,
overwrites that address; the address of `PT_PHDR` is 64 or 52 whatever
`base_addr` is (`tools/gen-elf/src/dylib/shdr.rs:470`), so with a base address
it describes memory outside the image, which `LaidOut` excepts;
`ElfWriterConfig` documents a base address of 0x400000 and defaults to 0;
`vna_next` of a version requirement is not read.

## Not modelled

- Value arithmetic of relocations beyond whether a value fits; relocation types
  of objects on architectures other than x86_64, where the relocator is a `todo!()`.
- Panics for a missing DT_PLTGOT, a handler's scope index out of range, a weak
  undefined TLS or COPY symbol, a versioned lookup in an image without versions
  outside `SymbolLookup`; entry points and their rebasing; the order of
  finalisers inside one image.
- What `dl_runtime_resolve` saves and restores, and the instruction encodings
  of gen-elf: register contents are not part of the state. Index immediates
  (12 bits on RISC-V and LoongArch) are not exceeded by the instances.
- PLT symbols given to gen-elf by its caller; what an ifunc resolver returns.
- gen-elf's object writer and command line: a layer over the `object` crate.
- `os/windows.rs` and `windows-elf-loader`: they refer to items the crate does
  not have and do not build. `os/baremetal.rs`: allocation and copying only.
- `mini-loader`: start-up code in assembly around the library.
- `elf/defs.rs`, `error.rs`: layouts, accessors and messages.
