---------------------------- MODULE LoadPipeline ----------------------------
(***************************************************************************)
(* A Loader that loads one file after the other (loader.rs, image/mod.rs,  *)
(* image/kinds, image/builder.rs): the reader of the file, the header and  *)
(* program header buffer all loads share, the dispatch on the kind of      *)
(* file, the hook, and the raw image, whose dynamic section is only parsed *)
(* when somebody asks for it (image/common/dynamic.rs).  The mapping       *)
(* itself is ProgramSegments and SectionSegments; here it succeeds or      *)
(* fails.  The steps of a load are those of one thread.                    *)
(***************************************************************************)
EXTENDS ElfDynamic, FiniteSets

CONSTANTS
  Files,       \* the files that may be loaded
  Readers,     \* of "unix", "syscall" (both files), "binary" (memory)
  EHDR_SIZE,   \* in units of a program header
  MaxLoads     \* bound: loads

ASSUME MaxLoadsAssumption == MaxLoads \in Nat \ {0}

ElfPhdr == [p_type : STRING, p_offset : Nat, p_vaddr : Nat, p_filesz : Nat, p_memsz : Nat]

\* The table t of the memory image is the program header table of the file.
IsTable(t, phdrs) ==
  /\ t.count = Len(phdrs)
  /\ \E k \in DOMAIN phdrs :
       /\ phdrs[k].p_type = "LOAD"
       /\ t.vaddr - phdrs[k].p_vaddr + phdrs[k].p_offset = EHDR_SIZE
       /\ t.vaddr + t.count <= phdrs[k].p_vaddr + phdrs[k].p_filesz

\* A PT_PHDR, if a file has one, says where the table is, as ELF asks for, and
\* a dynamic section ends with DT_NULL.
ASSUME FilesAssumption ==
  /\ EHDR_SIZE \in Nat
  /\ \A k \in DOMAIN Files :
       /\ Files[k].phdrs \in Seq(ElfPhdr)
       /\ \A j \in DOMAIN Files[k].phdrs :
            LET p == Files[k].phdrs[j] IN
            p.p_type = "PHDR" =>
              IsTable([vaddr |-> p.p_vaddr, count |-> p.p_memsz], Files[k].phdrs)
       /\ Files[k].dyn \in Seq(STRING \X Nat)
       /\ (\E j \in DOMAIN Files[k].phdrs : Files[k].phdrs[j].p_type = "DYNAMIC") =>
            \E e \in DOMAIN Files[k].dyn : Files[k].dyn[e][1] = "NULL"

\* A file: e_type; ident, whether its identification is this machine's; phdrs;
\* the program header table at EHDR_SIZE; len; what its PT_DYNAMIC holds.
APIs == {"load", "load_dylib", "load_exec", "load_object"}

VARIABLES
  n,          \* the load under way, or the last one
  pc,
  job,        \* what was asked for: [api, file, reader, internal]
  io,         \* the read under way: [off, want, got]
  buf,        \* ElfBuf: what its bytes are: [file, table, len]
  builder,    \* ImageBuilder: [next, dynamic_ptr, relro, interp, phdr_mmap]
  hooks,      \* ghost: the program headers the hook was called with
  fds,        \* loads whose file descriptor is open
  mapped,     \* loads whose memory is mapped
  image,      \* what the loads returned and is still held
  cores,      \* loads of which an ElfCore is held besides the image
  outcome     \* of the last load: "Ok", "Err" or "panic"

vars == <<n, pc, job, io, buf, builder, hooks, fds, mapped, image, cores, outcome>>
loadVars == <<n, job, io, buf, builder, hooks, fds, outcome>>

NoJob == [api |-> "none", file |-> 0, reader |-> "none", internal |-> "none"]
NoImage == [kind |-> "none", loaded |-> FALSE]
NoIo == [off |-> 0, want |-> 0, got |-> 0]
NewBuilder == [next |-> 1, dynamic_ptr |-> FALSE, relro |-> FALSE,
               interp |-> FALSE, phdr_mmap |-> {}]

f == Files[job.file]

Init ==
  /\ n = 0 /\ pc = "idle" /\ job = NoJob /\ io = NoIo
  /\ buf = [file |-> 0, table |-> "ehdr", len |-> EHDR_SIZE]
  /\ builder = NewBuilder /\ hooks = <<>>
  /\ fds = {} /\ mapped = {} /\ cores = {}
  /\ image = [i \in 1..MaxLoads |-> NoImage]
  /\ outcome = "none"

-----------------------------------------------------------------------------
(* Leaving a load: the reader is dropped, and with it a RawFile closes its *)
(* descriptor; the segments of an image that was not returned are dropped. *)

\* Mutant: what is mapped stays mapped when the load fails.
Raise_leak(how) ==
  /\ pc' = "idle" /\ outcome' = how
  /\ fds' = fds \ {n}
  /\ UNCHANGED <<n, job, io, builder, hooks, mapped, image, cores>>

\* An error is returned, or a panic unwinds.
Raise(how) ==
  /\ pc' = "idle" /\ outcome' = how
  /\ fds' = fds \ {n} /\ mapped' = mapped \ {n}
  /\ UNCHANGED <<n, job, io, builder, hooks, image, cores>>

\* The image of load n is returned.
Return(img) ==
  /\ pc' = "idle" /\ outcome' = "Ok"
  /\ fds' = fds \ {n}
  /\ image' = [image EXCEPT ![n] = img]
  /\ UNCHANGED <<n, job, io, buf, builder, hooks, mapped, cores>>

-----------------------------------------------------------------------------
(* Readers *)

\* The read of want bytes at off is started; at is where it ends.
Start_read(at, off, want) ==
  /\ pc' = at
  /\ io' = [off |-> off, want |-> want, got |-> 0]

\* load, load_dylib, load_exec, load_object: into_reader opens a file, and the
\* ELF header is read.
call(api, k, r) ==
  /\ pc = "idle" /\ n < MaxLoads
  /\ n' = n + 1
  /\ job' = [api |-> api, file |-> k, reader |-> r,
             internal |-> IF api = "load" THEN "none" ELSE api]
  /\ builder' = NewBuilder /\ hooks' = <<>> /\ outcome' = "none"
  /\ fds' = IF r = "binary" THEN fds ELSE fds \cup {n'}
  /\ Start_read("ehdr", 0, EHDR_SIZE)
  /\ UNCHANGED <<buf, mapped, image, cores>>

\* RawFile::from_path: open fails, or the path has a NUL byte and the unwrap of
\* the C string panics.
open_failed(api, k, r) ==
  /\ pc = "idle" /\ n < MaxLoads /\ r # "binary"
  /\ n' = n + 1 /\ outcome' \in {"Err", "panic"}
  /\ job' = [api |-> api, file |-> k, reader |-> r, internal |-> "none"]
  /\ builder' = NewBuilder /\ hooks' = <<>>
  /\ UNCHANGED <<pc, io, buf, fds, mapped, image, cores>>

Left == io.want - io.got

\* The bytes there are from where the file is read.
Available == f.len - (io.off + io.got)

\* The buffer was resized for the table, and may be filled in part.
Resized == IF buf.len < io.want THEN io.want ELSE buf.len
Cut == buf' = [file |-> job.file, table |-> "part", len |-> Resized]

\* Mutant: the buffer is not advanced past what was read.
read_some_again == UNCHANGED io

\* bytes = &mut bytes[n..], n being what read returned.
read_some == \E c \in 1..(IF Available < Left THEN Available ELSE Left) :
               io' = [io EXCEPT !.got = @ + c]

\* os/unix.rs read_exact: read until the buffer is full.
read_exact ==
  /\ pc \in {"ehdr", "phdrs", "shdrs"} /\ job.reader = "unix" /\ Left > 0
  /\ Available > 0
  /\ read_some
  /\ UNCHANGED <<n, pc, job, buf, builder, hooks, fds, mapped, image, cores, outcome>>

\* os/linux_syscall.rs: read once, and assert that it was enough; a file that
\* is shorter, or a read that is, panics.
read_once ==
  /\ pc \in {"ehdr", "phdrs", "shdrs"} /\ job.reader = "syscall" /\ Left > 0
  /\ \/ /\ Available >= Left
        /\ io' = [io EXCEPT !.got = io.want]
        /\ UNCHANGED <<n, pc, job, buf, builder, hooks, fds, mapped, image, cores, outcome>>
     \/ Raise("panic") /\ Cut

\* ElfBinary::read: a slice of the bytes, whose range is checked.
read_binary ==
  /\ pc \in {"ehdr", "phdrs", "shdrs"} /\ job.reader = "binary" /\ Left > 0
  /\ IF Available >= Left
     THEN /\ io' = [io EXCEPT !.got = io.want]
          /\ UNCHANGED <<n, pc, job, buf, builder, hooks, fds, mapped, image, cores, outcome>>
     ELSE Raise("panic") /\ buf' = [file |-> buf.file, table |-> buf.table, len |-> Resized]

\* The reads of load_object_internal and load_object_impl are unwrapped.
Unwrapped == job.internal = "load_object"

\* A read or lseek of a file fails.
read_failed ==
  /\ pc \in {"ehdr", "phdrs", "shdrs"} /\ job.reader # "binary" /\ Left > 0
  /\ Raise(IF Unwrapped THEN "panic" ELSE "Err") /\ Cut

\* read_exact meets the end of the file: "failed to fill buffer".
read_eof ==
  /\ pc \in {"ehdr", "phdrs", "shdrs"} /\ job.reader = "unix" /\ Left > 0
  /\ Available <= 0
  /\ Raise(IF Unwrapped THEN "panic" ELSE "Err") /\ Cut

-----------------------------------------------------------------------------
(* Headers and dispatch *)

\* The program headers as the loader sees them: a slice of the buffer.
Phdrs == IF buf.table = "phdrs" THEN Files[buf.file].phdrs ELSE <<>>
Any(phdrs, t) == \E k \in DOMAIN phdrs : phdrs[k].p_type = t

phdr_range == [start |-> EHDR_SIZE, end |-> EHDR_SIZE + Len(f.phdrs)]

\* ElfHeader::is_dylib, is_executable
is_dylib == f.e_type = "DYN"
is_executable == f.e_type \in {"EXEC", "DYN"}

\* The load goes on in internal, which reads the ELF header once more.
Enter(internal) ==
  /\ job' = [job EXCEPT !.internal = internal]
  /\ Start_read("ehdr", 0, EHDR_SIZE)

Start_phdrs ==
  /\ UNCHANGED job
  /\ Start_read("phdrs", phdr_range.start, phdr_range.end - phdr_range.start)

\* What follows a valid ELF header: Loader::load dispatches on e_type, the
\* others check it.
after_ehdr ==
  CASE job.internal = "none" ->
         IF f.e_type = "REL" THEN Enter("load_object")
         ELSE IF is_dylib THEN Start_phdrs
         ELSE Enter("load_exec")
    [] job.internal = "load_object" ->
         UNCHANGED job /\ Start_read("shdrs", f.shoff, f.shnum)
    [] OTHER -> Start_phdrs

\* ElfHeader::vaildate: magic, class, version and machine.
vaildate == f.ident

Mismatch ==
  \/ job.internal = "load_dylib" /\ ~is_dylib
  \/ job.internal = "load_exec" /\ ~is_executable

\* ElfBuf::prepare_ehdr, ElfHeader::new: the header is copied.
prepare_ehdr ==
  /\ pc = "ehdr" /\ Left = 0
  /\ IF vaildate /\ ~Mismatch
     THEN /\ buf' = [file |-> job.file, table |-> "ehdr", len |-> buf.len]
          /\ after_ehdr
          /\ UNCHANGED <<n, builder, hooks, fds, mapped, image, cores, outcome>>
     ELSE /\ Raise(IF Unwrapped THEN "panic" ELSE "Err")
          /\ buf' = [file |-> job.file, table |-> "ehdr", len |-> buf.len]

\* Mutant: a buffer that is long enough is not read again.
Filled_once(table, len) ==
  buf' = IF len > buf.len THEN [file |-> job.file, table |-> table, len |-> len] ELSE buf

\* The buffer grows if it must, and holds the table that was read.
Filled(table, len) == buf' = [file |-> job.file, table |-> table, len |-> Resized]

\* Mutant: only an interpreter makes a position-independent executable.
is_pie_interp == Any(f.phdrs, "INTERP")

is_pie == Any(f.phdrs, "INTERP") \/ ~Any(f.phdrs, "DYNAMIC")

\* ElfBuf::prepare_phdrs; Loader::load then tells executables from libraries.
prepare_phdrs ==
  /\ pc = "phdrs" /\ Left = 0
  /\ Filled("phdrs", io.want)
  /\ IF job.internal = "none" THEN Enter(IF is_pie THEN "load_exec" ELSE "load_dylib")
     ELSE pc' = "map" /\ UNCHANGED <<job, io>>
  /\ UNCHANGED <<n, builder, hooks, fds, mapped, image, cores, outcome>>

\* ElfBuf::prepare_shdrs_mut
prepare_shdrs_mut ==
  /\ pc = "shdrs" /\ Left = 0
  /\ Filled("shdrs", io.want)
  /\ pc' = "map"
  /\ UNCHANGED <<n, job, io, builder, hooks, fds, mapped, image, cores, outcome>>

-----------------------------------------------------------------------------
(* Mapping and building *)

Object == [kind |-> "Object", variant |-> "Object", file |-> job.file,
           phdrs |-> {}, data |-> "none", parsed |-> {}, loaded |-> FALSE]

\* load_object_impl: load_segments, ObjectBuilder::new and build.
load_object_impl ==
  /\ pc = "map" /\ job.internal = "load_object"
  /\ mapped' = mapped \cup {n}
  /\ pc' = "idle" /\ outcome' = "Ok" /\ fds' = fds \ {n}
  /\ image' = [image EXCEPT ![n] = Object]
  /\ UNCHANGED <<n, job, io, buf, builder, hooks, cores>>

\* ObjectBuilder::new panics: an object without a SHT_SYMTAB section, or a
\* section or symbol index out of range.
load_object_panics ==
  /\ pc = "map" /\ job.internal = "load_object" /\ Raise("panic") /\ UNCHANGED buf

\* load_static_impl, load_dynamic_impl: first load_segments ...
load_segments ==
  /\ pc = "map" /\ job.internal # "load_object"
  /\ mapped' = mapped \cup {n}
  /\ pc' = "protect"
  /\ UNCHANGED <<n, job, io, buf, builder, hooks, fds, image, cores, outcome>>

\* A system call or a read fails.  It is a panic when the reservation was the
\* call that failed, which only the munmap of the drop notices (NoFault of
\* SegmentMap), when the reader panics (ElfBinary::read, the assertion of the
\* system call reader), and when sizes of a malformed header overflow.
load_segments_failed == pc = "map" /\ (Raise("Err") \/ Raise("panic")) /\ UNCHANGED buf

\* ... then ProgramSegments::mprotect and ImageBuilder::new.
mprotect ==
  /\ pc = "protect" /\ pc' = "parse"
  /\ UNCHANGED <<n, job, io, buf, builder, hooks, fds, mapped, image, cores, outcome>>

mprotect_failed == pc = "protect" /\ Raise("Err") /\ UNCHANGED buf

\* ImageBuilder::parse_phdr: the hook first.
parse_phdr ==
  /\ pc = "parse" /\ builder.next <= Len(Phdrs)
  /\ LET p == Phdrs[builder.next] IN
     /\ hooks' = Append(hooks, p)
     /\ builder' = [builder EXCEPT
                      !.next = @ + 1,
                      !.dynamic_ptr = @ \/ p.p_type = "DYNAMIC",
                      !.relro = @ \/ p.p_type = "GNU_RELRO",
                      !.interp = @ \/ p.p_type = "INTERP",
                      !.phdr_mmap = IF p.p_type = "PHDR"
                                    THEN {[vaddr |-> p.p_vaddr, count |-> p.p_memsz]} ELSE @]
  /\ UNCHANGED <<n, pc, job, io, buf, fds, mapped, image, cores, outcome>>

\* The image, in the units of the headers; its last page may reach further.
Outside(p) ==
  ~ \E k, m \in DOMAIN Phdrs :
      /\ Phdrs[k].p_type = "LOAD" /\ Phdrs[k].p_vaddr <= p.p_vaddr
      /\ Phdrs[m].p_type = "LOAD" /\ p.p_vaddr + p.p_memsz <= Phdrs[m].p_vaddr + Phdrs[m].p_memsz

\* The header is about a place outside the image: a debug build stops at the
\* assertions of get_slice and get_ptr, any build at an address that is null.
parse_phdr_panics ==
  /\ pc = "parse" /\ builder.next <= Len(Phdrs)
  /\ Phdrs[builder.next].p_type \in {"DYNAMIC", "PHDR", "INTERP"}
  /\ Outside(Phdrs[builder.next])
  /\ Raise("panic") /\ UNCHANGED buf

\* The hook returns an error.
hook_failed == pc = "parse" /\ builder.next <= Len(Phdrs) /\ Raise("Err") /\ UNCHANGED buf

\* Mutant: the offset of the segment in the file is forgotten.
Within_start(p) == p.p_vaddr + phdr_range.start

\* Where the program header table is in memory when p's part of the file has it.
Within(p) == p.p_vaddr + phdr_range.start - p.p_offset

Covers(p) ==
  /\ p.p_type = "LOAD"
  /\ phdr_range.start \in p.p_offset..p.p_offset + p.p_filesz - 1
  /\ phdr_range.end \in p.p_offset..p.p_offset + p.p_filesz - 1

\* ImageBuilder::create_phdrs: {} is the copy, ElfPhdrs::Vec.
create_phdrs ==
  LET covering == {k \in DOMAIN Phdrs : Covers(Phdrs[k])}
      first == CHOOSE k \in covering : \A m \in covering : k <= m
  IN IF builder.phdr_mmap # {} THEN builder.phdr_mmap
     ELSE IF covering = {} THEN {}
     ELSE {[vaddr |-> Within(Phdrs[first]), count |-> Len(f.phdrs)]}

\* load_exec_internal: without PT_DYNAMIC the image is static.
Static == job.internal = "load_exec" /\ ~Any(Phdrs, "DYNAMIC")

\* build_static
build_static ==
  /\ pc = "parse" /\ builder.next > Len(Phdrs) /\ Static
  /\ Return([kind |-> "Exec", variant |-> "Static", file |-> job.file,
             phdrs |-> {}, data |-> "none", parsed |-> {}, loaded |-> FALSE])

\* build_dynamic: .expect("dynamic section not found")
build_dynamic ==
  /\ pc = "parse" /\ builder.next > Len(Phdrs) /\ ~Static
  /\ IF builder.dynamic_ptr
     THEN Return([kind |-> IF job.internal = "load_exec" THEN "Exec" ELSE "Dylib",
                  variant |-> "Dynamic", file |-> job.file, phdrs |-> create_phdrs,
                  data |-> "Uninit", parsed |-> {}, loaded |-> FALSE])
     ELSE Raise("panic") /\ UNCHANGED buf

-----------------------------------------------------------------------------
(* What the caller does with an image between loads *)

Held(i) == image[i] # NoImage

\* State::init stores what ElfDynamic::new found; later calls find it there.
dynamic(img) == ElfDynamic_new(Files[img.file].dyn)
Parsed(img) ==
  [img EXCEPT !.data = "Init", !.parsed = IF img.data = "Init" THEN @ ELSE dynamic(img)]
Parses(img) == img.data = "Init" \/ dynamic(img) # {}

\* The image and what only it owns are dropped.
Dropped(i) ==
  /\ image' = [image EXCEPT ![i] = NoImage]
  /\ mapped' = IF i \in cores THEN mapped ELSE mapped \ {i}

\* LazyParse::force, after which the caller has img and the cores cs.  When
\* ElfDynamic::new is refused, unwrap panics, and in a debug build new panics
\* itself at a table outside the image: the owner of the image unwinds.
Forced(i, img, cs) ==
  /\ pc = "idle" /\ Held(i) /\ image[i].variant = "Dynamic"
  /\ \/ /\ Parses(image[i])
        /\ image' = [image EXCEPT ![i] = img] /\ cores' = cs /\ UNCHANGED mapped
     \/ image[i].data = "Uninit" /\ Dropped(i) /\ UNCHANGED cores
  /\ UNCHANGED <<loadVars, pc>>

\* needed_libs, is_lazy, base, user_data ...
force(i) == Forced(i, Parsed(image[i]), cores)

core(i) == Forced(i, Parsed(image[i]), cores \cup {i})

\* into_core: the image is dropped once the core is cloned.
into_core(i) == ~image[i].loaded /\ Forced(i, NoImage, cores \cup {i})

\* relocate of a RawDylib, of a RawExec and of a RawObject: what is loaded. A
\* dynamic image is parsed by then, a static one is passed on.
Relocated(img) == [Parsed(img) EXCEPT !.loaded = TRUE]
relocate_exec(img) ==
  IF img.variant = "Dynamic" THEN Relocated(img) ELSE [img EXCEPT !.loaded = TRUE]
relocate_object(img) == [img EXCEPT !.loaded = TRUE]

\* Relocatable::relocate of a RawElf: a loaded image of the same kind.
relocate(i) ==
  /\ pc = "idle" /\ Held(i) /\ ~image[i].loaded
  /\ image[i].variant = "Dynamic" => Parses(image[i])
  /\ image' = [image EXCEPT ![i] = CASE @.kind = "Dylib" -> Relocated(@)
                                     [] @.kind = "Exec" -> relocate_exec(@)
                                     [] @.kind = "Object" -> relocate_object(@)]
  /\ UNCHANGED <<loadVars, pc, mapped, cores>>

\* Relocation fails, or the image is dropped unrelocated, or loaded.
drop(i) ==
  /\ pc = "idle" /\ Held(i)
  /\ Dropped(i)
  /\ UNCHANGED <<loadVars, pc, cores>>

drop_core(i) ==
  /\ pc = "idle" /\ i \in cores
  /\ cores' = cores \ {i}
  /\ mapped' = IF Held(i) THEN mapped ELSE mapped \ {i}
  /\ UNCHANGED <<loadVars, pc, image>>

\* The steps of a load that was called.
Step ==
  \/ read_exact \/ read_eof \/ read_once \/ read_binary
  \/ prepare_ehdr \/ prepare_phdrs \/ prepare_shdrs_mut
  \/ load_object_impl \/ load_segments \/ mprotect \/ parse_phdr
  \/ build_static \/ build_dynamic

\* What the system or the hook may refuse, and what a malformed file runs into.
Failure ==
  \/ read_failed \/ load_segments_failed \/ mprotect_failed \/ hook_failed
  \/ load_object_panics \/ parse_phdr_panics

Next ==
  \/ \E api \in APIs, k \in DOMAIN Files, r \in Readers :
       call(api, k, r) \/ open_failed(api, k, r)
  \/ Step
  \/ Failure
  \/ \E i \in 1..MaxLoads :
       force(i) \/ core(i) \/ into_core(i) \/ relocate(i) \/ drop(i) \/ drop_core(i)

Spec == Init /\ [][Next]_vars

\* The thread that called the loader keeps running; nothing has to fail.
FairSpec == Spec /\ WF_vars(Step)

-----------------------------------------------------------------------------
(* Properties *)

\* Between loads the memory that is mapped is the memory of the images and
\* cores the caller holds, and no descriptor is open: whichever read, mapping,
\* protection, hook or lookup of a header failed, by an error or by a panic,
\* what the load had acquired was released, and what was returned was not
\* (ownership of ElfSegments and RawFile along load_*_impl).
HeldIsMapped ==
  pc = "idle" => /\ fds = {}
                 /\ mapped = {i \in 1..MaxLoads : Held(i) \/ i \in cores}

\* When a load of segments succeeds, the hook was called with every program
\* header of that very file, once each and in order, although the buffer the
\* headers are read from is shared by all loads and, in Loader::load, is
\* overwritten between the dispatch and the load (LoadHook, ElfBuf).
HookSawFile ==
  pc = "idle" /\ outcome = "Ok" /\ job.internal # "load_object" => hooks = f.phdrs

\* The program headers an image points at in memory are the table of its file:
\* the address is in a segment that maps it, at the offset of the table, and
\* the count is the file's (ImageBuilder::create_phdrs).
PhdrsInImage ==
  \A i \in 1..MaxLoads : Held(i) => \A t \in image[i].phdrs :
    IsTable(t, Files[image[i].file].phdrs)

\* Loader::load never hands a file to a loader that cannot load it, whatever
\* the earlier loads left in the buffer: build_dynamic, which unwraps the
\* dynamic section, is reached with one; a library is an ET_DYN with a dynamic
\* section and no interpreter, a static image has no dynamic section, and only
\* an ET_REL file is an object.
DispatchFits ==
  job.api = "load" =>
    /\ pc = "parse" /\ builder.next > Len(Phdrs) /\ ~Static => builder.dynamic_ptr
    /\ pc = "idle" /\ outcome = "Ok" /\ Held(n) =>
         /\ image[n].kind = "Object" <=> f.e_type = "REL"
         /\ image[n].kind = "Dylib" <=>
              is_dylib /\ Any(f.phdrs, "DYNAMIC") /\ ~Any(f.phdrs, "INTERP")
         /\ image[n].variant = "Static" <=> f.e_type # "REL" /\ ~Any(f.phdrs, "DYNAMIC")

\* The last entry with one of the tags before DT_NULL, 0 when there is none.
LastOf(dyn, tags) ==
  LET end == {i \in DOMAIN dyn : dyn[i][1] = "NULL"}
      at == {i \in DOMAIN dyn : dyn[i][1] \in tags /\ \A e \in end : i < e}
  IN IF at = {} THEN 0 ELSE dyn[CHOOSE i \in at : \A j \in at : j <= i][2]

\* What the dynamic section dyn says of the image: a relocation table has its
\* own size, the two forms of a relocation tag are one tag, and DT_NEEDED
\* entries keep their order.
Says(dyn, d) ==
  LET null == CHOOSE k \in DOMAIN dyn : dyn[k][1] = "NULL" /\
                                        \A j \in 1..k - 1 : dyn[j][1] # "NULL"
      needed == {k \in 1..null : dyn[k][1] = "NEEDED" /\ dyn[k][2] # 0}
      Table(off, size) == IF LastOf(dyn, off) = 0 THEN {}
                          ELSE {[off |-> LastOf(dyn, off), size |-> LastOf(dyn, size)]}
  IN /\ d.pltrel = Table({"JMPREL"}, {"PLTRELSZ"})
     /\ d.dynrel = Table({"RELA", "REL"}, {"RELASZ", "RELSZ"})
     /\ d.relr = Table({"RELR"}, {"RELRSZ"})
     /\ d.symtab = LastOf(dyn, {"SYMTAB"}) /\ d.strtab = LastOf(dyn, {"STRTAB"})
     /\ d.init_array_fn = Table({"INIT_ARRAY"}, {"INIT_ARRAYSZ"})
     /\ Len(d.needed_libs) = Cardinality(needed)
     /\ \A k \in needed :
          d.needed_libs[Cardinality({j \in needed : j <= k})] = dyn[k][2]

\* What a parsed image knows is what its dynamic section says, whatever the
\* order of the entries: the last entry of a tag counts, in its REL or its RELA
\* form, and nothing after DT_NULL is read (ElfDynamic::new).
DynamicRead ==
  \A i \in 1..MaxLoads : Held(i) /\ image[i].data = "Init" =>
    /\ image[i].parsed # {}
    /\ \A d \in image[i].parsed : Says(Files[image[i].file].dyn, d)

\* A load that was called returns or panics, however short the reads are
\* (read_exact asks again only for what is missing).
LoadEnds == pc # "idle" ~> pc = "idle"

=============================================================================
