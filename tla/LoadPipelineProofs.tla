-------------------------- MODULE LoadPipelineProofs ------------------------
(***************************************************************************)
(* The loader releases what a failed load acquired, dispatches and reports *)
(* the right file, points at the right table and reads dynamic sections    *)
(* right, for every set of files and any number of loads.                  *)
(***************************************************************************)
EXTENDS LoadPipeline, TLAPS, SequenceTheorems, FiniteSetTheorems, WellFoundedInduction

\* The fields of the records, which hold data of every kind.
JobRecord == job = [api |-> job.api, file |-> job.file, reader |-> job.reader,
                    internal |-> job.internal]
BufRecord == buf = [file |-> buf.file, table |-> buf.table, len |-> buf.len]
BuilderRecord ==
  builder = [next |-> builder.next, dynamic_ptr |-> builder.dynamic_ptr,
             relro |-> builder.relro, interp |-> builder.interp,
             phdr_mmap |-> builder.phdr_mmap]
ImageRecord(img) ==
  /\ img = [kind |-> img.kind, variant |-> img.variant, file |-> img.file,
            phdrs |-> img.phdrs, data |-> img.data, parsed |-> img.parsed,
            loaded |-> img.loaded]
  /\ img.kind \in {"Exec", "Dylib", "Object"} /\ img.file \in DOMAIN Files

Records ==
  /\ n \in 0..MaxLoads
  /\ pc \in {"idle", "ehdr", "phdrs", "shdrs", "map", "protect", "parse"}
  /\ JobRecord /\ BufRecord /\ BuilderRecord
  /\ job.internal \in {"none", "load_dylib", "load_exec", "load_object"}
  /\ image = [i \in 1..MaxLoads |-> image[i]]
  /\ \A i \in 1..MaxLoads : Held(i) => ImageRecord(image[i])
  /\ pc # "idle" \/ outcome = "Ok" => n > 0 /\ job.file \in DOMAIN Files

\* What the load under way has acquired so far.
Acquired == IF pc \in {"protect", "parse"} THEN {n} ELSE {}

\* Who owns the memory: images, cores and the load under way, which no image
\* and no core is of yet.
Owned ==
  /\ fds \subseteq IF pc = "idle" THEN {} ELSE {n}
  /\ cores \subseteq 1..MaxLoads
  /\ \A i \in 1..MaxLoads :
       i > n \/ (i = n /\ pc # "idle") => image[i] = NoImage /\ i \notin cores
  /\ mapped = {i \in 1..MaxLoads : Held(i) \/ i \in cores} \cup Acquired

\* What the internal loader that was chosen says of the file.
Dispatched ==
  /\ pc \in {"map", "protect", "parse"} => job.internal # "none"
  /\ pc \in {"protect", "parse"} => job.internal # "load_object"
  /\ pc = "phdrs" => job.internal # "load_object"
  /\ pc = "shdrs" => job.internal = "load_object"
  /\ pc = "phdrs" /\ job.internal = "none" => is_dylib
  /\ job.api = "load" =>
       /\ job.internal = "load_object" => f.e_type = "REL"
       /\ job.internal = "load_exec" => f.e_type # "REL" /\ (~is_dylib \/ is_pie)
       /\ job.internal = "load_dylib" => is_dylib /\ ~is_pie

\* What the builder holds are the headers of the file under way, as far as
\* they have been parsed.
Parsing ==
  /\ pc \in {"map", "protect", "parse"} /\ job.internal # "load_object" =>
       buf.table = "phdrs" /\ buf.file = job.file
  /\ pc \notin {"idle", "parse"} => builder = NewBuilder /\ hooks = <<>>
  /\ pc = "parse" =>
       /\ builder.next \in 1..Len(f.phdrs) + 1
       /\ hooks \in Seq(ElfPhdr) /\ Len(hooks) = builder.next - 1
       /\ \A k \in 1..builder.next - 1 : hooks[k] = f.phdrs[k]
       /\ builder.dynamic_ptr <=>
            \E k \in 1..builder.next - 1 : f.phdrs[k].p_type = "DYNAMIC"
       /\ \A t \in builder.phdr_mmap : IsTable(t, f.phdrs)

\* What the last load ended with, while its image is held.
Ended ==
  /\ pc # "idle" => outcome = "none"
  /\ pc = "idle" /\ outcome = "Ok" =>
       /\ job.internal # "none"
       /\ Held(n) =>
            /\ image[n].kind = CASE job.internal = "load_object" -> "Object"
                                 [] job.internal = "load_exec" -> "Exec"
                                 [] OTHER -> "Dylib"
            /\ image[n].variant = "Static" <=>
                 job.internal = "load_exec" /\ ~Any(f.phdrs, "DYNAMIC")

IInv ==
  Records /\ Owned /\ Dispatched /\ Parsing /\ Ended /\ HookSawFile /\ PhdrsInImage

-----------------------------------------------------------------------------
USE ZenonT(60)

\* A set of numbers has a least element.
LEMMA SmallestOf ==
  ASSUME NEW S \in SUBSET Nat, S # {}
  PROVE  \E x \in S : \A y \in S : x <= y
<1>1. PICK x \in S : \A y \in S : ~(<<y, x>> \in OpToRel(<, Nat))
  BY WFMin, NatLessThanWellFounded
<1>2. OpToRel(<, Nat) = {p \in Nat \X Nat : p[1] < p[2]}
  BY DEF OpToRel
<1>3. \A y \in S : ~(<<y, x>> \in {p \in Nat \X Nat : p[1] < p[2]})
  BY <1>1, <1>2
<1>4. ASSUME NEW y \in S PROVE x <= y
  <2>1. <<y, x>> \in Nat \X Nat /\ <<y, x>>[1] = y /\ <<y, x>>[2] = x
    OBVIOUS
  <2>2. ~(<<y, x>>[1] < <<y, x>>[2])
    BY <1>3, <2>1
  <2> QED
    BY SMTT(30), <2>1, <2>2
<1> QED
  BY <1>4

-----------------------------------------------------------------------------
(* Steps of many kinds *)

\* The properties of the file of a load depend on its number alone.
LEMMA SameFile ==
  ASSUME job'.file = job.file
  PROVE  f' = f /\ is_dylib' = is_dylib /\ is_pie' = is_pie
BY DEF f, is_dylib, is_pie

\* A step that reads some bytes, or none.
LEMMA IoStep ==
  ASSUME IInv, UNCHANGED <<n, pc, job, buf, builder, hooks, fds, mapped, image, cores, outcome>>
  PROVE  IInv'
<1>1. f' = f /\ is_dylib' = is_dylib /\ is_pie' = is_pie
  BY SameFile
<1>2. Records'
  BY DEF IInv, Records, JobRecord, BufRecord, BuilderRecord, ImageRecord, Held
<1>3. Owned'
  BY DEF IInv, Owned, Acquired, Held
<1>4. Dispatched'
  BY <1>1 DEF IInv, Dispatched
<1>5. Parsing' /\ Ended' /\ HookSawFile' /\ PhdrsInImage'
  BY <1>1 DEF IInv, Parsing, Ended, HookSawFile, PhdrsInImage, Held
<1> QED
  BY <1>2, <1>3, <1>4, <1>5 DEF IInv

\* An error or a panic releases what the load has acquired.
LEMMA RaiseStep ==
  ASSUME IInv, pc # "idle", NEW how \in {"Err", "panic"}, Raise(how), BufRecord'
  PROVE  IInv'
<1>1. f' = f /\ is_dylib' = is_dylib /\ is_pie' = is_pie
  BY SameFile DEF Raise
<1>2. pc' = "idle" /\ outcome' = how /\ fds' = fds \ {n} /\ mapped' = mapped \ {n}
      /\ n' = n /\ job' = job /\ builder' = builder /\ hooks' = hooks /\ image' = image
      /\ cores' = cores /\ how # "Ok"
  BY DEF Raise
<1>3. Records'
  BY <1>2 DEF IInv, Records, JobRecord, BuilderRecord, ImageRecord, Held
<1>4. Owned'
  BY <1>2 DEF IInv, Owned, Acquired, Held, Records
<1>5. Dispatched'
  BY <1>1, <1>2 DEF IInv, Dispatched
<1>6. Parsing' /\ Ended' /\ HookSawFile' /\ PhdrsInImage'
  BY <1>1, <1>2 DEF IInv, Parsing, Ended, HookSawFile, PhdrsInImage, Held
<1> QED
  BY <1>3, <1>4, <1>5, <1>6 DEF IInv

\* A load returns its image, which owns what is mapped from then on.
LEMMA ReturnStep ==
  ASSUME IInv, pc \in {"map", "protect", "parse"}, NEW img, ImageRecord(img),
         UNCHANGED <<n, job, buf, builder, hooks, cores>>,
         pc' = "idle", outcome' = "Ok", fds' = fds \ {n}, mapped' = mapped \cup {n},
         image' = [image EXCEPT ![n] = img],
         \A t \in img.phdrs : IsTable(t, Files[img.file].phdrs),
         img.kind = CASE job.internal = "load_object" -> "Object"
                      [] job.internal = "load_exec" -> "Exec"
                      [] OTHER -> "Dylib",
         img.variant = "Static" <=> job.internal = "load_exec" /\ ~Any(f.phdrs, "DYNAMIC"),
         job.internal # "load_object" => hooks = f.phdrs
  PROVE  IInv'
<1>1. f' = f /\ is_dylib' = is_dylib /\ is_pie' = is_pie
  BY SameFile
<1>2. n \in 1..MaxLoads /\ MaxLoads \in Nat
  BY SMTT(30), MaxLoadsAssumption DEF IInv, Records
<1>3. /\ image' = [i \in 1..MaxLoads |-> IF i = n THEN img ELSE image[i]]
      /\ img # NoImage
  <2>1. img # NoImage
    BY SMTT(30) DEF ImageRecord, NoImage
  <2> QED
    BY <1>2, <2>1 DEF IInv, Records
<1>4. Records'
  <2>1. (\A i \in 1..MaxLoads : Held(i) => ImageRecord(image[i]))'
    BY <1>3 DEF IInv, Records, Held
  <2>2. image' = [i \in 1..MaxLoads |-> image'[i]]
    BY <1>3
  <2>3. JobRecord' /\ BufRecord' /\ BuilderRecord'
    BY DEF IInv, Records, JobRecord, BufRecord, BuilderRecord
  <2> QED
    BY <1>2, <2>1, <2>2, <2>3 DEF IInv, Records
<1>5. Owned'
  <2>1. Owned
    BY DEF IInv
  <2>2. fds' = {} /\ cores' \subseteq 1..MaxLoads
    BY <2>1 DEF Owned
  <2>3. \A i \in 1..MaxLoads : i > n => image'[i] = NoImage /\ i \notin cores'
    BY SMTT(30), <1>2, <1>3, <2>1 DEF Owned
  <2>4. mapped' = {i \in 1..MaxLoads : Held(i)' \/ i \in cores'}
    BY <1>2, <1>3, <2>1 DEF Owned, Acquired, Held
  <2> QED
    BY <2>2, <2>3, <2>4 DEF Owned, Acquired
<1>6. Dispatched'
  BY <1>1 DEF IInv, Dispatched
<1>7. Parsing' /\ Ended' /\ HookSawFile'
  BY <1>1, <1>2, <1>3 DEF IInv, Parsing, Ended, HookSawFile, Held, Dispatched
<1>8. PhdrsInImage'
  BY <1>2, <1>3 DEF IInv, PhdrsInImage, Held
<1> QED
  BY <1>4, <1>5, <1>6, <1>7, <1>8 DEF IInv

\* The caller does something with image i between loads.
LEMMA CallerStep ==
  ASSUME IInv, pc = "idle", UNCHANGED <<loadVars, pc>>, NEW i \in 1..MaxLoads, NEW img,
         image' = [image EXCEPT ![i] = img],
         \/ img = NoImage
         \/ /\ Held(i) /\ ImageRecord(img)
            /\ img.kind = image[i].kind /\ img.variant = image[i].variant
            /\ img.file = image[i].file /\ img.phdrs = image[i].phdrs,
         cores' \subseteq cores \cup (IF Held(i) THEN {i} ELSE {}),
         mapped' = {j \in 1..MaxLoads : (IF j = i THEN img # NoImage ELSE Held(j)) \/ j \in cores'}
  PROVE  IInv'
<1>1. f' = f /\ is_dylib' = is_dylib /\ is_pie' = is_pie
  BY SameFile DEF loadVars
<1>2. n' = n /\ pc' = "idle" /\ job' = job /\ buf' = buf /\ builder' = builder /\ hooks' = hooks
      /\ fds' = fds /\ outcome' = outcome
  BY DEF loadVars
<1>3. image' = [j \in 1..MaxLoads |-> IF j = i THEN img ELSE image[j]]
  BY DEF IInv, Records
<1>4. Records'
  BY <1>2 DEF IInv, Records, JobRecord, BufRecord, BuilderRecord, Held
<1>5. Owned'
  BY <1>2 DEF IInv, Owned, Acquired, Held, Records
<1>6. Dispatched'
  BY <1>1, <1>2 DEF IInv, Dispatched
<1>7. Parsing' /\ HookSawFile'
  BY <1>1, <1>2 DEF IInv, Parsing, HookSawFile
<1>8. Ended'
  BY SMTT(30), <1>1, <1>2, <1>3 DEF IInv, Ended, Held, Records
<1>9. PhdrsInImage'
  BY <1>3 DEF IInv, PhdrsInImage, Held
<1> QED
  BY <1>4, <1>5, <1>6, <1>7, <1>8, <1>9 DEF IInv

-----------------------------------------------------------------------------
(* The actions of a load *)

\* The load functions are called.
LEMMA CallStep ==
  ASSUME IInv, NEW api \in APIs, NEW k \in DOMAIN Files, NEW r \in Readers, call(api, k, r)
  PROVE  IInv'
<1>1. /\ pc = "idle" /\ n' = n + 1 /\ n < MaxLoads /\ pc' = "ehdr" /\ outcome' = "none"
      /\ job' = [api |-> api, file |-> k, reader |-> r,
                 internal |-> IF api = "load" THEN "none" ELSE api]
      /\ builder' = NewBuilder /\ hooks' = <<>>
      /\ fds' \subseteq fds \cup {n + 1}
      /\ buf' = buf /\ mapped' = mapped /\ image' = image /\ cores' = cores
  BY DEF call, Start_read
<1>2. Records'
  <2>1. JobRecord' /\ job'.file = k
        /\ job'.internal \in {"none", "load_dylib", "load_exec", "load_object"}
    BY <1>1 DEF JobRecord, APIs
  <2>2. BuilderRecord'
    BY <1>1 DEF BuilderRecord, NewBuilder
  <2>3. n' \in 0..MaxLoads /\ n' > 0
    BY SMTT(30), <1>1, MaxLoadsAssumption DEF IInv, Records
  <2> QED
    BY <1>1, <2>1, <2>2, <2>3 DEF IInv, Records, BufRecord, ImageRecord, Held
<1>3. Owned'
  <2>1. n \in Nat /\ MaxLoads \in Nat
    BY SMTT(30), MaxLoadsAssumption DEF IInv, Records
  <2>2. fds' \subseteq {n'}
    BY <1>1 DEF IInv, Owned
  <2>3. \A i \in 1..MaxLoads : i > n' \/ i = n' => image'[i] = NoImage /\ i \notin cores'
    BY SMTT(30), <1>1, <2>1 DEF IInv, Owned
  <2> QED
    BY <1>1, <2>1, <2>2, <2>3 DEF IInv, Owned, Acquired, Held
<1>4. Dispatched'
  <2>1. pc' \notin {"phdrs", "shdrs", "map", "protect", "parse"}
        /\ (job'.api = "load" => job'.internal = "none")
    BY <1>1
  <2> QED
    BY <2>1 DEF Dispatched
<1>5. Parsing' /\ Ended' /\ HookSawFile' /\ PhdrsInImage'
  BY <1>1 DEF IInv, Parsing, Ended, HookSawFile, PhdrsInImage, Held
<1> QED
  BY <1>2, <1>3, <1>4, <1>5 DEF IInv

\* The file cannot be opened.
LEMMA OpenFailedStep ==
  ASSUME IInv, NEW api \in APIs, NEW k \in DOMAIN Files, NEW r \in Readers,
         open_failed(api, k, r)
  PROVE  IInv'
<1>1. /\ pc = "idle" /\ n' = n + 1 /\ n < MaxLoads /\ pc' = "idle" /\ outcome' \in {"Err", "panic"}
      /\ job' = [api |-> api, file |-> k, reader |-> r, internal |-> "none"]
      /\ builder' = NewBuilder /\ hooks' = <<>> /\ fds' = fds
      /\ buf' = buf /\ mapped' = mapped /\ image' = image /\ cores' = cores
  BY DEF open_failed
<1>2. Records'
  <2>1. JobRecord' /\ job'.file = k
        /\ job'.internal \in {"none", "load_dylib", "load_exec", "load_object"}
    BY <1>1 DEF JobRecord, APIs
  <2>2. BuilderRecord'
    BY <1>1 DEF BuilderRecord, NewBuilder
  <2>3. n' \in 0..MaxLoads /\ n' > 0
    BY SMTT(30), <1>1, MaxLoadsAssumption DEF IInv, Records
  <2> QED
    BY <1>1, <2>1, <2>2, <2>3 DEF IInv, Records, BufRecord, ImageRecord, Held
<1>3. Owned'
  <2>1. Owned /\ n \in 0..MaxLoads
    BY DEF IInv, Records
  <2> QED
    BY SMTT(30), <1>1, <2>1, MaxLoadsAssumption DEF Owned, Acquired, Held
<1>4. Dispatched'
  <2>1. pc' \notin {"phdrs", "shdrs", "map", "protect", "parse"}
        /\ (job'.api = "load" => job'.internal = "none")
    BY <1>1
  <2> QED
    BY <2>1 DEF Dispatched
<1>5. Parsing' /\ Ended' /\ HookSawFile' /\ PhdrsInImage'
  BY <1>1 DEF IInv, Parsing, Ended, HookSawFile, PhdrsInImage, Held
<1> QED
  BY <1>2, <1>3, <1>4, <1>5 DEF IInv

\* A read that is refused or comes to the end of the file.
LEMMA ReadsStep ==
  ASSUME IInv, read_exact \/ read_once \/ read_binary \/ read_failed \/ read_eof
  PROVE  IInv'
<1>1. BufRecord /\ pc \in {"ehdr", "phdrs", "shdrs"} /\ pc # "idle"
  BY DEF IInv, Records, read_exact, read_once, read_binary, read_failed, read_eof
<1>2. CASE UNCHANGED <<n, pc, job, buf, builder, hooks, fds, mapped, image, cores, outcome>>
  BY <1>2, IoStep
<1>3. Cut => BufRecord'
  BY DEF Cut, BufRecord
<1>4. CASE Raise("panic") /\ BufRecord'
  BY <1>1, <1>4, RaiseStep
<1>5. CASE Raise(IF Unwrapped THEN "panic" ELSE "Err") /\ Cut
  BY <1>1, <1>3, <1>5, RaiseStep
<1>6. CASE read_once
  BY <1>2, <1>3, <1>4, <1>6 DEF read_once
<1>7. CASE read_binary
  BY SMTT(30), <1>2, <1>4, <1>7 DEF read_binary, BufRecord
<1> QED
  BY <1>2, <1>5, <1>6, <1>7 DEF read_exact, read_failed, read_eof

\* A header has been read: the load goes on with the same file.
LEMMA HeaderStep ==
  ASSUME IInv, pc \in {"ehdr", "phdrs", "shdrs"},
         UNCHANGED <<n, builder, hooks, fds, mapped, image, cores, outcome>>,
         BufRecord', JobRecord', job'.file = job.file,
         job'.internal \in {"none", "load_dylib", "load_exec", "load_object"},
         pc' \in {"ehdr", "phdrs", "shdrs", "map"}, Dispatched',
         pc' = "map" /\ job'.internal # "load_object" =>
           buf'.table = "phdrs" /\ buf'.file = job'.file
  PROVE  IInv'
<1>1. f' = f
  BY SameFile
<1>2. Records'
  BY DEF IInv, Records, BuilderRecord, ImageRecord, Held
<1>3. Owned'
  BY DEF IInv, Owned, Acquired, Held
<1>4. Parsing'
  BY <1>1 DEF IInv, Parsing
<1>5. Ended' /\ HookSawFile' /\ PhdrsInImage'
  BY DEF IInv, Ended, HookSawFile, PhdrsInImage, Held
<1> QED
  BY <1>2, <1>3, <1>4, <1>5 DEF IInv

\* The load goes on in another function.
LEMMA Entered ==
  ASSUME JobRecord, NEW internal, Enter(internal)
  PROVE  /\ JobRecord' /\ job'.file = job.file /\ job'.api = job.api
         /\ job'.internal = internal /\ pc' = "ehdr"
<1>1. job' = [api |-> job.api, file |-> job.file, reader |-> job.reader, internal |-> internal]
  BY DEF Enter, JobRecord
<1> QED
  BY <1>1 DEF JobRecord, Enter, Start_read

\* prepare_ehdr
LEMMA EhdrStep ==
  ASSUME IInv, prepare_ehdr
  PROVE  IInv'
<1>1. JobRecord /\ pc = "ehdr" /\ Dispatched
      /\ job.internal \in {"none", "load_dylib", "load_exec", "load_object"}
  BY DEF IInv, Records, prepare_ehdr
<1>2. buf' = [file |-> job.file, table |-> "ehdr", len |-> buf.len]
  BY DEF prepare_ehdr
<1>3. BufRecord'
  BY <1>2 DEF BufRecord
<1>4. CASE Raise(IF Unwrapped THEN "panic" ELSE "Err")
  BY <1>1, <1>3, <1>4, RaiseStep
<1>5. ASSUME ~Mismatch, after_ehdr,
             UNCHANGED <<n, builder, hooks, fds, mapped, image, cores, outcome>>
      PROVE  IInv'
  <2>1. CASE job.internal = "none" /\ f.e_type = "REL" /\ Enter("load_object")
    <3>1. JobRecord' /\ job'.file = job.file /\ job'.api = job.api
          /\ job'.internal = "load_object" /\ pc' = "ehdr"
      BY <1>1, <2>1, Entered
    <3>2. Dispatched'
      BY <2>1, <3>1, SameFile DEF Dispatched
    <3> QED
      BY <1>1, <1>3, <1>5, <3>1, <3>2, HeaderStep
  <2>2. CASE job.internal = "none" /\ f.e_type # "REL" /\ ~is_dylib /\ Enter("load_exec")
    <3>1. JobRecord' /\ job'.file = job.file /\ job'.api = job.api
          /\ job'.internal = "load_exec" /\ pc' = "ehdr"
      BY <1>1, <2>2, Entered
    <3>2. Dispatched'
      BY SMTT(30), <2>2, <3>1, SameFile DEF Dispatched
    <3> QED
      BY <1>1, <1>3, <1>5, <3>1, <3>2, HeaderStep
  <2>3. CASE /\ job' = job /\ pc' = "phdrs" /\ job.internal # "load_object"
             /\ job.internal = "none" => is_dylib
    <3>1. Dispatched'
      BY SMTT(30), <1>1, <2>3, SameFile DEF Dispatched
    <3>2. JobRecord'
      BY <1>1, <2>3 DEF JobRecord
    <3> QED
      BY <1>1, <1>3, <1>5, <2>3, <3>1, <3>2, HeaderStep
  <2>4. CASE job' = job /\ pc' = "shdrs" /\ job.internal = "load_object"
    <3>1. Dispatched'
      BY <1>1, <2>4, SameFile DEF Dispatched
    <3>2. JobRecord'
      BY <1>1, <2>4 DEF JobRecord
    <3> QED
      BY <1>1, <1>3, <1>5, <2>4, <3>1, <3>2, HeaderStep
  <2> QED
    BY <1>5, <2>1, <2>2, <2>3, <2>4 DEF after_ehdr, Start_phdrs, Start_read
<1> QED
  BY <1>4, <1>5 DEF prepare_ehdr

\* prepare_phdrs
LEMMA PhdrsStep ==
  ASSUME IInv, prepare_phdrs
  PROVE  IInv'
<1>1. JobRecord /\ pc = "phdrs" /\ Dispatched
      /\ job.internal \in {"none", "load_dylib", "load_exec", "load_object"}
      /\ UNCHANGED <<n, builder, hooks, fds, mapped, image, cores, outcome>>
  BY DEF IInv, Records, prepare_phdrs
<1>2. BufRecord' /\ buf'.table = "phdrs" /\ buf'.file = job.file
  BY DEF prepare_phdrs, Filled, BufRecord
<1>3. CASE job.internal = "none" /\ Enter(IF is_pie THEN "load_exec" ELSE "load_dylib")
  <2>1. JobRecord' /\ job'.file = job.file /\ job'.api = job.api
        /\ job'.internal = (IF is_pie THEN "load_exec" ELSE "load_dylib") /\ pc' = "ehdr"
    BY <1>1, <1>3, Entered
  <2>2. Dispatched'
    <3>1. is_dylib /\ f.e_type # "REL"
      BY SMTT(30), <1>1, <1>3 DEF Dispatched, is_dylib
    <3> QED
      BY SMTT(30), <1>1, <1>3, <2>1, <3>1, SameFile DEF Dispatched
  <2> QED
    BY <1>1, <1>2, <2>1, <2>2, HeaderStep
<1>4. CASE job.internal # "none" /\ pc' = "map" /\ job' = job
  <2>1. Dispatched'
    BY SMTT(30), <1>1, <1>4, SameFile DEF Dispatched
  <2>2. JobRecord'
    BY <1>1, <1>4 DEF JobRecord
  <2> QED
    BY <1>1, <1>2, <1>4, <2>1, <2>2, HeaderStep
<1> QED
  BY <1>3, <1>4 DEF prepare_phdrs

\* prepare_shdrs_mut
LEMMA ShdrsStep ==
  ASSUME IInv, prepare_shdrs_mut
  PROVE  IInv'
<1>1. JobRecord /\ pc = "shdrs" /\ Dispatched /\ pc' = "map" /\ job' = job
      /\ UNCHANGED <<n, builder, hooks, fds, mapped, image, cores, outcome>>
  BY DEF IInv, Records, prepare_shdrs_mut
<1>2. BufRecord'
  BY DEF prepare_shdrs_mut, Filled, BufRecord
<1>3. job.internal = "load_object"
  BY <1>1 DEF Dispatched
<1>4. Dispatched' /\ JobRecord'
  BY <1>1, <1>3, SameFile DEF Dispatched, JobRecord
<1> QED
  BY <1>1, <1>2, <1>3, <1>4, HeaderStep

\* load_segments and mprotect succeed.
LEMMA MapStep ==
  ASSUME IInv, load_segments \/ mprotect
  PROVE  IInv'
<1>1. /\ pc \in {"map", "protect"} /\ pc' \in {"protect", "parse"}
      /\ pc' = "parse" => pc = "protect"
      /\ job.internal # "load_object" /\ mapped' = mapped \cup {n}
      /\ UNCHANGED <<n, job, buf, builder, hooks, fds, image, cores, outcome>>
  <2>1. CASE load_segments
    BY <2>1 DEF load_segments
  <2>2. CASE mprotect
    BY <2>2 DEF IInv, Owned, Acquired, Dispatched, mprotect
  <2> QED
    BY <2>1, <2>2
<1>2. f' = f /\ is_dylib' = is_dylib /\ is_pie' = is_pie
  BY <1>1, SameFile
<1>3. Records'
  BY <1>1 DEF IInv, Records, JobRecord, BufRecord, BuilderRecord, ImageRecord, Held
<1>4. Owned'
  BY <1>1 DEF IInv, Owned, Acquired, Held
<1>5. Dispatched'
  BY <1>1, <1>2 DEF IInv, Dispatched
<1>6. Parsing'
  <2>1. f.phdrs \in Seq(ElfPhdr) /\ Len(f.phdrs) \in Nat
    BY SMTT(30), <1>1, FilesAssumption DEF IInv, Records, f
  <2>2. builder = NewBuilder /\ hooks = <<>> /\ buf.table = "phdrs" /\ buf.file = job.file
    BY <1>1 DEF IInv, Parsing
  <2>3. builder.next = 1 /\ builder.dynamic_ptr = FALSE /\ builder.phdr_mmap = {}
    BY <2>2 DEF NewBuilder
  <2>4. hooks \in Seq(ElfPhdr) /\ Len(hooks) = 0
    BY SMTT(30), <2>2
  <2> QED
    BY SMTT(30), <1>1, <1>2, <2>1, <2>2, <2>3, <2>4 DEF Parsing
<1>7. Ended' /\ HookSawFile' /\ PhdrsInImage'
  BY <1>1 DEF IInv, Ended, HookSawFile, PhdrsInImage, Held
<1> QED
  BY <1>3, <1>4, <1>5, <1>6, <1>7 DEF IInv

\* While the headers are parsed, the buffer holds those of the file.
LEMMA HeadersOfFile ==
  ASSUME IInv, pc = "parse"
  PROVE  /\ Phdrs = f.phdrs /\ f.phdrs \in Seq(ElfPhdr) /\ Len(f.phdrs) \in Nat
         /\ DOMAIN f.phdrs = 1..Len(f.phdrs)
         /\ job.file \in DOMAIN Files /\ job.internal \notin {"none", "load_object"}
<1>1. job.internal \notin {"none", "load_object"} /\ job.file \in DOMAIN Files
      /\ buf.table = "phdrs" /\ buf.file = job.file
  BY DEF IInv, Dispatched, Parsing, Records
<1>2. f.phdrs \in Seq(ElfPhdr)
  BY <1>1, FilesAssumption DEF f
<1> QED
  BY SMTT(30), <1>1, <1>2 DEF Phdrs, f

\* parse_phdr
LEMMA ParseStep ==
  ASSUME IInv, parse_phdr
  PROVE  IInv'
<1> DEFINE k == builder.next
           p == f.phdrs[k]
<1>1. /\ pc = "parse" /\ k <= Len(Phdrs)
      /\ UNCHANGED <<n, pc, job, buf, fds, mapped, image, cores, outcome>>
  BY DEF parse_phdr
<1>2. /\ Phdrs = f.phdrs /\ f.phdrs \in Seq(ElfPhdr) /\ Len(f.phdrs) \in Nat
      /\ DOMAIN f.phdrs = 1..Len(f.phdrs) /\ job.file \in DOMAIN Files
  BY <1>1, HeadersOfFile
<1>3. /\ k \in 1..Len(f.phdrs) /\ hooks \in Seq(ElfPhdr) /\ Len(hooks) = k - 1
      /\ p \in ElfPhdr
  BY SMTT(30), <1>1, <1>2 DEF IInv, Parsing
<1>4. f' = f /\ is_dylib' = is_dylib /\ is_pie' = is_pie
  BY <1>1, SameFile
<1>5. hooks' = Append(hooks, p)
  BY <1>2 DEF parse_phdr
<1>6. builder' = [next |-> k + 1,
                  dynamic_ptr |-> builder.dynamic_ptr \/ p.p_type = "DYNAMIC",
                  relro |-> builder.relro \/ p.p_type = "GNU_RELRO",
                  interp |-> builder.interp \/ p.p_type = "INTERP",
                  phdr_mmap |-> IF p.p_type = "PHDR"
                                THEN {[vaddr |-> p.p_vaddr, count |-> p.p_memsz]}
                                ELSE builder.phdr_mmap]
  BY <1>2 DEF parse_phdr, IInv, Records, BuilderRecord
<1>7. Records'
  <2>1. BuilderRecord'
    BY <1>6 DEF BuilderRecord
  <2> QED
    BY <1>1, <2>1 DEF IInv, Records, JobRecord, BufRecord, ImageRecord, Held
<1>8. Owned'
  BY <1>1 DEF IInv, Owned, Acquired, Held
<1>9. Dispatched'
  BY <1>1, <1>4 DEF IInv, Dispatched
<1>10. Parsing'
  <2>1. hooks' \in Seq(ElfPhdr) /\ Len(hooks') = k
        /\ \A j \in 1..k : hooks'[j] = IF j = k THEN p ELSE hooks[j]
    BY SMTT(30), <1>3, <1>5, AppendProperties
  <2>2. \A j \in 1..k : hooks'[j] = f.phdrs[j]
    BY SMTT(30), <1>1, <2>1 DEF IInv, Parsing
  <2>3. builder'.next = k + 1
        /\ (builder'.dynamic_ptr <=> builder.dynamic_ptr \/ p.p_type = "DYNAMIC")
        /\ builder'.phdr_mmap = IF p.p_type = "PHDR"
                                THEN {[vaddr |-> p.p_vaddr, count |-> p.p_memsz]}
                                ELSE builder.phdr_mmap
    BY <1>6
  <2>4. builder'.dynamic_ptr <=> \E j \in 1..k : f.phdrs[j].p_type = "DYNAMIC"
    BY SMTT(30), <1>1, <2>3 DEF IInv, Parsing
  <2>5. \A t \in builder'.phdr_mmap : IsTable(t, f.phdrs)
    <3>1. p.p_type = "PHDR" =>
            IsTable([vaddr |-> p.p_vaddr, count |-> p.p_memsz], f.phdrs)
      BY <1>2, <1>3, FilesAssumption DEF f
    <3> QED
      BY <1>1, <2>3, <3>1 DEF IInv, Parsing
  <2>6. buf.table = "phdrs" /\ buf.file = job.file
    BY <1>1 DEF IInv, Parsing, Dispatched
  <2> HIDE DEF k, p
  <2> HIDE DEF k, p
  <2>7. builder'.next - 1 = k /\ builder'.next \in 1..Len(f.phdrs) + 1
    BY SMTT(30), <1>2, <1>3, <2>3
  <2>8. /\ Len(hooks') = builder'.next - 1
        /\ \A j \in 1..builder'.next - 1 : hooks'[j] = f.phdrs[j]
        /\ builder'.dynamic_ptr <=>
             \E j \in 1..builder'.next - 1 : f.phdrs[j].p_type = "DYNAMIC"
    BY <2>1, <2>2, <2>4, <2>7
  <2> QED
    BY <1>1, <1>4, <2>1, <2>5, <2>6, <2>7, <2>8 DEF Parsing
<1>11. Ended' /\ HookSawFile' /\ PhdrsInImage'
  BY <1>1 DEF IInv, Ended, HookSawFile, PhdrsInImage, Held
<1> QED
  BY <1>7, <1>8, <1>9, <1>10, <1>11 DEF IInv

\* Once all headers are parsed, the hook saw them and PT_DYNAMIC was found if
\* there is one.
LEMMA AllParsed ==
  ASSUME IInv, pc = "parse", builder.next > Len(Phdrs)
  PROVE  hooks = f.phdrs /\ (builder.dynamic_ptr <=> Any(f.phdrs, "DYNAMIC"))
<1>1. /\ Phdrs = f.phdrs /\ f.phdrs \in Seq(ElfPhdr) /\ Len(f.phdrs) \in Nat
      /\ DOMAIN f.phdrs = 1..Len(f.phdrs)
  BY HeadersOfFile
<1>2. builder.next = Len(f.phdrs) + 1
  BY SMTT(30), <1>1 DEF IInv, Parsing
<1>3. hooks \in Seq(ElfPhdr) /\ Len(hooks) = Len(f.phdrs)
      /\ \A j \in 1..Len(hooks) : hooks[j] = f.phdrs[j]
  BY SMTT(30), <1>1, <1>2 DEF IInv, Parsing
<1>4. hooks = f.phdrs
  BY <1>1, <1>3, SeqEqual
<1>5. builder.dynamic_ptr <=> \E k \in 1..Len(f.phdrs) : f.phdrs[k].p_type = "DYNAMIC"
  BY SMTT(30), <1>1, <1>2 DEF IInv, Parsing
<1> QED
  BY <1>1, <1>4, <1>5 DEF Any

\* create_phdrs: what it answers is the table of the file.
LEMMA PhdrsCreated ==
  ASSUME IInv, pc = "parse"
  PROVE  \A t \in create_phdrs : IsTable(t, f.phdrs)
<1> DEFINE covering == {k \in DOMAIN Phdrs : Covers(Phdrs[k])}
           first == CHOOSE k \in covering : \A m \in covering : k <= m
<1>1. /\ Phdrs = f.phdrs /\ f.phdrs \in Seq(ElfPhdr) /\ Len(f.phdrs) \in Nat
      /\ DOMAIN f.phdrs = 1..Len(f.phdrs)
  BY HeadersOfFile
<1>2. CASE builder.phdr_mmap # {}
  BY <1>2 DEF IInv, Parsing, create_phdrs
<1>3. CASE builder.phdr_mmap = {} /\ covering = {}
  BY <1>3 DEF create_phdrs
<1>4. CASE builder.phdr_mmap = {} /\ covering # {}
  <2>1. first \in covering
    <3>1. covering \in SUBSET Nat /\ covering # {}
      BY SMTT(30), <1>1, <1>4
    <3> HIDE DEF covering
    <3>2. \E k \in covering : \A m \in covering : k <= m
      BY <3>1, SmallestOf
    <3> QED
      BY <3>2
  <2>2. create_phdrs = {[vaddr |-> Within(Phdrs[first]), count |-> Len(f.phdrs)]}
    BY <1>4 DEF create_phdrs
  <2> HIDE DEF first
  <2> DEFINE p == f.phdrs[first]
  <2>3. first \in DOMAIN f.phdrs /\ Covers(p) /\ p \in ElfPhdr
    BY SMTT(30), <1>1, <2>1
  <2>4. EHDR_SIZE \in Nat
    BY FilesAssumption
  <2> HIDE DEF p
  <2>5. /\ p.p_type = "LOAD" /\ p.p_offset \in Nat /\ p.p_vaddr \in Nat /\ p.p_filesz \in Nat
        /\ p.p_offset <= EHDR_SIZE
        /\ EHDR_SIZE + Len(f.phdrs) <= p.p_offset + p.p_filesz - 1
    <3>1. p.p_offset \in Nat /\ p.p_vaddr \in Nat /\ p.p_filesz \in Nat
      BY <2>3 DEF ElfPhdr
    <3>2. phdr_range.start = EHDR_SIZE /\ phdr_range.end = EHDR_SIZE + Len(f.phdrs)
      BY DEF phdr_range
    <3>3. /\ p.p_type = "LOAD"
          /\ EHDR_SIZE \in p.p_offset..(p.p_offset + p.p_filesz - 1)
          /\ EHDR_SIZE + Len(f.phdrs) \in p.p_offset..(p.p_offset + p.p_filesz - 1)
      BY <2>3, <3>2 DEF Covers
    <3> QED
      BY SMTT(30), <1>1, <2>4, <3>1, <3>3
  <2>6. Within(p) = p.p_vaddr + EHDR_SIZE - p.p_offset
    BY DEF Within, phdr_range
  <2>7. /\ Within(p) - p.p_vaddr + p.p_offset = EHDR_SIZE
        /\ Within(p) + Len(f.phdrs) <= p.p_vaddr + p.p_filesz
    <3> DEFINE w == p.p_vaddr + EHDR_SIZE - p.p_offset
    <3>1. Len(f.phdrs) \in Nat
      BY <1>1
    <3>2. w - p.p_vaddr + p.p_offset = EHDR_SIZE
      BY SMTT(30), <2>4, <2>5
    <3>3. w + Len(f.phdrs) <= p.p_vaddr + p.p_filesz
      <4>1. \A v, o, s, k \in Nat : EHDR_SIZE + k <= o + s - 1 => (v + EHDR_SIZE - o) + k <= v + s
        BY SMTT(30), <2>4
      <4> QED
        BY <2>5, <3>1, <4>1
    <3> QED
      BY <2>6, <3>2, <3>3
  <2>8. IsTable([vaddr |-> Within(p), count |-> Len(f.phdrs)], f.phdrs)
    BY <2>3, <2>5, <2>7 DEF IsTable, p
  <2> QED
    BY <1>1, <2>2, <2>8 DEF p
<1> QED
  BY <1>2, <1>3, <1>4

\* build_static and build_dynamic
LEMMA BuildStep ==
  ASSUME IInv, build_static \/ build_dynamic
  PROVE  IInv'
<1>1. pc = "parse" /\ builder.next > Len(Phdrs)
  BY DEF build_static, build_dynamic
<1>2. /\ Phdrs = f.phdrs /\ job.file \in DOMAIN Files
      /\ job.internal \notin {"none", "load_object"}
  BY <1>1, HeadersOfFile
<1>3. hooks = f.phdrs /\ (builder.dynamic_ptr <=> Any(f.phdrs, "DYNAMIC"))
  BY <1>1, AllParsed
<1>4. Static <=> job.internal = "load_exec" /\ ~Any(f.phdrs, "DYNAMIC")
  BY <1>2 DEF Static
<1>5. mapped = mapped \cup {n}
  BY <1>1 DEF IInv, Owned, Acquired
<1>6. CASE build_static
  <2> DEFINE img == [kind |-> "Exec", variant |-> "Static", file |-> job.file,
                     phdrs |-> {}, data |-> "none", parsed |-> {}, loaded |-> FALSE]
  <2>1. ImageRecord(img) /\ img.kind = "Exec" /\ img.variant = "Static" /\ img.phdrs = {}
    BY <1>2 DEF ImageRecord
  <2>2. Return(img) /\ Static
    BY <1>6 DEF build_static
  <2> HIDE DEF img
  <2> QED
    BY <1>1, <1>2, <1>3, <1>4, <1>5, <2>1, <2>2, ReturnStep DEF Return
<1>7. CASE build_dynamic
  <2> DEFINE img == [kind |-> IF job.internal = "load_exec" THEN "Exec" ELSE "Dylib",
                     variant |-> "Dynamic", file |-> job.file, phdrs |-> create_phdrs,
                     data |-> "Uninit", parsed |-> {}, loaded |-> FALSE]
  <2>1. ImageRecord(img) /\ img.kind = (IF job.internal = "load_exec" THEN "Exec" ELSE "Dylib")
        /\ img.variant = "Dynamic" /\ img.phdrs = create_phdrs /\ Files[img.file] = f
    BY <1>2 DEF ImageRecord, f
  <2>2. ~Static /\ IF builder.dynamic_ptr THEN Return(img) ELSE Raise("panic") /\ UNCHANGED buf
    BY <1>7 DEF build_dynamic
  <2> HIDE DEF img
  <2>3. CASE builder.dynamic_ptr
    <3>1. \A t \in img.phdrs : IsTable(t, Files[img.file].phdrs)
      BY <1>1, <2>1, PhdrsCreated
    <3> QED
      BY <1>1, <1>2, <1>3, <1>5, <2>1, <2>2, <2>3, <3>1, ReturnStep DEF Return
  <2>4. CASE ~builder.dynamic_ptr
    <3>1. BufRecord'
      BY <2>2, <2>4 DEF IInv, Records, BufRecord
    <3> QED
      BY <1>1, <2>2, <2>4, <3>1, RaiseStep
  <2> QED
    BY <2>3, <2>4
<1> QED
  BY <1>6, <1>7

\* load_object_impl
LEMMA ObjectStep ==
  ASSUME IInv, load_object_impl
  PROVE  IInv'
<1>1. pc = "map" /\ job.internal = "load_object" /\ job.file \in DOMAIN Files
  BY DEF load_object_impl, IInv, Records
<1>2. ImageRecord(Object) /\ Object.kind = "Object" /\ Object.phdrs = {}
      /\ Object.variant = "Object"
  BY <1>1 DEF ImageRecord, Object
<1> QED
  BY <1>1, <1>2, ReturnStep DEF load_object_impl

\* The mapping, the protection or the hook fails.
LEMMA FailedStep ==
  ASSUME IInv,
         \/ load_segments_failed \/ mprotect_failed \/ hook_failed
         \/ load_object_panics \/ parse_phdr_panics
  PROVE  IInv'
<1>1. pc # "idle" /\ (Raise("Err") \/ Raise("panic")) /\ buf' = buf
  BY DEF load_segments_failed, mprotect_failed, hook_failed, load_object_panics, parse_phdr_panics
<1>2. BufRecord'
  BY <1>1 DEF IInv, Records, BufRecord
<1> QED
  BY <1>1, <1>2, RaiseStep

-----------------------------------------------------------------------------
(* What the caller does *)

\* State::init keeps everything but the state of the dynamic section.
LEMMA ParsedKeeps ==
  ASSUME NEW img, ImageRecord(img)
  PROVE  /\ ImageRecord(Parsed(img)) /\ Parsed(img).kind = img.kind
         /\ Parsed(img).variant = img.variant /\ Parsed(img).file = img.file
         /\ Parsed(img).phdrs = img.phdrs /\ Parsed(img).data = "Init"
         /\ Parsed(img).parsed = IF img.data = "Init" THEN img.parsed ELSE dynamic(img)
<1> DEFINE c == [img EXCEPT !.data = "Init"]
           q == IF img.data = "Init" THEN img.parsed ELSE dynamic(img)
<1>1. c = [kind |-> img.kind, variant |-> img.variant, file |-> img.file,
           phdrs |-> img.phdrs, data |-> "Init", parsed |-> img.parsed,
           loaded |-> img.loaded]
  BY SMTT(30) DEF ImageRecord
<1>2. Parsed(img) = [c EXCEPT !.parsed = q]
  BY DEF Parsed
<1> HIDE DEF c, q
<1> HIDE DEF c, q
<1>3. [c EXCEPT !.parsed = q] =
        [kind |-> img.kind, variant |-> img.variant, file |-> img.file,
         phdrs |-> img.phdrs, data |-> "Init", parsed |-> q, loaded |-> img.loaded]
  BY SMTT(30), <1>1
<1>4. Parsed(img) =
        [kind |-> img.kind, variant |-> img.variant, file |-> img.file,
         phdrs |-> img.phdrs, data |-> "Init", parsed |-> q, loaded |-> img.loaded]
  BY <1>2, <1>3
<1> QED
  BY SMTT(30), <1>4 DEF ImageRecord, q

\* A relocated image is loaded.
LEMMA LoadedKeeps ==
  ASSUME NEW img, ImageRecord(img), NEW l, l = [img EXCEPT !.loaded = TRUE]
  PROVE  /\ ImageRecord(l) /\ l.kind = img.kind /\ l.variant = img.variant
         /\ l.file = img.file /\ l.phdrs = img.phdrs
         /\ l.data = img.data /\ l.parsed = img.parsed
<1>1. l = [kind |-> img.kind, variant |-> img.variant, file |-> img.file,
           phdrs |-> img.phdrs, data |-> img.data, parsed |-> img.parsed, loaded |-> TRUE]
  BY DEF ImageRecord
<1> QED
  BY <1>1 DEF ImageRecord

\* The image is dropped, with its memory if no core is left of it.
LEMMA DroppedStep ==
  ASSUME IInv, pc = "idle", UNCHANGED <<loadVars, pc, cores>>, NEW i \in 1..MaxLoads, Held(i),
         Dropped(i)
  PROVE  IInv'
<1>1. image' = [image EXCEPT ![i] = NoImage]
  BY DEF Dropped
<1>2. mapped = {j \in 1..MaxLoads : Held(j) \/ j \in cores}
  BY DEF IInv, Owned, Acquired
<1>3. mapped' = {j \in 1..MaxLoads : (IF j = i THEN NoImage # NoImage ELSE Held(j)) \/ j \in cores'}
  BY <1>2 DEF Dropped
<1> QED
  BY <1>1, <1>3, CallerStep

\* force, core and into_core
LEMMA ForcedStep ==
  ASSUME IInv, NEW i \in 1..MaxLoads, NEW img, NEW cs, Forced(i, img, cs),
         \/ img = Parsed(image[i]) /\ cs \in {cores, cores \cup {i}}
         \/ img = NoImage /\ cs = cores \cup {i}
  PROVE  IInv'
<1>1. pc = "idle" /\ Held(i) /\ UNCHANGED <<loadVars, pc>>
  BY DEF Forced
<1>2. CASE Dropped(i) /\ UNCHANGED cores
  BY <1>1, <1>2, DroppedStep
<1>3. CASE image' = [image EXCEPT ![i] = img] /\ cores' = cs /\ UNCHANGED mapped
  <2>1. ImageRecord(image[i])
    BY <1>1 DEF IInv, Records
  <2>2. \/ img = NoImage
        \/ /\ ImageRecord(img) /\ img # NoImage
           /\ img.kind = image[i].kind /\ img.variant = image[i].variant
           /\ img.file = image[i].file /\ img.phdrs = image[i].phdrs
    BY <2>1, ParsedKeeps
  <2>3. mapped = {j \in 1..MaxLoads : Held(j) \/ j \in cores}
    BY <1>1 DEF IInv, Owned, Acquired
  <2>4. mapped' = {j \in 1..MaxLoads : (IF j = i THEN img # NoImage ELSE Held(j)) \/ j \in cores'}
    <3>1. img # NoImage \/ i \in cores'
      <4>1. img = Parsed(image[i]) => img # NoImage
        BY SMTT(30), <2>1, ParsedKeeps DEF ImageRecord, NoImage
      <4> QED
        BY <1>3, <4>1
    <3>2. \A j \in 1..MaxLoads : j # i => (j \in cores' <=> j \in cores)
      BY <1>3
    <3> QED
      BY <1>1, <1>3, <2>3, <3>1, <3>2
  <2>5. cores' \subseteq cores \cup {i}
    BY <1>3
  <2> QED
    BY <1>1, <1>3, <2>2, <2>4, <2>5, CallerStep
<1> QED
  BY <1>2, <1>3 DEF Forced

\* relocate
LEMMA RelocateStep ==
  ASSUME IInv, NEW i \in 1..MaxLoads, relocate(i)
  PROVE  IInv'
<1> DEFINE img == CASE image[i].kind = "Dylib" -> Relocated(image[i])
                    [] image[i].kind = "Exec" -> relocate_exec(image[i])
                    [] image[i].kind = "Object" -> relocate_object(image[i])
<1>1. pc = "idle" /\ Held(i) /\ UNCHANGED <<loadVars, pc, mapped, cores>>
      /\ image' = [image EXCEPT ![i] = img]
  BY DEF relocate
<1>2. ImageRecord(image[i])
  BY <1>1 DEF IInv, Records
<1>3. img \in {[Parsed(image[i]) EXCEPT !.loaded = TRUE], [image[i] EXCEPT !.loaded = TRUE]}
  BY <1>2 DEF ImageRecord, Relocated, relocate_exec, relocate_object
<1> HIDE DEF img
<1>4. /\ ImageRecord(img) /\ img.kind = image[i].kind /\ img.variant = image[i].variant
      /\ img.file = image[i].file /\ img.phdrs = image[i].phdrs
  <2>1. CASE img = [image[i] EXCEPT !.loaded = TRUE]
    BY <1>2, <2>1, LoadedKeeps
  <2>2. CASE img = [Parsed(image[i]) EXCEPT !.loaded = TRUE]
    <3> DEFINE q == Parsed(image[i])
    <3>1. ImageRecord(q) /\ q.kind = image[i].kind /\ q.variant = image[i].variant
          /\ q.file = image[i].file /\ q.phdrs = image[i].phdrs
      BY <1>2, ParsedKeeps
    <3>2. img = [q EXCEPT !.loaded = TRUE]
      BY <2>2
    <3> HIDE DEF q
    <3> QED
      BY SMTT(30), <3>1, <3>2, LoadedKeeps
  <2> QED
    BY <1>3, <2>1, <2>2
<1>5. img # NoImage
  BY SMTT(30), <1>4 DEF ImageRecord, NoImage
<1>6. mapped' = {j \in 1..MaxLoads : (IF j = i THEN img # NoImage ELSE Held(j)) \/ j \in cores'}
  BY <1>1, <1>5 DEF IInv, Owned, Acquired
<1> QED
  BY <1>1, <1>4, <1>6, CallerStep

\* drop_core
LEMMA DropCoreStep ==
  ASSUME IInv, NEW i \in 1..MaxLoads, drop_core(i)
  PROVE  IInv'
<1>1. pc = "idle" /\ UNCHANGED <<loadVars, pc>> /\ image' = image /\ cores' = cores \ {i}
  BY DEF drop_core
<1>2. image' = [image EXCEPT ![i] = image[i]]
  BY <1>1 DEF IInv, Records
<1>3. image[i] = NoImage \/ (Held(i) /\ ImageRecord(image[i]))
  BY DEF IInv, Records, Held
<1>4. mapped' = {j \in 1..MaxLoads : (IF j = i THEN image[i] # NoImage ELSE Held(j)) \/ j \in cores'}
  BY <1>1 DEF IInv, Owned, Acquired, drop_core, Held
<1> QED
  BY <1>1, <1>2, <1>3, <1>4, CallerStep

-----------------------------------------------------------------------------
(* The dynamic section *)

\* Entry e of a dynamic section is its first DT_NULL.
IsEnd(dyn, e) ==
  e \in DOMAIN dyn /\ dyn[e][1] = "NULL" /\ \A j \in 1..e - 1 : dyn[j][1] # "NULL"

\* g holds the locals of ElfDynamic::new after each of the first m entries.
Passes(dyn, m, g) ==
  g = [i \in 0..m |-> IF i = 0 THEN Locals ELSE Entry(g[i - 1], dyn[i])]

\* The loop of ElfDynamic::new can be run over any number of entries.
LEMMA PassesExist ==
  ASSUME NEW dyn, NEW m \in Nat
  PROVE  \E g : Passes(dyn, m, g)
<1> DEFINE Bad == {k \in Nat : ~\E g : Passes(dyn, k, g)}
<1>1. SUFFICES Bad = {}
  OBVIOUS
<1>2. SUFFICES ASSUME Bad # {} PROVE FALSE
  OBVIOUS
<1>3. PICK k \in Bad : \A j \in Bad : k <= j
  BY <1>2, SmallestOf
<1>4. CASE k = 0
  <2> DEFINE g == [i \in 0..0 |-> Locals]
  <2>1. Passes(dyn, 0, g)
    BY SMTT(30) DEF Passes
  <2> QED
    BY <1>3, <1>4, <2>1
<1>5. CASE k # 0
  <2>1. k - 1 \in Nat /\ k - 1 \notin Bad
    BY SMTT(30), <1>3, <1>5
  <2>2. PICK h : Passes(dyn, k - 1, h)
    BY <2>1
  <2> DEFINE g == [i \in 0..k |-> IF i = k THEN Entry(h[k - 1], dyn[k]) ELSE h[i]]
  <2>3. \A i \in 0..k - 1 : g[i] = h[i]
    BY SMTT(30), <2>1
  <2>4. \A i \in 0..k - 1 : h[i] = IF i = 0 THEN Locals ELSE Entry(h[i - 1], dyn[i])
    BY <2>2 DEF Passes
  <2>5. ASSUME NEW i \in 0..k
        PROVE  g[i] = IF i = 0 THEN Locals ELSE Entry(g[i - 1], dyn[i])
    <3>1. CASE i = k
      BY SMTT(30), <1>5, <2>1, <2>3, <3>1
    <3>2. CASE i # k
      <4>1. i \in 0..k - 1 /\ (i # 0 => i - 1 \in 0..k - 1)
        BY SMTT(30), <2>1, <3>2
      <4> QED
        BY <2>3, <2>4, <4>1
    <3> QED
      BY <3>1, <3>2
  <2>6. Passes(dyn, k, g)
    BY <2>5 DEF Passes
  <2> QED
    BY <1>3, <2>6
<1> QED
  BY <1>4, <1>5
\* Scan runs the loop up to the first DT_NULL.
LEMMA ScanPasses ==
  ASSUME NEW dyn, NEW e \in Nat \ {0}, IsEnd(dyn, e), DOMAIN dyn \subseteq Nat
  PROVE  \E g : Passes(dyn, e - 1, g) /\ Scan(dyn) = g[e - 1]
<1> DEFINE end == CHOOSE i \in DOMAIN dyn :
                    dyn[i][1] = "NULL" /\ \A j \in 1..i - 1 : dyn[j][1] # "NULL"
           at == CHOOSE g : Passes(dyn, end - 1, g)
<1>1. end \in DOMAIN dyn /\ dyn[end][1] = "NULL" /\ \A j \in 1..end - 1 : dyn[j][1] # "NULL"
  BY DEF IsEnd
<1>2. end = e
  BY SMTT(30), <1>1 DEF IsEnd
<1>3. Passes(dyn, end - 1, at)
  <2>1. e - 1 \in Nat
    BY SMTT(30)
  <2>2. \E g : Passes(dyn, e - 1, g)
    BY <2>1, PassesExist
  <2> QED
    BY <1>2, <2>2
<1>4. Scan(dyn) = at[end - 1]
  BY DEF Scan, Passes
<1> QED
  BY <1>2, <1>3, <1>4

\* The locals keep their types.
LocalTypes == [offs : [Tags -> Int], needed_libs : Seq(Nat), is_rela : Int]

\* What an offset or a size of value v is held as.
Kept(t, v) == IF v # 0 \/ t \in Plain THEN v ELSE None

\* The tags whose absence is not told from a value of 0.
Defaulted == Tags \ {"HASH", "GNU_HASH"}

\* The DT_NEEDED entries among the first m.
NeededBy(dyn, m) == {k \in 1..m : dyn[k][1] = "NEEDED" /\ dyn[k][2] # 0}

\* What the locals are after m entries.
ReadSoFar(dyn, m, l) ==
  /\ l \in LocalTypes
  /\ \A t \in Defaulted :
       /\ (\A k \in 1..m : LocalOf(dyn[k][1]) # t) => l.offs[t] = Kept(t, 0)
       /\ \A k \in 1..m :
            LocalOf(dyn[k][1]) = t /\ (\A j \in k + 1..m : LocalOf(dyn[j][1]) # t)
              => l.offs[t] = Kept(t, dyn[k][2])
  /\ Len(l.needed_libs) = Cardinality(NeededBy(dyn, m))
  /\ \A k \in NeededBy(dyn, m) :
       l.needed_libs[Cardinality(NeededBy(dyn, k))] = dyn[k][2]

\* One arm of the match changes the local of its tag.
LEMMA EntryOffs ==
  ASSUME NEW l \in LocalTypes, NEW d \in STRING \X Nat
  PROVE  /\ Entry(l, d) \in LocalTypes
         /\ \A t \in Tags :
              Entry(l, d).offs[t] = IF t = LocalOf(d[1]) THEN Kept(t, d[2]) ELSE l.offs[t]
         /\ Entry(l, d).needed_libs = IF d[1] = "NEEDED" /\ d[2] # 0
                                      THEN Append(l.needed_libs, d[2]) ELSE l.needed_libs
<1>1. /\ "NEEDED" \notin Tags /\ "PLTREL" \notin Tags
      /\ LocalOf("NEEDED") = "NEEDED" /\ LocalOf("PLTREL") = "PLTREL"
  BY DEF Tags, LocalOf
<1>2. d[1] \in STRING /\ d[2] \in Nat
  OBVIOUS
<1>r. l = [offs |-> l.offs, needed_libs |-> l.needed_libs, is_rela |-> l.is_rela]
      /\ l.offs \in [Tags -> Int] /\ l.needed_libs \in Seq(Nat) /\ l.is_rela \in Int
  BY DEF LocalTypes
<1>3. CASE d[1] = "NEEDED"
  <2> DEFINE s == IF d[2] # 0 THEN Append(l.needed_libs, d[2]) ELSE l.needed_libs
  <2>1. Entry(l, d) = [l EXCEPT !.needed_libs = s]
    BY <1>1, <1>3 DEF Entry
  <2>2. s \in Seq(Nat)
    BY SMTT(30), <1>2, <1>r
  <2> HIDE DEF s
  <2>3. Entry(l, d) = [offs |-> l.offs, needed_libs |-> s, is_rela |-> l.is_rela]
    BY <2>1, <1>r
  <2>4. Entry(l, d).offs = l.offs /\ Entry(l, d).needed_libs = s
    BY SMTT(30), <2>3
  <2>5. Entry(l, d) \in LocalTypes
    BY SMTT(30), <1>r, <2>2, <2>3 DEF LocalTypes
  <2> QED
    BY <1>1, <1>3, <2>4, <2>5 DEF s
<1>4. CASE d[1] = "PLTREL"
  BY SMTT(30), <1>1, <1>2, <1>4 DEF Entry, LocalTypes
<1>5. CASE LocalOf(d[1]) \in Tags
  <2> DEFINE q == LocalOf(d[1])
             r == IF d[1] = "RELA" THEN 1 ELSE IF d[1] = "REL" THEN 0 ELSE l.is_rela
  <2>1. d[1] \in Plain <=> q \in Plain
    BY DEF LocalOf, Plain
  <2>2. d[1] # "NEEDED" /\ d[1] # "PLTREL"
    BY <1>1, <1>5
  <2>3. Entry(l, d) = [l EXCEPT !.offs[q] = Kept(q, d[2]), !.is_rela = r]
    BY <1>5, <2>1, <2>2 DEF Entry, Kept
  <2>4. q \in Tags /\ r \in Int
    BY SMTT(30), <1>r, <1>5
  <2> HIDE DEF q, r
  <2> HIDE DEF q, r
  <2>5. Kept(q, d[2]) \in Int
    BY SMTT(30), <1>2 DEF Kept, None
  <2> DEFINE o == [l.offs EXCEPT ![q] = Kept(q, d[2])]
  <2>6. Entry(l, d) = [offs |-> o, needed_libs |-> l.needed_libs, is_rela |-> r]
    BY <1>r, <2>3
  <2>7. o \in [Tags -> Int] /\ \A t \in Tags : o[t] = IF t = q THEN Kept(t, d[2]) ELSE l.offs[t]
    BY <1>r, <2>4, <2>5
  <2> HIDE DEF o
  <2>8. Entry(l, d).offs = o /\ Entry(l, d).needed_libs = l.needed_libs
    BY SMTT(30), <2>6
  <2>9. Entry(l, d) \in LocalTypes
    BY SMTT(30), <1>r, <2>4, <2>6, <2>7 DEF LocalTypes
  <2> QED
    BY <2>2, <2>7, <2>8, <2>9 DEF q
<1>6. CASE LocalOf(d[1]) \notin Tags /\ d[1] \notin {"NEEDED", "PLTREL"}
  BY <1>6 DEF Entry
<1> QED
  BY <1>3, <1>4, <1>5, <1>6

\* Counting the DT_NEEDED entries.
LEMMA NeededCount ==
  ASSUME NEW dyn, NEW m \in Nat
  PROVE  /\ IsFiniteSet(NeededBy(dyn, m)) /\ Cardinality(NeededBy(dyn, m)) \in Nat
         /\ NeededBy(dyn, m + 1) = IF dyn[m + 1][1] = "NEEDED" /\ dyn[m + 1][2] # 0
                                   THEN NeededBy(dyn, m) \cup {m + 1} ELSE NeededBy(dyn, m)
         /\ m + 1 \notin NeededBy(dyn, m)
         /\ NeededBy(dyn, 0) = {}
         /\ \A k \in NeededBy(dyn, m) :
              /\ k \in Nat /\ k \in NeededBy(dyn, k) /\ NeededBy(dyn, k) \subseteq NeededBy(dyn, m)
              /\ Cardinality(NeededBy(dyn, k)) \in 1..Cardinality(NeededBy(dyn, m))
<1>1. ASSUME NEW k \in Nat
      PROVE  IsFiniteSet(NeededBy(dyn, k)) /\ Cardinality(NeededBy(dyn, k)) \in Nat
  <2>1. IsFiniteSet(1..k)
    BY SMTT(30), FS_Interval
  <2>2. NeededBy(dyn, k) \subseteq 1..k
    BY DEF NeededBy
  <2>3. IsFiniteSet(NeededBy(dyn, k))
    BY <2>1, <2>2, FS_Subset
  <2> QED
    BY <2>3, FS_CardinalityType
<1>2. NeededBy(dyn, m + 1) = IF dyn[m + 1][1] = "NEEDED" /\ dyn[m + 1][2] # 0
                             THEN NeededBy(dyn, m) \cup {m + 1} ELSE NeededBy(dyn, m)
  <2>1. 1..(m + 1) = (1..m) \cup {m + 1}
    BY SMTT(30)
  <2> QED
    BY <2>1 DEF NeededBy
<1>3. m + 1 \notin NeededBy(dyn, m) /\ NeededBy(dyn, 0) = {}
  BY SMTT(30) DEF NeededBy
<1>4. ASSUME NEW k \in NeededBy(dyn, m)
      PROVE  /\ k \in Nat /\ k \in NeededBy(dyn, k) /\ NeededBy(dyn, k) \subseteq NeededBy(dyn, m)
             /\ Cardinality(NeededBy(dyn, k)) \in 1..Cardinality(NeededBy(dyn, m))
  <2>1. k \in Nat /\ k \in NeededBy(dyn, k) /\ NeededBy(dyn, k) \subseteq NeededBy(dyn, m)
    BY SMTT(30) DEF NeededBy
  <2>2. Cardinality(NeededBy(dyn, k)) <= Cardinality(NeededBy(dyn, m))
    BY <1>1, <2>1, FS_Subset
  <2>3. Cardinality(NeededBy(dyn, k)) # 0
    BY <1>1, <2>1, FS_EmptySet
  <2> QED
    BY SMTT(30), <1>1, <2>1, <2>2, <2>3
<1> QED
  BY <1>1, <1>2, <1>3, <1>4

\* Before the first entry nothing has been read.
LEMMA ReadNothing == ASSUME NEW dyn PROVE ReadSoFar(dyn, 0, Locals)
<1>1. Locals \in LocalTypes /\ \A t \in Defaulted : Locals.offs[t] = Kept(t, 0)
  BY SMTT(30) DEF Locals, LocalTypes, Defaulted, Kept, Tags, Plain, None
<1>2. NeededBy(dyn, 0) = {} /\ Cardinality({}) = 0 /\ Locals.needed_libs = <<>>
  BY NeededCount, FS_EmptySet DEF Locals
<1>3. 1..0 = {} /\ Len(<<>>) = 0
  BY SMTT(30)
<1> QED
  BY <1>1, <1>2, <1>3 DEF ReadSoFar

\* One more entry.
LEMMA ReadOne ==
  ASSUME NEW dyn, NEW m \in Nat, NEW l, ReadSoFar(dyn, m, l), dyn[m + 1] \in STRING \X Nat,
         \A k \in 1..m : dyn[k] \in STRING \X Nat
  PROVE  ReadSoFar(dyn, m + 1, Entry(l, dyn[m + 1]))
<1> DEFINE d == dyn[m + 1]
           r == Entry(l, d)
<1>1. l \in LocalTypes /\ l.needed_libs \in Seq(Nat) /\ d \in STRING \X Nat /\ d[2] \in Nat
  BY DEF ReadSoFar, LocalTypes
<1>2. /\ r \in LocalTypes
      /\ \A t \in Tags : r.offs[t] = IF t = LocalOf(d[1]) THEN Kept(t, d[2]) ELSE l.offs[t]
      /\ r.needed_libs = IF d[1] = "NEEDED" /\ d[2] # 0
                         THEN Append(l.needed_libs, d[2]) ELSE l.needed_libs
  BY <1>1, EntryOffs
<1> HIDE DEF r
<1>3. ASSUME NEW t \in Defaulted
      PROVE  /\ (\A k \in 1..(m + 1) : LocalOf(dyn[k][1]) # t) => r.offs[t] = Kept(t, 0)
             /\ \A k \in 1..(m + 1) :
                  LocalOf(dyn[k][1]) = t /\ (\A j \in (k + 1)..(m + 1) : LocalOf(dyn[j][1]) # t)
                    => r.offs[t] = Kept(t, dyn[k][2])
  <2>1. r.offs[t] = IF t = LocalOf(d[1]) THEN Kept(t, d[2]) ELSE l.offs[t]
    BY <1>2 DEF Defaulted
  <2>2. ASSUME \A k \in 1..(m + 1) : LocalOf(dyn[k][1]) # t PROVE r.offs[t] = Kept(t, 0)
    <3>1. LocalOf(d[1]) # t /\ \A k \in 1..m : LocalOf(dyn[k][1]) # t
      BY SMTT(30), <2>2
    <3> QED
      BY <2>1, <3>1 DEF ReadSoFar
  <2>3. ASSUME NEW k \in 1..(m + 1), LocalOf(dyn[k][1]) = t, \A j \in (k + 1)..(m + 1) : LocalOf(dyn[j][1]) # t
        PROVE  r.offs[t] = Kept(t, dyn[k][2])
    <3>1. CASE k = m + 1
      BY <2>1, <2>3, <3>1
    <3>2. CASE k # m + 1
      <4>1. k \in 1..m /\ m + 1 \in (k + 1)..(m + 1) /\ \A j \in (k + 1)..m : j \in (k + 1)..(m + 1)
        BY SMTT(30), <3>2
      <4>2. LocalOf(d[1]) # t /\ \A j \in (k + 1)..m : LocalOf(dyn[j][1]) # t
        BY <2>3, <4>1
      <4> QED
        BY <2>1, <2>3, <4>1, <4>2 DEF ReadSoFar
    <3> QED
      BY <3>1, <3>2
  <2> QED
    BY <2>2, <2>3
<1>4. /\ Len(r.needed_libs) = Cardinality(NeededBy(dyn, m + 1))
      /\ \A k \in NeededBy(dyn, m + 1) :
           r.needed_libs[Cardinality(NeededBy(dyn, k))] = dyn[k][2]
  <2> DEFINE c == Cardinality(NeededBy(dyn, m))
  <2>1. /\ Len(l.needed_libs) = c /\ c \in Nat
        /\ \A k \in NeededBy(dyn, m) :
             /\ l.needed_libs[Cardinality(NeededBy(dyn, k))] = dyn[k][2]
             /\ Cardinality(NeededBy(dyn, k)) \in 1..c
    BY NeededCount DEF ReadSoFar
  <2>2. CASE d[1] = "NEEDED" /\ d[2] # 0
    <3>1. r.needed_libs = Append(l.needed_libs, d[2])
      BY <1>2, <2>2
    <3>2. NeededBy(dyn, m + 1) = NeededBy(dyn, m) \cup {m + 1}
      BY <2>2, NeededCount
    <3>3. Cardinality(NeededBy(dyn, m + 1)) = c + 1
      <4>1. IsFiniteSet(NeededBy(dyn, m)) /\ m + 1 \notin NeededBy(dyn, m)
        BY NeededCount
      <4> QED
        BY <3>2, <4>1, FS_AddElement
    <3> HIDE DEF c
    <3>4. Len(r.needed_libs) = c + 1 /\ r.needed_libs[c + 1] = d[2]
          /\ \A i \in 1..c : r.needed_libs[i] = l.needed_libs[i]
      BY SMTT(30), <2>1, <3>1
    <3>5. ASSUME NEW k \in NeededBy(dyn, m)
          PROVE  r.needed_libs[Cardinality(NeededBy(dyn, k))] = dyn[k][2]
      BY <2>1, <3>4
    <3>6. r.needed_libs[Cardinality(NeededBy(dyn, m + 1))] = dyn[m + 1][2]
      BY <3>3, <3>4
    <3>7. \A k \in NeededBy(dyn, m + 1) :
            r.needed_libs[Cardinality(NeededBy(dyn, k))] = dyn[k][2]
      BY <3>2, <3>5, <3>6
    <3> QED
      BY <3>3, <3>4, <3>7
  <2>3. CASE ~(d[1] = "NEEDED" /\ d[2] # 0)
    <3>1. r.needed_libs = l.needed_libs
      BY <1>2, <2>3
    <3>2. NeededBy(dyn, m + 1) = NeededBy(dyn, m)
      BY <2>3, NeededCount
    <3> QED
      BY <2>1, <3>1, <3>2
  <2> QED
    BY <2>2, <2>3
<1> QED
  BY <1>2, <1>3, <1>4 DEF r, ReadSoFar

\* ElfDynamic::new reads every entry before the first DT_NULL.
LEMMA ScanReads ==
  ASSUME NEW dyn \in Seq(STRING \X Nat), NEW e \in Nat \ {0}, IsEnd(dyn, e)
  PROVE  ReadSoFar(dyn, e - 1, Scan(dyn))
<1>1. DOMAIN dyn = 1..Len(dyn) /\ Len(dyn) \in Nat /\ e <= Len(dyn)
  BY SMTT(30) DEF IsEnd
<1>2. PICK g : Passes(dyn, e - 1, g) /\ Scan(dyn) = g[e - 1]
  BY SMTT(30), <1>1, ScanPasses
<1>3. \A i \in 0..e - 1 : g[i] = IF i = 0 THEN Locals ELSE Entry(g[i - 1], dyn[i])
  BY <1>2 DEF Passes
<1>4. \A k \in 1..e - 1 : dyn[k] \in STRING \X Nat
  BY SMTT(30), <1>1
<1> DEFINE Bad == {k \in 0..e - 1 : ~ReadSoFar(dyn, k, g[k])}
<1>5. ASSUME Bad # {} PROVE FALSE
  <2>1. PICK k \in Bad : \A j \in Bad : k <= j
    <3>1. Bad \in SUBSET Nat
      BY SMTT(30)
    <3> QED
      BY <1>5, <3>1, SmallestOf
  <2>2. CASE k = 0
    BY <1>3, <2>1, <2>2, ReadNothing
  <2>3. CASE k # 0
    <3>1. k - 1 \in Nat /\ k - 1 \in 0..e - 1 /\ k - 1 + 1 = k /\ k \in 1..e - 1
      BY SMTT(30), <2>1, <2>3
    <3>2. k - 1 \notin Bad
      BY SMTT(30), <2>1, <3>1
    <3>3. ReadSoFar(dyn, k - 1, g[k - 1])
      BY <3>1, <3>2
    <3>4. \A j \in 1..k - 1 : dyn[j] \in STRING \X Nat
      BY SMTT(30), <1>4, <3>1
    <3>5. ReadSoFar(dyn, k, Entry(g[k - 1], dyn[k]))
      <4> DEFINE m == k - 1
      <4>1. m \in Nat /\ m + 1 = k /\ dyn[m + 1] \in STRING \X Nat
        BY <1>4, <3>1
      <4> HIDE DEF m
      <4>2. ReadSoFar(dyn, m + 1, Entry(g[m], dyn[m + 1]))
        BY <3>3, <3>4, <4>1, ReadOne DEF m
      <4> QED
        BY <4>1, <4>2 DEF m
    <3>6. g[k] = Entry(g[k - 1], dyn[k])
      BY <1>3, <2>1, <2>3
    <3> QED
      BY <2>1, <3>5, <3>6
  <2> QED
    BY <2>2, <2>3
<1> QED
  BY SMTT(30), <1>2, <1>5

\* The tags that write the local of tag t.
Forms(t) ==
  CASE t = "RELA" -> {"RELA", "REL"}
    [] t = "RELASZ" -> {"RELASZ", "RELSZ"}
    [] t = "RELACOUNT" -> {"RELACOUNT", "RELCOUNT"}
    [] OTHER -> {t}

\* They are the tags whose local it is.
LEMMA FormsOf ==
  ASSUME NEW t \in Tags, NEW x
  PROVE  x \in Forms(t) <=> LocalOf(x) = t
<1>1. t # "REL" /\ t # "RELSZ" /\ t # "RELCOUNT"
  BY DEF Tags
<1>2. CASE t = "RELA"
  BY <1>2 DEF Forms, LocalOf
<1>3. CASE t = "RELASZ"
  BY <1>3 DEF Forms, LocalOf
<1>4. CASE t = "RELACOUNT"
  BY <1>4 DEF Forms, LocalOf
<1>5. CASE t \notin {"RELA", "RELASZ", "RELACOUNT"}
  BY <1>1, <1>5 DEF Forms, LocalOf
<1> QED
  BY <1>2, <1>3, <1>4, <1>5

\* The last entry with a tag is the one that counts.
LEMMA LastIsKept ==
  ASSUME NEW dyn \in Seq(STRING \X Nat), NEW e \in Nat \ {0}, IsEnd(dyn, e), NEW t \in Defaulted,
         NEW l, ReadSoFar(dyn, e - 1, l)
  PROVE  LastOf(dyn, Forms(t)) \in Nat /\ l.offs[t] = Kept(t, LastOf(dyn, Forms(t)))
<1> DEFINE end == {i \in DOMAIN dyn : dyn[i][1] = "NULL"}
           at == {i \in DOMAIN dyn : dyn[i][1] \in Forms(t) /\ \A x \in end : i < x}
<1>1. DOMAIN dyn = 1..Len(dyn) /\ Len(dyn) \in Nat /\ e \in 1..Len(dyn)
  BY SMTT(30) DEF IsEnd
<1>2. e \in end /\ \A x \in end : e <= x /\ x \in Nat
  BY SMTT(30), <1>1 DEF IsEnd
<1>3. at = {i \in 1..e - 1 : LocalOf(dyn[i][1]) = t}
  <2>1. \A i \in DOMAIN dyn : (\A x \in end : i < x) <=> i \in 1..e - 1
    <3> HIDE DEF end
    <3> QED
      BY SMTT(30), <1>1, <1>2
  <2>2. 1..e - 1 \subseteq DOMAIN dyn
    BY SMTT(30), <1>1
  <2>3. \A i \in DOMAIN dyn : dyn[i][1] \in Forms(t) <=> LocalOf(dyn[i][1]) = t
    BY FormsOf DEF Defaulted
  <2> HIDE DEF end
  <2> QED
    BY <2>1, <2>2, <2>3
<1>4. LastOf(dyn, Forms(t)) = IF at = {} THEN 0 ELSE dyn[CHOOSE i \in at : \A j \in at : j <= i][2]
  BY DEF LastOf
<1> HIDE DEF end, at
<1> HIDE DEF end, at
<1>5. CASE at = {}
  <2>1. \A k \in 1..e - 1 : LocalOf(dyn[k][1]) # t
    BY <1>3, <1>5
  <2> QED
    BY SMTT(30), <1>4, <1>5, <2>1 DEF ReadSoFar
<1>6. CASE at # {}
  <2> DEFINE S == {e - x : x \in at}
  <2>1. S \in SUBSET Nat /\ S # {}
    BY SMTT(30), <1>3, <1>6
  <2>2. PICK y \in S : \A z \in S : y <= z
    BY <2>1, SmallestOf
  <2>3. PICK k \in at : y = e - k
    BY <2>2
  <2>4. k \in 1..e - 1 /\ \A j \in at : j \in 1..e - 1 /\ j <= k
    <3>1. \A j \in at : e - j \in S
      OBVIOUS
    <3>2. \A j \in at : y <= e - j
      BY <2>2, <3>1
    <3>3. \A j \in at : j \in 1..e - 1
      BY <1>3
    <3> HIDE DEF S
    <3> QED
      BY SMTT(30), <2>3, <3>2, <3>3
  <2> HIDE DEF S
  <2> DEFINE m == CHOOSE i \in at : \A j \in at : j <= i
  <2>5. m \in at /\ \A j \in at : j <= m
    BY <2>4
  <2>6. m \in 1..e - 1 /\ LocalOf(dyn[m][1]) = t /\ LastOf(dyn, Forms(t)) = dyn[m][2]
    BY SMTT(30), <1>3, <1>4, <1>6, <2>5
  <2> HIDE DEF m
  <2>7. \A j \in m + 1..e - 1 : LocalOf(dyn[j][1]) # t
    BY SMTT(30), <1>3, <2>5, <2>6
  <2>8. dyn[m] \in STRING \X Nat
    BY SMTT(30), <1>1, <2>6
  <2>9. l.offs[t] = Kept(t, dyn[m][2])
    BY <2>6, <2>7 DEF ReadSoFar
  <2> QED
    BY <2>6, <2>8, <2>9
<1> QED
  BY <1>5, <1>6

\* A table of the dynamic section: absent with offset 0, empty without size.
TableOf(x, y) == IF x = 0 THEN {} ELSE {[off |-> x, size |-> y]}

\* A table that was read is the one its two entries describe.
LEMMA SliceKept ==
  ASSUME NEW dyn, NEW offs,
         \A t \in Defaulted : LastOf(dyn, Forms(t)) \in Nat /\ offs[t] = Kept(t, LastOf(dyn, Forms(t)))
  PROVE  \A off, size \in Defaulted \ Plain :
           Slice(offs, off, size) = TableOf(LastOf(dyn, Forms(off)), LastOf(dyn, Forms(size)))
<1> TAKE off, size \in Defaulted \ Plain
<1> DEFINE x == LastOf(dyn, Forms(off))
           y == LastOf(dyn, Forms(size))
<1>0. /\ x \in Nat /\ offs[off] = Kept(off, x) /\ off \notin Plain
      /\ y \in Nat /\ offs[size] = Kept(size, y) /\ size \notin Plain
  OBVIOUS
<1> HIDE DEF x, y
<1> HIDE DEF x, y
<1>1. offs[off] = IF x = 0 THEN None ELSE x
  BY <1>0 DEF Kept
<1>2. (IF offs[size] = None THEN 0 ELSE offs[size]) = y
  BY SMTT(30), <1>0 DEF Kept, None
<1>3. Slice(offs, off, size) = {[off |-> o, size |-> y] : o \in {offs[off]} \ {None}}
  BY <1>2 DEF Slice
<1>4. ASSUME x = 0 PROVE Slice(offs, off, size) = TableOf(x, y)
  BY <1>1, <1>3, <1>4 DEF TableOf
<1>5. ASSUME x # 0 PROVE Slice(offs, off, size) = TableOf(x, y)
  <2>1. {offs[off]} \ {None} = {x}
    BY SMTT(30), <1>0, <1>1, <1>5 DEF None
  <2> QED
    BY <1>3, <1>5, <2>1 DEF TableOf
<1>6. Slice(offs, off, size) = TableOf(x, y)
  BY <1>4, <1>5
<1> QED
  BY <1>6 DEF x, y

\* ElfDynamic::new finds what the dynamic section says.
LEMMA NewReads ==
  ASSUME NEW dyn \in Seq(STRING \X Nat), NEW z \in DOMAIN dyn, dyn[z][1] = "NULL",
         NEW d \in ElfDynamic_new(dyn)
  PROVE  Says(dyn, d)
<1>1. DOMAIN dyn = 1..Len(dyn) /\ Len(dyn) \in Nat
  BY SMTT(30)
<1>2. PICK e \in Nat \ {0} : IsEnd(dyn, e)
  <2> DEFINE S == {i \in DOMAIN dyn : dyn[i][1] = "NULL"}
  <2>1. S \in SUBSET Nat /\ S # {}
    BY SMTT(30), <1>1
  <2>2. PICK x \in S : \A y \in S : x <= y
    BY <2>1, SmallestOf
  <2>3. x \in Nat \ {0} /\ x \in DOMAIN dyn /\ dyn[x][1] = "NULL"
    BY SMTT(30), <1>1, <2>2
  <2>4. ASSUME NEW j \in 1..x - 1 PROVE dyn[j][1] # "NULL"
    <3>1. j \in DOMAIN dyn /\ ~(x <= j)
      BY SMTT(30), <1>1, <2>3
    <3> QED
      BY <2>2, <3>1
  <2> QED
    BY <2>3, <2>4 DEF IsEnd
<1> DEFINE l == Scan(dyn)
<1>3. ReadSoFar(dyn, e - 1, l)
  BY <1>2, ScanReads
<1>4. /\ d.pltrel = Slice(l.offs, "JMPREL", "PLTRELSZ")
      /\ d.dynrel = Slice(l.offs, "RELA", "RELASZ")
      /\ d.relr = Slice(l.offs, "RELR", "RELRSZ")
      /\ d.symtab = l.offs["SYMTAB"] /\ d.strtab = l.offs["STRTAB"]
      /\ d.init_array_fn = Slice(l.offs, "INIT_ARRAY", "INIT_ARRAYSZ")
      /\ d.needed_libs = l.needed_libs
  BY SMTT(30) DEF ElfDynamic_new
<1> HIDE DEF l
<1>5. \A t \in Defaulted : LastOf(dyn, Forms(t)) \in Nat /\ l.offs[t] = Kept(t, LastOf(dyn, Forms(t)))
  BY <1>2, <1>3, LastIsKept
<1> DEFINE Table(off, size) == TableOf(LastOf(dyn, Forms(off)), LastOf(dyn, Forms(size)))
<1>6. \A off, size \in Defaulted \ Plain : Slice(l.offs, off, size) = Table(off, size)
  BY <1>5, SliceKept
<1>7. /\ "JMPREL" \in Defaulted \ Plain /\ "PLTRELSZ" \in Defaulted \ Plain
      /\ "RELA" \in Defaulted \ Plain /\ "RELASZ" \in Defaulted \ Plain
      /\ "RELR" \in Defaulted \ Plain /\ "RELRSZ" \in Defaulted \ Plain
      /\ "INIT_ARRAY" \in Defaulted \ Plain /\ "INIT_ARRAYSZ" \in Defaulted \ Plain
      /\ {"SYMTAB", "STRTAB"} \subseteq Defaulted /\ {"SYMTAB", "STRTAB"} \subseteq Plain
  BY DEF Defaulted, Tags, Plain
<1>f. /\ Forms("JMPREL") = {"JMPREL"} /\ Forms("PLTRELSZ") = {"PLTRELSZ"}
      /\ Forms("RELA") = {"RELA", "REL"} /\ Forms("RELASZ") = {"RELASZ", "RELSZ"}
      /\ Forms("RELR") = {"RELR"} /\ Forms("RELRSZ") = {"RELRSZ"}
      /\ Forms("INIT_ARRAY") = {"INIT_ARRAY"} /\ Forms("INIT_ARRAYSZ") = {"INIT_ARRAYSZ"}
      /\ Forms("SYMTAB") = {"SYMTAB"} /\ Forms("STRTAB") = {"STRTAB"}
  BY DEF Forms
<1>8. /\ d.pltrel = Table("JMPREL", "PLTRELSZ")
      /\ d.dynrel = Table("RELA", "RELASZ")
      /\ d.relr = Table("RELR", "RELRSZ")
      /\ d.init_array_fn = Table("INIT_ARRAY", "INIT_ARRAYSZ")
  <2> HIDE DEF Table
  <2> QED
    BY <1>4, <1>6, <1>7
<1>9. d.symtab = LastOf(dyn, {"SYMTAB"}) /\ d.strtab = LastOf(dyn, {"STRTAB"})
  <2>1. \A t \in Plain : \A v : Kept(t, v) = v
    BY DEF Kept
  <2>2. \A t \in Defaulted \cap Plain : l.offs[t] = LastOf(dyn, Forms(t))
    BY <1>5, <2>1
  <2>3. "SYMTAB" \in Defaulted \cap Plain /\ "STRTAB" \in Defaulted \cap Plain
    BY <1>7
  <2>4. /\ l.offs["SYMTAB"] = LastOf(dyn, Forms("SYMTAB"))
        /\ l.offs["STRTAB"] = LastOf(dyn, Forms("STRTAB"))
    BY <2>2, <2>3
  <2> QED
    BY <1>4, <1>f, <2>4
<1> DEFINE null == CHOOSE k \in DOMAIN dyn : dyn[k][1] = "NULL" /\
                                             \A j \in 1..k - 1 : dyn[j][1] # "NULL"
           needed == {k \in 1..null : dyn[k][1] = "NEEDED" /\ dyn[k][2] # 0}
<1>10. null = e
  <2>1. null \in DOMAIN dyn /\ dyn[null][1] = "NULL" /\ \A j \in 1..null - 1 : dyn[j][1] # "NULL"
    BY <1>2 DEF IsEnd
  <2> QED
    BY SMTT(30), <1>1, <1>2 DEF IsEnd
<1> HIDE DEF null
<1>11. needed = NeededBy(dyn, e - 1)
  BY SMTT(30), <1>2, <1>10 DEF NeededBy, IsEnd
<1>12. \A k \in needed : {j \in needed : j <= k} = NeededBy(dyn, k)
  BY SMTT(30), <1>10 DEF NeededBy
<1> HIDE DEF needed
<1>13. /\ Len(d.needed_libs) = Cardinality(needed)
       /\ \A k \in needed : d.needed_libs[Cardinality({j \in needed : j <= k})] = dyn[k][2]
  BY <1>3, <1>4, <1>11, <1>12 DEF ReadSoFar
<1> QED
  BY <1>8, <1>9, <1>13, <1>f DEF Says, TableOf, null, needed

-----------------------------------------------------------------------------
(* What images know of their dynamic section *)

\* A parsed image holds what ElfDynamic::new returned for its own file, and
\* only an image with a dynamic section is parsed.
Readable(img) ==
  /\ img.kind = "Dylib" => img.variant = "Dynamic"
  /\ img.variant = "Dynamic" => Any(Files[img.file].phdrs, "DYNAMIC")
  /\ img.data = "Init" =>
       img.variant = "Dynamic" /\ img.parsed = dynamic(img) /\ img.parsed # {}

ImagesReadable == \A i \in 1..MaxLoads : Held(i) => Readable(image[i])

\* A step puts a readable image in one place, or none.
LEMMA PutReadable ==
  ASSUME IInv, ImagesReadable, NEW i \in 1..MaxLoads, NEW img,
         image' = [image EXCEPT ![i] = img], img = NoImage \/ Readable(img)
  PROVE  ImagesReadable'
<1>1. image' = [j \in 1..MaxLoads |-> IF j = i THEN img ELSE image[j]]
  BY DEF IInv, Records
<1>2. ASSUME NEW j \in 1..MaxLoads, image'[j] # NoImage PROVE Readable(image'[j])
  BY <1>1, <1>2 DEF ImagesReadable, Held
<1>3. ASSUME NEW j \in 1..MaxLoads, Held(j)' PROVE Readable(image[j])'
  BY <1>2, <1>3 DEF Held, Readable, dynamic
<1> QED
  BY <1>3 DEF ImagesReadable

\* Forcing the lazy parse of a dynamic image.
LEMMA ParsedReadable ==
  ASSUME NEW img, ImageRecord(img), Readable(img), img.variant = "Dynamic", Parses(img)
  PROVE  Readable(Parsed(img))
<1> DEFINE q == Parsed(img)
<1>1. /\ q.kind = img.kind /\ q.variant = img.variant /\ q.file = img.file /\ q.data = "Init"
      /\ q.parsed = IF img.data = "Init" THEN img.parsed ELSE dynamic(img)
  BY ParsedKeeps
<1> HIDE DEF q
<1>2. dynamic(q) = dynamic(img)
  BY <1>1 DEF dynamic
<1>3. q.parsed = dynamic(img) /\ q.parsed # {}
  BY <1>1 DEF Readable, Parses
<1>4. Readable(q)
  BY <1>1, <1>2, <1>3 DEF Readable
<1> QED
  BY <1>4 DEF q

\* Marking an image as loaded.
LEMMA LoadedReadable ==
  ASSUME NEW img, ImageRecord(img), Readable(img)
  PROVE  Readable([img EXCEPT !.loaded = TRUE])
<1> DEFINE l == [img EXCEPT !.loaded = TRUE]
<1>1. /\ l.kind = img.kind /\ l.variant = img.variant /\ l.file = img.file
      /\ l.data = img.data /\ l.parsed = img.parsed
  BY LoadedKeeps
<1> HIDE DEF l
<1>2. dynamic(l) = dynamic(img)
  BY <1>1 DEF dynamic
<1>3. Readable(l)
  BY <1>1, <1>2 DEF Readable
<1> QED
  BY <1>3 DEF l

\* What a load returns is not parsed yet.
LEMMA BuiltReadable ==
  ASSUME IInv, ImagesReadable, build_static \/ build_dynamic \/ load_object_impl
  PROVE  ImagesReadable'
<1>1. n \in 1..MaxLoads /\ (pc = "idle" => FALSE)
  BY SMTT(30) DEF IInv, Records, build_static, build_dynamic, load_object_impl
<1>2. ASSUME NEW img, image' = [image EXCEPT ![n] = img],
             img.data # "Init", img.kind = "Dylib" => img.variant = "Dynamic",
             img.variant = "Dynamic" => Any(Files[img.file].phdrs, "DYNAMIC")
      PROVE  ImagesReadable'
  <2>1. Readable(img)
    BY <1>2 DEF Readable
  <2> QED
    BY <1>1, <1>2, <2>1, PutReadable
<1>3. CASE load_object_impl
  <2>1. Object.data = "none" /\ Object.kind = "Object" /\ Object.variant = "Object"
    BY DEF Object
  <2>2. image' = [image EXCEPT ![n] = Object]
    BY <1>3 DEF load_object_impl
  <2> QED
    BY <1>2, <2>1, <2>2
<1>4. CASE build_static
  <2> DEFINE img == [kind |-> "Exec", variant |-> "Static", file |-> job.file,
                     phdrs |-> {}, data |-> "none", parsed |-> {}, loaded |-> FALSE]
  <2>1. img.data = "none" /\ img.kind = "Exec" /\ img.variant = "Static"
    OBVIOUS
  <2>2. image' = [image EXCEPT ![n] = img]
    BY <1>4 DEF build_static, Return
  <2> HIDE DEF img
  <2> QED
    BY <1>2, <2>1, <2>2
<1>5. CASE build_dynamic
  <2> DEFINE img == [kind |-> IF job.internal = "load_exec" THEN "Exec" ELSE "Dylib",
                     variant |-> "Dynamic", file |-> job.file, phdrs |-> create_phdrs,
                     data |-> "Uninit", parsed |-> {}, loaded |-> FALSE]
  <2>1. img.data = "Uninit" /\ img.variant = "Dynamic" /\ Files[img.file] = f
    BY DEF f
  <2>2. IF builder.dynamic_ptr THEN image' = [image EXCEPT ![n] = img] ELSE image' = image
    BY <1>5 DEF build_dynamic, Return, Raise
  <2> HIDE DEF img
  <2>3. builder.dynamic_ptr <=> Any(f.phdrs, "DYNAMIC")
    BY <1>5, AllParsed DEF build_dynamic
  <2>4. CASE builder.dynamic_ptr
    BY <1>2, <2>1, <2>2, <2>3, <2>4
  <2>5. CASE ~builder.dynamic_ptr
    BY <2>2, <2>5 DEF ImagesReadable, Held, Readable, dynamic
  <2> QED
    BY <2>4, <2>5
<1> QED
  BY <1>3, <1>4, <1>5

\* Every step keeps images readable.
LEMMA NextReadable ==
  ASSUME IInv, ImagesReadable, [Next]_vars
  PROVE  ImagesReadable'
<1>1. ASSUME UNCHANGED image PROVE ImagesReadable'
  BY <1>1 DEF ImagesReadable, Held, Readable, dynamic
<1>2. ASSUME NEW api \in APIs, NEW k \in DOMAIN Files, NEW r \in Readers,
             call(api, k, r) \/ open_failed(api, k, r)
      PROVE  ImagesReadable'
  BY <1>1, <1>2 DEF call, open_failed
<1>3. CASE read_exact \/ read_eof \/ read_once \/ read_binary \/ prepare_ehdr \/ prepare_phdrs
             \/ prepare_shdrs_mut \/ load_segments \/ mprotect \/ parse_phdr \/ Failure
  BY <1>1, <1>3
     DEF read_exact, read_eof, read_once, read_binary, prepare_ehdr, prepare_phdrs,
         prepare_shdrs_mut, load_segments, mprotect, parse_phdr, Failure, read_failed,
         load_segments_failed, mprotect_failed, hook_failed, load_object_panics,
         parse_phdr_panics, Raise
<1>4. ASSUME NEW i \in 1..MaxLoads, Dropped(i) PROVE ImagesReadable'
  BY <1>4, PutReadable DEF Dropped
<1>5. ASSUME NEW i \in 1..MaxLoads, NEW img, NEW cs, Forced(i, img, cs),
             img = Parsed(image[i]) \/ img = NoImage
      PROVE  ImagesReadable'
  <2>1. Held(i) /\ image[i].variant = "Dynamic"
    BY <1>5 DEF Forced
  <2>2. CASE Dropped(i)
    BY <1>4, <2>2
  <2>3. CASE Parses(image[i]) /\ image' = [image EXCEPT ![i] = img]
    <3>1. ImageRecord(image[i]) /\ Readable(image[i])
      BY <2>1 DEF IInv, Records, ImagesReadable
    <3>2. Readable(Parsed(image[i]))
      BY <2>1, <2>3, <3>1, ParsedReadable
    <3> QED
      BY <1>5, <2>3, <3>2, PutReadable
  <2> QED
    BY <1>5, <2>2, <2>3 DEF Forced
<1>6. ASSUME NEW i \in 1..MaxLoads, relocate(i) PROVE ImagesReadable'
  <2> DEFINE img == CASE image[i].kind = "Dylib" -> Relocated(image[i])
                      [] image[i].kind = "Exec" -> relocate_exec(image[i])
                      [] image[i].kind = "Object" -> relocate_object(image[i])
  <2>1. /\ Held(i) /\ image' = [image EXCEPT ![i] = img]
        /\ image[i].variant = "Dynamic" => Parses(image[i])
    BY <1>6 DEF relocate
  <2>2. ImageRecord(image[i]) /\ Readable(image[i])
    BY <2>1 DEF IInv, Records, ImagesReadable
  <2>3. \/ img = [image[i] EXCEPT !.loaded = TRUE]
        \/ img = [Parsed(image[i]) EXCEPT !.loaded = TRUE] /\ image[i].variant = "Dynamic"
    BY <2>2 DEF ImageRecord, Readable, Relocated, relocate_exec, relocate_object
  <2> HIDE DEF img
  <2>4. CASE img = [image[i] EXCEPT !.loaded = TRUE]
    BY <2>1, <2>2, <2>4, LoadedReadable, PutReadable
  <2>5. CASE img = [Parsed(image[i]) EXCEPT !.loaded = TRUE] /\ image[i].variant = "Dynamic"
    <3>1. ImageRecord(Parsed(image[i]))
      BY <2>2, ParsedKeeps
    <3>2. Readable(Parsed(image[i]))
      BY <2>1, <2>2, <2>5, ParsedReadable
    <3> QED
      BY <2>1, <2>5, <3>1, <3>2, LoadedReadable, PutReadable
  <2> QED
    BY <2>3, <2>4, <2>5
<1>7. ASSUME NEW i \in 1..MaxLoads,
             force(i) \/ core(i) \/ into_core(i) \/ relocate(i) \/ drop(i) \/ drop_core(i)
      PROVE  ImagesReadable'
  BY <1>1, <1>4, <1>5, <1>6, <1>7 DEF force, core, into_core, drop, drop_core
<1>8. CASE build_static \/ build_dynamic \/ load_object_impl
  BY <1>8, BuiltReadable
<1>9. CASE UNCHANGED vars
  BY <1>1, <1>9 DEF vars
<1> QED
  BY <1>2, <1>3, <1>7, <1>8, <1>9 DEF Next, Step

-----------------------------------------------------------------------------
(* The invariant holds, and what follows from it *)

\* Nothing is loaded in the beginning.
LEMMA InitInv ==
  ASSUME Init
  PROVE  IInv
<1>1. Records
  BY SMTT(30), MaxLoadsAssumption
     DEF Init, Records, JobRecord, BufRecord, BuilderRecord, NewBuilder, NoJob, Held
<1>2. Owned
  BY MaxLoadsAssumption DEF Init, Owned, Acquired, Held
<1>3. Dispatched /\ Parsing /\ Ended /\ HookSawFile /\ PhdrsInImage
  BY DEF Init, Dispatched, Parsing, Ended, HookSawFile, PhdrsInImage, Held, NoJob
<1> QED
  BY <1>1, <1>2, <1>3 DEF IInv

\* Every step of a load and of its caller keeps the invariant.
LEMMA NextInv ==
  ASSUME IInv, [Next]_vars
  PROVE  IInv'
<1>1. ASSUME NEW api \in APIs, NEW k \in DOMAIN Files, NEW r \in Readers,
             call(api, k, r) \/ open_failed(api, k, r)
      PROVE  IInv'
  BY <1>1, CallStep, OpenFailedStep
<1>2. CASE Step
  BY <1>2, ReadsStep, EhdrStep, PhdrsStep, ShdrsStep, ObjectStep, MapStep, ParseStep, BuildStep
     DEF Step
<1>3. CASE Failure
  BY <1>3, ReadsStep, FailedStep DEF Failure
<1>4. ASSUME NEW i \in 1..MaxLoads, force(i) \/ core(i) \/ into_core(i) PROVE IInv'
  BY <1>4, ForcedStep DEF force, core, into_core
<1>5. ASSUME NEW i \in 1..MaxLoads, drop(i) PROVE IInv'
  BY <1>5, DroppedStep DEF drop
<1>6. ASSUME NEW i \in 1..MaxLoads, relocate(i) \/ drop_core(i) PROVE IInv'
  BY <1>6, RelocateStep, DropCoreStep
<1>7. CASE UNCHANGED vars
  BY <1>7, IoStep DEF vars
<1> QED
  BY <1>1, <1>2, <1>3, <1>4, <1>5, <1>6, <1>7 DEF Next

\* In every state the loader knows the file under way, and everything that is
\* mapped or open has one owner.
THEOREM InvHolds == Spec => []IInv
BY InitInv, NextInv, PTL DEF Spec

\* Whatever fails, and whether by an error or by a panic, what is mapped
\* between loads is what images and cores of the caller own, and no descriptor
\* is open.
THEOREM NothingKept == Spec => []HeldIsMapped
<1>1. IInv => HeldIsMapped
  BY DEF IInv, Owned, Acquired, HeldIsMapped
<1> QED
  BY <1>1, InvHolds, PTL

\* The hook of a load that succeeds saw the program headers of its file.
THEOREM HookSeesFile == Spec => []HookSawFile
<1>1. IInv => HookSawFile
  BY DEF IInv
<1> QED
  BY <1>1, InvHolds, PTL

\* The table of program headers an image points at is that of its file.
THEOREM PhdrsAreOfFile == Spec => []PhdrsInImage
<1>1. IInv => PhdrsInImage
  BY DEF IInv
<1> QED
  BY <1>1, InvHolds, PTL

\* Loader::load chooses a loader that can load the file: build_dynamic finds
\* the dynamic section it unwraps, and the image is of the kind of the file.
THEOREM LoadDispatches == Spec => []DispatchFits
<1>1. ASSUME IInv, job.api = "load", pc = "parse", builder.next > Len(Phdrs), ~Static
      PROVE  builder.dynamic_ptr
  <2>1. /\ Phdrs = f.phdrs /\ job.internal \notin {"none", "load_object"}
        /\ builder.dynamic_ptr <=> Any(f.phdrs, "DYNAMIC")
    BY <1>1, HeadersOfFile, AllParsed
  <2>2. CASE job.internal = "load_exec"
    BY <1>1, <2>1, <2>2 DEF Static
  <2>3. CASE job.internal = "load_dylib"
    BY <1>1, <2>1, <2>3 DEF IInv, Dispatched, is_pie
  <2> QED
    BY <1>1, <2>1, <2>2, <2>3 DEF IInv, Records
<1>2. ASSUME IInv, job.api = "load", pc = "idle", outcome = "Ok", Held(n)
      PROVE  /\ image[n].kind = "Object" <=> f.e_type = "REL"
             /\ image[n].kind = "Dylib" <=>
                  is_dylib /\ Any(f.phdrs, "DYNAMIC") /\ ~Any(f.phdrs, "INTERP")
             /\ image[n].variant = "Static" <=> f.e_type # "REL" /\ ~Any(f.phdrs, "DYNAMIC")
  <2>1. CASE job.internal = "load_exec"
    <3>1. /\ image[n].kind = "Exec"
          /\ image[n].variant = "Static" <=> ~Any(f.phdrs, "DYNAMIC")
          /\ f.e_type # "REL" /\ (~is_dylib \/ is_pie)
      BY <1>2, <2>1 DEF IInv, Ended, Dispatched
    <3> QED
      BY <3>1 DEF is_pie
  <2>2. CASE job.internal = "load_dylib"
    <3>1. /\ image[n].kind = "Dylib" /\ image[n].variant # "Static"
          /\ is_dylib /\ ~is_pie
      BY <1>2, <2>2 DEF IInv, Ended, Dispatched
    <3> QED
      BY <3>1 DEF is_pie, is_dylib
  <2>3. CASE job.internal = "load_object"
    <3>1. /\ image[n].kind = "Object" /\ image[n].variant # "Static" /\ f.e_type = "REL"
      BY <1>2, <2>3 DEF IInv, Ended, Dispatched
    <3> QED
      BY <3>1 DEF is_dylib
  <2> QED
    BY <1>2, <2>1, <2>2, <2>3 DEF IInv, Records, Ended
<1>3. IInv => DispatchFits
  BY <1>1, <1>2 DEF DispatchFits
<1> QED
  BY <1>3, InvHolds, PTL

\* What an image parsed lazily knows of its dynamic section is what the section
\* of its file says, however its entries are ordered and repeated.
THEOREM DynamicIsRead == Spec => []DynamicRead
<1>1. Init => IInv /\ ImagesReadable
  BY InitInv DEF Init, ImagesReadable, Held
<1>2. IInv /\ ImagesReadable /\ [Next]_vars => (IInv /\ ImagesReadable)'
  BY NextInv, NextReadable
<1>3. IInv /\ ImagesReadable => DynamicRead
  <2> SUFFICES ASSUME IInv, ImagesReadable, NEW i \in 1..MaxLoads, Held(i),
                      image[i].data = "Init"
               PROVE  /\ image[i].parsed # {}
                      /\ \A d \in image[i].parsed : Says(Files[image[i].file].dyn, d)
    BY DEF DynamicRead
  <2> DEFINE dyn == Files[image[i].file].dyn
  <2>1. image[i].file \in DOMAIN Files
    BY DEF IInv, Records, ImageRecord
  <2>2. /\ image[i].parsed = ElfDynamic_new(dyn) /\ image[i].parsed # {}
        /\ Any(Files[image[i].file].phdrs, "DYNAMIC")
    BY DEF ImagesReadable, Readable, dynamic
  <2>3. dyn \in Seq(STRING \X Nat)
    BY <2>1, FilesAssumption
  <2>4. PICK e \in DOMAIN dyn : dyn[e][1] = "NULL"
    BY <2>1, <2>2, FilesAssumption DEF Any
  <2> HIDE DEF dyn
  <2>5. \A d \in ElfDynamic_new(dyn) : Says(dyn, d)
    BY <2>3, <2>4, NewReads
  <2> QED
    BY <2>2, <2>5 DEF dyn
<1> QED
  BY <1>1, <1>2, <1>3, PTL DEF Spec

=============================================================================
