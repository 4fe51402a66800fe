---------------------------- MODULE SymbolLookup ----------------------------
(***************************************************************************)
(* Looking a symbol up, by ElfCore::get, ElfCore::get_version or for a     *)
(* relocation, in a scope of images with GNU, SysV and custom hash tables. *)
(* One PreCompute, filled in along the way, serves the whole scope.        *)
(*                                                                         *)
(* The tables of an image are those a static linker writes; the lookup is  *)
(* followed read by read.  A symbol is [name, st, ndx, hidden]: st tells   *)
(* what lookup_filter tells apart, ndx and hidden are its DT_VERSYM entry. *)
(***************************************************************************)
EXTENDS Naturals, Sequences, FiniteSets, Functions, HashWords

CONSTANTS
  Name,      \* symbol names, as byte sequences
  Versions,  \* two version names, as byte sequences
  Base,      \* the name of an image, version of its base definition
  MaxSyms,   \* bound: MaxSyms[k] symbols in each image of a scope of k images
  NBucket,   \* NBucket[kind]: numbers of buckets in use
  NBloom,    \* number of words of a bloom filter, a power of two
  NShift,    \* second shift of the bloom filter
  GnuHash(_), ElfHash(_), DlElfHash(_)   \* the hash functions, see ElfHashes

None == <<>>
Uninit == <<256>>   \* stands for no name

ASSUME ConstantsAssumption ==
  /\ \A n \in Name : GnuHash(n) \in Nat \X Nat /\ ElfHash(n) \in Nat \X Nat
  /\ DOMAIN Versions = 1..2 /\ Uninit \notin Range(Versions) \cup {Base}
  /\ MaxSyms \in Seq(Nat)
  /\ NBucket.gnu \subseteq Nat \ {0} /\ NBucket.elf \subseteq Nat \ {0}

VARIABLES
  scope,     \* the images, in search order
  pc,        \* where the lookup is
  req,       \* the SymbolInfo
  pre,       \* the PreCompute
  lib,       \* image being searched
  first,     \* first image to search
  last,      \* last image to search
  idx,       \* symbol index of the hash chain walk
  result     \* <<image, symbol>> found, or None

vars == <<scope, pc, req, pre, lib, first, last, idx, result>>

-----------------------------------------------------------------------------
(* What static linkers write *)

HashOf == [n \in Name |-> [gnu |-> GnuHash(n), elf |-> ElfHash(n)]]

NoVersym == [versym |-> FALSE, defs |-> <<>>, needs |-> <<>>]
Shapes ==
  {NoVersym,
   [versym |-> TRUE, defs |-> <<Base, Versions[1], Versions[2]>>, needs |-> [n \in {4} |-> Versions[1]]],
   [versym |-> TRUE, defs |-> <<>>, needs |-> [n \in {2} |-> Versions[1]]]}

Sym(st, ndxs, hiddens) == [name : Name, st : {st}, ndx : ndxs, hidden : hiddens]

DynSyms(v) ==
  IF v.versym
  THEN Sym("def", {1} \cup DOMAIN v.defs, {FALSE}) \cup Sym("def", DOMAIN v.defs \ {1}, {TRUE})
       \cup Sym("undef", {0} \cup DOMAIN v.needs, {FALSE})
  ELSE UNION {Sym(st, {0}, {FALSE}) : st \in {"def", "undef"}}
ObjSyms == UNION {Sym(st, {0}, {FALSE}) : st \in {"def", "undef", "local", "file"}}

SeqsUpTo(S, n) == UNION {[1..k -> S] : k \in 0..n}

\* At most one of two dynamic symbols of a name is its default version.
DynLegal(s) ==
  \A i, j \in DOMAIN s : i < j /\ s[i].name = s[j].name =>
    /\ s[i].st = "def" /\ s[j].st = "def" /\ s[i].ndx # s[j].ndx
    /\ s[i].hidden \/ s[j].hidden
\* A relocatable link may leave local symbols with the name of a global one.
ObjLegal(s) ==
  \A i, j \in DOMAIN s : i < j /\ s[i].name = s[j].name =>
    {s[i].st, s[j].st} \cap {"local", "file"} # {}
\* DT_GNU_HASH: undefined symbols first, the others by bucket.
GnuLegal(s, nb) ==
  \A i, j \in DOMAIN s : i < j => \/ s[i].st = "undef"
                                  \/ s[j].st = "def" /\ Mod(HashOf[s[i].name].gnu, nb)
                                                        <= Mod(HashOf[s[j].name].gnu, nb)

\* SymbolTable::from_dynamic and SymbolTable::from_shdrs
from_dynamic(hashtab, nb, v, s) == [kind |-> hashtab, ver |-> v, nbucket |-> nb, syms |-> s]
from_shdrs(s) == [kind |-> "custom", ver |-> NoVersym, nbucket |-> 0, syms |-> s]

DynSeqs(v, n) == {s \in SeqsUpTo(DynSyms(v), n) : DynLegal(s)}

Files(n) ==
  (UNION {{from_dynamic("gnu", nb, v, s) : s \in {t \in DynSeqs(v, n) : GnuLegal(t, nb)}}
          : v \in Shapes, nb \in NBucket.gnu})
  \cup (UNION {{from_dynamic("elf", nb, v, s) : s \in DynSeqs(v, n)} : v \in Shapes, nb \in NBucket.elf})
  \cup {from_shdrs(s) : s \in {t \in SeqsUpTo(ObjSyms, n) : ObjLegal(t)}}

SymHash(f, i) == IF f.kind = "gnu" THEN HashOf[f.syms[i].name].gnu ELSE HashOf[f.syms[i].name].elf
\* Symbols in a hash table: DT_GNU_HASH leaves the undefined ones out.
Hashed(f) == {i \in DOMAIN f.syms : f.kind = "gnu" => f.syms[i].st = "def"}
InBucket(f, b) == {i \in Hashed(f) : Mod(SymHash(f, i), f.nbucket) = b}
Least(S) == IF S = {} THEN 0 ELSE CHOOSE i \in S : \A j \in S : i <= j
Bucket(f, b) == Least(InBucket(f, b))
After(f, i) == {j \in InBucket(f, Mod(SymHash(f, i), f.nbucket)) : i < j}
\* A GNU chain word is the hash with its low bit telling the end.
ChainEnds(f, i) == After(f, i) = {}
ElfChain(f, i) == Least(After(f, i))
symbias(f) == IF Hashed(f) = {} THEN Len(f.syms) + 1 ELSE Least(Hashed(f))

\* The bits a name has in the bloom filter: word, and two bits of it.  The
\* halves of the hash are h[1] and h[2].
fofs(h) == ((h[1] * 1024) + (h[2] \div 64)) % NBloom
fmask(h) == h[2] % 64
fmask2(h) == IF NShift > 16 THEN (h[1] \div 2^(NShift - 16)) % 64
             ELSE (((h[1] % 64) * 2^(16 - NShift)) + (h[2] \div 2^NShift)) % 64
BloomWord(f, w) == UNION {{fmask(SymHash(f, i)), fmask2(SymHash(f, i))} :
                            i \in {j \in Hashed(f) : fofs(SymHash(f, j)) = w}}

Greatest(S) == IF S = {} THEN 0 ELSE CHOOSE i \in S : \A j \in S : j <= i

\* Mutant: the chain of the greatest bucket is not followed.
gnu_count_syms_below(f) == Greatest({Bucket(f, b) : b \in 0..f.nbucket - 1})

\* ElfGnuHash::count_syms follows the chain of the greatest bucket to its end.
gnu_count_syms(f) ==
  LET top == Greatest({Bucket(f, b) : b \in 0..f.nbucket - 1})
  IN 1 + Greatest({top} \cup IF top = 0 THEN {} ELSE After(f, top))

\* ElfHash::count_syms: nchain, the number of symbols with the null symbol.
elf_count_syms(f) == Len(f.syms) + 1

\* The symbols CustomHash::from_shdr leaves out.
FileSyms(f) == {i \in DOMAIN f.syms : f.syms[i].st = "file"}

\* CustomHash::count_syms: the entries of the map, the null symbol being one.
custom_count_syms(f) == 1 + Cardinality(DOMAIN f.syms \ FileSyms(f))

count_syms(f) ==
  CASE f.kind = "gnu" -> gnu_count_syms(f)
    [] f.kind = "elf" -> elf_count_syms(f)
    [] f.kind = "custom" -> custom_count_syms(f)

-----------------------------------------------------------------------------
(* Versions *)

\* The indices the iterators over verdefs and verneeds yield.  From one entry
\* to the next they go by vd_next and vn_next; of a verdef the first name is
\* read, and the VerNeedAux of a verneed are taken to follow each other, as
\* static linkers write them: vna_next is not read.
VerDefIterator(v) == DOMAIN v.defs
VerNeedIterator(v) == DOMAIN v.needs

\* ELFVersion::new: room up to the greatest index, filled in from verdefs
\* and verneeds; other slots are left uninitialised (set_len).
ELFVersion_new(v) ==
  [i \in 0..Greatest(VerDefIterator(v) \cup VerNeedIterator(v)) |->
     IF i \in VerNeedIterator(v) THEN v.needs[i]
     ELSE IF i \in VerDefIterator(v) THEN v.defs[i] ELSE Uninit]

\* VersionIndexTable::get
index(f, i) == f.syms[i].ndx
is_hidden(f, i) == f.syms[i].hidden

\* The hashes static linkers store (vd_hash, vna_hash).
StoredHash == [ver \in Range(Versions) \cup {Base} |-> ElfHash(ver)]
\* The hashes get_version computes.
VersionHash == [ver \in Range(Versions) |-> DlElfHash(ver)]

NoVersion == [name |-> None, hash |-> None, hidden |-> FALSE]

\* Mutant: get_version accepts default versions.
SymbolVersion_default(ver) == [name |-> ver, hash |-> VersionHash[ver], hidden |-> FALSE]

SymbolVersion_new(ver) == [name |-> ver, hash |-> VersionHash[ver], hidden |-> TRUE]

get_requirement(f, i) ==
  IF ~f.ver.versym \/ index(f, i) <= 1 THEN NoVersion
  ELSE LET ver == ELFVersion_new(f.ver)[index(f, i)]
       IN [name |-> ver, hash |-> StoredHash[ver], hidden |-> is_hidden(f, i)]

\* Whether symbol i of image f satisfies version v: the set of possible
\* outcomes, two when the answer depends on an uninitialised slot.
check_match(f, i, v) ==
  IF v = NoVersion THEN {"match"}
  ELSE IF ~f.ver.versym THEN {"panic"}
  ELSE LET ver == ELFVersion_new(f.ver)[index(f, i)]
           same == IF ver = Uninit THEN BOOLEAN
                   ELSE {StoredHash[ver] = v.hash /\ ver = v.name}
       IN {IF s \/ (~v.hidden /\ ~is_hidden(f, i)) THEN "match" ELSE "differ" : s \in same}

symbol_idx(f, i) == [name |-> f.syms[i].name, ver |-> get_requirement(f, i)]

-----------------------------------------------------------------------------
(* The lookup *)

\* Mutant: the cached hashes of the previous lookup are kept.
precompute_kept(n) == [pre EXCEPT !.gnu = HashOf[n].gnu]

\* SymbolInfo::precompute
precompute(n) == [gnu |-> HashOf[n].gnu, elf |-> None, custom |-> None]

Request(api, n, v, from, to) ==
  /\ pc = "idle"
  /\ req' = [api |-> api, name |-> n, ver |-> v] /\ pre' = precompute(n)
  /\ lib' = from /\ first' = from /\ last' = to /\ idx' = 0 /\ result' = None
  /\ pc' = "lookup" /\ UNCHANGED scope

\* ElfCore::get and ElfCore::get_version search one image ...
get(l, n) == Request("get", n, NoVersion, l, l)
get_version(l, n, v) == Request("get_version", n, SymbolVersion_new(v), l, l)

\* ... a relocation naming symbol i of image l searches the scope.
find_symdef(l, i) ==
  LET f == scope[l] IN
  /\ i \in DOMAIN f.syms /\ f.syms[i].st \in {"def", "undef"}
  /\ Request("relocate", symbol_idx(f, i).name, symbol_idx(f, i).ver, 1, Len(scope))

Cur == scope[lib]

\* None from lookup_filter: find_map goes on with the next image.
Miss ==
  /\ idx' = 0 /\ UNCHANGED <<scope, req, first, last, result>>
  /\ IF lib = last THEN pc' = "done" /\ UNCHANGED lib
     ELSE pc' = "lookup" /\ lib' = lib + 1

\* SymbolTable::lookup_filter on the symbol lookup returned.
lookup_filter(i) ==
  IF Cur.syms[i].st = "def"
  THEN pc' = "done" /\ result' = <<lib, i>> /\ UNCHANGED <<scope, req, lib, first, last, idx>>
  ELSE Miss

Panic == pc' = "panicked" /\ UNCHANGED <<scope, req, lib, first, last, idx, result>>

At(i) == pc' = "chain" /\ idx' = i /\ UNCHANGED <<scope, req, lib, first, last, result>>

\* The name and version test of the chain walks; Go continues the walk.
Visit(i, Go) ==
  \/ Cur.syms[i].name # req.name /\ Go
  \/ /\ Cur.syms[i].name = req.name
     /\ \E o \in check_match(Cur, i, req.ver) :
          \/ o = "match" /\ lookup_filter(i)
          \/ o = "differ" /\ Go
          \/ o = "panic" /\ Panic

bloom_passes == {fmask(pre.gnu), fmask2(pre.gnu)} \subseteq BloomWord(Cur, fofs(pre.gnu))

gnu_lookup ==
  /\ pc = "lookup" /\ Cur.kind = "gnu" /\ UNCHANGED pre
  /\ LET start == Bucket(Cur, Mod(pre.gnu, Cur.nbucket))
     IN IF bloom_passes /\ start # 0 THEN At(start) ELSE Miss

\* Mutant: the chain is followed to the end of the table.
gnu_next_symbol == IF idx = Len(Cur.syms) + 1 THEN Miss ELSE At(idx + 1)

gnu_next == IF ChainEnds(Cur, idx) THEN Miss ELSE At(idx + 1)

gnu_chain ==
  /\ pc = "chain" /\ Cur.kind = "gnu" /\ UNCHANGED pre
  /\ IF Or1(SymHash(Cur, idx)) = Or1(pre.gnu) THEN Visit(idx, gnu_next) ELSE gnu_next

elf_lookup ==
  /\ pc = "lookup" /\ Cur.kind = "elf"
  /\ LET hash == IF pre.elf = None THEN HashOf[req.name].elf ELSE pre.elf
     IN pre' = [pre EXCEPT !.elf = hash] /\ At(Bucket(Cur, Mod(hash, Cur.nbucket)))

\* Mutant: the walk starts again at the head of the bucket.
elf_restart == At(Bucket(Cur, Mod(pre.elf, Cur.nbucket)))

elf_next == At(ElfChain(Cur, idx))

elf_chain ==
  /\ pc = "chain" /\ Cur.kind = "elf" /\ UNCHANGED pre
  /\ IF idx = 0 THEN Miss ELSE Visit(idx, elf_next)

\* The entries hashbrown's find may return; the hash of a name stands for it.
Entries(hash) == {i \in DOMAIN Cur.syms \ FileSyms(Cur) :
                    hash = Cur.syms[i].name /\ hash = req.name}

custom_lookup ==
  /\ pc = "lookup" /\ Cur.kind = "custom"
  /\ LET hash == IF pre.custom = None THEN req.name ELSE pre.custom
     IN /\ pre' = [pre EXCEPT !.custom = hash]
        /\ IF Entries(hash) = {} THEN Miss ELSE \E i \in Entries(hash) : lookup_filter(i)

Return == pc = "done" /\ pc' = "idle" /\ UNCHANGED <<scope, req, pre, lib, first, last, idx, result>>

Step == gnu_lookup \/ gnu_chain \/ elf_lookup \/ elf_chain \/ custom_lookup

Init ==
  /\ scope \in UNION {[1..k -> Files(MaxSyms[k])] : k \in DOMAIN MaxSyms}
  /\ pc = "idle" /\ req = [api |-> "get", name |-> None, ver |-> NoVersion]
  /\ pre = [gnu |-> None, elf |-> None, custom |-> None]
  /\ lib = 1 /\ first = 1 /\ last = 1 /\ idx = 0 /\ result = None

Next ==
  \/ \E l \in DOMAIN scope, n \in Name : get(l, n)
  \/ \E l \in DOMAIN scope, n \in Name, v \in Range(Versions) : get_version(l, n, v)
  \/ \E l \in DOMAIN scope : \E i \in DOMAIN scope[l].syms : find_symdef(l, i)
  \/ Step \/ Return

Spec == Init /\ [][Next]_vars
FairSpec == Spec /\ WF_vars(Step)

-----------------------------------------------------------------------------
(* Properties *)

\* Slot(f, i): the version of symbol i, Uninit if nothing was stored.
Slot(f, i) == ELFVersion_new(f.ver)[index(f, i)]
Named(f) == {i \in DOMAIN f.syms : f.syms[i].name = req.name}

\* Symbols of f that may answer the request: usable ones of the name and, in
\* a versioned image, of the version or default for a default requirement.
Possible(f) ==
  {i \in Named(f) : /\ f.syms[i].st = "def"
                    /\ \/ f.kind = "custom" \/ req.ver = NoVersion
                       \/ f.ver.versym /\ \/ Slot(f, i) \in {req.ver.name, Uninit}
                                          \/ ~req.ver.hidden /\ ~f.syms[i].hidden}
\* The request has an answer in f whatever uninitialised slots hold and
\* whichever of several entries of a name the custom table returns.
Certain(f) ==
  IF f.kind = "custom" THEN Possible(f) # {} /\ \A i \in Named(f) : f.syms[i].st \in {"def", "file"}
  ELSE \E i \in Possible(f) : \/ req.ver = NoVersion \/ Slot(f, i) = req.ver.name
                              \/ ~req.ver.hidden /\ ~f.syms[i].hidden

\* A request with a version is put to a dynamic image that has the name in its
\* hash table and no DT_VERSYM: check_match unwraps None.
Panics(f) ==
  /\ req.ver # NoVersion /\ f.kind # "custom" /\ ~f.ver.versym
  /\ Named(f) \cap Hashed(f) # {}

\* The search does not go past f.
Stops(f) == Certain(f) \/ Panics(f)

\* Whatever the hash tables, bloom filters and cached hashes, lookup_filter
\* over the scope returns a definition of the requested name and version from
\* the first image that has one, and None only if no image has one.  It panics
\* if, and only if, an image without versions comes first that has the name.
FoundFirst ==
  /\ pc = "done" =>
       LET searched == IF result = None THEN lib ELSE result[1] - 1
       IN /\ result # None => result[2] \in Possible(scope[result[1]])
          /\ \A l \in first..searched : ~Stops(scope[l])
  /\ pc = "panicked" => Panics(Cur) /\ \A l \in first..(lib - 1) : ~Stops(scope[l])

\* The chain walks stay inside the tables: DT_GNU_HASH has chain words from
\* symbias on only, and no walk runs past the last symbol.
InBounds ==
  pc = "chain" => IF Cur.kind = "gnu" THEN idx \in symbias(Cur)..Len(Cur.syms)
                  ELSE idx \in 0..Len(Cur.syms)

\* get_version never returns a symbol of another version from an image that
\* stores the version of its symbols, a default version included.
ExactVersion ==
  pc = "done" /\ result # None /\ req.api = "get_version" =>
    LET f == scope[result[1]] IN f.kind # "custom" => Slot(f, result[2]) \in {req.ver.name, Uninit}

\* No lookup returns a symbol at or past the number of symbols that
\* count_syms derives from the hash table of a dynamic image.  In an object it
\* may: there count_syms falls short by the file symbols of the symbol table.
CountReaches ==
  pc = "done" /\ result # None =>
    LET f == scope[result[1]]
    IN IF f.kind = "custom" THEN result[2] < count_syms(f) + Cardinality(FileSyms(f))
       ELSE result[2] < count_syms(f)

\* Every lookup returns (or panics): no chain is walked forever.
LookupEnds == pc = "lookup" ~> pc \in {"done", "panicked"}
=============================================================================
