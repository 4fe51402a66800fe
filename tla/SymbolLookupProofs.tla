------------------------- MODULE SymbolLookupProofs -------------------------
(***************************************************************************)
(* Proofs about SymbolLookup for every set of names, every hash function,  *)
(* every number of buckets, every bloom filter and scopes of images of any *)
(* size: the walks stay inside the tables, count_syms reaches what they    *)
(* return, get_version returns the version asked for, and a lookup returns *)
(* a definition from the first image that has one.                         *)
(***************************************************************************)
EXTENDS SymbolLookup, TLAPS, FiniteSetTheorems, SequenceTheorems, WellFoundedInduction

\* The hash get_version computes of a version name is the one static linkers
\* store: SymbolVersion::dl_elf_hash and ElfHash::hash agree on version names.
VersionHashesAgree == \A ver \in Range(Versions) : DlElfHash(ver) = ElfHash(ver)

\* Images of any size.
AnyFile == UNION {Files(n) : n \in Nat}

Busy == {"lookup", "chain"}

\* The images of the scope are ones static linkers write.
Images == scope \in Seq(AnyFile)

\* The cached hashes are those of the name.
Cached ==
  /\ pre = [gnu |-> HashOf[req.name].gnu, elf |-> pre.elf, custom |-> pre.custom]
  /\ pre.elf \in {None, HashOf[req.name].elf}
  /\ pre.custom \in {None, req.name}

\* The request, its cached hashes and the images that remain.
Asked ==
  pc # "idle" =>
    /\ first \in Nat \ {0} /\ last \in 1..Len(scope) /\ lib \in first..last
    /\ req.name \in Name
    /\ req.api = "get_version" => req.ver.hidden = TRUE
    /\ Cached

\* The bucket of the requested name.
Wanted(f) == InBucket(f, Mod(IF f.kind = "gnu" THEN HashOf[req.name].gnu
                             ELSE HashOf[req.name].elf, f.nbucket))

\* A walk is at a symbol of the bucket of the name, or at the end of it.
Walk ==
  /\ pc \in Busy => result = None
  /\ pc = "chain" => \/ Cur.kind = "gnu" /\ idx \in Wanted(Cur)
                     \/ Cur.kind = "elf" /\ idx \in {0} \cup Wanted(Cur)

\* What is returned is an answer to the request.
Answer ==
  pc = "done" /\ result # None =>
    \E i \in Possible(Cur) : result = <<lib, i>>

\* The version requested is one static linkers store, with its hash.
Known(v) ==
  v = NoVersion \/ (v.name # Uninit /\ v.hash = StoredHash[v.name])

\* The symbols of a dynamic image that no walk passes: those that answer whatever
\* uninitialised slots hold, and those at which check_match panics.
Answers(f) ==
  {i \in Possible(f) : \/ req.ver = NoVersion
                       \/ Slot(f, i) = req.ver.name
                       \/ ~req.ver.hidden /\ ~f.syms[i].hidden}

Sure(f) == Answers(f) \cup {i \in Named(f) \cap Hashed(f) : Panics(f)}

\* No image before the current one has an answer, nor has the part of the
\* bucket that was walked.
Missed ==
  VersionHashesAgree =>
    /\ pc # "idle" => Known(req.ver)
    /\ pc \in Busy => \A l \in first..(lib - 1) : ~Stops(scope[l])
    /\ pc = "chain" => \A i \in Wanted(Cur) : (idx = 0 \/ i < idx) => i \notin Sure(Cur)
    /\ FoundFirst

IInv == Images /\ Asked /\ Walk /\ Answer /\ Missed

-----------------------------------------------------------------------------
(* Sets of symbol indices *)

\* A nonempty set of naturals has a smallest element.
LEMMA SmallestOf ==
  ASSUME NEW S \in SUBSET Nat, S # {}
  PROVE  \E x \in S : \A y \in S : x <= y
<1>1. PICK x \in S : \A y \in S : ~(<<y, x>> \in OpToRel(<, Nat))
  BY WFMin, NatLessThanWellFounded
<1>2. OpToRel(<, Nat) = {p \in Nat \X Nat : p[1] < p[2]}
  BY DEF OpToRel
<1>3. \A y \in S : ~(<<y, x>> \in {p \in Nat \X Nat : p[1] < p[2]})
  BY <1>1, <1>2, Zenon
<1>4. ASSUME NEW y \in S PROVE x <= y
  <2>1. <<y, x>> \in Nat \X Nat /\ <<y, x>>[1] = y /\ <<y, x>>[2] = x
    OBVIOUS
  <2>2. ~(<<y, x>>[1] < <<y, x>>[2])
    BY <1>3, <2>1, Zenon
  <2> QED
    BY <2>1, <2>2
<1> QED
  BY <1>4

\* The first symbol of a bucket or chain; 0 says that there is none.
LEMMA LeastFacts ==
  ASSUME NEW S \in SUBSET (Nat \ {0})
  PROVE  /\ S = {} => Least(S) = 0
         /\ S # {} => Least(S) \in S /\ \A j \in S : Least(S) <= j
<1>1. CASE S = {}
  BY <1>1 DEF Least
<1>2. CASE S # {}
  <2>1. \E x \in S : \A y \in S : x <= y
    BY <1>2, SmallestOf
  <2> QED
    BY <1>2, <2>1 DEF Least
<1> QED
  BY <1>1, <1>2

\* The last symbol of a bucket or chain.
LEMMA GreatestFacts ==
  ASSUME NEW m \in Nat, NEW S \in SUBSET (0..m), S # {}
  PROVE  Greatest(S) \in S /\ \A j \in S : j <= Greatest(S)
<1> DEFINE T == {m - x : x \in S}
<1>1. T \in SUBSET Nat /\ T # {}
  <2>1. \A x \in S : m - x \in Nat
    OBVIOUS
  <2> QED
    BY <2>1
<1>2. PICK t \in T : \A y \in T : t <= y
  BY <1>1, SmallestOf
<1>3. PICK x \in S : t = m - x
  OBVIOUS
<1>4. ASSUME NEW j \in S PROVE j <= x
  <2>1. m - j \in T /\ j \in 0..m /\ x \in 0..m
    OBVIOUS
  <2> QED
    BY <1>2, <1>3, <2>1
<1> QED
  BY <1>4 DEF Greatest

\* A hash selects one of the buckets.
LEMMA ModRange ==
  ASSUME NEW h \in Nat \X Nat, NEW n \in Nat \ {0}
  PROVE  Mod(h, n) \in 0..(n - 1)
<1> DEFINE a == h[1] % n
           b == Half % n
           c == h[2] % n
<1>1. a \in Nat /\ b \in Nat /\ c \in Nat
  BY DEF Half
<1> HIDE DEF a, b, c
<1>2. a * b + c \in Nat
  BY <1>1
<1> DEFINE x == a * b + c
<1>3. Mod(h, n) = x % n
  BY DEF Mod, a, b, c
<1> HIDE DEF x
<1>4. x \in Nat
  BY <1>2 DEF x
<1>5. x % n \in 0..(n - 1)
  BY <1>4
<1> QED
  BY <1>3, <1>5

-----------------------------------------------------------------------------
(* The images static linkers write *)

Kinds == {"def", "undef", "local", "file"}
Symbol == [name : Name, st : Kinds, ndx : Nat, hidden : BOOLEAN]

\* The shapes of version information.
LEMMA ShapeFacts ==
  ASSUME NEW v \in Shapes
  PROVE  \/ v = NoVersym
         \/ /\ v.versym = TRUE /\ DOMAIN v.defs = {1, 2, 3} /\ DOMAIN v.needs = {4}
            /\ \A n \in {1, 2, 3} : v.defs[n] \in Range(Versions) \cup {Base}
            /\ v.needs[4] \in Range(Versions)
         \/ /\ v.versym = TRUE /\ DOMAIN v.defs = {} /\ DOMAIN v.needs = {2}
            /\ v.needs[2] \in Range(Versions)
<1>1. Versions[1] \in Range(Versions) /\ Versions[2] \in Range(Versions)
  BY ConstantsAssumption DEF Range
<1> DEFINE d == <<Base, Versions[1], Versions[2]>>
<1>2. /\ DOMAIN d = {1, 2, 3}
      /\ d[1] = Base /\ d[2] = Versions[1] /\ d[3] = Versions[2]
  OBVIOUS
<1>3. DOMAIN <<>> = {}
  OBVIOUS
<1> HIDE DEF d
<1> QED
  BY <1>1, <1>2, <1>3 DEF Shapes, d

\* The version indices in use, and the names they have.
LEMMA ShapeNames ==
  ASSUME NEW v \in Shapes, v # NoVersym
  PROVE  /\ v.versym = TRUE
         /\ \A n \in DOMAIN v.defs : n \in 1..3 /\ v.defs[n] \in Range(Versions) \cup {Base}
         /\ \A n \in DOMAIN v.needs : n \in 2..4 /\ v.needs[n] \in Range(Versions)
<1> DEFINE R == Range(Versions)
<1> HIDE DEF R
<1>1. CASE /\ v.versym = TRUE /\ DOMAIN v.defs = {1, 2, 3} /\ DOMAIN v.needs = {4}
           /\ \A n \in {1, 2, 3} : v.defs[n] \in R \cup {Base}
           /\ v.needs[4] \in R
  BY <1>1 DEF R
<1>2. CASE /\ v.versym = TRUE /\ DOMAIN v.defs = {} /\ DOMAIN v.needs = {2}
           /\ v.needs[2] \in R
  BY <1>2 DEF R
<1> QED
  BY <1>1, <1>2, ShapeFacts DEF R

\* What the symbols of one kind are.
LEMMA SymFacts ==
  ASSUME NEW st \in Kinds, NEW ndxs, \A n \in ndxs : n \in Nat,
         NEW hiddens, \A b \in hiddens : b \in BOOLEAN, NEW s \in Sym(st, ndxs, hiddens)
  PROVE  s \in Symbol /\ s.st = st /\ s.ndx \in ndxs
<1>1. s \in [name : Name, st : {st}, ndx : ndxs, hidden : hiddens]
  BY DEF Sym
<1> QED
  BY <1>1 DEF Symbol

\* Dynamic symbols are symbols with a stored version, or the two reserved
\* indices.
LEMMA DynSymFacts ==
  ASSUME NEW v \in Shapes, NEW s \in DynSyms(v)
  PROVE  /\ s \in Symbol
         /\ s.st \in {"def", "undef"}
         /\ v.versym => s.ndx \in {0, 1} \cup DOMAIN v.defs \cup DOMAIN v.needs
<1>1. v.versym \in BOOLEAN /\ DOMAIN v.defs \subseteq Nat /\ DOMAIN v.needs \subseteq Nat
  <2>1. DOMAIN <<>> = {}
    OBVIOUS
  <2>2. NoVersym.versym = FALSE /\ NoVersym.defs = <<>> /\ NoVersym.needs = <<>>
    BY DEF NoVersym
  <2>3. CASE v = NoVersym
    BY <2>1, <2>2, <2>3
  <2>4. CASE v # NoVersym
    <3>1. /\ v.versym = TRUE
          /\ \A n \in DOMAIN v.defs : n \in 1..3
          /\ \A n \in DOMAIN v.needs : n \in 2..4
      BY <2>4, ShapeNames, Zenon
    <3>2. DOMAIN v.defs \subseteq Nat /\ DOMAIN v.needs \subseteq Nat
      BY <3>1
    <3> QED
      BY <3>1, <3>2, Zenon
  <2> QED
    BY <2>3, <2>4
<1>k. /\ "def" \in Kinds /\ "undef" \in Kinds
      /\ \A b \in {FALSE} : b \in BOOLEAN
      /\ \A b \in {TRUE} : b \in BOOLEAN
      /\ \A n \in {0} : n \in Nat
      /\ \A n \in {1} \cup DOMAIN v.defs : n \in Nat
      /\ \A n \in DOMAIN v.defs \ {1} : n \in Nat
      /\ \A n \in {0} \cup DOMAIN v.needs : n \in Nat
  BY <1>1 DEF Kinds
<1>2. CASE v.versym
  <2>1. \/ s \in Sym("def", {1} \cup DOMAIN v.defs, {FALSE})
        \/ s \in Sym("def", DOMAIN v.defs \ {1}, {TRUE})
        \/ s \in Sym("undef", {0} \cup DOMAIN v.needs, {FALSE})
    BY <1>2 DEF DynSyms
  <2>2. CASE s \in Sym("def", {1} \cup DOMAIN v.defs, {FALSE})
    <3> DEFINE D == {1} \cup DOMAIN v.defs
    <3>1. s \in Sym("def", D, {FALSE}) /\ \A n \in D : n \in Nat
      BY <1>k, <2>2
    <3> HIDE DEF D
    <3>2. s \in Symbol /\ s.st = "def" /\ s.ndx \in D
      BY <1>k, <3>1, SymFacts, Zenon
    <3> QED
      BY <3>2 DEF D
  <2>3. CASE s \in Sym("def", DOMAIN v.defs \ {1}, {TRUE})
    <3> DEFINE D == DOMAIN v.defs \ {1}
    <3>1. s \in Sym("def", D, {TRUE}) /\ \A n \in D : n \in Nat
      BY <1>k, <2>3
    <3> HIDE DEF D
    <3>2. s \in Symbol /\ s.st = "def" /\ s.ndx \in D
      BY <1>k, <3>1, SymFacts, Zenon
    <3> QED
      BY <3>2 DEF D
  <2>4. CASE s \in Sym("undef", {0} \cup DOMAIN v.needs, {FALSE})
    <3>1. s \in Symbol /\ s.st = "undef" /\ s.ndx \in {0} \cup DOMAIN v.needs
      BY <1>k, <2>4, SymFacts
    <3> QED
      BY <3>1
  <2> QED
    BY <2>1, <2>2, <2>3, <2>4
<1>3. CASE ~v.versym
  <2>1. s \in Sym("def", {0}, {FALSE}) \/ s \in Sym("undef", {0}, {FALSE})
    BY <1>3 DEF DynSyms
  <2>2. CASE s \in Sym("def", {0}, {FALSE})
    <3>1. s \in Symbol /\ s.st = "def"
      BY <1>k, <2>2, SymFacts, Zenon
    <3> QED
      BY <1>3, <3>1
  <2>3. CASE s \in Sym("undef", {0}, {FALSE})
    <3>1. s \in Symbol /\ s.st = "undef"
      BY <1>k, <2>3, SymFacts, Zenon
    <3> QED
      BY <1>3, <3>1
  <2> QED
    BY <2>1, <2>2, <2>3
<1> QED
  BY <1>1, <1>2, <1>3

\* What is known of an image.
LEMMA FileFacts ==
  ASSUME NEW f \in AnyFile
  PROVE  /\ f.kind \in {"gnu", "elf", "custom"}
         /\ f.syms \in Seq(Symbol)
         /\ f.kind # "custom" => /\ f.nbucket \in Nat \ {0} /\ f.ver \in Shapes
                                 /\ \A i \in DOMAIN f.syms : f.syms[i] \in DynSyms(f.ver)
                                 /\ DynLegal(f.syms)
         /\ f.kind = "gnu" => GnuLegal(f.syms, f.nbucket)
         /\ f.kind = "custom" => f.ver = NoVersym
<1>1. PICK n \in Nat : f \in Files(n)
  BY DEF AnyFile
<1>2. ASSUME NEW S, NEW s \in SeqsUpTo(S, n)
      PROVE  s \in Seq(S) /\ \A i \in DOMAIN s : s[i] \in S
  <2>1. PICK k \in 0..n : s \in [1..k -> S]
    BY <1>2 DEF SeqsUpTo
  <2> QED
    BY <2>1
<1>3. ASSUME NEW v \in Shapes, NEW s \in DynSeqs(v, n)
      PROVE  /\ s \in Seq(Symbol) /\ DynLegal(s)
             /\ \A i \in DOMAIN s : s[i] \in DynSyms(v)
  <2>1. s \in SeqsUpTo(DynSyms(v), n) /\ DynLegal(s)
    BY <1>3 DEF DynSeqs
  <2>2. s \in Seq(DynSyms(v)) /\ \A i \in DOMAIN s : s[i] \in DynSyms(v)
    BY <1>2, <2>1
  <2>3. DynSyms(v) \subseteq Symbol
    BY DynSymFacts
  <2>4. s \in Seq(Symbol)
    BY <2>2, <2>3
  <2> QED
    BY <2>1, <2>2, <2>4
<1>4. CASE \E v \in Shapes, nb \in NBucket.gnu :
             \E s \in DynSeqs(v, n) : GnuLegal(s, nb) /\ f = from_dynamic("gnu", nb, v, s)
  BY <1>3, <1>4, ConstantsAssumption DEF from_dynamic
<1>5. CASE \E v \in Shapes, nb \in NBucket.elf :
             \E s \in DynSeqs(v, n) : f = from_dynamic("elf", nb, v, s)
  BY <1>3, <1>5, ConstantsAssumption DEF from_dynamic
<1>6. CASE \E s \in SeqsUpTo(ObjSyms, n) : ObjLegal(s) /\ f = from_shdrs(s)
  <2>1. PICK s \in SeqsUpTo(ObjSyms, n) : f = from_shdrs(s)
    BY <1>6
  <2>2. s \in Seq(ObjSyms)
    BY <1>2
  <2>3. ObjSyms \subseteq Symbol
    <3>1. ASSUME NEW x \in ObjSyms PROVE x \in Symbol
      <4>1. PICK st \in Kinds : x \in Sym(st, {0}, {FALSE})
        BY DEF ObjSyms, Kinds
      <4>2. (\A m \in {0} : m \in Nat) /\ (\A b \in {FALSE} : b \in BOOLEAN)
        OBVIOUS
      <4> QED
        BY <4>1, <4>2, SymFacts
    <3> QED
      BY <3>1
  <2>4. s \in Seq(Symbol)
    BY <2>2, <2>3
  <2> QED
    BY <2>1, <2>4 DEF from_shdrs
<1>7. \/ \E v \in Shapes, nb \in NBucket.gnu :
             f \in {from_dynamic("gnu", nb, v, s) : s \in {t \in DynSeqs(v, n) : GnuLegal(t, nb)}}
      \/ \E v \in Shapes, nb \in NBucket.elf :
             f \in {from_dynamic("elf", nb, v, s) : s \in DynSeqs(v, n)}
      \/ f \in {from_shdrs(s) : s \in {t \in SeqsUpTo(ObjSyms, n) : ObjLegal(t)}}
  <2> DEFINE G == UNION {{from_dynamic("gnu", nb, v, s) : s \in {t \in DynSeqs(v, n) : GnuLegal(t, nb)}}
                         : v \in Shapes, nb \in NBucket.gnu}
             E == UNION {{from_dynamic("elf", nb, v, s) : s \in DynSeqs(v, n)}
                         : v \in Shapes, nb \in NBucket.elf}
             C == {from_shdrs(s) : s \in {t \in SeqsUpTo(ObjSyms, n) : ObjLegal(t)}}
  <2>1. f \in G => \E v \in Shapes, nb \in NBucket.gnu :
             f \in {from_dynamic("gnu", nb, v, s) : s \in {t \in DynSeqs(v, n) : GnuLegal(t, nb)}}
    OBVIOUS
  <2>2. f \in E => \E v \in Shapes, nb \in NBucket.elf :
             f \in {from_dynamic("elf", nb, v, s) : s \in DynSeqs(v, n)}
    OBVIOUS
  <2>3. Files(n) = G \cup E \cup C
    BY DEF Files
  <2> HIDE DEF G, E, C
  <2>4. f \in G \/ f \in E \/ f \in C
    BY <1>1, <2>3
  <2> QED
    BY <2>1, <2>2, <2>4, Zenon DEF C
<1> QED
  BY <1>4, <1>5, <1>6, <1>7

\* The versions of symbols past the reserved indices are stored.
LEMMA SlotKnown ==
  ASSUME NEW f \in AnyFile, NEW i \in DOMAIN f.syms, f.ver.versym, index(f, i) > 1
  PROVE  Slot(f, i) \in Range(Versions) \cup {Base}
<1> DEFINE v == f.ver
           n == f.syms[i].ndx
<1>1. NoVersym.versym = FALSE
  BY DEF NoVersym
<1>2. f.kind # "custom"
  BY <1>1, FileFacts
<1>3. v \in Shapes /\ f.syms[i] \in DynSyms(v) /\ v # NoVersym
  BY <1>1, <1>2, FileFacts
<1>4. n \in {0, 1} \cup DOMAIN v.defs \cup DOMAIN v.needs /\ n \in Nat /\ n > 1
  BY <1>3, DynSymFacts DEF Symbol, index
<1> DEFINE S == VerDefIterator(v) \cup VerNeedIterator(v)
<1>5. Slot(f, i) = ELFVersion_new(v)[n]
  BY DEF Slot, index
<1> HIDE DEF v, n
<1>6. S \in SUBSET (0..4) /\ n \in S
  <2>1. /\ \A x \in DOMAIN v.defs : x \in 1..3
        /\ \A x \in DOMAIN v.needs : x \in 2..4
    BY <1>3, ShapeNames, Zenon
  <2>2. /\ \A x \in DOMAIN v.defs : x \in 0..4
        /\ \A x \in DOMAIN v.needs : x \in 0..4
    BY <2>1
  <2> QED
    BY <1>4, <2>2 DEF VerDefIterator, VerNeedIterator
<1>7. Greatest(S) \in S /\ n <= Greatest(S)
  <2>1. 4 \in Nat /\ S # {}
    BY <1>6
  <2> HIDE DEF S
  <2> QED
    BY <1>6, <2>1, GreatestFacts
<1>8. n \in 0..Greatest(S)
  BY <1>4, <1>6, <1>7
<1>9. ELFVersion_new(v)[n] = IF n \in VerNeedIterator(v) THEN v.needs[n]
                             ELSE IF n \in VerDefIterator(v) THEN v.defs[n] ELSE Uninit
  BY <1>8 DEF ELFVersion_new
<1>10. CASE n \in DOMAIN v.needs
  <2>1. v.needs[n] \in Range(Versions)
    BY <1>3, <1>10, ShapeNames, Zenon
  <2> QED
    BY <1>5, <1>9, <1>10, <2>1 DEF VerNeedIterator
<1>11. CASE n \notin DOMAIN v.needs
  <2>1. n \in DOMAIN v.defs /\ Slot(f, i) = v.defs[n]
    BY <1>4, <1>5, <1>9, <1>11 DEF VerNeedIterator, VerDefIterator
  <2> QED
    BY <1>3, <2>1, ShapeNames, Zenon
<1> QED
  BY <1>10, <1>11

\* A stored version is not one left uninitialised.
LEMMA StoredIsNamed == Uninit \notin Range(Versions) \cup {Base}
BY ConstantsAssumption

\* The requirement of a symbol of an image carries a stored version.
LEMMA RequirementKnown ==
  ASSUME NEW f \in AnyFile, NEW i \in DOMAIN f.syms
  PROVE  Known(get_requirement(f, i))
<1>1. CASE ~f.ver.versym \/ index(f, i) <= 1
  BY <1>1 DEF get_requirement, Known
<1>2. CASE ~(~f.ver.versym \/ index(f, i) <= 1)
  <2>1. index(f, i) \in Nat
    <3>1. f.syms[i] \in Symbol
      BY FileFacts
    <3> QED
      BY <3>1 DEF index, Symbol
  <2>2. Slot(f, i) # Uninit
    BY <1>2, <2>1, SlotKnown, StoredIsNamed
  <2>3. get_requirement(f, i) =
          [name |-> Slot(f, i), hash |-> StoredHash[Slot(f, i)], hidden |-> is_hidden(f, i)]
    BY <1>2 DEF get_requirement, Slot
  <2> QED
    BY <2>2, <2>3 DEF Known
<1> QED
  BY <1>1, <1>2

\* The version get_version asks for is known if the hashes agree.
LEMMA VersionKnown ==
  ASSUME VersionHashesAgree, NEW ver \in Range(Versions)
  PROVE  Known(SymbolVersion_new(ver))
<1>1. SymbolVersion_new(ver).name = ver /\ SymbolVersion_new(ver).hash = DlElfHash(ver)
  BY DEF SymbolVersion_new, VersionHash
<1>2. DlElfHash(ver) = ElfHash(ver)
  BY DEF VersionHashesAgree
<1>3. StoredHash[ver] = ElfHash(ver)
  BY DEF StoredHash
<1>4. ver # Uninit
  BY StoredIsNamed
<1> QED
  BY <1>1, <1>2, <1>3, <1>4 DEF Known

-----------------------------------------------------------------------------
(* Buckets and chains *)

\* The hashes of names are hashes.
LEMMA HashFacts ==
  ASSUME NEW n \in Name
  PROVE  HashOf[n].gnu \in Nat \X Nat /\ HashOf[n].elf \in Nat \X Nat
BY ConstantsAssumption DEF HashOf

\* Symbols and their bucket.
LEMMA BucketFacts ==
  ASSUME NEW f \in AnyFile, f.kind # "custom", NEW i \in DOMAIN f.syms
  PROVE  /\ Len(f.syms) \in Nat /\ DOMAIN f.syms = 1..Len(f.syms) /\ i \in Nat \ {0}
         /\ f.nbucket \in Nat \ {0}
         /\ SymHash(f, i) \in Nat \X Nat
         /\ Mod(SymHash(f, i), f.nbucket) \in 0..(f.nbucket - 1)
<1>1. f.syms \in Seq(Symbol) /\ f.nbucket \in Nat \ {0}
  BY FileFacts
<1>2. Len(f.syms) \in Nat /\ DOMAIN f.syms = 1..Len(f.syms) /\ f.syms[i] \in Symbol
  BY <1>1
<1>3. f.syms[i].name \in Name
  BY <1>2 DEF Symbol
<1>4. SymHash(f, i) \in Nat \X Nat
  BY <1>3, HashFacts DEF SymHash
<1> QED
  BY <1>1, <1>2, <1>4, ModRange

\* The symbols of a bucket are symbols of the image.
LEMMA BucketOf ==
  ASSUME NEW f \in AnyFile, NEW b
  PROVE  /\ InBucket(f, b) \subseteq Hashed(f) /\ Hashed(f) \subseteq DOMAIN f.syms
         /\ DOMAIN f.syms \subseteq Nat \ {0}
         /\ Len(f.syms) \in Nat /\ DOMAIN f.syms = 1..Len(f.syms)
<1>1. f.syms \in Seq(Symbol)
  BY FileFacts
<1>2. Len(f.syms) \in Nat /\ DOMAIN f.syms = 1..Len(f.syms)
  BY <1>1
<1> QED
  BY <1>2 DEF InBucket, Hashed

\* The head of a bucket.
LEMMA HeadFacts ==
  ASSUME NEW f \in AnyFile, NEW b
  PROVE  /\ InBucket(f, b) = {} => Bucket(f, b) = 0
         /\ InBucket(f, b) # {} => /\ Bucket(f, b) \in InBucket(f, b)
                                   /\ \A j \in InBucket(f, b) : Bucket(f, b) <= j
<1>1. InBucket(f, b) \in SUBSET (Nat \ {0})
  BY BucketOf
<1> QED
  BY <1>1, LeastFacts DEF Bucket

\* The rest of a chain is the rest of the bucket.
LEMMA AfterFacts ==
  ASSUME NEW f, NEW b, NEW i \in InBucket(f, b)
  PROVE  After(f, i) = {j \in InBucket(f, b) : i < j}
BY DEF After, InBucket

\* DT_HASH: a chain word is the next symbol of the bucket, or 0.
LEMMA ElfNextFacts ==
  ASSUME NEW f \in AnyFile, NEW b, NEW i \in InBucket(f, b)
  PROVE  \/ ElfChain(f, i) = 0 /\ \A j \in InBucket(f, b) : j <= i
         \/ /\ ElfChain(f, i) \in InBucket(f, b) /\ i < ElfChain(f, i)
            /\ \A j \in InBucket(f, b) : j < ElfChain(f, i) => j <= i
<1>1. InBucket(f, b) \in SUBSET (Nat \ {0}) /\ i \in Nat
  BY BucketOf
<1> DEFINE S == {j \in InBucket(f, b) : i < j}
<1>2. ElfChain(f, i) = Least(S)
  BY AfterFacts DEF ElfChain
<1>3. S \in SUBSET (Nat \ {0})
  BY <1>1
<1>4. /\ S = {} => Least(S) = 0
      /\ S # {} => Least(S) \in S /\ \A j \in S : Least(S) <= j
  <2> HIDE DEF S
  <2> QED
    BY <1>3, LeastFacts
<1>5. CASE S = {}
  <2>1. \A j \in InBucket(f, b) : j <= i
    BY <1>1, <1>5
  <2> QED
    BY <1>2, <1>4, <1>5, <2>1
<1>6. CASE S # {}
  <2> DEFINE m == Least(S)
  <2>1. m \in S /\ \A j \in S : m <= j
    BY <1>4, <1>6
  <2>2. ElfChain(f, i) = m
    BY <1>2
  <2> HIDE DEF m
  <2>3. \A j \in InBucket(f, b) : j < m => j <= i
    BY <1>1, <2>1
  <2> QED
    BY <2>1, <2>2, <2>3
<1> QED
  BY <1>5, <1>6

\* DT_GNU_HASH keeps the symbols of a bucket together: the symbol after one
\* that does not end its chain is in the same bucket.
LEMMA GnuNextFacts ==
  ASSUME NEW f \in AnyFile, f.kind = "gnu", NEW b, NEW i \in InBucket(f, b),
         ~ChainEnds(f, i)
  PROVE  i + 1 \in InBucket(f, b)
<1>1. PICK j \in InBucket(f, b) : i < j
  BY AfterFacts DEF ChainEnds
<1>2. /\ i \in DOMAIN f.syms /\ j \in DOMAIN f.syms
      /\ f.syms[i].st = "def" /\ f.syms[j].st = "def"
      /\ Mod(SymHash(f, i), f.nbucket) = b /\ Mod(SymHash(f, j), f.nbucket) = b
  BY DEF InBucket, Hashed
<1>3. i + 1 \in DOMAIN f.syms /\ i < i + 1 /\ (i + 1 = j \/ i + 1 < j)
  BY <1>1, <1>2, BucketOf
<1>4. CASE i + 1 = j
  BY <1>4
<1>5. CASE i + 1 < j
  <2>1. GnuLegal(f.syms, f.nbucket)
    BY FileFacts
  <2>2. /\ f.syms[i + 1].st = "def"
        /\ Mod(SymHash(f, i), f.nbucket) <= Mod(SymHash(f, i + 1), f.nbucket)
        /\ Mod(SymHash(f, i + 1), f.nbucket) <= Mod(SymHash(f, j), f.nbucket)
    BY <1>2, <1>3, <1>5, <2>1 DEF GnuLegal, SymHash
  <2> DEFINE c == Mod(SymHash(f, i + 1), f.nbucket)
  <2>3. c \in Nat /\ b \in Nat
    BY <1>2, <1>3, BucketFacts
  <2>4. b <= c /\ c <= b
    BY <1>2, <2>2
  <2> HIDE DEF c
  <2>5. c = b
    BY <2>3, <2>4
  <2> QED
    BY <1>3, <2>2, <2>5 DEF InBucket, Hashed, c
<1> QED
  BY <1>3, <1>4, <1>5

\* ElfGnuHash::count_syms is past every symbol of the table: the greatest
\* head is in the last bucket in use, and its chain runs to the last symbol.
LEMMA GnuCountReaches ==
  ASSUME NEW f \in AnyFile, f.kind = "gnu", NEW i \in Hashed(f)
  PROVE  i < gnu_count_syms(f)
<1> DEFINE n == Len(f.syms)
           B(j) == Mod(SymHash(f, j), f.nbucket)
           Heads == {Bucket(f, b) : b \in 0..(f.nbucket - 1)}
           top == Greatest(Heads)
<1>1. n \in Nat /\ DOMAIN f.syms = 1..n /\ Hashed(f) \subseteq 1..n /\ i \in 1..n
  BY BucketOf
<1>2. \A j \in 1..n : B(j) \in 0..(f.nbucket - 1)
  BY <1>1, BucketFacts
<1>3. \A j \in Hashed(f) : j \in InBucket(f, B(j))
  BY DEF InBucket
<1>4. \A b : Bucket(f, b) \in 0..n /\ \A j \in InBucket(f, b) : Bucket(f, b) \in 1..j
  <2> SUFFICES ASSUME NEW b
               PROVE  Bucket(f, b) \in 0..n /\ \A j \in InBucket(f, b) : Bucket(f, b) \in 1..j
    OBVIOUS
  <2>1. InBucket(f, b) \subseteq 1..n
    BY <1>1, BucketOf
  <2>2. CASE InBucket(f, b) = {}
    BY <1>1, <2>2, HeadFacts
  <2>3. CASE InBucket(f, b) # {}
    BY <1>1, <2>1, <2>3, HeadFacts
  <2> QED
    BY <2>2, <2>3
<1>5. Bucket(f, B(i)) \in Heads /\ Bucket(f, B(i)) \in InBucket(f, B(i))
  <2>1. B(i) \in 0..(f.nbucket - 1)
    BY <1>1, <1>2
  <2>2. Bucket(f, B(i)) \in Heads
    BY <2>1
  <2>3. InBucket(f, B(i)) # {}
    BY <1>3
  <2> QED
    BY <2>2, <2>3, HeadFacts
<1>6. top \in Heads /\ \A j \in Heads : j <= top
  <2>1. Heads \in SUBSET (0..n) /\ Heads # {}
    BY <1>4, <1>5
  <2> HIDE DEF Heads, n
  <2> QED
    BY <1>1, <2>1, GreatestFacts
<1>7. top \in 1..n /\ Bucket(f, B(i)) <= top
  <2>1. Bucket(f, B(i)) \in 1..i
    BY <1>3, <1>4
  <2>2. top \in 0..n
    BY <1>4, <1>6
  <2>3. Bucket(f, B(i)) <= top
    BY <1>5, <1>6
  <2> HIDE DEF top, n
  <2> QED
    BY <1>1, <2>1, <2>2, <2>3
<1>8. PICK c \in 0..(f.nbucket - 1) : top = Bucket(f, c)
  BY <1>6
<1>9. top \in InBucket(f, c) /\ top \in Hashed(f) /\ B(top) = c
  <2>1. InBucket(f, c) # {}
    BY <1>7, <1>8, HeadFacts
  <2>2. top \in InBucket(f, c)
    BY <1>8, <2>1, HeadFacts
  <2> QED
    BY <2>2 DEF InBucket
<1> DEFINE T == {top} \cup IF top = 0 THEN {} ELSE After(f, top)
<1>10. gnu_count_syms(f) = 1 + Greatest(T)
  BY DEF gnu_count_syms
<1>11. T \in SUBSET (0..n) /\ T # {}
  <2>1. After(f, top) \subseteq 1..n
    BY <1>1, BucketOf DEF After, InBucket
  <2> HIDE DEF top
  <2> QED
    BY <1>1, <1>7, <2>1
<1>12. Greatest(T) \in 0..n /\ \A j \in T : j <= Greatest(T)
  <2> HIDE DEF T, n
  <2> QED
    BY <1>1, <1>11, GreatestFacts
<1>13. \E j \in T : i <= j
  <2>1. CASE i <= top
    BY <2>1
  <2>2. CASE ~(i <= top)
    <3>0. top < i
      BY <1>1, <1>7, <2>2
    <3>1. GnuLegal(f.syms, f.nbucket)
      BY FileFacts
    <3> DEFINE h == Bucket(f, B(i))
    <3>2. h \in Hashed(f) /\ B(h) = B(i) /\ h \in 1..n
      BY <1>1, <1>5 DEF InBucket
    <3> HIDE DEF h, top
    <3>3. ASSUME NEW j \in Hashed(f), NEW k \in Hashed(f), j < k
          PROVE  B(j) <= B(k)
      BY <1>1, <3>1, <3>3 DEF GnuLegal, SymHash, Hashed
    <3>4. B(top) <= B(i)
      BY <1>9, <3>0, <3>3
    <3>5. B(i) <= B(top)
      <4>1. CASE h = top
        BY <1>2, <1>7, <3>2, <4>1
      <4>2. CASE h # top
        <5>1. h < top
          BY <1>7, <3>2, <4>2 DEF h
        <5> QED
          BY <1>9, <3>2, <3>3, <5>1
      <4> QED
        BY <4>1, <4>2
    <3>6. B(top) = B(i)
      <4>1. B(top) \in Nat /\ B(i) \in Nat
        BY <1>1, <1>2, <1>7
      <4> HIDE DEF B
      <4> QED
        BY <3>4, <3>5, <4>1
    <3>7. i \in After(f, top)
      BY <1>3, <3>0, <3>6 DEF After
    <3>8. i \in T
      BY <1>7, <3>7
    <3> QED
      BY <1>1, <3>8
  <2> QED
    BY <2>1, <2>2
<1> HIDE DEF T
<1> QED
  BY <1>1, <1>10, <1>11, <1>12, <1>13

\* No symbol of a hash table is at or past the number of symbols.
LEMMA CountReachesHashed ==
  ASSUME NEW f \in AnyFile, f.kind # "custom", NEW i \in Hashed(f)
  PROVE  i < count_syms(f)
<1>1. CASE f.kind = "gnu"
  BY <1>1, GnuCountReaches DEF count_syms
<1>2. CASE f.kind = "elf"
  <2>1. i \in 1..Len(f.syms) /\ Len(f.syms) \in Nat
    BY BucketOf
  <2> QED
    BY <1>2, <2>1 DEF count_syms, elf_count_syms
<1> QED
  BY <1>1, <1>2, FileFacts

-----------------------------------------------------------------------------
(* Answers *)

\* The symbols of the requested name are in its bucket.
LEMMA NamedWanted ==
  ASSUME NEW f \in AnyFile, f.kind # "custom", NEW i \in Named(f),
         f.kind = "gnu" => f.syms[i].st = "def"
  PROVE  i \in Wanted(f)
<1>1. i \in Hashed(f) /\ f.syms[i].name = req.name
  BY DEF Named, Hashed
<1> QED
  BY <1>1 DEF Wanted, InBucket, SymHash

\* What check_match accepts may answer the request.
LEMMA MatchAnswers ==
  ASSUME NEW f \in AnyFile, NEW i \in Named(f), f.syms[i].st = "def",
         "match" \in check_match(f, i, req.ver)
  PROVE  i \in Possible(f)
<1>1. CASE req.ver = NoVersion
  BY <1>1 DEF Possible
<1>2. CASE req.ver # NoVersion
  <2>1. f.ver.versym
    BY <1>2 DEF check_match
  <2> DEFINE same == IF Slot(f, i) = Uninit THEN BOOLEAN
                     ELSE {StoredHash[Slot(f, i)] = req.ver.hash /\ Slot(f, i) = req.ver.name}
  <2>2. PICK s \in same : s \/ (~req.ver.hidden /\ ~is_hidden(f, i))
    <3>1. "match" \in {IF s \/ (~req.ver.hidden /\ ~is_hidden(f, i))
                       THEN "match" ELSE "differ" : s \in same}
      BY <1>2, <2>1 DEF check_match, Slot
    <3> HIDE DEF same
    <3> QED
      BY <3>1
  <2>3. CASE s
    <3>1. Slot(f, i) \in {req.ver.name, Uninit}
      BY <2>2, <2>3
    <3> QED
      BY <2>1, <3>1 DEF Possible
  <2>4. CASE ~req.ver.hidden /\ ~is_hidden(f, i)
    BY <2>1, <2>4 DEF Possible, is_hidden
  <2> QED
    BY <2>2, <2>3, <2>4
<1> QED
  BY <1>1, <1>2

\* What check_match rejects is not a certain answer: the walk may go on.
LEMMA DifferIsNotSure ==
  ASSUME NEW f \in AnyFile, NEW i \in DOMAIN f.syms, Known(req.ver),
         "differ" \in check_match(f, i, req.ver)
  PROVE  i \notin Sure(f)
<1>1. req.ver # NoVersion
  BY DEF check_match
<1>2. req.ver.name # Uninit /\ req.ver.hash = StoredHash[req.ver.name]
  BY <1>1 DEF Known
<1>3. f.ver.versym
  BY <1>1 DEF check_match
<1> DEFINE same == IF Slot(f, i) = Uninit THEN BOOLEAN
                   ELSE {StoredHash[Slot(f, i)] = req.ver.hash /\ Slot(f, i) = req.ver.name}
<1>4. PICK s \in same : ~(s \/ (~req.ver.hidden /\ ~is_hidden(f, i)))
  <2>1. "differ" \in {IF s \/ (~req.ver.hidden /\ ~is_hidden(f, i))
                      THEN "match" ELSE "differ" : s \in same}
    BY <1>1, <1>3 DEF check_match, Slot
  <2> HIDE DEF same
  <2> QED
    BY <2>1
<1>5. Slot(f, i) # req.ver.name
  BY <1>2, <1>4
<1>6. ~(~req.ver.hidden /\ ~f.syms[i].hidden)
  BY <1>4 DEF is_hidden
<1> QED
  BY <1>1, <1>3, <1>5, <1>6 DEF Sure, Answers, Panics

\* A dynamic image stops the search if one of its symbols is sure.
LEMMA StopsIsSure ==
  ASSUME NEW f, f.kind # "custom"
  PROVE  Stops(f) <=> Sure(f) # {}
<1>1. Certain(f) <=> Answers(f) # {}
  BY DEF Certain, Answers
<1>2. Panics(f) => Named(f) \cap Hashed(f) # {}
  BY DEF Panics
<1> QED
  BY <1>1, <1>2 DEF Stops, Sure

\* Sure symbols are of the name, and in the bucket of the name.
LEMMA SureWanted ==
  ASSUME NEW f \in AnyFile, f.kind # "custom", NEW i \in Sure(f)
  PROVE  i \in Wanted(f) /\ i \in Named(f)
<1>1. i \in Named(f) /\ (f.kind = "gnu" => f.syms[i].st = "def")
  <2>1. CASE i \in Answers(f)
    BY <2>1 DEF Answers, Possible
  <2>2. CASE i \in Named(f) \cap Hashed(f)
    BY <2>2 DEF Hashed
  <2> QED
    BY <2>1, <2>2 DEF Sure
<1> QED
  BY <1>1, NamedWanted

\* An undefined symbol of the name is the only one: lookup_filter may stop.
LEMMA UndefinedAlone ==
  ASSUME NEW f \in AnyFile, f.kind # "custom", NEW i \in Named(f), f.syms[i].st # "def",
         ~Panics(f)
  PROVE  Sure(f) = {}
<1> SUFFICES ASSUME NEW j \in Sure(f) PROVE FALSE
  OBVIOUS
<1>1. j \in Named(f) /\ f.syms[j].st = "def"
  BY DEF Sure, Answers, Possible
<1>2. i \in DOMAIN f.syms /\ j \in DOMAIN f.syms /\ f.syms[i].name = f.syms[j].name
  BY <1>1 DEF Named
<1>3. i \in Nat /\ j \in Nat /\ i # j
  BY <1>1, <1>2, BucketOf
<1>4. DynLegal(f.syms)
  BY FileFacts
<1>5. CASE i < j
  BY <1>2, <1>4, <1>5 DEF DynLegal
<1>6. CASE j < i
  BY <1>2, <1>4, <1>6 DEF DynLegal
<1> QED
  BY <1>3, <1>5, <1>6

-----------------------------------------------------------------------------
(* The steps *)

\* No request has been made in the initial state.
LEMMA InitInv == Init => IInv
<1> SUFFICES ASSUME Init PROVE IInv
  OBVIOUS
<1>1. PICK k \in DOMAIN MaxSyms : scope \in [1..k -> Files(MaxSyms[k])]
  BY DEF Init
<1>2. k \in Nat /\ MaxSyms[k] \in Nat
  BY ConstantsAssumption
<1>3. Files(MaxSyms[k]) \subseteq AnyFile
  BY <1>2 DEF AnyFile
<1>4. Images
  <2> DEFINE F == Files(MaxSyms[k])
  <2>1. scope \in [1..k -> F] /\ F \subseteq AnyFile
    BY <1>1, <1>3
  <2> HIDE DEF F
  <2> QED
    BY <1>2, <2>1 DEF Images
<1>5. pc = "idle"
  BY DEF Init
<1> QED
  BY <1>4, <1>5 DEF IInv, Asked, Walk, Answer, Missed, Busy, FoundFirst

\* The images searched are images of the scope.
LEMMA CurFacts ==
  ASSUME Images, Asked, pc # "idle"
  PROVE  /\ Cur \in AnyFile /\ lib \in Nat \ {0} /\ lib \in DOMAIN scope
         /\ first \in Nat \ {0} /\ last \in Nat /\ first <= lib /\ lib <= last
         /\ \A l \in first..lib : l \in DOMAIN scope /\ scope[l] \in AnyFile
<1>1. Len(scope) \in Nat /\ DOMAIN scope = 1..Len(scope) /\ \A l \in DOMAIN scope : scope[l] \in AnyFile
  BY DEF Images
<1>2. first \in Nat \ {0} /\ last \in 1..Len(scope) /\ lib \in first..last
  BY DEF Asked
<1> QED
  BY <1>1, <1>2 DEF Cur

\* What is searched for does not change during a lookup.
LEMMA SameRequest ==
  ASSUME UNCHANGED <<scope, req>>
  PROVE  /\ \A l : Stops(scope[l])' <=> Stops(scope[l])
         /\ \A l : Panics(scope[l])' <=> Panics(scope[l])
         /\ \A l : Possible(scope[l])' = Possible(scope[l])
         /\ \A l : Sure(scope[l])' = Sure(scope[l])
         /\ \A l : Wanted(scope[l])' = Wanted(scope[l])
<1>1. \A l : Named(scope[l])' = Named(scope[l])
  BY DEF Named
<1>2. \A l : Possible(scope[l])' = Possible(scope[l])
  BY <1>1 DEF Possible
<1>3. \A l : Panics(scope[l])' <=> Panics(scope[l])
  BY <1>1 DEF Panics
<1>4. \A l : Sure(scope[l])' = Sure(scope[l])
  <2>1. \A l : Answers(scope[l])' = Answers(scope[l])
    BY <1>2 DEF Answers
  <2> QED
    BY <1>1, <1>3, <2>1 DEF Sure
<1>5. \A l : Certain(scope[l])' <=> Certain(scope[l])
  BY <1>1, <1>2 DEF Certain
<1>6. \A l : Stops(scope[l])' <=> Stops(scope[l])
  BY <1>3, <1>5 DEF Stops
<1>7. \A l : Wanted(scope[l])' = Wanted(scope[l])
  BY DEF Wanted
<1> QED
  BY <1>2, <1>3, <1>4, <1>6, <1>7

\* None from an image: the search goes on, or ends with None.
LEMMA MissStep ==
  ASSUME IInv, pc \in Busy, Miss, Cached', VersionHashesAgree => ~Stops(Cur)
  PROVE  IInv'
<1>0. Images /\ Asked /\ Walk /\ Missed /\ pc # "idle"
  BY DEF IInv, Busy
<1>1. /\ UNCHANGED <<scope, req, first, last, result>>
      /\ \/ lib = last /\ pc' = "done" /\ lib' = lib
         \/ lib # last /\ pc' = "lookup" /\ lib' = lib + 1
  BY DEF Miss
<1>2. result' = None
  BY <1>0, <1>1 DEF Walk
<1>3. Images'
  BY <1>0, <1>1 DEF Images
<1>4. Asked'
  BY <1>0, <1>1, CurFacts DEF Asked
<1>5. Walk' /\ Answer'
  BY <1>1, <1>2 DEF Walk, Answer
<1>6. ASSUME VersionHashesAgree PROVE \A l \in first..lib : ~Stops(scope[l])'
  <2>1. \A l \in first..(lib - 1) : ~Stops(scope[l])
    BY <1>0, <1>6 DEF Missed
  <2>2. ~Stops(scope[lib])
    BY <1>6 DEF Cur
  <2>3. \A l \in first..lib : l \in first..(lib - 1) \/ l = lib
    BY <1>0, CurFacts
  <2>4. \A l \in first..lib : ~Stops(scope[l])
    BY <2>1, <2>2, <2>3, Zenon
  <2> QED
    BY <1>1, <2>4, SameRequest, Zenon
<1>7. Missed'
  <2> SUFFICES ASSUME VersionHashesAgree
               PROVE  /\ Known(req.ver)'
                      /\ pc' = "lookup" => \A l \in first'..(lib' - 1) : ~Stops(scope[l])'
                      /\ FoundFirst'
    BY <1>1 DEF Missed, Busy
  <2>1. Known(req.ver)'
    BY <1>0, <1>1 DEF Missed, Known
  <2>2. CASE lib = last /\ pc' = "done" /\ lib' = lib
    <3>1. \A l \in first'..lib' : ~Stops(scope[l])'
      BY <1>1, <1>6, <2>2
    <3> QED
      BY <1>2, <2>1, <2>2, <3>1 DEF FoundFirst
  <2>3. CASE lib # last /\ pc' = "lookup" /\ lib' = lib + 1
    <3>1. lib' - 1 = lib
      BY <1>0, <2>3, CurFacts
    <3>2. \A l \in first'..(lib' - 1) : ~Stops(scope[l])'
      BY <1>1, <1>6, <3>1
    <3> QED
      BY <2>1, <2>3, <3>2 DEF FoundFirst
  <2> QED
    BY <1>1, <2>2, <2>3
<1> QED
  BY <1>3, <1>4, <1>5, <1>7 DEF IInv

\* lookup_filter accepts an answer: the lookup ends with it.
LEMMA FoundStep ==
  ASSUME IInv, pc \in Busy, NEW i \in Possible(Cur), lookup_filter(i), Cached'
  PROVE  IInv'
<1>0. Images /\ Asked /\ Missed /\ pc # "idle"
  BY DEF IInv, Busy
<1>1. Cur.syms[i].st = "def"
  BY DEF Possible
<1>2. pc' = "done" /\ result' = <<lib, i>> /\ UNCHANGED <<scope, req, lib, first, last>>
  BY <1>1 DEF lookup_filter
<1>3. Images' /\ Asked'
  BY <1>0, <1>2 DEF Images, Asked
<1>4. Walk'
  BY <1>2 DEF Walk, Busy
<1>5. i \in Possible(scope[lib])'
  BY <1>2, SameRequest DEF Cur
<1>6. Answer'
  BY <1>2, <1>5 DEF Answer, Cur
<1>7. Missed'
  <2> SUFFICES ASSUME VersionHashesAgree PROVE Known(req.ver)' /\ FoundFirst'
    BY <1>2 DEF Missed, Busy
  <2>1. Known(req.ver)'
    BY <1>0, <1>2 DEF Missed, Known
  <2>2. \A l \in first..(lib - 1) : ~Stops(scope[l])
    BY <1>0 DEF Missed
  <2>3. \A l \in first'..(lib' - 1) : ~Stops(scope[l])'
    BY <1>2, <2>2, SameRequest
  <2>4. result' # None /\ result'[1] = lib' /\ result'[2] = i
    <3>1. <<lib, i>> # <<>>
      <4>1. 1 \in DOMAIN <<lib, i>> /\ 1 \notin DOMAIN <<>>
        OBVIOUS
      <4> QED
        BY <4>1
    <3>2. <<lib, i>>[1] = lib /\ <<lib, i>>[2] = i
      OBVIOUS
    <3> QED
      BY <1>2, <3>1, <3>2 DEF None
  <2>5. FoundFirst'
    BY <1>2, <1>5, <2>3, <2>4 DEF FoundFirst
  <2> QED
    BY <2>1, <2>5
<1> QED
  BY <1>3, <1>4, <1>6, <1>7 DEF IInv

\* A walk goes to symbol i, or to the end of the chain.
LEMMA AtStep ==
  ASSUME IInv, pc \in Busy, NEW i, At(i), Cached',
         \/ Cur.kind = "gnu" /\ i \in Wanted(Cur)
         \/ Cur.kind = "elf" /\ i \in {0} \cup Wanted(Cur),
         VersionHashesAgree => \A j \in Wanted(Cur) : (i = 0 \/ j < i) => j \notin Sure(Cur)
  PROVE  IInv'
<1>0. Images /\ Asked /\ Walk /\ Missed /\ pc # "idle"
  BY DEF IInv, Busy
<1>1. pc' = "chain" /\ idx' = i /\ UNCHANGED <<scope, req, lib, first, last, result>>
  BY DEF At
<1>2. Images' /\ Asked'
  BY <1>0, <1>1 DEF Images, Asked
<1>3. Cur' = Cur /\ Wanted(Cur)' = Wanted(Cur) /\ Sure(Cur)' = Sure(Cur)
  BY <1>1, SameRequest DEF Cur
<1>4. Walk' /\ Answer'
  BY <1>0, <1>1, <1>3 DEF Walk, Answer
<1>5. Missed'
  <2> SUFFICES ASSUME VersionHashesAgree
               PROVE  /\ Known(req.ver)'
                      /\ \A l \in first'..(lib' - 1) : ~Stops(scope[l])'
                      /\ \A j \in Wanted(Cur)' : (idx' = 0 \/ j < idx') => j \notin Sure(Cur)'
    BY <1>1 DEF Missed, Busy, FoundFirst
  <2>1. Known(req.ver)'
    BY <1>0, <1>1 DEF Missed, Known
  <2>2. \A l \in first..(lib - 1) : ~Stops(scope[l])
    BY <1>0 DEF Missed
  <2>3. \A l \in first'..(lib' - 1) : ~Stops(scope[l])'
    BY <1>1, <2>2, SameRequest
  <2> QED
    BY <1>1, <1>3, <2>1, <2>3
<1> QED
  BY <1>2, <1>4, <1>5 DEF IInv

\* check_match finds no version table.
LEMMA PanicStep ==
  ASSUME IInv, pc \in Busy, Panic, UNCHANGED pre, Cur.kind # "custom", idx \in Hashed(Cur),
         Cur.syms[idx].name = req.name, "panic" \in check_match(Cur, idx, req.ver)
  PROVE  IInv'
<1>0. Images /\ Asked /\ Missed /\ pc # "idle"
  BY DEF IInv, Busy
<1>1. pc' = "panicked" /\ UNCHANGED <<scope, req, lib, first, last>>
  BY DEF Panic
<1>2. Images' /\ Asked'
  BY <1>0, <1>1 DEF Images, Asked, Cached
<1>3. Walk' /\ Answer'
  BY <1>1 DEF Walk, Answer, Busy
<1>4. Panics(Cur)
  <2>1. idx \in Named(Cur) \cap Hashed(Cur)
    BY DEF Named, Hashed
  <2>2. req.ver # NoVersion
    BY DEF check_match
  <2>3. ~Cur.ver.versym
    <3> SUFFICES ASSUME Cur.ver.versym PROVE FALSE
      OBVIOUS
    <3> DEFINE ver == ELFVersion_new(Cur.ver)[index(Cur, idx)]
               same == IF ver = Uninit THEN BOOLEAN
                       ELSE {StoredHash[ver] = req.ver.hash /\ ver = req.ver.name}
    <3>1. "panic" \in {IF s \/ (~req.ver.hidden /\ ~is_hidden(Cur, idx))
                       THEN "match" ELSE "differ" : s \in same}
      BY <2>2 DEF check_match
    <3> HIDE DEF same
    <3> QED
      BY <3>1
  <2> QED
    BY <2>1, <2>2, <2>3 DEF Panics
<1>5. Missed'
  <2> SUFFICES ASSUME VersionHashesAgree PROVE Known(req.ver)' /\ FoundFirst'
    BY <1>1 DEF Missed, Busy
  <2>1. Known(req.ver)'
    BY <1>0, <1>1 DEF Missed, Known
  <2>2. \A l \in first'..(lib' - 1) : ~Stops(scope[l])'
    BY <1>0, <1>1, SameRequest DEF Missed
  <2>3. Panics(Cur)'
    BY <1>1, <1>4, SameRequest DEF Cur
  <2> QED
    BY <1>1, <2>1, <2>2, <2>3 DEF FoundFirst
<1> QED
  BY <1>2, <1>3, <1>5 DEF IInv

\* A request for version v, known if the hashes agree, from image a to b.
LEMMA RequestStep ==
  ASSUME IInv, NEW api, NEW n \in Name, NEW v, NEW a \in Nat \ {0}, NEW b \in 1..Len(scope), a <= b,
         api = "get_version" => v.hidden = TRUE, VersionHashesAgree => Known(v),
         Request(api, n, v, a, b)
  PROVE  IInv'
<1>0. Images
  BY DEF IInv
<1>1. /\ req' = [api |-> api, name |-> n, ver |-> v]
      /\ pre' = [gnu |-> HashOf[n].gnu, elf |-> None, custom |-> None]
      /\ lib' = a /\ first' = a /\ last' = b /\ result' = None /\ pc' = "lookup"
      /\ scope' = scope
  BY DEF Request, precompute
<1>2. req'.name = n /\ req'.api = api /\ req'.ver = v
  BY <1>1
<1>3. Images'
  BY <1>0, <1>1 DEF Images
<1>4. Cached'
  BY <1>1, <1>2 DEF Cached
<1>5. Asked'
  <2>1. Len(scope) \in Nat
    BY <1>0 DEF Images
  <2> QED
    BY <1>1, <1>2, <1>4, <2>1 DEF Asked
<1>6. Walk' /\ Answer'
  BY <1>1 DEF Walk, Answer
<1>7. Missed'
  <2>1. VersionHashesAgree => Known(req.ver)'
    BY <1>2 DEF Known
  <2>2. first'..(lib' - 1) = {}
    BY <1>1
  <2> QED
    BY <1>1, <2>1, <2>2 DEF Missed, FoundFirst, Busy
<1> QED
  BY <1>3, <1>5, <1>6, <1>7 DEF IInv

\* The bloom filter lets every name through that the table has.
LEMMA BloomPasses ==
  ASSUME NEW i \in Hashed(Cur), SymHash(Cur, i) = pre.gnu
  PROVE  bloom_passes
<1> DEFINE h == pre.gnu
           J == {j \in Hashed(Cur) : fofs(SymHash(Cur, j)) = fofs(h)}
<1>1. i \in J
  OBVIOUS
<1>2. BloomWord(Cur, fofs(h)) = UNION {{fmask(SymHash(Cur, j)), fmask2(SymHash(Cur, j))} : j \in J}
  BY DEF BloomWord
<1> HIDE DEF J
<1>3. fmask(h) \in BloomWord(Cur, fofs(h)) /\ fmask2(h) \in BloomWord(Cur, fofs(h))
  BY <1>1, <1>2
<1> QED
  BY <1>3 DEF bloom_passes

\* ElfGnuHash::lookup up to the head of the bucket.
LEMMA GnuLookupStep == IInv /\ gnu_lookup => IInv'
<1> SUFFICES ASSUME IInv, gnu_lookup PROVE IInv'
  OBVIOUS
<1>0. Images /\ Asked /\ pc = "lookup" /\ pc # "idle" /\ pc \in Busy
  BY DEF IInv, gnu_lookup, Busy
<1>1. Cur \in AnyFile /\ Cur.kind = "gnu" /\ Cur.kind # "custom"
  BY <1>0, CurFacts DEF gnu_lookup
<1>2. pre.gnu = HashOf[req.name].gnu /\ Cached'
  <2>1. UNCHANGED <<pre, req>>
    BY DEF gnu_lookup, Miss, At
  <2>2. Cached
    BY <1>0 DEF Asked
  <2> QED
    BY <2>1, <2>2 DEF Cached
<1> DEFINE b == Mod(pre.gnu, Cur.nbucket)
           start == Bucket(Cur, b)
<1>3. Wanted(Cur) = InBucket(Cur, b)
  BY <1>1, <1>2 DEF Wanted
<1>4. /\ Wanted(Cur) = {} => start = 0
      /\ Wanted(Cur) # {} => start \in Wanted(Cur) /\ \A j \in Wanted(Cur) : start <= j
      /\ Wanted(Cur) \subseteq Nat \ {0}
  BY <1>1, <1>3, HeadFacts, BucketOf
<1>5. \/ bloom_passes /\ start # 0 /\ At(start)
      \/ ~(bloom_passes /\ start # 0) /\ Miss
  BY DEF gnu_lookup
<1> HIDE DEF start, b
<1>6. CASE bloom_passes /\ start # 0 /\ At(start)
  <2>1. start \in Wanted(Cur) /\ \A j \in Wanted(Cur) : ~(start = 0 \/ j < start)
    BY <1>4, <1>6
  <2> QED
    BY <1>0, <1>1, <1>2, <1>6, <2>1, AtStep
<1>7. CASE ~(bloom_passes /\ start # 0) /\ Miss
  <2>1. ASSUME NEW i \in Sure(Cur) PROVE FALSE
    <3>1. i \in Wanted(Cur) /\ Cur.syms[i].name = req.name
      BY <1>1, SureWanted DEF Named
    <3>2. i \in Hashed(Cur) /\ SymHash(Cur, i) = pre.gnu
      BY <1>1, <1>2, <1>3, <3>1 DEF InBucket, SymHash
    <3> QED
      BY <1>4, <1>7, <3>1, <3>2, BloomPasses
  <2>2. ~Stops(Cur)
    BY <1>1, <2>1, StopsIsSure
  <2> QED
    BY <1>0, <1>2, <1>7, <2>2, MissStep
<1> QED
  BY <1>5, <1>6, <1>7

\* A symbol of another name, or of another version, is passed over.
LEMMA PassedOver ==
  ASSUME Cur \in AnyFile, Cur.kind # "custom", NEW i \in DOMAIN Cur.syms, Known(req.ver),
         Cur.syms[i].name # req.name \/ "differ" \in check_match(Cur, i, req.ver)
  PROVE  i \notin Sure(Cur)
<1>1. CASE Cur.syms[i].name # req.name
  BY <1>1, SureWanted DEF Named
<1>2. CASE "differ" \in check_match(Cur, i, req.ver)
  BY <1>2, DifferIsNotSure
<1> QED
  BY <1>1, <1>2

\* The chain walk returns a symbol to lookup_filter.
LEMMA MatchStep ==
  ASSUME IInv, pc = "chain", Cur.kind # "custom", idx \in DOMAIN Cur.syms,
         Cur.syms[idx].name = req.name, "match" \in check_match(Cur, idx, req.ver),
         lookup_filter(idx), UNCHANGED pre
  PROVE  IInv'
<1>0. Images /\ Asked /\ pc # "idle" /\ pc \in Busy
  BY DEF IInv, Busy
<1>1. Cur \in AnyFile /\ idx \in Named(Cur)
  BY <1>0, CurFacts DEF Named
<1>2. Cached'
  <2>1. req' = req
    BY DEF lookup_filter, Miss
  <2> QED
    BY <1>0, <2>1 DEF Asked, Cached
<1>3. CASE Cur.syms[idx].st = "def"
  <2>1. idx \in Possible(Cur)
    BY <1>1, <1>3, MatchAnswers
  <2> QED
    BY <1>0, <1>2, <2>1, FoundStep
<1>4. CASE Cur.syms[idx].st # "def"
  <2>0. ~Panics(Cur)
    BY DEF Panics, check_match
  <2>1. ~Stops(Cur)
    BY <1>1, <1>4, <2>0, UndefinedAlone, StopsIsSure
  <2>2. Miss
    BY <1>4 DEF lookup_filter
  <2> QED
    BY SMTT(30), <1>0, <1>2, <2>1, <2>2, MissStep
<1> QED
  BY <1>3, <1>4

\* The GNU walk goes on from a symbol that was passed over.
LEMMA GnuNextStep ==
  ASSUME IInv, pc = "chain", Cur.kind = "gnu", gnu_next, UNCHANGED pre,
         VersionHashesAgree => idx \notin Sure(Cur)
  PROVE  IInv'
<1>0. Images /\ Asked /\ Walk /\ Missed /\ pc # "idle" /\ pc \in Busy
  BY DEF IInv, Busy
<1>1. Cur \in AnyFile /\ Cur.kind # "custom" /\ idx \in Wanted(Cur)
  BY <1>0, CurFacts DEF Walk
<1>2. Cached'
  <2>1. req' = req
    BY DEF gnu_next, Miss, At
  <2> QED
    BY <1>0, <2>1 DEF Asked, Cached
<1> DEFINE b == Mod(HashOf[req.name].gnu, Cur.nbucket)
<1>3. Wanted(Cur) = InBucket(Cur, b)
  BY DEF Wanted
<1> HIDE DEF b
<1>4. Wanted(Cur) \subseteq Nat \ {0}
  BY <1>1, <1>3, BucketOf
<1>5. VersionHashesAgree => \A j \in Wanted(Cur) : j <= idx => j \notin Sure(Cur)
  BY <1>0, <1>1, <1>4 DEF Missed
<1>6. CASE ChainEnds(Cur, idx)
  <2>1. \A j \in Wanted(Cur) : j <= idx
    <3>1. {j \in Wanted(Cur) : idx < j} = {}
      BY <1>1, <1>3, <1>6, AfterFacts DEF ChainEnds
    <3> QED
      BY <1>1, <1>4, <3>1
  <2>2. VersionHashesAgree => ~Stops(Cur)
    BY <1>1, <1>5, <2>1, SureWanted, StopsIsSure
  <2>3. Miss
    BY <1>6 DEF gnu_next
  <2> QED
    BY <1>0, <1>2, <2>2, <2>3, MissStep
<1>7. CASE ~ChainEnds(Cur, idx)
  <2>1. idx + 1 \in Wanted(Cur)
    BY <1>1, <1>3, <1>7, GnuNextFacts
  <2>2. \A j \in Wanted(Cur) : (idx + 1 = 0 \/ j < idx + 1) => j <= idx
    BY <1>1, <1>4
  <2>3. At(idx + 1)
    BY <1>7 DEF gnu_next
  <2>4. VersionHashesAgree =>
          \A j \in Wanted(Cur) : (idx + 1 = 0 \/ j < idx + 1) => j \notin Sure(Cur)
    BY <1>5, <2>2
  <2> QED
    BY <1>0, <1>2, <2>1, <2>3, <2>4, AtStep
<1> QED
  BY <1>6, <1>7

\* ElfGnuHash::lookup at a symbol of the chain.
LEMMA GnuChainStep == IInv /\ gnu_chain => IInv'
<1> SUFFICES ASSUME IInv, gnu_chain PROVE IInv'
  OBVIOUS
<1>0. Images /\ Asked /\ Walk /\ Missed /\ pc = "chain" /\ pc # "idle" /\ pc \in Busy
  BY DEF IInv, gnu_chain, Busy
<1>1. Cur \in AnyFile /\ Cur.kind = "gnu" /\ Cur.kind # "custom" /\ idx \in Wanted(Cur) /\ UNCHANGED pre
  BY <1>0, CurFacts DEF gnu_chain, Walk
<1>2. idx \in DOMAIN Cur.syms
  BY <1>1, BucketOf DEF Wanted
<1>3. VersionHashesAgree => Known(req.ver)
  BY <1>0 DEF Missed
<1>4. pre.gnu = HashOf[req.name].gnu
  BY <1>0 DEF Asked, Cached
<1>5. \/ Cur.syms[idx].name # req.name /\ gnu_next
      \/ /\ Cur.syms[idx].name = req.name
         /\ \E o \in check_match(Cur, idx, req.ver) :
              \/ o = "match" /\ lookup_filter(idx)
              \/ o = "differ" /\ gnu_next
              \/ o = "panic" /\ Panic
  <2>1. CASE Or1(SymHash(Cur, idx)) = Or1(pre.gnu)
    BY <2>1 DEF gnu_chain, Visit
  <2>2. CASE Or1(SymHash(Cur, idx)) # Or1(pre.gnu)
    <3>1. Cur.syms[idx].name # req.name
      BY <1>1, <1>4, <2>2 DEF SymHash
    <3> QED
      BY <2>2, <3>1 DEF gnu_chain
  <2> QED
    BY <2>1, <2>2
<1>6. CASE gnu_next /\ (Cur.syms[idx].name # req.name \/ "differ" \in check_match(Cur, idx, req.ver))
  <2>1. VersionHashesAgree => idx \notin Sure(Cur)
    BY <1>1, <1>2, <1>3, <1>6, PassedOver
  <2> QED
    BY <1>0, <1>1, <1>6, <2>1, GnuNextStep
<1>7. CASE /\ Cur.syms[idx].name = req.name /\ "match" \in check_match(Cur, idx, req.ver)
           /\ lookup_filter(idx)
  BY <1>0, <1>1, <1>2, <1>7, MatchStep
<1>8. CASE /\ Cur.syms[idx].name = req.name /\ "panic" \in check_match(Cur, idx, req.ver)
           /\ Panic
  <2>1. idx \in Hashed(Cur)
    BY <1>1, BucketOf DEF Wanted
  <2> QED
    BY <1>0, <1>1, <1>8, <2>1, PanicStep
<1> QED
  BY <1>5, <1>6, <1>7, <1>8

\* ElfHash::lookup up to the head of the bucket.
LEMMA ElfLookupStep == IInv /\ elf_lookup => IInv'
<1> SUFFICES ASSUME IInv, elf_lookup PROVE IInv'
  OBVIOUS
<1>0. Images /\ Asked /\ pc = "lookup" /\ pc # "idle" /\ pc \in Busy
  BY DEF IInv, elf_lookup, Busy
<1>1. Cur \in AnyFile /\ Cur.kind = "elf" /\ Cur.kind # "custom"
  BY <1>0, CurFacts DEF elf_lookup
<1> DEFINE h == HashOf[req.name].elf
           start == Bucket(Cur, Mod(h, Cur.nbucket))
<1>2. (IF pre.elf = None THEN h ELSE pre.elf) = h
  BY <1>0 DEF Asked, Cached
<1>3. pre' = [pre EXCEPT !.elf = h] /\ At(start)
  BY <1>2 DEF elf_lookup
<1>4. Cached'
  <2>1. req' = req
    BY <1>3 DEF At
  <2>2. Cached
    BY <1>0 DEF Asked
  <2> HIDE DEF start
  <2>3. pre' = [gnu |-> HashOf[req.name].gnu, elf |-> h, custom |-> pre.custom]
    BY <1>3, <2>2 DEF Cached
  <2> QED
    BY <2>1, <2>2, <2>3 DEF Cached
<1>5. Wanted(Cur) = InBucket(Cur, Mod(h, Cur.nbucket))
  BY <1>1 DEF Wanted
<1>6. /\ Wanted(Cur) = {} => start = 0
      /\ Wanted(Cur) # {} => start \in Wanted(Cur) /\ \A j \in Wanted(Cur) : start <= j
      /\ Wanted(Cur) \subseteq Nat \ {0}
  BY <1>1, <1>5, HeadFacts, BucketOf
<1> HIDE DEF start, h
<1>7. start \in {0} \cup Wanted(Cur) /\ \A j \in Wanted(Cur) : ~(start = 0 \/ j < start)
  BY <1>6
<1> QED
  BY <1>0, <1>1, <1>3, <1>4, <1>7, AtStep

\* The SysV walk goes on from a symbol that was passed over.
LEMMA ElfNextStep ==
  ASSUME IInv, pc = "chain", Cur.kind = "elf", idx # 0, elf_next, UNCHANGED pre,
         VersionHashesAgree => idx \notin Sure(Cur)
  PROVE  IInv'
<1>0. Images /\ Asked /\ Walk /\ Missed /\ pc # "idle" /\ pc \in Busy
  BY DEF IInv, Busy
<1>1. Cur \in AnyFile /\ idx \in Wanted(Cur)
  BY <1>0, CurFacts DEF Walk
<1>2. At(ElfChain(Cur, idx))
  BY DEF elf_next
<1>3. Cached'
  <2>1. req' = req
    BY <1>2 DEF At
  <2> QED
    BY <1>0, <2>1 DEF Asked, Cached
<1> DEFINE b == Mod(HashOf[req.name].elf, Cur.nbucket)
           n == ElfChain(Cur, idx)
<1>4. Wanted(Cur) = InBucket(Cur, b)
  BY DEF Wanted
<1> HIDE DEF b
<1>5. Wanted(Cur) \subseteq Nat \ {0}
  BY <1>1, <1>4, BucketOf
<1>6. VersionHashesAgree => \A j \in Wanted(Cur) : j <= idx => j \notin Sure(Cur)
  BY <1>0, <1>1, <1>5 DEF Missed
<1>7. \/ n = 0 /\ \A j \in Wanted(Cur) : j <= idx
      \/ n \in Wanted(Cur) /\ idx < n /\ \A j \in Wanted(Cur) : j < n => j <= idx
  BY <1>1, <1>4, ElfNextFacts
<1> HIDE DEF n
<1>8. /\ n \in {0} \cup Wanted(Cur)
      /\ \A j \in Wanted(Cur) : (n = 0 \/ j < n) => j <= idx
  BY <1>5, <1>7
<1>9. VersionHashesAgree => \A j \in Wanted(Cur) : (n = 0 \/ j < n) => j \notin Sure(Cur)
  BY <1>6, <1>8
<1> QED
  BY <1>0, <1>2, <1>3, <1>8, <1>9, AtStep DEF n

\* ElfHash::lookup at a symbol of the chain, or at the end of it.
LEMMA ElfChainStep == IInv /\ elf_chain => IInv'
<1> SUFFICES ASSUME IInv, elf_chain PROVE IInv'
  OBVIOUS
<1>0. Images /\ Asked /\ Walk /\ Missed /\ pc = "chain" /\ pc # "idle" /\ pc \in Busy
  BY DEF IInv, elf_chain, Busy
<1>1. Cur \in AnyFile /\ Cur.kind = "elf" /\ Cur.kind # "custom" /\ UNCHANGED pre
  BY <1>0, CurFacts DEF elf_chain
<1>2. VersionHashesAgree => Known(req.ver)
  BY <1>0 DEF Missed
<1>3. CASE idx = 0
  <2>1. Miss
    BY <1>3 DEF elf_chain
  <2>2. Cached'
    <3>1. req' = req
      BY <2>1 DEF Miss
    <3> QED
      BY <1>0, <1>1, <3>1 DEF Asked, Cached
  <2>3. VersionHashesAgree => ~Stops(Cur)
    BY <1>0, <1>1, <1>3, SureWanted, StopsIsSure DEF Missed
  <2> QED
    BY <1>0, <2>1, <2>2, <2>3, MissStep
<1>4. CASE idx # 0
  <2>1. idx \in Wanted(Cur)
    BY SMTT(30), <1>0, <1>1, <1>4 DEF Walk
  <2>2. idx \in DOMAIN Cur.syms
    BY <1>1, <2>1, BucketOf DEF Wanted
  <2>3. \/ Cur.syms[idx].name # req.name /\ elf_next
        \/ /\ Cur.syms[idx].name = req.name
           /\ \E o \in check_match(Cur, idx, req.ver) :
                \/ o = "match" /\ lookup_filter(idx)
                \/ o = "differ" /\ elf_next
                \/ o = "panic" /\ Panic
    BY <1>4 DEF elf_chain, Visit
  <2>4. CASE elf_next /\ (Cur.syms[idx].name # req.name \/ "differ" \in check_match(Cur, idx, req.ver))
    <3>1. VersionHashesAgree => idx \notin Sure(Cur)
      BY SMTT(30), <1>1, <1>2, <2>2, <2>4, PassedOver
    <3> QED
      BY <1>0, <1>1, <1>4, <2>4, <3>1, ElfNextStep
  <2>5. CASE /\ Cur.syms[idx].name = req.name /\ "match" \in check_match(Cur, idx, req.ver)
             /\ lookup_filter(idx)
    BY SMTT(30), <1>0, <1>1, <2>2, <2>5, MatchStep
  <2>6. CASE /\ Cur.syms[idx].name = req.name /\ "panic" \in check_match(Cur, idx, req.ver)
             /\ Panic
    <3>1. idx \in Hashed(Cur)
      BY <1>1, <2>1, BucketOf DEF Wanted
    <3> QED
      BY SMTT(30), <1>0, <1>1, <2>6, <3>1, PanicStep
  <2> QED
    BY <2>3, <2>4, <2>5, <2>6
<1> QED
  BY <1>3, <1>4

\* CustomHash::lookup, whichever entry of the name it returns.
LEMMA CustomLookupStep == IInv /\ custom_lookup => IInv'
<1> SUFFICES ASSUME IInv, custom_lookup PROVE IInv'
  OBVIOUS
<1>0. Images /\ Asked /\ pc = "lookup" /\ pc # "idle" /\ pc \in Busy
  BY DEF IInv, custom_lookup, Busy
<1>1. Cur \in AnyFile /\ Cur.kind = "custom"
  BY <1>0, CurFacts DEF custom_lookup
<1> DEFINE n == req.name
<1>2. (IF pre.custom = None THEN n ELSE pre.custom) = n
  BY <1>0 DEF Asked, Cached
<1>3. /\ pre' = [pre EXCEPT !.custom = n]
      /\ \/ Entries(n) = {} /\ Miss
         \/ \E i \in Entries(n) : lookup_filter(i)
  BY <1>2 DEF custom_lookup
<1>4. Cached'
  <2>1. req' = req
    BY <1>3 DEF Miss, lookup_filter
  <2>2. Cached
    BY <1>0 DEF Asked
  <2>3. pre' = [gnu |-> HashOf[req.name].gnu, elf |-> pre.elf, custom |-> n]
    BY <1>3, <2>2 DEF Cached
  <2> QED
    BY <2>1, <2>2, <2>3 DEF Cached
<1>5. Entries(n) = {i \in Named(Cur) : Cur.syms[i].st # "file"}
  BY DEF Entries, Named, FileSyms
<1>6. CASE Entries(n) = {} /\ Miss
  <2>1. Possible(Cur) \subseteq Entries(n)
    BY <1>5 DEF Possible
  <2>2. ~Stops(Cur)
    BY <1>1, <1>6, <2>1 DEF Stops, Certain, Panics
  <2> QED
    BY SMTT(30), <1>0, <1>4, <1>6, <2>2, MissStep
<1>7. CASE \E i \in Entries(n) : lookup_filter(i)
  <2>1. PICK i \in Entries(n) : lookup_filter(i)
    BY <1>7
  <2>2. i \in Named(Cur) /\ Cur.syms[i].st # "file"
    BY <1>5
  <2>3. CASE Cur.syms[i].st = "def"
    <3>1. i \in Possible(Cur)
      BY <1>1, <2>2, <2>3 DEF Possible
    <3> QED
      BY <1>0, <1>4, <2>1, <3>1, FoundStep
  <2>4. CASE Cur.syms[i].st # "def"
    <3>1. ~Stops(Cur)
      BY <1>1, <2>2, <2>4 DEF Stops, Certain, Panics
    <3>2. Miss
      BY <2>1, <2>4 DEF lookup_filter
    <3> QED
      BY <1>0, <1>4, <3>1, <3>2, MissStep
  <2> QED
    BY <2>3, <2>4
<1> QED
  BY <1>3, <1>6, <1>7

\* A request through the API or for a relocation.
LEMMA RequestsStep ==
  ASSUME IInv,
         \/ \E l \in DOMAIN scope, n \in Name : get(l, n)
         \/ \E l \in DOMAIN scope, n \in Name, v \in Range(Versions) : get_version(l, n, v)
         \/ \E l \in DOMAIN scope : \E i \in DOMAIN scope[l].syms : find_symdef(l, i)
  PROVE  IInv'
<1>0. /\ Len(scope) \in Nat /\ DOMAIN scope = 1..Len(scope)
      /\ \A l \in DOMAIN scope : l \in Nat \ {0} /\ l \in 1..Len(scope) /\ l <= l /\ scope[l] \in AnyFile
  BY DEF IInv, Images
<1>1. CASE \E l \in DOMAIN scope, n \in Name : get(l, n)
  <2>1. PICK l \in DOMAIN scope, n \in Name : get(l, n)
    BY <1>1
  <2>2. Request("get", n, NoVersion, l, l)
    BY <2>1 DEF get
  <2>3. Known(NoVersion)
    BY DEF Known
  <2> QED
    BY <1>0, <2>2, <2>3, RequestStep
<1>2. CASE \E l \in DOMAIN scope, n \in Name, v \in Range(Versions) : get_version(l, n, v)
  <2>1. PICK l \in DOMAIN scope, n \in Name, v \in Range(Versions) : get_version(l, n, v)
    BY <1>2
  <2>2. Request("get_version", n, SymbolVersion_new(v), l, l)
    BY <2>1 DEF get_version
  <2>3. SymbolVersion_new(v).hidden = TRUE
    BY DEF SymbolVersion_new
  <2>4. VersionHashesAgree => Known(SymbolVersion_new(v))
    BY VersionKnown
  <2> QED
    BY <1>0, <2>2, <2>3, <2>4, RequestStep
<1>3. CASE \E l \in DOMAIN scope : \E i \in DOMAIN scope[l].syms : find_symdef(l, i)
  <2>1. PICK l \in DOMAIN scope : \E i \in DOMAIN scope[l].syms : find_symdef(l, i)
    BY <1>3
  <2>2. PICK i \in DOMAIN scope[l].syms : find_symdef(l, i)
    BY <2>1
  <2> DEFINE f == scope[l]
             v == get_requirement(f, i)
  <2>3. f \in AnyFile
    BY <1>0
  <2>4. f.syms[i].name \in Name
    <3>1. f.syms[i] \in Symbol
      BY SMTT(30), <2>3, FileFacts
    <3> QED
      BY SMTT(30), <3>1 DEF Symbol
  <2>5. Request("relocate", f.syms[i].name, v, 1, Len(scope))
    BY <2>2 DEF find_symdef, symbol_idx
  <2>6. Known(v)
    BY <2>3, RequirementKnown
  <2>7. 1 \in Nat \ {0} /\ Len(scope) \in 1..Len(scope) /\ 1 <= Len(scope)
    BY <1>0
  <2> HIDE DEF v, f
  <2> QED
    BY <2>4, <2>5, <2>6, <2>7, RequestStep
<1> QED
  BY <1>1, <1>2, <1>3

\* IInv is inductive.
LEMMA NextInv == IInv /\ [Next]_vars => IInv'
<1> SUFFICES ASSUME IInv, [Next]_vars PROVE IInv'
  BY SMTT(30)
<1>1. CASE Return
  <2>1. pc' = "idle" /\ scope' = scope
    BY <1>1 DEF Return
  <2>2. Images'
    BY <2>1 DEF IInv, Images
  <2> QED
    BY <2>1, <2>2 DEF IInv, Asked, Walk, Answer, Missed, Busy, FoundFirst
<1>2. CASE UNCHANGED vars
  <2>1. UNCHANGED <<scope, pc, req, pre, lib, first, last, idx, result>>
    BY SMTT(30), <1>2 DEF vars
  <2>2. Images' /\ Asked' /\ Walk'
    BY <2>1 DEF IInv, Images, Asked, Cached, Walk, Wanted, Cur
  <2>3. Cur' = Cur /\ Possible(Cur)' = Possible(Cur) /\ Sure(Cur)' = Sure(Cur) /\ Wanted(Cur)' = Wanted(Cur)
    BY <2>1, SameRequest DEF Cur
  <2>4. Answer'
    BY <2>1, <2>3 DEF IInv, Answer
  <2>5. FoundFirst => FoundFirst'
    <3>1. /\ Panics(Cur)' <=> Panics(Cur)
          /\ \A l : Stops(scope[l])' <=> Stops(scope[l])
          /\ \A l : Possible(scope[l])' = Possible(scope[l])
      BY <2>1, SameRequest DEF Cur
    <3> QED
      BY ZenonT(60), <2>1, <3>1 DEF FoundFirst
  <2>6. Missed'
    BY <2>1, <2>3, <2>5, SameRequest DEF IInv, Missed, Known
  <2> QED
    BY <2>2, <2>4, <2>6 DEF IInv
<1> QED
  BY <1>1, <1>2, GnuLookupStep, GnuChainStep, ElfLookupStep, ElfChainStep, CustomLookupStep,
     RequestsStep DEF Next, Step

-----------------------------------------------------------------------------
(* Theorems *)

\* Every lookup keeps its place in the tables and its cached hashes, whatever
\* the images of the scope.
THEOREM InvHolds == Spec => []IInv
BY InitInv, NextInv, PTL DEF Spec

\* The chain walks of ElfGnuHash::lookup and ElfHash::lookup read inside the
\* tables, for every hash function and table a static linker writes.
THEOREM WalksStayInside == Spec => []InBounds
<1>1. IInv => InBounds
  <2> SUFFICES ASSUME IInv, pc = "chain"
               PROVE  IF Cur.kind = "gnu" THEN idx \in symbias(Cur)..Len(Cur.syms)
                      ELSE idx \in 0..Len(Cur.syms)
    BY DEF InBounds
  <2>1. Cur \in AnyFile /\ Walk
    BY CurFacts DEF IInv
  <2>2. Hashed(Cur) \in SUBSET (Nat \ {0}) /\ Len(Cur.syms) \in Nat /\ Hashed(Cur) \subseteq 1..Len(Cur.syms)
    BY <2>1, BucketOf
  <2>3. CASE Cur.kind = "gnu"
    <3>1. idx \in Hashed(Cur)
      BY <2>1, <2>3, BucketOf DEF Walk, Wanted
    <3>2. symbias(Cur) = Least(Hashed(Cur)) /\ Least(Hashed(Cur)) \in Nat /\ Least(Hashed(Cur)) <= idx
      BY SMTT(30), <2>2, <3>1, LeastFacts DEF symbias
    <3> QED
      BY SMTT(30), <2>2, <2>3, <3>1, <3>2
  <2>4. CASE Cur.kind # "gnu"
    <3>1. idx = 0 \/ idx \in Hashed(Cur)
      BY <2>1, <2>4, BucketOf DEF Walk, Wanted
    <3> QED
      BY SMTT(30), <2>2, <2>4, <3>1
  <2> QED
    BY <2>3, <2>4
<1> QED
  BY <1>1, InvHolds, PTL

\* What is returned is an answer, from the image being searched.
LEMMA ResultFacts ==
  ASSUME IInv, pc = "done", result # None
  PROVE  /\ result[1] = lib /\ result[2] \in Possible(Cur)
         /\ scope[result[1]] = Cur /\ Cur \in AnyFile
<1>1. PICK i \in Possible(Cur) : result = <<lib, i>>
  BY DEF IInv, Answer
<1>2. Cur \in AnyFile
  BY SMTT(30), CurFacts DEF IInv
<1> QED
  BY <1>1, <1>2 DEF Cur

\* ElfCore::get_version never returns a symbol stored under another version,
\* whatever the hash functions do with version names.
THEOREM VersionIsExact == Spec => []ExactVersion
<1>1. IInv => ExactVersion
  <2> SUFFICES ASSUME IInv, pc = "done", result # None, req.api = "get_version",
                      scope[result[1]].kind # "custom"
               PROVE  Slot(scope[result[1]], result[2]) \in {req.ver.name, Uninit}
    BY DEF ExactVersion
  <2>1. req.ver.hidden = TRUE
    BY DEF IInv, Asked
  <2>2. req.ver # NoVersion
    BY <2>1 DEF NoVersion
  <2>3. result[2] \in Possible(Cur) /\ scope[result[1]] = Cur
    BY ResultFacts
  <2> QED
    BY <2>1, <2>2, <2>3 DEF Possible
<1> QED
  BY <1>1, InvHolds, PTL

\* The number of symbols that count_syms derives from the hash table of a
\* dynamic image is past every symbol a lookup returns; that of an object is,
\* with its file symbols added.
THEOREM CountIsPast == Spec => []CountReaches
<1>1. ASSUME IInv, pc = "done", result # None
      PROVE  IF Cur.kind = "custom" THEN result[2] < count_syms(Cur) + Cardinality(FileSyms(Cur))
             ELSE result[2] < count_syms(Cur)
  <2>1. result[2] \in Possible(Cur) /\ Cur \in AnyFile
    BY <1>1, ResultFacts
  <2>2. CASE Cur.kind # "custom"
    <3>1. result[2] \in Hashed(Cur)
      BY <2>1 DEF Possible, Named, Hashed
    <3> QED
      BY SMTT(30), <2>1, <2>2, <3>1, CountReachesHashed
  <2>3. CASE Cur.kind = "custom"
    <3> DEFINE D == DOMAIN Cur.syms
               F == FileSyms(Cur)
               n == Len(Cur.syms)
    <3>1. n \in Nat /\ D = 1..n
      BY <2>1, FileFacts
    <3>2. IsFiniteSet(D) /\ Cardinality(D) = n
      BY <3>1, FS_Interval
    <3>3. F \subseteq D /\ result[2] \in D
      BY <2>1 DEF FileSyms, Possible, Named
    <3>4. count_syms(Cur) = 1 + Cardinality(D \ F)
      BY <2>3 DEF count_syms, custom_count_syms
    <3> HIDE DEF D, F, n
    <3>5. IsFiniteSet(F) /\ Cardinality(F) \in Nat
      BY <3>2, <3>3, FS_Subset, FS_CardinalityType
    <3>6. Cardinality(D \ F) = Cardinality(D) - Cardinality(D \cap F) /\ D \cap F = F
      BY <3>2, <3>3, FS_Difference
    <3>7. count_syms(Cur) + Cardinality(F) = n + 1
      <4>1. count_syms(Cur) = 1 + (n - Cardinality(F))
        BY Zenon, <3>2, <3>4, <3>6
      <4>2. ASSUME NEW c \in Nat PROVE (1 + (n - c)) + c = n + 1
        BY <3>1
      <4> QED
        BY Zenon, <3>5, <4>1, <4>2
    <3>8. result[2] < n + 1
      BY <3>1, <3>3
    <3> QED
      BY <2>3, <3>7, <3>8 DEF F
  <2> QED
    BY <2>2, <2>3
<1>2. IInv => CountReaches
  BY <1>1, ResultFacts DEF CountReaches
<1> QED
  BY <1>2, InvHolds, PTL

\* A lookup returns a definition of the name and version asked for, from the
\* first image of the scope that has one, and None only if none has: no hash
\* table, bloom filter, bucket order or cached hash hides a definition.  The
\* lookups that panic are those with a version that come to an image with the
\* name and without versions.
THEOREM FirstIsFound ==
  ASSUME VersionHashesAgree
  PROVE  Spec => []FoundFirst
<1>1. IInv => FoundFirst
  BY DEF IInv, Missed
<1> QED
  BY <1>1, InvHolds, PTL

=============================================================================
