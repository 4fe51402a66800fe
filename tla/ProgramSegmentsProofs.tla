------------------------ MODULE ProgramSegmentsProofs ------------------------
(***************************************************************************)
(* Proofs about ProgramSegments for every page size, every set of PT_LOAD  *)
(* headers whose pages are apart, and every address mmap may return: what  *)
(* a load maps, copies and clears stays in the reservation, the loader's   *)
(* stores do not fault, the image reads and is protected as its headers    *)
(* say, and what was mapped is given back.  mmap may also refuse the       *)
(* reservation, which the code does not look for: the load then comes to   *)
(* no image and to no error.                                               *)
(***************************************************************************)
EXTENDS ProgramSegments, TLAPS, WellFoundedInduction

Aligned(x) == x % PAGE = 0

\* The image is being loaded, or is loaded.
After == {"loaded", "protect", "done", "sealed"}

Running == {"map", "copy", "zero"} \cup After

\* The addresses of PT_LOAD j in the image: its first page, where the bytes of
\* the file end, where its memory ends, and the end of its last page.
First(j) == base + rounddown(phdrs[j].p_vaddr, PAGE)

Edge(j) == base + phdrs[j].p_vaddr + phdrs[j].p_filesz

Top(j) == base + phdrs[j].p_vaddr + phdrs[j].p_memsz

End(j) == base + roundup(phdrs[j].p_vaddr + phdrs[j].p_memsz, PAGE)

Room(j) == First(j) .. (End(j) - 1)

\* The byte of the file that belongs at address x of PT_LOAD j.
Byte(j, x) == rounddown(phdrs[j].p_offset, PAGE) + x - First(j)

\* Which segments the loop of load_segments has rebased, and which it has left.
Rebased(j) ==
  \/ pc = "map" /\ j < i
  \/ pc \in {"copy", "zero"} /\ j <= i
  \/ pc \in After

Loaded(j) == (pc \in {"map", "copy", "zero"} /\ j < i) \/ pc \in After

-----------------------------------------------------------------------------
(* The inductive invariant *)

Headers ==
  /\ fd \in {"file", "memory"}
  /\ \E n \in 1 .. MaxLoads : phdrs \in [1 .. n -> Phdr] /\ i \in 1 .. n
  /\ \A j, k \in DOMAIN phdrs : j # k => Pages(phdrs[j]) \cap Pages(phdrs[k]) = {}
  /\ gnu_relro.p_memsz > 0 => \E j \in DOMAIN phdrs : gnu_relro \in Relros(phdrs[j])
  /\ pc \in {"reserve", "loaded"} => i = 1

\* The reservation: whole pages, and room for every PT_LOAD.
Reserved ==
  IF pc = "reserve" THEN space = NoSpace
  ELSE /\ space.memory \in Nat /\ space.len \in Nat /\ space.offset \in Int
       /\ Aligned(space.memory) /\ Aligned(space.len) /\ Aligned(space.offset)
       /\ space.memory + space.len <= Size
       /\ \A j \in DOMAIN phdrs :
            space.memory <= First(j) /\ End(j) <= space.memory + space.len

\* The ElfSegment of PT_LOAD j, and what it is at this point of the load.
Piece(j, addr, need_copy) ==
  [addr |-> addr,
   prot |-> phdrs[j].p_flags, len |-> End(j) - First(j),
   content_size |-> Edge(j) - First(j), zero_size |-> Top(j) - Edge(j),
   map_info |-> <<[start |-> 0, filesz |-> Edge(j) - First(j),
                   offset |-> rounddown(phdrs[j].p_offset, PAGE)]>>,
   need_copy |-> need_copy, from_relocatable |-> FALSE]

SegmentAt(j) ==
  Piece(j, IF Rebased(j) THEN First(j) ELSE First(j) - base, Rebased(j) /\ fd = "memory")

Segments == pc \in Running => segments = [j \in DOMAIN phdrs |-> SegmentAt(j)]

\* What the bytes of a segment hold: after the loop has left it, while the loop
\* is at it with the file mapped, before it is copied, and after.
InPlace ==
  \A j \in DOMAIN phdrs :
    Loaded(j) =>
      \A x \in First(j) .. (Top(j) - 1) : mem[x] = IF x < Edge(j) THEN Byte(j, x) ELSE Zero

Filed ==
  pc \in {"copy", "zero"} /\ fd = "file" => \A x \in Room(i) : mem[x] = FileByte(Byte(i, x))

Blank ==
  (pc \in {"map", "copy", "zero"} /\ fd = "memory") =>
    \A j \in DOMAIN phdrs :
      (j > i \/ (j = i /\ pc # "zero")) => \A x \in Room(j) : mem[x] = Zero

Filled ==
  (pc = "zero" /\ fd = "memory") =>
    \A x \in Room(i) : mem[x] = IF x < Edge(i) THEN Byte(i, x) ELSE Zero

\* The protection of a segment's pages: its p_flags once it is mapped from the
\* file or protected, and writable while it waits to be copied.
Shielded(j) ==
  \/ fd = "file" /\ pc \in {"map", "copy", "zero"} /\ Rebased(j)
  \/ fd = "file" /\ pc \in {"loaded", "protect"}
  \/ fd = "memory" /\ pc = "protect" /\ j < i
  \/ pc = "done"

Shields ==
  \A j \in DOMAIN phdrs : Shielded(j) => \A x \in Room(j) : prot[x] = phdrs[j].p_flags

Open ==
  (pc \in {"map", "copy", "zero"} /\ fd = "memory") =>
    \A j \in DOMAIN phdrs : j >= i => \A x \in Room(j) : prot[x] = {"W"}

IInv ==
  /\ Headers /\ Reserved /\ Segments
  /\ InPlace /\ Filed /\ Blank /\ Filled
  /\ Shields /\ Open
  /\ Contained /\ Released /\ ImageProtected /\ pc # "panic"

\* The load after mmap has refused the reservation: at its first segment, with
\* nothing mapped, and with a base that is not that of a page.
Unreserved ==
  /\ Headers /\ i = 1
  /\ space.memory = MapFailed /\ space.offset \in Int /\ Aligned(space.offset)
  /\ \A x \in Addr : mem[x] = Foreign
  /\ pc \in {"map", "copy", "zero", "panic"}
  /\ pc = "map" => segments = [j \in DOMAIN phdrs |-> Piece(j, First(j) - base, FALSE)]
  /\ pc \in {"copy", "zero"} => fd = "memory" /\ seg = Piece(1, First(1), TRUE)
  /\ pc = "zero" => Edge(1) = First(1)

-----------------------------------------------------------------------------
(* Rounding to pages *)

USE ZenonT(60)

\* Division by the page size.
LEMMA Division ==
  ASSUME NEW x \in Int
  PROVE  /\ x \div PAGE \in Int /\ x % PAGE \in 0 .. (PAGE - 1)
         /\ x % PAGE = x - (x \div PAGE) * PAGE
<1>1. x \div PAGE \in Int /\ x % PAGE \in 0 .. (PAGE - 1)
  BY SMTT(30), SegmentMapAssumption
<1>2. x % PAGE = x - (x \div PAGE) * PAGE
  BY SMTT(30), SegmentMapAssumption
<1> QED
  BY <1>1, <1>2

\* The multiples of the page size are the aligned addresses.
LEMMA Multiple ==
  ASSUME NEW q \in Int
  PROVE  q * PAGE \in Int /\ Aligned(q * PAGE)
BY SMTT(30), SegmentMapAssumption DEF Aligned

\* Two aligned addresses that differ are a page apart.
LEMMA PageApart ==
  ASSUME NEW a \in Int, NEW b \in Int, Aligned(a), Aligned(b), a < b
  PROVE  a + PAGE <= b
<1>1. a = (a \div PAGE) * PAGE /\ b = (b \div PAGE) * PAGE
  BY SMTT(30), Division, SegmentMapAssumption DEF Aligned
<1>2. a \div PAGE \in Int /\ b \div PAGE \in Int
  BY Division
<1>3. ASSUME NEW q \in Int, NEW r \in Int, q * PAGE < r * PAGE
      PROVE  q * PAGE + PAGE <= r * PAGE
  BY SMTT(30), <1>3, SegmentMapAssumption
<1> QED
  BY <1>1, <1>2, <1>3

\* Sums and differences of aligned addresses are aligned.
LEMMA AlignedSum ==
  ASSUME NEW a \in Int, NEW b \in Int, Aligned(a), Aligned(b)
  PROVE  Aligned(a + b) /\ Aligned(a - b)
<1>1. a = (a \div PAGE) * PAGE /\ b = (b \div PAGE) * PAGE
  BY SMTT(30), Division, SegmentMapAssumption DEF Aligned
<1>2. a \div PAGE \in Int /\ b \div PAGE \in Int
  BY Division
<1>3. ASSUME NEW q \in Int, NEW r \in Int
      PROVE  /\ q * PAGE + r * PAGE = (q + r) * PAGE
             /\ q * PAGE - r * PAGE = (q - r) * PAGE
  BY SMTT(30), SegmentMapAssumption
<1>4. ASSUME NEW q \in Int, NEW r \in Int
      PROVE  Aligned(q * PAGE + r * PAGE) /\ Aligned(q * PAGE - r * PAGE)
  <2>1. q + r \in Int /\ q - r \in Int
    BY SMTT(30)
  <2>2. Aligned((q + r) * PAGE) /\ Aligned((q - r) * PAGE)
    BY <2>1, Multiple
  <2> QED
    BY <2>2, <1>3
<1> QED
  BY <1>1, <1>2, <1>4

\* rounddown: the last page boundary up to x.
LEMMA RoundsDown ==
  ASSUME NEW x \in Int
  PROVE  /\ rounddown(x, PAGE) \in Int /\ Aligned(rounddown(x, PAGE))
         /\ rounddown(x, PAGE) <= x /\ x < rounddown(x, PAGE) + PAGE
         /\ x % PAGE = x - rounddown(x, PAGE)
<1>1. x \div PAGE \in Int
  BY Division
<1>2. rounddown(x, PAGE) \in Int /\ Aligned(rounddown(x, PAGE))
  BY <1>1, Multiple DEF rounddown
<1>3. x % PAGE \in 0 .. (PAGE - 1) /\ x % PAGE = x - rounddown(x, PAGE)
  BY Division DEF rounddown
<1> QED
  BY SMTT(30), <1>2, <1>3, SegmentMapAssumption

\* roundup: the first page boundary from x on.
LEMMA RoundsUp ==
  ASSUME NEW x \in Int
  PROVE  /\ roundup(x, PAGE) \in Int /\ Aligned(roundup(x, PAGE))
         /\ x <= roundup(x, PAGE) /\ roundup(x, PAGE) < x + PAGE
<1>1. PAGE # 0 /\ x + PAGE - 1 \in Int
  BY SMTT(30), SegmentMapAssumption
<1>2. roundup(x, PAGE) = rounddown(x + PAGE - 1, PAGE)
  BY <1>1 DEF roundup, rounddown
<1> DEFINE y == x + PAGE - 1
           r == rounddown(y, PAGE)
<1>3. r \in Int /\ Aligned(r) /\ r <= y /\ y < r + PAGE
  BY <1>1, RoundsDown
<1> HIDE DEF r
<1>4. x <= r /\ r < x + PAGE
  BY SMTT(30), <1>3, SegmentMapAssumption
<1> QED
  BY <1>2, <1>3, <1>4 DEF r

\* Rounding does not cross a page boundary.
LEMMA RoundsWithin ==
  ASSUME NEW x \in Int, NEW a \in Int, Aligned(a)
  PROVE  /\ a <= x => a <= rounddown(x, PAGE)
         /\ x <= a => roundup(x, PAGE) <= a
<1>1. a <= x => a <= rounddown(x, PAGE)
  BY SMTT(30), RoundsDown, PageApart, SegmentMapAssumption
<1>2. x <= a => roundup(x, PAGE) <= a
  BY SMTT(30), RoundsUp, PageApart, SegmentMapAssumption
<1> QED
  BY <1>1, <1>2

\* What is aligned is not rounded, and an aligned part is left out of rounding.
LEMMA RoundsRest ==
  ASSUME NEW x \in Int, NEW a \in Int, Aligned(a)
  PROVE  /\ roundup(a, PAGE) = a /\ rounddown(a, PAGE) = a
         /\ roundup(a + x, PAGE) = a + roundup(x, PAGE)
         /\ rounddown(a + x, PAGE) = a + rounddown(x, PAGE)
<1>1. roundup(a, PAGE) = a /\ rounddown(a, PAGE) = a
  BY SMTT(30), RoundsUp, RoundsDown, RoundsWithin
<1>2. a + x \in Int /\ roundup(x, PAGE) \in Int /\ rounddown(x, PAGE) \in Int
  BY SMTT(30), RoundsUp, RoundsDown
<1>3. Aligned(a + roundup(x, PAGE)) /\ Aligned(a + rounddown(x, PAGE))
  BY <1>2, AlignedSum, RoundsUp, RoundsDown
<1>4. roundup(a + x, PAGE) = a + roundup(x, PAGE)
  <2> DEFINE u == roundup(x, PAGE)
             v == roundup(a + x, PAGE)
  <2>1. u \in Int /\ x <= u /\ u < x + PAGE /\ Aligned(a + u)
    BY <1>3, RoundsUp
  <2>2. v \in Int /\ a + x <= v /\ v < a + x + PAGE /\ Aligned(v)
    BY <1>2, RoundsUp
  <2> HIDE DEF u, v
  <2> HIDE DEF u, v
  <2>3. v = a + u
    BY SMTT(30), <2>1, <2>2, PageApart, SegmentMapAssumption
  <2> QED
    BY <2>3 DEF u, v
<1>5. rounddown(a + x, PAGE) = a + rounddown(x, PAGE)
  <2> DEFINE u == rounddown(x, PAGE)
             v == rounddown(a + x, PAGE)
  <2>1. u \in Int /\ u <= x /\ x < u + PAGE /\ Aligned(a + u)
    BY <1>3, RoundsDown
  <2>2. v \in Int /\ v <= a + x /\ a + x < v + PAGE /\ Aligned(v)
    BY <1>2, RoundsDown
  <2> HIDE DEF u, v
  <2> HIDE DEF u, v
  <2>3. v = a + u
    BY SMTT(30), <2>1, <2>2, PageApart, SegmentMapAssumption
  <2> QED
    BY <2>3 DEF u, v
<1> QED
  BY <1>1, <1>4, <1>5

\* Between the roundings of a range are the pages that hold a byte of it.
LEMMA SamePage ==
  ASSUME NEW a \in Int, NEW m \in Int, m > 0, NEW x \in Int
  PROVE  (x \in rounddown(a, PAGE) .. (roundup(a + m, PAGE) - 1)) <=>
           (\E y \in Span(a, m) : rounddown(y, PAGE) = rounddown(x, PAGE))
<1> DEFINE lo == rounddown(a, PAGE)
           hi == roundup(a + m, PAGE)
           t == rounddown(x, PAGE)
<1>1. a + m \in Int /\ a + m - 1 \in Int
  BY SMTT(30)
<1>2. lo \in Int /\ Aligned(lo) /\ lo <= a
  BY RoundsDown
<1>3. hi \in Int /\ Aligned(hi) /\ a + m <= hi
  BY <1>1, RoundsUp
<1>4. t \in Int /\ Aligned(t) /\ t <= x /\ x < t + PAGE
  BY RoundsDown
<1>5. (lo <= x => lo <= t) /\ (a + m <= t => hi <= t) /\ (t <= a => t <= lo)
  BY <1>1, <1>2, <1>4, RoundsWithin
<1>6. ASSUME lo <= x, x < hi
      PROVE  \E y \in Span(a, m) : rounddown(y, PAGE) = t
  <2>1. CASE x < a
    <3>1. a \in Span(a, m) /\ t = lo
      <4> HIDE DEF lo, t, hi
      <4> QED
        BY SMTT(30), <1>2, <1>4, <1>5, <1>6, <2>1 DEF Span
    <3> QED
      BY <3>1
  <2>2. CASE a <= x /\ x < a + m
    <3>1. x \in Span(a, m)
      BY SMTT(30), <2>2 DEF Span
    <3> QED
      BY <3>1
  <2>3. CASE a + m <= x
    <3> DEFINE y == a + m - 1
               u == rounddown(y, PAGE)
    <3>1. u \in Int /\ Aligned(u) /\ u <= y
      BY <1>1, RoundsDown
    <3>2. (u <= x => u <= t) /\ (t <= y => t <= u)
      BY <1>1, <1>4, <3>1, RoundsWithin
    <3>3. u = t /\ y \in Span(a, m)
      <4> HIDE DEF lo, t, hi, u
      <4> QED
        BY SMTT(30), <1>3, <1>4, <1>5, <1>6, <2>3, <3>1, <3>2 DEF Span
    <3> QED
      BY <3>3
  <2> HIDE DEF lo, t, hi
  <2> QED
    BY SMTT(30), <1>1, <2>1, <2>2, <2>3
<1>7. ASSUME NEW y \in Span(a, m), rounddown(y, PAGE) = t
      PROVE  lo <= x /\ x < hi
  <2>1. y \in Int /\ a <= y /\ y < a + m
    BY SMTT(30) DEF Span
  <2>2. t <= y /\ (lo <= y => lo <= t)
    BY <1>2, <1>7, <2>1, RoundsDown, RoundsWithin
  <2>3. t < hi => t + PAGE <= hi
    BY <1>3, <1>4, PageApart
  <2> HIDE DEF lo, t, hi
  <2> QED
    BY SMTT(30), <1>1, <1>2, <1>3, <1>4, <2>1, <2>2, <2>3, SegmentMapAssumption
<1>8. (x \in lo .. (hi - 1)) <=> (lo <= x /\ x < hi)
  <2> HIDE DEF lo, t, hi
  <2> QED
    BY SMTT(30), <1>2, <1>3
<1> QED
  BY <1>6, <1>7, <1>8

-----------------------------------------------------------------------------
(* The extent of the headers *)

\* A set of naturals that is not empty has a smallest element.
LEMMA SmallestOf ==
  ASSUME NEW S \in SUBSET Nat, S # {}
  PROVE  \E x \in S : \A y \in S : x <= y
<1>1. PICK x \in S : \A y \in S : ~(<<y, x>> \in OpToRel(<, Nat))
  BY WFMin, NatLessThanWellFounded
<1>2. OpToRel(<, Nat) = {p \in Nat \X Nat : p[1] < p[2]}
  BY DEF OpToRel
<1>3. \A y \in S : ~(<<y, x>> \in {p \in Nat \X Nat : p[1] < p[2]})
  BY <1>1, <1>2
<1>4. ASSUME NEW y \in S PROVE x <= y
  <2>1. <<y, x>> \in Nat \X Nat /\ <<y, x>>[1] = y /\ <<y, x>>[2] = x
    OBVIOUS
  <2>2. ~(<<y, x>>[1] < <<y, x>>[2])
    BY <1>3, <2>1
  <2> QED
    BY SMTT(30), <2>1, <2>2
<1> QED
  BY <1>4

\* One of finitely many integers is the largest: if not, there would be a
\* shortest list of them without a largest one.
LEMMA LargestOf ==
  ASSUME NEW n \in Nat \ {0}, NEW f, \A j \in 1 .. n : f[j] \in Int
  PROVE  \E j \in 1 .. n : \A k \in 1 .. n : f[k] <= f[j]
<1> DEFINE HasLargest(m) == \E j \in 1 .. m : \A k \in 1 .. m : f[k] <= f[j]
           S == {m \in 1 .. n : ~HasLargest(m)}
<1>0. n \in 1 .. n /\ HasLargest(1)
  BY SMTT(30)
<1> HIDE DEF HasLargest
<1>1. SUFFICES ASSUME S # {} PROVE FALSE
  BY <1>0 DEF HasLargest
<1>2. PICK m \in S : \A y \in S : m <= y
  <2>1. S \in SUBSET Nat
    BY SMTT(30)
  <2> QED
    BY <1>1, <2>1, SmallestOf
<1>3. m \in 1 .. n /\ ~HasLargest(m) /\ m # 1
  BY <1>0
<1>4. m - 1 \in 1 .. n /\ m - 1 \notin S
  <2>1. m - 1 \in 1 .. n /\ ~(m <= m - 1)
    BY SMTT(30), <1>3
  <2> QED
    BY <1>2, <2>1
<1>5. PICK j \in 1 .. (m - 1) : \A k \in 1 .. (m - 1) : f[k] <= f[j]
  BY <1>4 DEF HasLargest
<1>6. HasLargest(m)
  <2>1. CASE f[m] <= f[j]
    <3>1. j \in 1 .. m /\ \A k \in 1 .. m : f[k] <= f[j]
      BY SMTT(30), <1>3, <1>5, <2>1
    <3> QED
      BY <3>1 DEF HasLargest
  <2>2. CASE f[j] <= f[m]
    <3>1. m \in 1 .. m /\ \A k \in 1 .. m : f[k] <= f[m]
      BY SMTT(30), <1>3, <1>5, <2>2
    <3> QED
      BY <3>1 DEF HasLargest
  <2>3. f[m] \in Int /\ f[j] \in Int
    BY SMTT(30), <1>3, <1>5
  <2> QED
    BY SMTT(30), <2>1, <2>2, <2>3
<1> QED
  BY <1>3, <1>6

\* What is known of a loadable header: its address and its offset are at the
\* same place of their pages.
LEMMA PhdrFacts ==
  ASSUME NEW p \in Phdr
  PROVE  /\ p.p_vaddr \in Nat /\ p.p_filesz \in Nat /\ p.p_memsz \in Nat /\ p.p_offset \in Nat
         /\ p.p_memsz > 0 /\ p.p_filesz <= p.p_memsz /\ p.p_offset + p.p_filesz <= FileLen
         /\ p.p_memsz > p.p_filesz => "W" \in p.p_flags
         /\ p.p_offset - rounddown(p.p_offset, PAGE) = p.p_vaddr - rounddown(p.p_vaddr, PAGE)
<1>1. /\ p.p_vaddr \in Nat /\ p.p_filesz \in Nat /\ p.p_memsz \in Nat /\ p.p_offset \in Nat
      /\ p.p_memsz > 0 /\ p.p_filesz <= p.p_memsz /\ p.p_offset + p.p_filesz <= FileLen
      /\ p.p_memsz > p.p_filesz => "W" \in p.p_flags
  <2> DEFINE sizes == {f + z : f \in Filesz, z \in Bss}
  <2>0. p \in [p_vaddr : Vaddr, p_offset : 0 .. FileLen, p_filesz : Filesz,
               p_memsz : sizes, p_flags : Flags]
    BY SMTT(30) DEF Phdr
  <2> HIDE DEF sizes
  <2>1. /\ p.p_vaddr \in Vaddr /\ p.p_offset \in 0 .. FileLen /\ p.p_filesz \in Filesz
        /\ p.p_memsz \in sizes
    BY <2>0
  <2>2. PICK f \in Filesz, z \in Bss : p.p_memsz = f + z
    BY SMTT(30), <2>1 DEF sizes
  <2>3. p.p_vaddr \in Nat /\ p.p_filesz \in Nat /\ p.p_offset \in Nat /\ f \in Nat /\ z \in Nat
    <3>1. FileLen \in Nat
      BY SegmentMapAssumption
    <3>2. p.p_vaddr \in Nat /\ p.p_filesz \in Nat /\ f \in Nat /\ z \in Nat
      BY <2>1, HeadersAssumption
    <3> QED
      BY SMTT(30), <2>1, <3>1, <3>2
  <2>4. p.p_memsz \in Nat
    BY SMTT(30), <2>2, <2>3
  <2>5. /\ p.p_memsz > 0 /\ p.p_filesz <= p.p_memsz /\ p.p_offset + p.p_filesz <= FileLen
        /\ p.p_memsz > p.p_filesz => "W" \in p.p_flags
    BY SMTT(30) DEF Phdr
  <2> QED
    BY <2>3, <2>4, <2>5
<1>2. PICK q \in Nat : p.p_offset = (q * PAGE) + (p.p_vaddr % PAGE)
  BY SMTT(30), HeadersAssumption DEF Phdr
<1> DEFINE a == q * PAGE
           r == p.p_vaddr - rounddown(p.p_vaddr, PAGE)
<1>3. a \in Int /\ Aligned(a)
  BY SMTT(30), Multiple
<1>4. p.p_vaddr % PAGE = r /\ r \in Int /\ 0 <= r /\ r < PAGE
  <2> DEFINE v == p.p_vaddr
             d == rounddown(v, PAGE)
  <2>1. v \in Int
    BY SMTT(30), <1>1
  <2>2. d \in Int /\ d <= v /\ v < d + PAGE /\ v % PAGE = v - d
    BY <2>1, RoundsDown
  <2> HIDE DEF v, d
  <2> HIDE DEF v, d
  <2>3. v % PAGE = v - d /\ v - d \in Int /\ 0 <= v - d /\ v - d < PAGE
    BY SMTT(30), <2>1, <2>2, SegmentMapAssumption
  <2> QED
    BY <2>3 DEF v, d
<1>5. p.p_offset = a + r
  BY <1>2, <1>4
<1> HIDE DEF a, r
<1> HIDE DEF a, r
<1>6. rounddown(a + r, PAGE) = a + rounddown(r, PAGE)
  BY <1>3, <1>4, RoundsRest
<1>7. rounddown(r, PAGE) = 0
  <2>1. 0 \in Int /\ Aligned(0)
    BY SMTT(30), SegmentMapAssumption DEF Aligned
  <2>2. rounddown(r, PAGE) \in Int /\ rounddown(r, PAGE) <= r /\ Aligned(rounddown(r, PAGE))
    BY <1>4, RoundsDown
  <2>3. 0 <= rounddown(r, PAGE)
    BY <1>4, <2>1, RoundsWithin
  <2> QED
    BY SMTT(30), <1>4, <2>1, <2>2, <2>3, PageApart, SegmentMapAssumption
<1>8. p.p_offset - rounddown(p.p_offset, PAGE) = r
  BY SMTT(30), <1>3, <1>4, <1>5, <1>6, <1>7
<1> QED
  BY <1>1, <1>8 DEF r

\* parse_segments: the reservation spans whole pages, those of every PT_LOAD.
LEMMA Extent ==
  ASSUME NEW n \in Nat \ {0}, phdrs \in [1 .. n -> Phdr]
  PROVE  /\ min_vaddr \in Int /\ max_vaddr \in Int /\ min_vaddr <= max_vaddr
         /\ Aligned(min_vaddr) /\ Aligned(max_vaddr)
         /\ \A j \in 1 .. n :
              /\ min_vaddr <= rounddown(phdrs[j].p_vaddr, PAGE)
              /\ roundup(phdrs[j].p_vaddr + phdrs[j].p_memsz, PAGE) <= max_vaddr
<1> DEFINE lows == {phdrs[j].p_vaddr : j \in DOMAIN phdrs}
           highs == {phdrs[j].p_vaddr + phdrs[j].p_memsz : j \in DOMAIN phdrs}
<1>1. ASSUME NEW j \in 1 .. n
      PROVE  /\ phdrs[j].p_vaddr \in Nat /\ phdrs[j].p_memsz \in Nat
             /\ phdrs[j].p_vaddr \in lows /\ phdrs[j].p_vaddr + phdrs[j].p_memsz \in highs
  BY PhdrFacts
<1>2. Min(lows) \in lows /\ \A y \in lows : Min(lows) <= y
  <2>1. lows \in SUBSET Nat /\ lows # {}
    BY SMTT(30), <1>1
  <2>2. \E x \in lows : \A y \in lows : x <= y
    BY <2>1, SmallestOf
  <2> QED
    BY <2>2 DEF Min
<1>3. Max(highs) \in highs /\ \A y \in highs : Max(highs) >= y
  <2> DEFINE f == [j \in 1 .. n |-> phdrs[j].p_vaddr + phdrs[j].p_memsz]
  <2>1. \A j \in 1 .. n : f[j] \in Int
    <3>1. \A j \in 1 .. n : phdrs[j].p_vaddr \in Nat /\ phdrs[j].p_memsz \in Nat
      BY <1>1
    <3> QED
      BY SMTT(30), <3>1
  <2>2. PICK j \in 1 .. n : \A k \in 1 .. n : f[k] <= f[j]
    BY <2>1, LargestOf
  <2>3. f[j] \in highs /\ \A y \in highs : f[j] >= y
    BY <1>1, <2>2
  <2> QED
    BY <2>3 DEF Max
<1>4. Min(lows) \in Int /\ Max(highs) \in Int
  <2>0. \A j \in 1 .. n : phdrs[j].p_vaddr \in Nat /\ phdrs[j].p_memsz \in Nat
    BY <1>1
  <2>1. lows \subseteq Int /\ highs \subseteq Int
    BY SMTT(30), <2>0
  <2> HIDE DEF lows, highs
  <2> HIDE DEF lows, highs
  <2> QED
    BY <1>2, <1>3, <2>1
<1>5. min_vaddr = rounddown(Min(lows), PAGE) /\ max_vaddr = roundup(Max(highs), PAGE)
  BY DEF min_vaddr, max_vaddr
<1> DEFINE low == Min(lows)
           high == Max(highs)
<1>6. \A j \in 1 .. n : low <= phdrs[j].p_vaddr /\ phdrs[j].p_vaddr + phdrs[j].p_memsz <= high
  BY <1>1, <1>2, <1>3, <1>4
<1>7. low \in Int /\ high \in Int
  BY <1>4
<1>8. min_vaddr = rounddown(low, PAGE) /\ max_vaddr = roundup(high, PAGE)
  BY <1>5
<1> HIDE DEF lows, highs, low, high
<1> HIDE DEF lows, highs, low, high
<1> HIDE DEF lows, highs, low, high
<1> HIDE DEF lows, highs, low, high
<1>9. /\ min_vaddr \in Int /\ max_vaddr \in Int /\ Aligned(min_vaddr) /\ Aligned(max_vaddr)
      /\ min_vaddr <= low /\ high <= max_vaddr
  BY <1>7, <1>8, RoundsDown, RoundsUp
<1>10. ASSUME NEW j \in 1 .. n
       PROVE  /\ min_vaddr <= rounddown(phdrs[j].p_vaddr, PAGE)
              /\ roundup(phdrs[j].p_vaddr + phdrs[j].p_memsz, PAGE) <= max_vaddr
              /\ phdrs[j].p_vaddr <= max_vaddr
  <2>1. /\ phdrs[j].p_vaddr \in Int /\ phdrs[j].p_vaddr + phdrs[j].p_memsz \in Int
        /\ phdrs[j].p_vaddr <= phdrs[j].p_vaddr + phdrs[j].p_memsz
    BY SMTT(30), <1>1
  <2>2. min_vaddr <= phdrs[j].p_vaddr /\ phdrs[j].p_vaddr + phdrs[j].p_memsz <= max_vaddr
    BY SMTT(30), <1>6, <1>7, <1>9, <2>1
  <2> QED
    BY SMTT(30), <1>9, <2>1, <2>2, RoundsWithin
<1>11. min_vaddr <= max_vaddr
  <2>1. 1 \in 1 .. n
    BY SMTT(30)
  <2>2. phdrs[1].p_vaddr \in Int
    BY SMTT(30), <1>1, <2>1
  <2> QED
    BY SMTT(30), <1>6, <1>7, <1>9, <1>10, <2>1, <2>2
<1> QED
  BY <1>9, <1>10, <1>11

-----------------------------------------------------------------------------
(* Where the segments are in the reservation *)

\* The headers are counted from 1, and the loops stand at one of them.
LEMMA Shape ==
  ASSUME Headers
  PROVE  \E n \in Nat \ {0} :
           /\ phdrs \in [1 .. n -> Phdr] /\ DOMAIN phdrs = 1 .. n /\ i \in 1 .. n
           /\ n <= MaxLoads
<1>1. PICK n \in 1 .. MaxLoads : phdrs \in [1 .. n -> Phdr] /\ i \in 1 .. n
  BY DEF Headers
<1>2. n \in Nat \ {0} /\ n <= MaxLoads
  BY SMTT(30), HeadersAssumption
<1> QED
  BY <1>1, <1>2

\* The base keeps pages: what is aligned in the file is aligned in memory.
LEMMA BaseAligned ==
  ASSUME Reserved, pc # "reserve"
  PROVE  base \in Int /\ Aligned(base)
<1>1. /\ space.memory \in Int /\ space.offset \in Int
      /\ Aligned(space.memory) /\ Aligned(space.offset)
  BY SMTT(30) DEF Reserved
<1>2. Aligned(space.memory - space.offset)
  BY <1>1, AlignedSum
<1> QED
  BY SMTT(30), <1>1, <1>2 DEF base

\* A segment of the image: from a page boundary to a page boundary, with the
\* bytes of the file where p_offset and p_vaddr put them.
LEMMA Placed ==
  ASSUME Headers, Reserved, pc # "reserve", NEW j \in DOMAIN phdrs
  PROVE  /\ First(j) \in Nat /\ Edge(j) \in Nat /\ Top(j) \in Nat /\ End(j) \in Nat
         /\ phdrs[j].p_vaddr \in Nat
         /\ First(j) <= base + phdrs[j].p_vaddr /\ base + phdrs[j].p_vaddr <= Edge(j)
         /\ Edge(j) <= Top(j) /\ Top(j) <= End(j) /\ base + phdrs[j].p_vaddr < Top(j)
         /\ Aligned(First(j)) /\ Aligned(End(j)) /\ roundup(Top(j), PAGE) = End(j)
         /\ space.memory <= First(j) /\ End(j) <= space.memory + space.len /\ End(j) <= Size
         /\ rounddown(phdrs[j].p_offset, PAGE) \in Nat
         /\ Aligned(rounddown(phdrs[j].p_offset, PAGE))
         /\ rounddown(phdrs[j].p_offset, PAGE) + (Edge(j) - First(j)) <= FileLen
         /\ Byte(j, base + phdrs[j].p_vaddr) = phdrs[j].p_offset
<1> DEFINE v == phdrs[j].p_vaddr
           f == phdrs[j].p_filesz
           m == phdrs[j].p_memsz
           o == phdrs[j].p_offset
           lo == rounddown(v, PAGE)
           hi == roundup(v + m, PAGE)
           off == rounddown(o, PAGE)
<1>1. phdrs[j] \in Phdr
  BY Shape
<1>2. /\ v \in Nat /\ f \in Nat /\ m \in Nat /\ o \in Nat
      /\ m > 0 /\ f <= m /\ o + f <= FileLen /\ o - off = v - lo
  BY <1>1, PhdrFacts
<1>3. base \in Int /\ Aligned(base)
  BY BaseAligned
<1>4. lo \in Int /\ Aligned(lo) /\ lo <= v /\ hi \in Int /\ Aligned(hi) /\ v + m <= hi
  BY SMTT(30), <1>2, RoundsDown, RoundsUp
<1>5. off \in Int /\ Aligned(off) /\ 0 <= off
  <2>1. 0 \in Int /\ Aligned(0) /\ 0 <= o /\ o \in Int
    BY SMTT(30), <1>2, SegmentMapAssumption DEF Aligned
  <2> QED
    BY <2>1, RoundsDown, RoundsWithin
<1>6. Aligned(base + lo) /\ Aligned(base + hi)
  BY <1>3, <1>4, AlignedSum
<1>7. roundup(base + (v + m), PAGE) = base + hi
  <2>1. v + m \in Int
    BY SMTT(30), <1>2
  <2> QED
    BY <1>3, <2>1, RoundsRest
<1>8. /\ space.memory \in Nat /\ space.len \in Nat /\ space.memory + space.len <= Size
      /\ space.memory <= base + lo /\ base + hi <= space.memory + space.len
  BY DEF Reserved, First, End
<1>9. FileLen \in Nat /\ Size \in Nat
  BY SegmentMapAssumption
<1>10. /\ First(j) = base + lo /\ Edge(j) = base + v + f /\ Top(j) = base + v + m
       /\ End(j) = base + hi /\ Byte(j, base + v) = off + (base + v) - (base + lo)
  BY DEF First, Edge, Top, End, Byte
<1> HIDE DEF v, f, m, o, lo, hi, off
<1> HIDE DEF v, f, m, o, lo, hi, off
<1> HIDE DEF v, f, m, o, lo, hi, off
<1> HIDE DEF v, f, m, o, lo, hi, off
<1> HIDE DEF v, f, m, o, lo, hi, off
<1> HIDE DEF v, f, m, o, lo, hi, off
<1> HIDE DEF v, f, m, o, lo, hi, off
<1>11. base + v + m = base + (v + m)
  BY SMTT(30), <1>2, <1>3
<1>12. /\ base + lo \in Nat /\ base + v + f \in Nat /\ base + v + m \in Nat /\ base + hi \in Nat
       /\ base + lo <= base + v /\ base + v <= base + v + f /\ base + v + f <= base + v + m
       /\ base + v + m <= base + hi /\ base + v < base + v + m /\ base + hi <= Size
       /\ off \in Nat /\ off + ((base + v + f) - (base + lo)) <= FileLen
       /\ off + (base + v) - (base + lo) = o
  BY SMTT(30), <1>2, <1>3, <1>4, <1>5, <1>8, <1>9
<1> QED
  BY <1>2, <1>5, <1>6, <1>7, <1>8, <1>10, <1>11, <1>12 DEF v, o, off

\* The pages of a segment are in the reservation, and of no other segment.
LEMMA RoomApart ==
  ASSUME Headers, Reserved, pc # "reserve", NEW j \in DOMAIN phdrs, NEW x \in Room(j)
  PROVE  /\ x \in Nat /\ x \in Addr /\ x \in Span(space.memory, space.len)
         /\ \A k \in DOMAIN phdrs : k # j => x \notin Room(k)
<1>1. x \in Int /\ First(j) <= x /\ x < End(j) /\ First(j) \in Nat /\ End(j) \in Nat
  BY SMTT(30), Placed DEF Room
<1>2. space.memory \in Nat /\ space.len \in Nat /\ Size \in Nat /\ base \in Int
  BY SegmentMapAssumption, BaseAligned DEF Reserved
<1>3. x \in Nat /\ x \in Addr /\ x \in Span(space.memory, space.len)
  BY SMTT(30), <1>1, <1>2, Placed DEF Addr, Span
<1>4. ASSUME NEW k \in DOMAIN phdrs, x \in Room(k) PROVE x - base \in Pages(phdrs[k])
  <2> DEFINE lo == rounddown(phdrs[k].p_vaddr, PAGE)
             hi == roundup(phdrs[k].p_vaddr + phdrs[k].p_memsz, PAGE)
  <2>1. lo \in Int /\ hi \in Int
    <3>0. phdrs[k].p_vaddr \in Nat /\ phdrs[k].p_memsz \in Nat
      BY Shape, PhdrFacts
    <3>1. phdrs[k].p_vaddr \in Int /\ phdrs[k].p_vaddr + phdrs[k].p_memsz \in Int
      BY SMTT(30), <3>0
    <3> QED
      BY <3>1, RoundsDown, RoundsUp
  <2>2. x \in First(k) .. (End(k) - 1) /\ First(k) = base + lo /\ End(k) = base + hi
    BY <1>4 DEF Room, First, End
  <2>3. Pages(phdrs[k]) = lo .. (hi - 1)
    BY DEF Pages
  <2> HIDE DEF lo, hi
  <2> HIDE DEF lo, hi
  <2> QED
    BY SMTT(30), <1>2, <2>1, <2>2, <2>3
<1>5. \A k \in DOMAIN phdrs : k # j => Pages(phdrs[j]) \cap Pages(phdrs[k]) = {}
  BY DEF Headers
<1> QED
  BY <1>3, <1>4, <1>5

\* The addresses of the segments depend on the headers and on the reservation.
LEMMA SamePlace ==
  ASSUME UNCHANGED <<phdrs, space>>
  PROVE  /\ base' = base
         /\ \A j : /\ First(j)' = First(j) /\ Edge(j)' = Edge(j) /\ Top(j)' = Top(j)
                   /\ End(j)' = End(j) /\ Room(j)' = Room(j)
                   /\ \A x : Byte(j, x)' = Byte(j, x)
BY DEF base, First, Edge, Top, End, Room, Byte

\* The segment the loops are at.
LEMMA SegmentIs ==
  ASSUME Headers, Segments, pc \in Running
  PROVE  /\ segments = [j \in DOMAIN phdrs |-> SegmentAt(j)] /\ seg = SegmentAt(i)
         /\ i \in DOMAIN phdrs
<1>1. i \in DOMAIN phdrs
  BY Shape
<1> QED
  BY <1>1 DEF Segments, seg

-----------------------------------------------------------------------------
(* Every step preserves the invariant *)

\* A step that keeps the reservation and the headers keeps where they are.
LEMMA StillReserved ==
  ASSUME Headers, Reserved, pc # "reserve", pc' # "reserve", UNCHANGED <<phdrs, space>>
  PROVE  Reserved'
<1>1. base' = base /\ \A j : First(j)' = First(j) /\ End(j)' = End(j)
  BY SamePlace
<1> QED
  BY <1>1 DEF Reserved, Aligned

\* munmap: the whole reservation goes, and nothing else.
LEMMA DropStep ==
  ASSUME IInv, pc # "reserve", NEW to \in {"failed", "dropped"}, munmap(to),
         UNCHANGED <<phdrs, gnu_relro>>
  PROVE  IInv'
<1>1. space.memory % PAGE = 0
  BY DEF IInv, Reserved, Aligned
<1>2. pc' = to /\ UNCHANGED <<fd, segments, i, space>>
  BY <1>1 DEF munmap
<1>3. Headers'
  BY <1>2 DEF IInv, Headers
<1>4. Reserved'
  BY <1>2, StillReserved DEF IInv
<1>5. Contained'
  BY <1>1, <1>2 DEF IInv, Contained, munmap
<1>6. Released'
  BY <1>1 DEF IInv, Contained, Released, munmap
<1>7. /\ Segments' /\ InPlace' /\ Filed' /\ Blank' /\ Filled' /\ Shields' /\ Open'
      /\ ImageProtected' /\ (pc # "panic")'
  BY <1>2
     DEF Segments, InPlace, Filed, Blank, Filled, Shields, Open, ImageProtected, Loaded,
         Shielded, Running, After
<1> QED
  BY <1>3, <1>4, <1>5, <1>6, <1>7 DEF IInv

\* start_protect: the loops begin again at the first segment.
LEMMA StartProtectStep ==
  ASSUME IInv, start_protect
  PROVE  IInv'
<1>1. Headers'
  BY DEF IInv, Headers, start_protect
<1>2. Reserved'
  BY StillReserved DEF IInv, start_protect
<1>3. /\ base' = base
      /\ \A j : /\ First(j)' = First(j) /\ Edge(j)' = Edge(j) /\ Top(j)' = Top(j)
                /\ End(j)' = End(j) /\ Room(j)' = Room(j)
                /\ \A x : Byte(j, x)' = Byte(j, x)
  BY SamePlace DEF start_protect
<1>4. \A j : SegmentAt(j)' = SegmentAt(j)
  BY <1>3 DEF SegmentAt, Piece, Rebased, After, start_protect
<1>5. Segments'
  BY <1>4 DEF IInv, Segments, Running, After, start_protect
<1>6. InPlace'
  BY <1>3 DEF IInv, InPlace, Loaded, After, start_protect
<1>7. Shields'
  BY SMTT(30), <1>3, Shape DEF IInv, Shields, Shielded, Headers, start_protect
<1>8. /\ Filed' /\ Blank' /\ Filled' /\ Open' /\ Released' /\ ImageProtected'
      /\ (pc # "panic")'
  BY DEF Filed, Blank, Filled, Open, Released, ImageProtected, start_protect
<1>9. Contained'
  BY DEF IInv, Contained, start_protect
<1> QED
  BY <1>1, <1>2, <1>5, <1>6, <1>7, <1>8, <1>9 DEF IInv

\* Pages and Room are the pages of a segment, in the file's addresses and in
\* those of the image.
LEMMA PagesInRoom ==
  ASSUME Headers, Reserved, pc # "reserve", NEW j \in DOMAIN phdrs, NEW x \in Pages(phdrs[j])
  PROVE  x \in Int /\ base + x \in Room(j)
<1> DEFINE lo == rounddown(phdrs[j].p_vaddr, PAGE)
           hi == roundup(phdrs[j].p_vaddr + phdrs[j].p_memsz, PAGE)
<1>1. lo \in Int /\ hi \in Int
  <2>0. phdrs[j].p_vaddr \in Nat /\ phdrs[j].p_memsz \in Nat
    BY Shape, PhdrFacts
  <2>1. phdrs[j].p_vaddr \in Int /\ phdrs[j].p_vaddr + phdrs[j].p_memsz \in Int
    BY SMTT(30), <2>0
  <2> QED
    BY <2>1, RoundsDown, RoundsUp
<1>2. /\ x \in lo .. (hi - 1) /\ First(j) = base + lo /\ End(j) = base + hi
      /\ Room(j) = First(j) .. (End(j) - 1)
  BY DEF Pages, First, End, Room
<1>3. base \in Int
  BY BaseAligned
<1> HIDE DEF lo, hi
<1> HIDE DEF lo, hi
<1> QED
  BY SMTT(30), <1>1, <1>2, <1>3

\* Mapping or protecting a whole segment is done to its pages.
LEMMA RoomIsSpan ==
  ASSUME Headers, Reserved, pc # "reserve", NEW j \in DOMAIN phdrs
  PROVE  Span(First(j), roundup(End(j) - First(j), PAGE)) = Room(j)
<1>0. First(j) \in Nat /\ End(j) \in Nat /\ Aligned(First(j)) /\ Aligned(End(j))
  BY Placed
<1>1. First(j) \in Int /\ End(j) \in Int /\ Aligned(First(j)) /\ Aligned(End(j))
  BY SMTT(30), <1>0
<1>2. Aligned(End(j) - First(j)) /\ End(j) - First(j) \in Int
  <2>1. Aligned(End(j) - First(j))
    BY <1>1, AlignedSum
  <2> QED
    BY SMTT(30), <1>1, <2>1
<1>3. roundup(End(j) - First(j), PAGE) = End(j) - First(j)
  BY <1>2, RoundsRest
<1>4. First(j) + (End(j) - First(j)) - 1 = End(j) - 1
  BY SMTT(30), <1>1
<1> QED
  BY <1>3, <1>4 DEF Span, Room

\* The loops go from one segment to the next, and from the last one on.
LEMMA Advances ==
  ASSUME Headers, Segments, pc \in Running,
         NEW step, NEW after, step \in {"map", "protect"}, after # "reserve",
         Advance(step, after), UNCHANGED <<fd, segments, phdrs, gnu_relro>>
  PROVE  /\ Headers'
         /\ \/ pc' = step /\ i' = i + 1 /\ i' \in DOMAIN phdrs
            \/ pc' = after /\ i' = 1 /\ \A j \in DOMAIN phdrs : j <= i
         /\ i \in Nat /\ \A j \in DOMAIN phdrs : j \in Nat
<1>1. PICK n \in Nat \ {0} :
        phdrs \in [1 .. n -> Phdr] /\ DOMAIN phdrs = 1 .. n /\ i \in 1 .. n /\ n <= MaxLoads
  BY Shape
<1>2. segments = [j \in 1 .. n |-> SegmentAt(j)]
  BY <1>1, SegmentIs
<1>3. Len(segments) = n
  BY SMTT(30), <1>2
<1>4. \/ pc' = step /\ i' = i + 1 /\ i' \in 1 .. n
      \/ pc' = after /\ i' = 1 /\ i = n
  BY SMTT(30), <1>1, <1>3 DEF Advance
<1>5. i' \in 1 .. n /\ n \in 1 .. MaxLoads
  BY SMTT(30), <1>1, <1>4, HeadersAssumption
<1>6. pc' \in {"reserve", "loaded"} => i' = 1
  BY <1>4
<1>7. Headers'
  BY <1>1, <1>5, <1>6 DEF Headers
<1> QED
  BY SMTT(30), <1>1, <1>4, <1>7

\* mprotect: what was copied gets its p_flags, the rest has them.
LEMMA ProtectStep ==
  ASSUME IInv, mprotect, UNCHANGED <<phdrs, gnu_relro>>
  PROVE  IInv'
<1>1. /\ pc = "protect" /\ pc \in Running /\ pc # "reserve" /\ UNCHANGED <<fd, segments, space, mem>>
      /\ Headers /\ Reserved /\ Segments
  BY DEF mprotect, IInv, Running, After
<1>2. /\ Headers'
      /\ \/ pc' = "protect" /\ i' = i + 1 /\ i' \in DOMAIN phdrs
         \/ pc' = "done" /\ i' = 1 /\ \A j \in DOMAIN phdrs : j <= i
      /\ i \in Nat /\ \A j \in DOMAIN phdrs : j \in Nat
  BY SMTT(30), <1>1, Advances DEF mprotect
<1>3. Reserved'
  BY <1>1, <1>2, StillReserved
<1>4. /\ base' = base
      /\ \A j : /\ First(j)' = First(j) /\ Edge(j)' = Edge(j) /\ Top(j)' = Top(j)
                /\ End(j)' = End(j) /\ Room(j)' = Room(j)
                /\ \A x : Byte(j, x)' = Byte(j, x)
  BY <1>1, SamePlace
<1>5. Segments'
  <2>1. \A j : SegmentAt(j)' = SegmentAt(j)
    BY <1>1, <1>2, <1>4 DEF SegmentAt, Piece, Rebased, After
  <2> QED
    BY <1>1, <2>1 DEF Segments, Running, After
<1>6. InPlace'
  BY <1>1, <1>2, <1>4 DEF IInv, InPlace, Loaded, After
<1>7. Shields'
  <2>1. seg = SegmentAt(i) /\ i \in DOMAIN phdrs
    BY <1>1, SegmentIs
  <2>2. /\ seg.addr = First(i) /\ seg.len = End(i) - First(i) /\ seg.prot = phdrs[i].p_flags
        /\ seg.need_copy = (fd = "memory") /\ seg.from_relocatable = FALSE
    BY <1>1, <2>1 DEF SegmentAt, Piece, Rebased, After
  <2>3. CASE fd = "file"
    <3>1. prot' = prot
      BY <2>2, <2>3 DEF mprotect
    <3> QED
      BY <1>1, <1>2, <1>4, <2>3, <3>1 DEF IInv, Shields, Shielded
  <2>4. CASE fd = "memory"
    <3>1. prot' = [x \in Addr |-> IF x \in Room(i) THEN phdrs[i].p_flags ELSE prot[x]]
      <4>1. Protected(First(i), End(i) - First(i), phdrs[i].p_flags)
        BY <2>2, <2>4 DEF mprotect
      <4> QED
        BY <1>1, <2>1, <4>1, RoomIsSpan DEF Protected
    <3>2. ASSUME NEW j \in DOMAIN phdrs, j <= i, NEW x \in Room(j)
          PROVE  prot'[x] = phdrs[j].p_flags
      <4>1. x \in Addr /\ \A k \in DOMAIN phdrs : k # j => x \notin Room(k)
        BY <1>1, RoomApart
      <4>2. j = i \/ j < i
        BY SMTT(30), <1>2, <3>2
      <4>3. CASE j = i
        BY <3>1, <3>2, <4>1, <4>3
      <4>4. CASE j < i
        <5>1. Shielded(j) /\ j # i
          BY SMTT(30), <1>1, <1>2, <2>4, <4>4 DEF Shielded
        <5>2. prot[x] = phdrs[j].p_flags
          BY <5>1 DEF IInv, Shields
        <5> QED
          BY <2>1, <3>1, <4>1, <5>1, <5>2
      <4> QED
        BY <4>2, <4>3, <4>4
    <3>3. \A j \in DOMAIN phdrs : Shielded(j)' => j <= i
      BY SMTT(30), <1>1, <1>2, <2>4 DEF Shielded
    <3> QED
      BY <1>1, <1>4, <3>2, <3>3 DEF Shields
  <2> QED
    BY <1>1, <2>3, <2>4 DEF Headers
<1>8. Filed' /\ Blank' /\ Filled' /\ Open' /\ Released' /\ (pc # "panic")'
  BY <1>2 DEF Filed, Blank, Filled, Open, Released
<1>9. Contained'
  BY <1>1 DEF IInv, Contained
<1>10. ImageProtected'
  <2>1. SUFFICES ASSUME pc' = "done", NEW j \in DOMAIN phdrs, NEW x \in Pages(phdrs[j])
                 PROVE  prot'[base + x] = phdrs[j].p_flags
    BY <1>2, <1>4 DEF ImageProtected, Pages
  <2>2. base + x \in Room(j)
    BY <1>1, PagesInRoom
  <2> QED
    BY <1>4, <1>7, <2>1, <2>2 DEF Shields, Shielded
<1> QED
  BY <1>2, <1>3, <1>5, <1>6, <1>7, <1>8, <1>9, <1>10 DEF IInv

\* What is to be read-only is a part of its segment.
LEMMA RelroPlace ==
  ASSUME NEW p, NEW r \in Relros(p)
  PROVE  /\ r.p_vaddr \in p.p_vaddr .. ((p.p_vaddr + p.p_memsz) - 1)
         /\ r.p_memsz \in 1 .. p.p_memsz
<1> DEFINE S == p.p_vaddr .. ((p.p_vaddr + p.p_memsz) - 1)
           T == 1 .. p.p_memsz
<1>1. r \in [p_vaddr : S, p_memsz : T]
  BY DEF Relros
<1> HIDE DEF S, T
<1>2. r.p_vaddr \in S /\ r.p_memsz \in T
  BY SMTT(30), <1>1
<1> QED
  BY <1>2 DEF S, T

\* relro: the pages that hold a byte of PT_GNU_RELRO.
LEMMA RelroStep ==
  ASSUME IInv, relro
  PROVE  IInv'
<1>1. /\ pc = "done" /\ pc' = "sealed" /\ pc # "reserve" /\ pc \in Running
      /\ UNCHANGED <<fd, segments, i, space, mem, phdrs, gnu_relro>>
      /\ gnu_relro.p_memsz > 0 /\ Headers /\ Reserved /\ Segments
  BY DEF relro, IInv, Running, After
<1>2. Headers'
  BY <1>1 DEF Headers
<1>3. Reserved'
  BY <1>1, StillReserved
<1>4. /\ base' = base
      /\ \A j : /\ First(j)' = First(j) /\ Edge(j)' = Edge(j) /\ Top(j)' = Top(j)
                /\ End(j)' = End(j) /\ Room(j)' = Room(j)
                /\ \A x : Byte(j, x)' = Byte(j, x)
  BY <1>1, SamePlace
<1>5. Segments'
  <2>1. \A j : SegmentAt(j)' = SegmentAt(j)
    BY <1>1, <1>4 DEF SegmentAt, Piece, Rebased, After
  <2> QED
    BY <1>1, <2>1 DEF Segments, Running, After
<1>6. InPlace'
  BY <1>1, <1>4 DEF IInv, InPlace, Loaded, After
<1>7. Shields' /\ Filed' /\ Blank' /\ Filled' /\ Open' /\ Released' /\ (pc # "panic")'
  BY <1>1 DEF Shields, Shielded, Filed, Blank, Filled, Open, Released
<1>8. Contained'
  BY <1>1 DEF IInv, Contained
<1>9. PICK k \in DOMAIN phdrs : gnu_relro \in Relros(phdrs[k])
  BY <1>1 DEF Headers
<1> DEFINE a == gnu_relro.p_vaddr
           m == gnu_relro.p_memsz
<1>10. a \in Int /\ m \in Int /\ m > 0
  <2>1. phdrs[k].p_vaddr \in Nat /\ phdrs[k].p_memsz \in Nat
    BY <1>1, Shape, PhdrFacts
  <2>2. a \in phdrs[k].p_vaddr .. ((phdrs[k].p_vaddr + phdrs[k].p_memsz) - 1)
        /\ m \in 1 .. phdrs[k].p_memsz
    BY <1>9, RelroPlace
  <2> QED
    BY SMTT(30), <2>1, <2>2
<1>11. base \in Int /\ Aligned(base)
  BY <1>1, BaseAligned
<1> DEFINE lo == rounddown(a, PAGE)
           hi == roundup(a + m, PAGE)
<1>12. lo \in Int /\ Aligned(lo) /\ hi \in Int /\ Aligned(hi) /\ a + m \in Int
  <2>1. a + m \in Int
    BY SMTT(30), <1>10
  <2> QED
    BY <1>10, <2>1, RoundsDown, RoundsUp
<1>13. prot' = [x \in Addr |-> IF x \in (base + lo) .. (base + (hi - 1)) THEN {"R"} ELSE prot[x]]
  <2> DEFINE start == rounddown(base + a, PAGE)
             end == roundup((base + a) + m, PAGE)
  <2>1. Protected(start, end - start, {"R"})
    BY DEF relro
  <2>2. start = base + lo
    BY <1>10, <1>11, RoundsRest
  <2>3. end = base + hi
    <3>1. (base + a) + m = base + (a + m)
      <4> HIDE DEF a, m
      <4> QED
        BY SMTT(30), <1>10, <1>11
    <3>2. roundup(base + (a + m), PAGE) = base + hi
      BY <1>11, <1>12, RoundsRest
    <3> QED
      BY <3>1, <3>2
  <2> HIDE DEF start, end, lo, hi
  <2>4. roundup(end - start, PAGE) = end - start /\ end - start = hi - lo
    <3>1. end - start = hi - lo /\ hi - lo \in Int
      BY SMTT(30), <1>11, <1>12, <2>2, <2>3
    <3>2. Aligned(hi - lo)
      BY <1>12, AlignedSum
    <3> QED
      BY <3>1, <3>2, RoundsRest
  <2>5. Span(start, roundup(end - start, PAGE)) = (base + lo) .. (base + (hi - 1))
    <3>1. start + (end - start) - 1 = base + (hi - 1)
      BY SMTT(30), <1>11, <1>12, <2>2, <2>3
    <3> QED
      BY <2>2, <2>4, <3>1 DEF Span
  <2> QED
    BY <2>1, <2>5 DEF Protected
<1>14. ImageProtected'
  <2>1. SUFFICES ASSUME NEW j \in DOMAIN phdrs, NEW x \in Pages(phdrs[j])
                 PROVE  prot'[base + x] =
                          IF \E y \in Span(a, m) : rounddown(y, PAGE) = rounddown(x, PAGE)
                          THEN {"R"} ELSE phdrs[j].p_flags
    BY ZenonT(180), <1>1, <1>4 DEF ImageProtected, Pages
  <2>2. x \in Int /\ base + x \in Room(j)
    BY <1>1, PagesInRoom
  <2>3. base + x \in Addr
    BY <1>1, <2>2, RoomApart
  <2>4. prot[base + x] = phdrs[j].p_flags
    BY <1>1, <2>2 DEF IInv, Shields, Shielded
  <2>5. (base + x \in (base + lo) .. (base + (hi - 1))) <=> (x \in lo .. (hi - 1))
    <3> HIDE DEF lo, hi
    <3> QED
      BY SMTT(30), <1>11, <1>12, <2>2
  <2>6. (x \in lo .. (hi - 1)) <=>
          (\E y \in Span(a, m) : rounddown(y, PAGE) = rounddown(x, PAGE))
    BY ZenonT(180), <1>10, <2>2, SamePage
  <2> QED
    BY <1>13, <2>3, <2>4, <2>5, <2>6
<1> QED
  BY <1>2, <1>3, <1>5, <1>6, <1>7, <1>8, <1>14 DEF IInv

\* create_segment makes the segment that the header describes.
LEMMA CreatesSegment ==
  ASSUME NEW p \in Phdr, NEW b \in Int
  PROVE  LET first == b + rounddown(p.p_vaddr, PAGE)
             edge == b + p.p_vaddr + p.p_filesz
             top == b + p.p_vaddr + p.p_memsz
             end == b + roundup(p.p_vaddr + p.p_memsz, PAGE)
         IN  create_segment(p) =
               [addr |-> first - b, prot |-> p.p_flags, len |-> end - first,
                content_size |-> edge - first, zero_size |-> top - edge,
                map_info |-> <<[start |-> 0, filesz |-> edge - first,
                                offset |-> rounddown(p.p_offset, PAGE)]>>,
                need_copy |-> FALSE, from_relocatable |-> FALSE]
<1> DEFINE v == p.p_vaddr
           f == p.p_filesz
           m == p.p_memsz
           o == p.p_offset
           lo == rounddown(v, PAGE)
           hi == roundup(v + m, PAGE)
           off == rounddown(o, PAGE)
<1>1. v \in Nat /\ f \in Nat /\ m \in Nat /\ o \in Nat /\ o - off = v - lo
  BY PhdrFacts
<1>2. lo \in Int /\ hi \in Int /\ off \in Int
  <2>1. v \in Int /\ v + m \in Int /\ o \in Int
    BY SMTT(30), <1>1
  <2> QED
    BY <2>1, RoundsDown, RoundsUp
<1>3. create_segment(p) =
        [addr |-> lo, prot |-> p.p_flags, len |-> hi - lo, content_size |-> f + (o - off),
         zero_size |-> m - f,
         map_info |-> <<[start |-> 0, filesz |-> f + (o - off), offset |-> off]>>,
         need_copy |-> FALSE, from_relocatable |-> FALSE]
  BY DEF create_segment, segment_prot
<1> HIDE DEF v, f, m, o, lo, hi, off
<1> HIDE DEF v, f, m, o, lo, hi, off
<1> HIDE DEF v, f, m, o, lo, hi, off
<1> HIDE DEF v, f, m, o, lo, hi, off
<1> HIDE DEF v, f, m, o, lo, hi, off
<1> HIDE DEF v, f, m, o, lo, hi, off
<1> HIDE DEF v, f, m, o, lo, hi, off
<1>4. /\ (b + lo) - b = lo /\ (b + hi) - (b + lo) = hi - lo
      /\ (b + v + f) - (b + lo) = f + (o - off) /\ (b + v + m) - (b + v + f) = m - f
  BY SMTT(30), <1>1, <1>2
<1> QED
  BY <1>3, <1>4 DEF v, f, m, o, lo, hi, off

\* create_space: the reservation has room for every segment.
LEMMA CreateStep ==
  ASSUME IInv, create_space, space'.memory # MapFailed
  PROVE  IInv'
<1>1. /\ pc = "reserve" /\ pc' = "map" /\ UNCHANGED <<fd, i, phdrs, gnu_relro>> /\ i = 1
      /\ Headers /\ segments' = [j \in DOMAIN phdrs |-> create_segment(phdrs[j])]
  BY DEF create_space, IInv, Headers
<1>2. PICK n \in Nat \ {0} : phdrs \in [1 .. n -> Phdr] /\ DOMAIN phdrs = 1 .. n
  BY <1>1, Shape
<1> DEFINE len == max_vaddr - min_vaddr
           p == IF fd = "file" THEN {} ELSE {"W"}
<1>3. PICK m \in Starts :
        /\ m # MapFailed /\ m + len <= Size
        /\ space' = [memory |-> m, offset |-> min_vaddr, len |-> len]
        /\ Mapped(m, len, Zero, p)
  <2>1. PICK m \in Starts :
          /\ space' = [memory |-> m, offset |-> min_vaddr, len |-> len]
          /\ IF m = MapFailed THEN UNCHANGED <<mem, prot>>
             ELSE m + len <= Size /\ Mapped(m, len, Zero, p)
    BY DEF create_space, mmap_reserve
  <2>2. m # MapFailed
    <3> HIDE DEF len
    <3> QED
      BY <2>1
  <2> QED
    BY <2>1, <2>2
<1>4. m \in Nat /\ Aligned(m)
  BY <1>3, SegmentMapAssumption DEF MapFailed, Aligned
<1>5. /\ min_vaddr \in Int /\ max_vaddr \in Int /\ min_vaddr <= max_vaddr
      /\ Aligned(min_vaddr) /\ Aligned(max_vaddr)
      /\ \A j \in 1 .. n :
           /\ min_vaddr <= rounddown(phdrs[j].p_vaddr, PAGE)
           /\ roundup(phdrs[j].p_vaddr + phdrs[j].p_memsz, PAGE) <= max_vaddr
  BY <1>2, Extent
<1>6. len \in Nat /\ Aligned(len)
  <2>1. Aligned(max_vaddr - min_vaddr)
    BY <1>5, AlignedSum
  <2> QED
    BY SMTT(30), <1>5, <2>1
<1>7. base' = m - min_vaddr /\ base' \in Int
  BY SMTT(30), <1>3, <1>4, <1>5 DEF base
<1>8. \A j \in DOMAIN phdrs :
        /\ First(j)' \in Int /\ End(j)' \in Int
        /\ m <= First(j)' /\ End(j)' <= m + len
  <2>1. SUFFICES ASSUME NEW j \in 1 .. n
                 PROVE  /\ First(j)' \in Int /\ End(j)' \in Int
                        /\ m <= First(j)' /\ End(j)' <= m + len
    BY <1>2
  <2> DEFINE lo == rounddown(phdrs[j].p_vaddr, PAGE)
             hi == roundup(phdrs[j].p_vaddr + phdrs[j].p_memsz, PAGE)
  <2>2. lo \in Int /\ hi \in Int
    <3>1. phdrs[j].p_vaddr \in Nat /\ phdrs[j].p_memsz \in Nat
      BY <1>2, PhdrFacts
    <3>2. phdrs[j].p_vaddr \in Int /\ phdrs[j].p_vaddr + phdrs[j].p_memsz \in Int
      BY SMTT(30), <3>1
    <3> QED
      BY <3>2, RoundsDown, RoundsUp
  <2>3. First(j)' = base' + lo /\ End(j)' = base' + hi
    BY <1>1 DEF First, End
  <2>4. min_vaddr <= lo /\ hi <= max_vaddr
    BY <1>5
  <2> HIDE DEF lo, hi
  <2> HIDE DEF lo, hi
  <2> QED
    BY SMTT(30), <1>4, <1>5, <1>7, <2>2, <2>3, <2>4
<1>9. Span(m, roundup(len, PAGE)) = m .. (m + len - 1)
  <2>1. roundup(len, PAGE) = len
    BY SMTT(30), <1>6, RoundsRest
  <2> QED
    BY <2>1 DEF Span
<1>10. /\ mem' = [x \in Addr |-> IF x \in m .. (m + len - 1) THEN Zero ELSE mem[x]]
       /\ prot' = [x \in Addr |-> IF x \in m .. (m + len - 1) THEN p ELSE prot[x]]
  BY <1>3, <1>9 DEF Mapped
<1> HIDE DEF len
<1>11. \A j \in DOMAIN phdrs : \A x \in Room(j)' : x \in Addr /\ x \in m .. (m + len - 1)
  BY SMTT(30), <1>3, <1>4, <1>6, <1>8, SegmentMapAssumption DEF Room, Addr
<1>12. Headers'
  BY <1>1 DEF Headers
<1>13. Reserved'
  BY <1>1, <1>3, <1>4, <1>5, <1>6, <1>8 DEF Reserved, Aligned
<1>14. Segments'
  <2>1. ASSUME NEW j \in DOMAIN phdrs PROVE create_segment(phdrs[j]) = SegmentAt(j)'
    <3>1. phdrs[j] \in Phdr /\ j \in Nat /\ ~(j < i')
      BY SMTT(30), <1>1, <1>2
    <3>2. Rebased(j)' = FALSE
      BY <1>1, <3>1 DEF Rebased, After
    <3> QED
      BY <1>1, <1>7, <3>1, <3>2, CreatesSegment DEF SegmentAt, Piece, First, Edge, Top, End
  <2> QED
    BY <1>1, <2>1 DEF Segments
<1>15. InPlace' /\ Filed' /\ Filled' /\ Shields'
  <2>1. \A j \in DOMAIN phdrs : ~(j < i')
    BY SMTT(30), <1>1, <1>2
  <2> QED
    BY <1>1, <2>1 DEF InPlace, Filed, Filled, Shields, Loaded, Shielded, Rebased, After
<1>16. Blank'
  BY <1>1, <1>10, <1>11 DEF Blank
<1>17. Open'
  BY <1>1, <1>10, <1>11 DEF Open
<1>18. Contained'
  <2>1. Span(space.memory, space.len)' = m .. (m + len - 1)
    BY <1>3 DEF Span, len
  <2>2. \A x \in Addr : mem[x] = Foreign
    <3>1. Span(space.memory, space.len) = {}
      BY SMTT(30), <1>1 DEF IInv, Reserved, NoSpace, Span
    <3> QED
      BY <3>1 DEF IInv, Contained
  <2> QED
    BY <1>10, <2>1, <2>2 DEF Contained
<1>19. Released' /\ ImageProtected' /\ (pc # "panic")'
  BY <1>1 DEF Released, ImageProtected
<1> QED
  BY <1>12, <1>13, <1>14, <1>15, <1>16, <1>17, <1>18, <1>19 DEF IInv

\* A step that writes only to the pages of the segment it is at stays in the
\* reservation and leaves the other segments alone.
LEMMA OthersKept ==
  ASSUME Headers, Reserved, Contained, pc # "reserve", i \in DOMAIN phdrs,
         UNCHANGED <<phdrs, space>>,
         \A x \in Addr : x \notin Room(i) => mem'[x] = mem[x] /\ prot'[x] = prot[x]
  PROVE  /\ Contained'
         /\ \A j \in DOMAIN phdrs :
              j # i => \A x \in Room(j) : mem'[x] = mem[x] /\ prot'[x] = prot[x]
<1>1. ASSUME NEW x \in Addr \ Span(space.memory, space.len) PROVE mem'[x] = Foreign
  <2>1. x \notin Room(i)
    BY RoomApart
  <2> QED
    BY <2>1 DEF Contained
<1>2. ASSUME NEW j \in DOMAIN phdrs, j # i, NEW x \in Room(j)
      PROVE  mem'[x] = mem[x] /\ prot'[x] = prot[x]
  <2>1. x \in Addr /\ x \notin Room(i)
    BY <1>2, RoomApart
  <2> QED
    BY <2>1
<1> QED
  BY <1>1, <1>2 DEF Contained

\* What is in place of a segment that the loop has left is in its pages.
LEMMA TopInRoom ==
  ASSUME Headers, Reserved, pc # "reserve", NEW j \in DOMAIN phdrs,
         NEW x \in First(j) .. (Top(j) - 1)
  PROVE  x \in Room(j)
BY SMTT(30), Placed DEF Room

\* What mmap_segment changes of a segment: its address, and need_copy.
Moved(r, b) == [r EXCEPT !.addr = b]

MovedToCopy(r, b) == [r EXCEPT !.addr = b, !.need_copy = TRUE]

\* A segment stays the one of its header when it is rebased.
LEMMA RebasedPiece ==
  ASSUME NEW j, NEW a, NEW b
  PROVE  /\ Moved(Piece(j, a, FALSE), b) = Piece(j, b, FALSE)
         /\ MovedToCopy(Piece(j, a, FALSE), b) = Piece(j, b, TRUE)
<1> DEFINE p == phdrs[j].p_flags
           l == End(j) - First(j)
           s == Edge(j) - First(j)
           z == Top(j) - Edge(j)
           m == <<[start |-> 0, filesz |-> Edge(j) - First(j),
                   offset |-> rounddown(phdrs[j].p_offset, PAGE)]>>
           f == FALSE
           d == TRUE
           c == FALSE
           Fields(addr, copy) ==
             [addr |-> addr, prot |-> p, len |-> l, content_size |-> s, zero_size |-> z,
              map_info |-> m, need_copy |-> copy, from_relocatable |-> f]
           r == Piece(j, a, c)
           q == [r EXCEPT !.addr = b]
<1>1. r = Fields(a, c) /\ Piece(j, b, c) = Fields(b, c) /\ Piece(j, b, d) = Fields(b, d)
  BY DEF Piece
<1> HIDE DEF p, l, s, z, m, f, c, d, r
<1> HIDE DEF p, l, s, z, m, f, c, d, r
<1> HIDE DEF p, l, s, z, m, f, c, d, r
<1> HIDE DEF p, l, s, z, m, f, c, d, r
<1> HIDE DEF p, l, s, z, m, f, c, d, r
<1> HIDE DEF p, l, s, z, m, f, c, d, r
<1> HIDE DEF p, l, s, z, m, f, c, d, r
<1> HIDE DEF p, l, s, z, m, f, c, d, r
<1> HIDE DEF p, l, s, z, m, f, c, d, r
<1>2. q = Fields(b, c)
  BY SMTT(30), <1>1
<1>3. [r EXCEPT !.addr = b, !.need_copy = d] = [q EXCEPT !.need_copy = d]
  OBVIOUS
<1> HIDE DEF q
<1>4. [q EXCEPT !.need_copy = d] = Fields(b, d)
  BY SMTT(30), <1>2
<1> HIDE DEF Fields
<1> QED
  BY <1>1, <1>2, <1>3, <1>4 DEF q, r, c, d, Moved, MovedToCopy

\* mmap_segment, from the file: the pages of the segment show the file.
LEMMA MapFileStep ==
  ASSUME IInv, mmap_segment_fd, UNCHANGED <<phdrs, gnu_relro>>
  PROVE  IInv'
<1>1. /\ pc = "map" /\ pc' = "copy" /\ pc # "reserve" /\ pc \in Running /\ fd = "file"
      /\ UNCHANGED <<fd, i, space, phdrs, gnu_relro>>
      /\ Headers /\ Reserved /\ Segments /\ Contained
  BY DEF mmap_segment_fd, IInv, Running
<1>2. PICK n \in Nat \ {0} : DOMAIN phdrs = 1 .. n /\ i \in 1 .. n
  BY <1>1, Shape
<1>3. segments = [j \in DOMAIN phdrs |-> SegmentAt(j)] /\ seg = SegmentAt(i) /\ i \in DOMAIN phdrs
  BY <1>1, SegmentIs
<1> DEFINE off == rounddown(phdrs[i].p_offset, PAGE)
<1>4. /\ seg.addr = First(i) - base /\ seg.len = End(i) - First(i) /\ seg.prot = phdrs[i].p_flags
      /\ seg.from_relocatable = FALSE /\ seg.map_info[1].offset = off
  BY SMTT(30), <1>1, <1>2, <1>3 DEF SegmentAt, Piece, Rebased, After
<1>5. base \in Int /\ First(i) \in Nat /\ off \in Nat
  BY <1>1, <1>3, Placed, BaseAligned
<1>6. base + seg.addr = First(i) /\ off # Zero
  BY SMTT(30), <1>4, <1>5 DEF Zero
<1>7. Mapped(First(i), End(i) - First(i), off, phdrs[i].p_flags)
  BY <1>4, <1>6 DEF mmap_segment_fd
<1>8. /\ mem' = [x \in Addr |-> IF x \in Room(i) THEN FileByte(Byte(i, x)) ELSE mem[x]]
      /\ prot' = [x \in Addr |-> IF x \in Room(i) THEN phdrs[i].p_flags ELSE prot[x]]
  BY <1>1, <1>3, <1>6, <1>7, RoomIsSpan DEF Mapped, Byte
<1>9. /\ Contained'
      /\ \A j \in DOMAIN phdrs :
           j # i => \A x \in Room(j) : mem'[x] = mem[x] /\ prot'[x] = prot[x]
  BY <1>1, <1>3, <1>8, OthersKept
<1>10. /\ base' = base
       /\ \A j : /\ First(j)' = First(j) /\ Edge(j)' = Edge(j) /\ Top(j)' = Top(j)
                 /\ End(j)' = End(j) /\ Room(j)' = Room(j)
                 /\ \A x : Byte(j, x)' = Byte(j, x)
  BY <1>1, SamePlace
<1>11. Headers'
  BY <1>1 DEF Headers
<1>12. Reserved'
  BY <1>1, StillReserved
<1>13. \A j \in DOMAIN phdrs : /\ Rebased(j)' <=> j <= i
                               /\ Rebased(j) <=> j < i
                               /\ Loaded(j)' <=> j < i
                               /\ Loaded(j) <=> j < i
                               /\ j \in Nat
  BY SMTT(30), <1>1, <1>2 DEF Rebased, Loaded, After
<1>14. Segments'
  <2>1. segments' = [segments EXCEPT ![i].addr = First(i)]
    BY <1>3, <1>4, <1>6 DEF mmap_segment_fd, seg
  <2>2. ASSUME NEW j \in DOMAIN phdrs PROVE segments'[j] = SegmentAt(j)'
    <3>1. CASE j = i
      <4>1. segments'[j] = [segments[j] EXCEPT !.addr = First(j)] /\ segments[j] = SegmentAt(j)
        BY <1>3, <2>1, <3>1
      <4>2. Rebased(j)' /\ ~Rebased(j)
        BY SMTT(30), <1>2, <1>13, <3>1
      <4>3. segments[j] = Piece(j, First(j) - base, FALSE)
        BY <1>1, <4>1, <4>2 DEF SegmentAt
      <4>4. SegmentAt(j)' = Piece(j, First(j), FALSE)
        <5>1. /\ (IF Rebased(j) THEN First(j) ELSE First(j) - base)' = First(j)
              /\ (Rebased(j) /\ fd = "memory")' = FALSE
          BY <1>1, <1>10, <4>2
        <5> QED
          BY <1>1, <1>10, <5>1 DEF SegmentAt, Piece
      <4>5. Moved(Piece(j, First(j) - base, FALSE), First(j)) = Piece(j, First(j), FALSE)
        BY RebasedPiece
      <4> QED
        BY <4>1, <4>3, <4>4, <4>5 DEF Moved
    <3>2. CASE j # i
      <4>1. segments'[j] = SegmentAt(j)
        BY <1>3, <2>1, <3>2
      <4>2. Rebased(j)' = Rebased(j)
        BY SMTT(30), <1>2, <1>13, <3>2 DEF Rebased
      <4>3. SegmentAt(j) = SegmentAt(j)'
        BY <1>1, <1>10, <4>2 DEF SegmentAt, Piece
      <4> QED
        BY <4>1, <4>3
    <3> QED
      BY <3>1, <3>2
  <2>3. segments' = [j \in DOMAIN phdrs |-> segments'[j]]
    BY <1>3, <2>1
  <2> QED
    BY <1>1, <2>2, <2>3 DEF Segments
<1>15. InPlace'
  <2>1. SUFFICES ASSUME NEW j \in DOMAIN phdrs, j < i, NEW x \in First(j) .. (Top(j) - 1)
                 PROVE  mem'[x] = IF x < Edge(j) THEN Byte(j, x) ELSE Zero
    BY <1>1, <1>10, <1>13 DEF InPlace
  <2>2. x \in Room(j) /\ j # i
    BY SMTT(30), <1>1, <1>2, <2>1, TopInRoom
  <2> QED
    BY <1>9, <1>13, <2>1, <2>2 DEF IInv, InPlace
<1>16. Filed'
  <2>1. \A x \in Room(i) : x \in Addr
    BY <1>1, <1>3, RoomApart
  <2>2. \A x \in Room(i) : mem'[x] = FileByte(Byte(i, x))
    BY <1>8, <2>1
  <2> QED
    BY <1>1, <1>10, <2>2 DEF Filed, FileByte
<1>17. Shields'
  <2>1. SUFFICES ASSUME NEW j \in DOMAIN phdrs, j <= i, NEW x \in Room(j)
                 PROVE  prot'[x] = phdrs[j].p_flags
    BY <1>1, <1>10, <1>13 DEF Shields, Shielded
  <2>2. CASE j = i
    <3>1. x \in Addr
      BY <1>1, RoomApart
    <3> QED
      BY <1>8, <2>2, <3>1
  <2>3. CASE j # i
    <3>1. Shielded(j)
      BY SMTT(30), <1>1, <1>2, <1>13, <2>1, <2>3 DEF Shielded
    <3> QED
      BY <1>9, <2>3, <3>1 DEF IInv, Shields
  <2> QED
    BY <2>2, <2>3
<1>18. Blank' /\ Filled' /\ Open' /\ Released' /\ ImageProtected' /\ (pc # "panic")'
  BY <1>1 DEF Blank, Filled, Open, Released, ImageProtected
<1> QED
  BY <1>9, <1>11, <1>12, <1>14, <1>15, <1>16, <1>17, <1>18 DEF IInv

\* mmap_segment, without a file: the reservation is there to be copied into.
LEMMA MapMemoryStep ==
  ASSUME IInv, mmap_segment_copy, UNCHANGED <<phdrs, gnu_relro>>
  PROVE  IInv'
<1>1. /\ pc = "map" /\ pc' = "copy" /\ pc # "reserve" /\ pc \in Running
      /\ UNCHANGED <<fd, i, space, mem, prot, phdrs, gnu_relro>>
      /\ Headers /\ Reserved /\ Segments /\ Contained
  BY DEF mmap_segment_copy, IInv, Running
<1>2. PICK n \in Nat \ {0} : DOMAIN phdrs = 1 .. n /\ i \in 1 .. n
  BY <1>1, Shape
<1>3. segments = [j \in DOMAIN phdrs |-> SegmentAt(j)] /\ seg = SegmentAt(i) /\ i \in DOMAIN phdrs
  BY <1>1, SegmentIs
<1>4. /\ seg.addr = First(i) - base
      /\ seg.map_info = <<[start |-> 0, filesz |-> Edge(i) - First(i),
                           offset |-> rounddown(phdrs[i].p_offset, PAGE)]>>
  BY SMTT(30), <1>1, <1>2, <1>3 DEF SegmentAt, Piece, Rebased, After
<1>5. fd = "memory"
  BY <1>4 DEF mmap_segment_copy
<1>6. base + seg.addr = First(i)
  <2>1. base \in Int /\ First(i) \in Nat
    BY <1>1, <1>3, Placed, BaseAligned
  <2> QED
    BY SMTT(30), <1>4, <2>1
<1>7. /\ base' = base
      /\ \A j : /\ First(j)' = First(j) /\ Edge(j)' = Edge(j) /\ Top(j)' = Top(j)
                /\ End(j)' = End(j) /\ Room(j)' = Room(j)
                /\ \A x : Byte(j, x)' = Byte(j, x)
  BY <1>1, SamePlace
<1>8. Headers'
  BY <1>1 DEF Headers
<1>9. Reserved'
  BY <1>1, StillReserved
<1>10. \A j \in DOMAIN phdrs : /\ Rebased(j)' <=> j <= i
                               /\ Rebased(j) <=> j < i
                               /\ Loaded(j)' <=> Loaded(j)
                               /\ j \in Nat
  BY SMTT(30), <1>1, <1>2 DEF Rebased, Loaded, After
<1>11. Segments'
  <2>1. segments' = [segments EXCEPT ![i].addr = First(i), ![i].need_copy = TRUE]
    BY <1>6 DEF mmap_segment_copy, seg
  <2>2. ASSUME NEW j \in DOMAIN phdrs PROVE segments'[j] = SegmentAt(j)'
    <3>1. CASE j = i
      <4>1. segments'[j] = MovedToCopy(segments[j], First(j)) /\ segments[j] = SegmentAt(j)
        BY <1>3, <2>1, <3>1 DEF MovedToCopy
      <4>2. Rebased(j)' /\ ~Rebased(j)
        BY SMTT(30), <1>2, <1>10, <3>1
      <4>3. segments[j] = Piece(j, First(j) - base, FALSE)
        BY <4>1, <4>2 DEF SegmentAt
      <4>4. SegmentAt(j)' = Piece(j, First(j), TRUE)
        <5>1. /\ (IF Rebased(j) THEN First(j) ELSE First(j) - base)' = First(j)
              /\ (Rebased(j) /\ fd = "memory")' = TRUE
          BY <1>1, <1>5, <1>7, <4>2
        <5> QED
          BY <1>1, <1>7, <5>1 DEF SegmentAt, Piece
      <4> QED
        BY <4>1, <4>3, <4>4, RebasedPiece
    <3>2. CASE j # i
      <4>1. segments'[j] = SegmentAt(j)
        BY <1>3, <2>1, <3>2
      <4>2. Rebased(j)' = Rebased(j)
        BY SMTT(30), <1>2, <1>10, <3>2 DEF Rebased
      <4>3. SegmentAt(j) = SegmentAt(j)'
        BY <1>1, <1>7, <4>2 DEF SegmentAt, Piece
      <4> QED
        BY <4>1, <4>3
    <3> QED
      BY <3>1, <3>2
  <2>3. segments' = [j \in DOMAIN phdrs |-> segments'[j]]
    BY <1>3, <2>1
  <2> QED
    BY <1>1, <2>2, <2>3 DEF Segments
<1>12. InPlace'
  BY <1>1, <1>7, <1>10 DEF IInv, InPlace
<1>13. Blank'
  BY <1>1, <1>7 DEF IInv, Blank
<1>14. Open'
  BY <1>1, <1>7 DEF IInv, Open
<1>15. Filed' /\ Filled' /\ Shields' /\ Released' /\ ImageProtected' /\ (pc # "panic")'
  BY <1>1, <1>5 DEF Filed, Filled, Shields, Shielded, Released, ImageProtected
<1>16. Contained'
  BY <1>1 DEF Contained
<1> QED
  BY <1>8, <1>9, <1>11, <1>12, <1>13, <1>14, <1>15, <1>16 DEF IInv

\* What copy_data writes when the segment has to be copied: the bytes of the
\* file, from the first page of the segment on.
LEMMA CopyWrites ==
  ASSUME Headers, Reserved, Segments, pc = "copy"
  PROVE  /\ seg.need_copy = (fd = "memory") /\ i \in DOMAIN phdrs
         /\ Copied = First(i) .. (Edge(i) - 1)
         /\ DOMAIN seg.map_info = {1} /\ Dest(seg.map_info[1]) = First(i) .. (Edge(i) - 1)
         /\ seg.map_info[1].offset = rounddown(phdrs[i].p_offset, PAGE)
         /\ seg.addr + seg.map_info[1].start = First(i)
<1>1. pc \in Running /\ pc # "reserve"
  BY DEF Running
<1>2. seg = SegmentAt(i) /\ i \in DOMAIN phdrs
  BY <1>1, SegmentIs
<1>3. Rebased(i)
  <2>1. i \in Nat
    BY SMTT(30), Shape
  <2> QED
    BY SMTT(30), <2>1 DEF Rebased
<1>4. /\ seg.addr = First(i) /\ seg.need_copy = (fd = "memory")
      /\ seg.map_info = <<[start |-> 0, filesz |-> Edge(i) - First(i),
                           offset |-> rounddown(phdrs[i].p_offset, PAGE)]>>
  BY <1>2, <1>3 DEF SegmentAt, Piece
<1>5. First(i) \in Nat /\ Edge(i) \in Nat
  BY <1>1, <1>2, Placed
<1>6. /\ DOMAIN seg.map_info = {1} /\ seg.map_info[1].start = 0
      /\ seg.map_info[1].filesz = Edge(i) - First(i)
      /\ seg.map_info[1].offset = rounddown(phdrs[i].p_offset, PAGE)
  BY SMTT(30), <1>4
<1>7. Dest(seg.map_info[1]) = First(i) .. (Edge(i) - 1)
  <2>1. First(i) + 0 = First(i) /\ First(i) + (Edge(i) - First(i)) - 1 = Edge(i) - 1
    BY SMTT(30), <1>5
  <2> QED
    BY <1>4, <1>6, <2>1 DEF Dest, Span
<1>8. Copied = First(i) .. (Edge(i) - 1)
  BY <1>6, <1>7 DEF Copied
<1> QED
  BY SMTT(30), <1>2, <1>4, <1>5, <1>6, <1>7, <1>8

\* copy_data: the segment holds the bytes of the file, and zeros after them.
LEMMA CopyStep ==
  ASSUME IInv, copy_data, UNCHANGED <<phdrs, gnu_relro>>
  PROVE  IInv'
<1>1. /\ pc = "copy" /\ pc' = "zero" /\ pc # "reserve" /\ pc \in Running
      /\ UNCHANGED <<fd, segments, i, space, prot, phdrs, gnu_relro>>
      /\ Headers /\ Reserved /\ Segments /\ Contained
  BY DEF copy_data, IInv, Running
<1>2. /\ seg.need_copy = (fd = "memory") /\ i \in DOMAIN phdrs
      /\ DOMAIN seg.map_info = {1} /\ Dest(seg.map_info[1]) = First(i) .. (Edge(i) - 1)
      /\ seg.map_info[1].offset = rounddown(phdrs[i].p_offset, PAGE)
      /\ seg.addr + seg.map_info[1].start = First(i)
  BY <1>1, CopyWrites
<1>3. fd = "file" => mem' = mem
  BY <1>2 DEF copy_data
<1>4. fd = "memory" =>
        mem' = [x \in Addr |-> IF x \in First(i) .. (Edge(i) - 1) THEN Byte(i, x) ELSE mem[x]]
  <2>1. SUFFICES ASSUME fd = "memory"
                 PROVE  mem' = [x \in Addr |-> IF x \in First(i) .. (Edge(i) - 1)
                                               THEN Byte(i, x) ELSE mem[x]]
    OBVIOUS
  <2> DEFINE last(x) == {j \in DOMAIN seg.map_info :
                           /\ x \in Dest(seg.map_info[j])
                           /\ \A k \in DOMAIN seg.map_info :
                                x \in Dest(seg.map_info[k]) => k <= j}
             info(x) == seg.map_info[CHOOSE j \in last(x) : TRUE]
             val(x) == IF last(x) = {} THEN mem[x]
                       ELSE info(x).offset + x - (seg.addr + info(x).start)
  <2>2. mem' = [x \in Addr |-> val(x)]
    BY <1>2, <2>1 DEF copy_data
  <2>3. ASSUME NEW x \in Addr
        PROVE  val(x) = IF x \in First(i) .. (Edge(i) - 1) THEN Byte(i, x) ELSE mem[x]
    <3>1. CASE x \in First(i) .. (Edge(i) - 1)
      <4>1. last(x) = {1}
        <5>1. x \in Dest(seg.map_info[1]) /\ 1 <= 1
          BY SMTT(30), <1>2, <3>1
        <5>2. \A j : j \in last(x) <=> j = 1
          BY <1>2, <5>1
        <5> HIDE DEF last
        <5> QED
          BY <5>2
      <4> HIDE DEF last
      <4>2. (CHOOSE j \in last(x) : TRUE) = 1
        <5>1. (CHOOSE j \in last(x) : TRUE) \in last(x)
          BY <4>1
        <5> QED
          BY <4>1, <5>1
      <4>3. info(x) = seg.map_info[1] /\ last(x) # {}
        BY <4>1, <4>2
      <4> HIDE DEF info
      <4> QED
        BY <1>2, <3>1, <4>3 DEF Byte
    <3>2. CASE x \notin First(i) .. (Edge(i) - 1)
      <4>1. last(x) = {}
        BY <1>2, <3>2
      <4> QED
        BY <3>2, <4>1
    <3> QED
      BY <3>1, <3>2
  <2> HIDE DEF val
  <2> QED
    BY <2>2, <2>3
<1>5. First(i) \in Nat /\ Edge(i) \in Nat /\ End(i) \in Nat /\ Edge(i) <= End(i)
  <2>1. /\ First(i) \in Nat /\ Edge(i) \in Nat /\ End(i) \in Nat /\ Top(i) \in Nat
        /\ Edge(i) <= Top(i) /\ Top(i) <= End(i)
    BY <1>1, <1>2, Placed
  <2> QED
    BY SMTT(30), <2>1
<1>6. \A x \in Addr : x \notin Room(i) => mem'[x] = mem[x] /\ prot'[x] = prot[x]
  <2>1. \A x : x \in First(i) .. (Edge(i) - 1) => x \in Room(i)
    BY SMTT(30), <1>5 DEF Room
  <2>2. fd \in {"file", "memory"}
    BY <1>1 DEF Headers
  <2> QED
    BY <1>1, <1>3, <1>4, <2>1, <2>2
<1>7. /\ Contained'
      /\ \A j \in DOMAIN phdrs :
           j # i => \A x \in Room(j) : mem'[x] = mem[x] /\ prot'[x] = prot[x]
  BY <1>1, <1>2, <1>6, OthersKept
<1>8. /\ base' = base
      /\ \A j : /\ First(j)' = First(j) /\ Edge(j)' = Edge(j) /\ Top(j)' = Top(j)
                /\ End(j)' = End(j) /\ Room(j)' = Room(j)
                /\ \A x : Byte(j, x)' = Byte(j, x)
  BY <1>1, SamePlace
<1>9. Headers'
  BY <1>1 DEF Headers
<1>10. Reserved'
  BY <1>1, StillReserved
<1>11. Segments'
  <2>1. \A j : SegmentAt(j)' = SegmentAt(j)
    BY <1>1, <1>8 DEF SegmentAt, Piece, Rebased, After
  <2> QED
    BY <1>1, <2>1 DEF Segments, Running
<1>12. i \in Nat /\ \A j \in DOMAIN phdrs : j \in Nat
  BY SMTT(30), <1>1, Shape
<1>13. InPlace'
  <2>1. SUFFICES ASSUME NEW j \in DOMAIN phdrs, j < i, NEW x \in First(j) .. (Top(j) - 1)
                 PROVE  mem'[x] = IF x < Edge(j) THEN Byte(j, x) ELSE Zero
    BY <1>1, <1>8 DEF InPlace, Loaded, After
  <2>2. x \in Room(j) /\ j # i /\ Loaded(j)
    BY SMTT(30), <1>1, <1>12, <2>1, TopInRoom DEF Loaded
  <2> QED
    BY <1>7, <2>1, <2>2 DEF IInv, InPlace
<1>14. Filed'
  BY <1>1, <1>3, <1>8 DEF IInv, Filed, FileByte
<1>15. Blank'
  <2>1. SUFFICES ASSUME fd = "memory", NEW j \in DOMAIN phdrs, j > i, NEW x \in Room(j)
                 PROVE  mem'[x] = Zero
    BY <1>1, <1>8 DEF Blank
  <2>2. mem[x] = Zero /\ j # i
    BY SMTT(30), <1>1, <1>12, <2>1 DEF IInv, Blank
  <2> QED
    BY <1>7, <2>2
<1>16. Filled'
  <2>1. SUFFICES ASSUME fd = "memory", NEW x \in Room(i)
                 PROVE  mem'[x] = IF x < Edge(i) THEN Byte(i, x) ELSE Zero
    BY <1>1, <1>8 DEF Filled
  <2>2. mem[x] = Zero
    BY <1>1, <1>2, <2>1 DEF IInv, Blank
  <2>3. x \in Addr
    BY <1>1, <1>2, RoomApart
  <2>4. x < Edge(i) <=> x \in First(i) .. (Edge(i) - 1)
    BY SMTT(30), <1>5 DEF Room
  <2> QED
    BY <1>4, <2>1, <2>2, <2>3, <2>4
<1>17. Shields'
  <2>1. \A j : Shielded(j)' => Shielded(j)
    BY <1>1 DEF Shielded, Rebased, After
  <2> QED
    BY <1>1, <1>8, <2>1 DEF IInv, Shields
<1>18. Open'
  BY <1>1, <1>8 DEF IInv, Open
<1>19. Released' /\ ImageProtected' /\ (pc # "panic")'
  BY <1>1 DEF Released, ImageProtected
<1> QED
  BY <1>7, <1>9, <1>10, <1>11, <1>13, <1>14, <1>15, <1>16, <1>17, <1>18, <1>19 DEF IInv

\* What fill_zero clears: from the edge of the file's bytes to the end of their
\* page, and the pages after it.
LEMMA ZeroWrites ==
  ASSUME Headers, Reserved, Segments, pc = "zero"
  PROVE  /\ i \in DOMAIN phdrs /\ zero_start = Edge(i) /\ seg.zero_size = Top(i) - Edge(i)
         /\ seg.from_relocatable = FALSE /\ seg.prot = phdrs[i].p_flags
         /\ zero_end \in Nat /\ Edge(i) <= zero_end /\ zero_end <= End(i)
         /\ zero_end < Edge(i) + PAGE /\ Aligned(zero_end)
         /\ Span(zero_start, write_len) = Edge(i) .. (zero_end - 1)
         /\ write_len < seg.zero_size <=> zero_end < Top(i)
         /\ zero_end < Top(i) =>
              Span(zero_end, roundup(seg.zero_size - write_len, PAGE)) = zero_end .. (End(i) - 1)
<1>1. pc \in Running /\ pc # "reserve"
  BY DEF Running
<1>2. seg = SegmentAt(i) /\ i \in DOMAIN phdrs
  BY <1>1, SegmentIs
<1>3. Rebased(i)
  <2>1. i \in Nat
    BY SMTT(30), Shape
  <2> QED
    BY SMTT(30), <2>1 DEF Rebased
<1>4. /\ seg.addr = First(i) /\ seg.content_size = Edge(i) - First(i)
      /\ seg.zero_size = Top(i) - Edge(i)
      /\ seg.from_relocatable = FALSE /\ seg.prot = phdrs[i].p_flags
  BY <1>2, <1>3 DEF SegmentAt, Piece
<1>5. /\ First(i) \in Nat /\ Edge(i) \in Nat /\ Top(i) \in Nat /\ End(i) \in Nat
      /\ Edge(i) <= Top(i) /\ Top(i) <= End(i) /\ Aligned(End(i))
      /\ roundup(Top(i), PAGE) = End(i)
  BY <1>1, <1>2, Placed
<1>6. zero_start = Edge(i)
  BY SMTT(30), <1>4, <1>5 DEF zero_start
<1>7. zero_end = roundup(Edge(i), PAGE)
  BY <1>6 DEF zero_end
<1>8. /\ zero_end \in Int /\ Aligned(zero_end) /\ Edge(i) <= zero_end
      /\ zero_end < Edge(i) + PAGE /\ zero_end <= End(i)
  <2>1. Edge(i) \in Int /\ End(i) \in Int /\ Edge(i) <= End(i)
    BY SMTT(30), <1>5
  <2> QED
    BY <1>5, <1>7, <2>1, RoundsUp, RoundsWithin
<1>9. write_len = zero_end - Edge(i)
  BY <1>6 DEF write_len
<1>10. Span(zero_start, write_len) = Edge(i) .. (zero_end - 1)
  <2>1. Edge(i) + (zero_end - Edge(i)) - 1 = zero_end - 1
    BY SMTT(30), <1>5, <1>8
  <2> QED
    BY <1>6, <1>9, <2>1 DEF Span
<1>11. /\ write_len < seg.zero_size <=> zero_end < Top(i)
       /\ seg.zero_size - write_len = Top(i) - zero_end
  BY SMTT(30), <1>4, <1>5, <1>8, <1>9
<1>12. zero_end + roundup(Top(i) - zero_end, PAGE) = End(i)
  <2>1. Top(i) - zero_end \in Int /\ zero_end + (Top(i) - zero_end) = Top(i)
    BY SMTT(30), <1>5, <1>8
  <2>2. roundup(zero_end + (Top(i) - zero_end), PAGE) = zero_end + roundup(Top(i) - zero_end, PAGE)
    BY <1>8, <2>1, RoundsRest
  <2> QED
    BY <1>5, <2>1, <2>2
<1>13. Span(zero_end, roundup(seg.zero_size - write_len, PAGE)) = zero_end .. (End(i) - 1)
  <2> DEFINE rest == roundup(seg.zero_size - write_len, PAGE)
  <2>1. rest = roundup(Top(i) - zero_end, PAGE)
    BY <1>11
  <2>2. zero_end + rest = End(i)
    BY <1>12, <2>1
  <2>3. rest \in Int /\ zero_end \in Int /\ End(i) \in Int
    <3>1. Top(i) - zero_end \in Int
      BY SMTT(30), <1>5, <1>8
    <3> QED
      BY SMTT(30), <1>5, <1>8, <2>1, <3>1, RoundsUp
  <2> HIDE DEF rest
  <2>4. Span(zero_end, rest) = zero_end .. (End(i) - 1)
    BY SMTT(30), <2>2, <2>3 DEF Span
  <2> QED
    BY <2>4 DEF rest
<1>14. zero_end \in Nat
  BY SMTT(30), <1>5, <1>8
<1> QED
  BY <1>2, <1>4, <1>6, <1>8, <1>10, <1>11, <1>13, <1>14

\* fill_zero: the segment reads as its header says.
LEMMA ZeroStep ==
  ASSUME IInv, fill_zero, UNCHANGED <<phdrs, gnu_relro>>
  PROVE  IInv'
<1>1. /\ pc = "zero" /\ pc # "reserve" /\ pc \in Running
      /\ UNCHANGED <<fd, segments, space, phdrs, gnu_relro>>
      /\ Headers /\ Reserved /\ Segments /\ Contained
  BY DEF fill_zero, IInv, Running
<1>2. /\ Headers'
      /\ \/ pc' = "map" /\ i' = i + 1 /\ i' \in DOMAIN phdrs
         \/ pc' = "loaded" /\ i' = 1 /\ \A j \in DOMAIN phdrs : j <= i
      /\ i \in Nat /\ \A j \in DOMAIN phdrs : j \in Nat
  BY SMTT(30), <1>1, Advances DEF fill_zero
<1>3. Reserved'
  BY <1>1, <1>2, StillReserved
<1>4. /\ base' = base
      /\ \A j : /\ First(j)' = First(j) /\ Edge(j)' = Edge(j) /\ Top(j)' = Top(j)
                /\ End(j)' = End(j) /\ Room(j)' = Room(j)
                /\ \A x : Byte(j, x)' = Byte(j, x)
  BY <1>1, SamePlace
<1> DEFINE cleared == IF seg.zero_size > 0 THEN Span(zero_start, write_len) ELSE {}
           fresh == IF write_len < seg.zero_size
                    THEN Span(zero_end, roundup(seg.zero_size - write_len, PAGE)) ELSE {}
           own == IF seg.from_relocatable THEN RW ELSE seg.prot
<1>5. /\ mem' = [x \in Addr |-> IF x \in cleared \cup fresh THEN Zero ELSE mem[x]]
      /\ prot' = [x \in Addr |-> IF x \in fresh THEN own ELSE prot[x]]
  BY DEF fill_zero
<1>6. /\ i \in DOMAIN phdrs /\ seg.zero_size = Top(i) - Edge(i) /\ own = phdrs[i].p_flags
      /\ zero_end \in Nat /\ Edge(i) <= zero_end /\ zero_end <= End(i)
      /\ Span(zero_start, write_len) = Edge(i) .. (zero_end - 1)
      /\ write_len < seg.zero_size <=> zero_end < Top(i)
      /\ zero_end < Top(i) =>
           Span(zero_end, roundup(seg.zero_size - write_len, PAGE)) = zero_end .. (End(i) - 1)
  BY <1>1, ZeroWrites
<1>7. /\ First(i) \in Nat /\ Edge(i) \in Nat /\ Top(i) \in Nat /\ End(i) \in Nat
      /\ First(i) <= Edge(i) /\ Edge(i) <= Top(i) /\ Top(i) <= End(i)
  <2>1. /\ First(i) \in Nat /\ Edge(i) \in Nat /\ Top(i) \in Nat /\ End(i) \in Nat
        /\ First(i) <= base + phdrs[i].p_vaddr /\ base + phdrs[i].p_vaddr <= Edge(i)
        /\ Edge(i) <= Top(i) /\ Top(i) <= End(i) /\ phdrs[i].p_vaddr \in Nat
    BY <1>1, <1>6, Placed
  <2>2. base \in Int
    BY <1>1, BaseAligned
  <2> QED
    BY SMTT(30), <2>1, <2>2
<1>8. /\ cleared = IF Edge(i) < Top(i) THEN Edge(i) .. (zero_end - 1) ELSE {}
      /\ fresh = IF zero_end < Top(i) THEN zero_end .. (End(i) - 1) ELSE {}
  <2>1. seg.zero_size > 0 <=> Edge(i) < Top(i)
    BY SMTT(30), <1>6, <1>7
  <2> QED
    BY <1>6, <2>1
<1> HIDE DEF cleared, fresh, own
<1> HIDE DEF cleared, fresh, own
<1> HIDE DEF cleared, fresh, own
<1>9. /\ \A x \in cleared \cup fresh : x \in Room(i) /\ Edge(i) <= x
      /\ \A x \in Edge(i) .. (Top(i) - 1) : x \in cleared \cup fresh
  BY SMTT(30), <1>6, <1>7, <1>8 DEF Room
<1>10. /\ Contained'
       /\ \A j \in DOMAIN phdrs :
            j # i => \A x \in Room(j) : mem'[x] = mem[x] /\ prot'[x] = prot[x]
  <2>1. \A x \in Addr : x \notin Room(i) => mem'[x] = mem[x] /\ prot'[x] = prot[x]
    BY <1>5, <1>9
  <2> QED
    BY <1>1, <1>6, <2>1, OthersKept

<1>11. ASSUME NEW x \in First(i) .. (Top(i) - 1)
       PROVE  mem'[x] = IF x < Edge(i) THEN Byte(i, x) ELSE Zero
  <2>1. x \in Room(i) /\ x \in Addr /\ x \in Int
    BY SMTT(30), <1>1, <1>6, <1>7, RoomApart, TopInRoom
  <2>2. CASE x >= Edge(i)
    <3>1. x \in cleared \cup fresh /\ ~(x < Edge(i))
      BY SMTT(30), <1>7, <1>9, <2>1, <2>2
    <3> QED
      BY <1>5, <2>1, <3>1
  <2>3. CASE x < Edge(i)
    <3>1. x \notin cleared \cup fresh
      BY SMTT(30), <1>7, <1>9, <2>1, <2>3
    <3>2. mem'[x] = mem[x]
      BY <1>5, <2>1, <3>1
    <3>3. CASE fd = "file"
      <4>1. mem[x] = FileByte(Byte(i, x))
        BY <1>1, <2>1, <3>3 DEF IInv, Filed
      <4>2. Byte(i, x) < FileLen
        <5> DEFINE off == rounddown(phdrs[i].p_offset, PAGE)
        <5>1. off \in Nat /\ off + (Edge(i) - First(i)) <= FileLen
          BY <1>1, <1>6, Placed
        <5>2. Byte(i, x) = off + x - First(i)
          BY DEF Byte
        <5>3. FileLen \in Nat
          BY SegmentMapAssumption
        <5> HIDE DEF off
        <5> QED
          BY SMTT(30), <1>7, <2>1, <2>3, <5>1, <5>2, <5>3
      <4> QED
        BY <2>3, <3>2, <4>1, <4>2 DEF FileByte
    <3>4. CASE fd = "memory"
      <4>1. mem[x] = Byte(i, x)
        BY <1>1, <2>1, <2>3, <3>4 DEF IInv, Filled
      <4> QED
        BY <2>3, <3>2, <4>1
    <3> QED
      BY <1>1, <3>3, <3>4 DEF Headers
  <2> QED
    BY SMTT(30), <1>7, <2>1, <2>2, <2>3
<1>12. \A j \in DOMAIN phdrs : /\ Rebased(j)' <=> Rebased(j)
                               /\ Rebased(j) <=> j <= i
                               /\ Loaded(j)' => j <= i
                               /\ Loaded(j) <=> j < i
  BY SMTT(30), <1>1, <1>2 DEF Rebased, Loaded, After
<1>13. Segments'
  <2>1. ASSUME NEW j \in DOMAIN phdrs PROVE SegmentAt(j)' = SegmentAt(j)
    <3>1. Rebased(j)' = Rebased(j)
      BY <1>12 DEF Rebased
    <3> QED
      BY <1>1, <1>4, <3>1 DEF SegmentAt, Piece
  <2> QED
    BY <1>1, <2>1 DEF Segments
<1>14. InPlace'
  <2>1. SUFFICES ASSUME NEW j \in DOMAIN phdrs, j <= i, NEW x \in First(j) .. (Top(j) - 1)
                 PROVE  mem'[x] = IF x < Edge(j) THEN Byte(j, x) ELSE Zero
    BY <1>1, <1>4, <1>12 DEF InPlace
  <2>2. CASE j = i
    BY <1>11, <2>2
  <2>3. CASE j # i
    <3>1. x \in Room(j) /\ Loaded(j)
      BY SMTT(30), <1>1, <1>2, <1>12, <2>1, <2>3, TopInRoom
    <3> QED
      BY <1>10, <2>3, <3>1 DEF IInv, InPlace
  <2> QED
    BY <2>2, <2>3
<1>15. Blank'
  <2>1. SUFFICES ASSUME fd = "memory", NEW j \in DOMAIN phdrs, j > i, NEW x \in Room(j)
                 PROVE  mem'[x] = Zero
    BY SMTT(30), <1>1, <1>2, <1>4 DEF Blank
  <2>2. mem[x] = Zero /\ j # i
    BY SMTT(30), <1>1, <1>2, <2>1 DEF IInv, Blank
  <2> QED
    BY <1>10, <2>2
<1>16. Open'
  <2>1. SUFFICES ASSUME fd = "memory", NEW j \in DOMAIN phdrs, j > i, NEW x \in Room(j)
                 PROVE  prot'[x] = {"W"}
    BY SMTT(30), <1>1, <1>2, <1>4 DEF Open
  <2>2. prot[x] = {"W"} /\ j # i
    BY SMTT(30), <1>1, <1>2, <2>1 DEF IInv, Open
  <2> QED
    BY <1>10, <2>2
<1>17. Shields'
  <2>1. SUFFICES ASSUME fd = "file", NEW j \in DOMAIN phdrs, j <= i, NEW x \in Room(j)
                 PROVE  prot'[x] = phdrs[j].p_flags
    BY <1>1, <1>2, <1>4, <1>12 DEF Shields, Shielded
  <2>2. prot[x] = phdrs[j].p_flags
    BY <1>1, <1>12, <2>1 DEF IInv, Shields, Shielded
  <2>3. CASE j = i
    <3>1. x \in Addr
      BY <1>1, RoomApart
    <3> QED
      BY <1>5, <1>6, <2>2, <2>3, <3>1
  <2>4. CASE j # i
    BY <1>10, <2>2, <2>4
  <2> QED
    BY <2>3, <2>4
<1>18. Filed' /\ Filled' /\ Released' /\ ImageProtected' /\ (pc # "panic")'
  BY <1>2 DEF Filed, Filled, Released, ImageProtected
<1> QED
  BY <1>2, <1>3, <1>10, <1>13, <1>14, <1>15, <1>16, <1>17, <1>18 DEF IInv

\* Before the load nothing is mapped.
LEMMA InitInv ==
  ASSUME Init
  PROVE  IInv
<1>1. Headers
  <2>1. PICK n \in 1 .. MaxLoads : phdrs \in [1 .. n -> Phdr]
    BY DEF Init, InitMap
  <2>2. i \in 1 .. n
    BY SMTT(30), HeadersAssumption DEF Init, InitMap
  <2>3. gnu_relro.p_memsz > 0 => \E j \in DOMAIN phdrs : gnu_relro \in Relros(phdrs[j])
    <3>1. CASE gnu_relro = [p_vaddr |-> 0, p_memsz |-> 0]
      BY SMTT(30), <3>1
    <3>2. CASE gnu_relro \in
                 UNION {Relros(phdrs[j]) : j \in {k \in DOMAIN phdrs : "W" \in phdrs[k].p_flags}}
      BY <3>2
    <3> QED
      BY <3>1, <3>2 DEF Init, InitMap
  <2> QED
    BY <2>1, <2>2, <2>3 DEF Headers, Init, InitMap
<1>2. Reserved
  BY DEF Reserved, Init, InitMap
<1>3. Segments /\ InPlace /\ Filed /\ Blank /\ Filled /\ Shields /\ Open
  BY DEF Segments, InPlace, Filed, Blank, Filled, Shields, Open, Loaded, Shielded, Running,
         After, Init, InitMap
<1>4. Contained
  BY DEF Contained, Init, InitMap
<1>5. Released /\ ImageProtected /\ pc # "panic"
  BY DEF Released, ImageProtected, Init, InitMap
<1> QED
  BY <1>1, <1>2, <1>3, <1>4, <1>5 DEF IInv

-----------------------------------------------------------------------------
(* The load without a reservation *)

\* The base is not that of a page, and neither is the address of the segment.
LEMMA OffPage ==
  ASSUME Unreserved
  PROVE  /\ 1 \in DOMAIN phdrs /\ phdrs[1] \in Phdr /\ base \in Int
         /\ First(1) \in Int /\ Edge(1) \in Int /\ Top(1) \in Int
         /\ First(1) <= Edge(1) /\ Edge(1) <= Top(1) /\ First(1) < Top(1)
         /\ First(1) % PAGE # 0 /\ base + (First(1) - base) = First(1)
         /\ space.memory % PAGE # 0
<1> DEFINE v == phdrs[1].p_vaddr
           f == phdrs[1].p_filesz
           m == phdrs[1].p_memsz
           lo == rounddown(v, PAGE)
<1>1. 1 \in DOMAIN phdrs /\ phdrs[1] \in Phdr
  BY SMTT(30), Shape DEF Unreserved
<1>2. v \in Nat /\ f \in Nat /\ m \in Nat /\ m > 0 /\ f <= m
  BY <1>1, PhdrFacts
<1>3. lo \in Int /\ Aligned(lo) /\ lo <= v
  <2>1. v \in Int
    BY SMTT(30), <1>2
  <2> QED
    BY <2>1, RoundsDown
<1>4. space.offset \in Int /\ Aligned(space.offset) /\ base = -1 - space.offset
  BY DEF Unreserved, base, MapFailed
<1>5. First(1) = base + lo /\ Edge(1) = base + v + f /\ Top(1) = base + v + m
  BY DEF First, Edge, Top
<1> HIDE DEF v, f, m, lo
<1>6. /\ base \in Int /\ First(1) \in Int /\ Edge(1) \in Int /\ Top(1) \in Int
      /\ First(1) <= Edge(1) /\ Edge(1) <= Top(1) /\ First(1) < Top(1)
      /\ base + (First(1) - base) = First(1) /\ (First(1) - lo) + space.offset = -1
      /\ First(1) - lo \in Int
  <2>1. v \in Int /\ f \in Int /\ m \in Int /\ 0 <= f /\ 0 < m
    BY SMTT(30), <1>2
  <2>2. base \in Int
    BY SMTT(30), <1>4
  <2>3. First(1) \in Int /\ Edge(1) \in Int /\ Top(1) \in Int
    BY SMTT(30), <1>3, <1>5, <2>1, <2>2
  <2>4. lo <= v /\ f <= m
    BY <1>2, <1>3
  <2>5. First(1) <= Edge(1) /\ Edge(1) <= Top(1) /\ First(1) < Top(1)
    BY SMTT(30), <1>3, <1>5, <2>1, <2>2, <2>4
  <2>6. base + (First(1) - base) = First(1)
    BY SMTT(30), <2>2, <2>3
  <2>7. (First(1) - lo) + space.offset = -1 /\ First(1) - lo \in Int
    BY SMTT(30), <1>3, <1>4, <1>5, <2>2, <2>3
  <2> QED
    BY <2>2, <2>3, <2>5, <2>6, <2>7
<1>7. ~Aligned(-1)
  <2>1. Aligned(0) /\ -1 \in Int /\ 0 \in Int /\ -1 < 0 /\ ~(-1 + PAGE <= 0)
    BY SMTT(30), SegmentMapAssumption DEF Aligned
  <2> QED
    BY <2>1, PageApart
<1>8. ~Aligned(First(1))
  <2>1. SUFFICES ASSUME Aligned(First(1)) PROVE FALSE
    OBVIOUS
  <2>2. Aligned(First(1) - lo)
    BY <1>3, <1>6, <2>1, AlignedSum
  <2>3. Aligned((First(1) - lo) + space.offset)
    BY <1>4, <1>6, <2>2, AlignedSum
  <2> QED
    BY <1>6, <1>7, <2>3
<1> QED
  BY <1>1, <1>6, <1>7, <1>8 DEF Aligned, Unreserved, MapFailed

\* create_space, when mmap refuses.
LEMMA CreateFailedStep ==
  ASSUME IInv, create_space, space'.memory = MapFailed
  PROVE  Unreserved'
<1>1. /\ pc = "reserve" /\ pc' = "map" /\ UNCHANGED <<fd, i, phdrs, gnu_relro>> /\ i = 1
      /\ Headers /\ segments' = [j \in DOMAIN phdrs |-> create_segment(phdrs[j])]
  BY DEF create_space, IInv, Headers
<1>2. PICK n \in Nat \ {0} : phdrs \in [1 .. n -> Phdr] /\ DOMAIN phdrs = 1 .. n
  BY <1>1, Shape
<1>3. min_vaddr \in Int /\ Aligned(min_vaddr)
  BY <1>2, Extent
<1> DEFINE len == max_vaddr - min_vaddr
           p == IF fd = "file" THEN {} ELSE {"W"}
<1>4. PICK m \in Starts :
        /\ space' = [memory |-> m, offset |-> min_vaddr, len |-> len]
        /\ IF m = MapFailed THEN UNCHANGED <<mem, prot>>
           ELSE m + len <= Size /\ Mapped(m, len, Zero, p)
  BY DEF create_space, mmap_reserve
<1> HIDE DEF len, p
<1>5. m = MapFailed /\ space'.offset = min_vaddr /\ mem' = mem
  BY <1>4
<1>6. base' \in Int
  BY SMTT(30), <1>3, <1>5 DEF base, MapFailed
<1>7. \A x \in Addr : mem[x] = Foreign
  <2>1. Span(space.memory, space.len) = {}
    BY SMTT(30), <1>1 DEF IInv, Reserved, NoSpace, Span
  <2> QED
    BY <2>1 DEF IInv, Contained
<1>8. ASSUME NEW j \in DOMAIN phdrs
      PROVE  create_segment(phdrs[j]) = Piece(j, First(j) - base, FALSE)'
  <2>1. phdrs[j] \in Phdr
    BY <1>2
  <2> QED
    BY <1>1, <1>6, <2>1, CreatesSegment DEF Piece, First, Edge, Top, End
<1>9. Headers'
  BY <1>1 DEF Headers
<1>10. segments' = [j \in DOMAIN phdrs |-> Piece(j, First(j) - base, FALSE)]'
  BY <1>1, <1>8
<1>11. Aligned(space.offset)' /\ (space.offset \in Int)'
  BY <1>3, <1>5 DEF Aligned
<1> QED
  BY <1>1, <1>5, <1>7, <1>9, <1>10, <1>11 DEF Unreserved

\* The kernel refuses the file at an address that is not that of a page, and
\* without a file the first store ends the load.
LEMMA UnreservedStep ==
  ASSUME Unreserved, [Next]_vars
  PROVE  Unreserved'
<1>1. /\ Headers /\ i = 1 /\ space.memory = MapFailed
      /\ space.offset \in Int /\ Aligned(space.offset)
      /\ \A x \in Addr : mem[x] = Foreign
      /\ pc \in {"map", "copy", "zero", "panic"}
  BY DEF Unreserved
<1>2. /\ 1 \in DOMAIN phdrs /\ base \in Int
      /\ First(1) \in Int /\ Edge(1) \in Int /\ Top(1) \in Int
      /\ First(1) <= Edge(1) /\ Edge(1) <= Top(1) /\ First(1) < Top(1)
      /\ First(1) % PAGE # 0 /\ base + (First(1) - base) = First(1)
      /\ space.memory % PAGE # 0
  BY OffPage
<1>3. ASSUME UNCHANGED <<space, phdrs>>
      PROVE  /\ base' = base /\ Aligned(space.offset)'
             /\ \A j : First(j)' = First(j) /\ Edge(j)' = Edge(j)
             /\ \A j, a, c : Piece(j, a, c)' = Piece(j, a, c)
  BY <1>1, <1>3 DEF base, First, Edge, Top, End, Piece, Aligned
<1>4. CASE create_space \/ start_protect \/ relro \/ mprotect \/ Drop
  BY <1>1, <1>4 DEF create_space, start_protect, relro, mprotect, Drop
<1>5. CASE mmap_segment_fd
  <2>1. pc = "map" /\ (base + seg.addr) % PAGE = 0
    BY <1>5 DEF mmap_segment_fd
  <2>2. seg = Piece(1, First(1) - base, FALSE)
    BY <1>1, <1>2, <2>1 DEF Unreserved, seg
  <2>3. seg.addr = First(1) - base
    BY SMTT(30), <2>2 DEF Piece
  <2> QED
    BY <1>2, <2>1, <2>3
<1>6. CASE mmap_segment_copy /\ UNCHANGED <<phdrs, gnu_relro>>
  <2>1. /\ pc = "map" /\ pc' = "copy" /\ UNCHANGED <<fd, i, space, mem, prot, phdrs, gnu_relro>>
        /\ fd = "memory" \/ Len(seg.map_info) # 1
        /\ segments' = [segments EXCEPT ![i].addr = base + @, ![i].need_copy = TRUE]
    BY <1>6 DEF mmap_segment_copy
  <2>2. /\ segments = [j \in DOMAIN phdrs |-> Piece(j, First(j) - base, FALSE)]
        /\ seg = Piece(1, First(1) - base, FALSE)
    BY <1>1, <1>2, <2>1 DEF Unreserved, seg
  <2>3. fd = "memory"
    <3>1. Len(seg.map_info) = 1
      BY SMTT(30), <2>2 DEF Piece
    <3> QED
      BY <2>1, <3>1
  <2>4. seg' = Piece(1, First(1), TRUE)
    <3>1. base + seg.addr = First(1)
      <4>1. seg.addr = First(1) - base
        BY SMTT(30), <2>2 DEF Piece
      <4> QED
        BY <1>2, <4>1
    <3>2. segments' = [segments EXCEPT ![1].addr = First(1), ![1].need_copy = TRUE]
      BY <1>1, <2>1, <3>1 DEF seg
    <3>3. segments'[1] = MovedToCopy(segments[1], First(1))
      BY <1>2, <2>2, <3>2 DEF MovedToCopy
    <3>4. seg' = segments'[1] /\ seg = segments[1]
      BY <1>1, <2>1 DEF seg
    <3>5. MovedToCopy(Piece(1, First(1) - base, FALSE), First(1)) = Piece(1, First(1), TRUE)
      BY RebasedPiece
    <3> QED
      BY <2>2, <3>3, <3>4, <3>5
  <2>5. Headers'
    BY <1>1, <2>1 DEF Headers
  <2> QED
    BY <1>1, <1>3, <2>1, <2>3, <2>4, <2>5 DEF Unreserved
<1>7. CASE copy_data /\ UNCHANGED <<phdrs, gnu_relro>>
  <2>1. /\ pc = "copy" /\ pc' = "zero" /\ UNCHANGED <<fd, segments, i, space, prot, phdrs, gnu_relro>>
        /\ seg.need_copy => Writable(Copied)
    BY <1>7 DEF copy_data
  <2>2. fd = "memory" /\ seg = Piece(1, First(1), TRUE)
    BY <2>1 DEF Unreserved
  <2>3. /\ seg.need_copy /\ seg.addr = First(1)
        /\ seg.map_info = <<[start |-> 0, filesz |-> Edge(1) - First(1),
                             offset |-> rounddown(phdrs[1].p_offset, PAGE)]>>
    BY <2>2 DEF Piece
  <2>4. /\ DOMAIN seg.map_info = {1} /\ seg.map_info[1].start = 0
        /\ seg.map_info[1].filesz = Edge(1) - First(1)
    BY SMTT(30), <2>3
  <2>5. Dest(seg.map_info[1]) = First(1) .. (Edge(1) - 1)
    <3>1. First(1) + 0 = First(1) /\ First(1) + (Edge(1) - First(1)) - 1 = Edge(1) - 1
      BY SMTT(30), <1>2
    <3> QED
      BY <2>3, <2>4, <3>1 DEF Dest, Span
  <2>6. Copied = {}
    BY <1>1, <2>1, <2>3 DEF Writable
  <2>7. Dest(seg.map_info[1]) = {}
    BY <2>4, <2>6 DEF Copied
  <2>8. Edge(1) = First(1)
    <3>1. Edge(1) # First(1) => First(1) \in First(1) .. (Edge(1) - 1)
      BY SMTT(30), <1>2
    <3> QED
      BY <2>5, <2>7, <3>1
  <2>9. \A x \in Addr : mem'[x] = mem[x]
    BY <1>7, <2>3, <2>4, <2>7 DEF copy_data
  <2>10. seg' = seg /\ Headers'
    BY <1>1, <2>1 DEF seg, Headers
  <2> QED
    BY <1>1, <1>3, <2>1, <2>2, <2>8, <2>9, <2>10 DEF Unreserved
<1>8. CASE fill_zero
  <2>1. pc = "zero" /\ (seg.zero_size > 0 => Writable(Span(zero_start, write_len)))
    BY <1>8 DEF fill_zero
  <2>2. seg = Piece(1, First(1), TRUE) /\ Edge(1) = First(1)
    BY <2>1 DEF Unreserved
  <2>3. /\ seg.addr = First(1) /\ seg.content_size = Edge(1) - First(1)
        /\ seg.zero_size = Top(1) - Edge(1)
    BY <2>2 DEF Piece
  <2>4. zero_start = First(1) /\ seg.zero_size > 0
    <3>1. First(1) + (Edge(1) - First(1)) = First(1) /\ Top(1) - Edge(1) > 0
      BY SMTT(30), <1>2, <2>2
    <3> QED
      BY <2>3, <3>1 DEF zero_start
  <2> DEFINE up == roundup(First(1), PAGE)
  <2>5. up \in Int /\ Aligned(up) /\ First(1) <= up
    BY <1>2, RoundsUp
  <2>6. up # First(1)
    BY <1>2, <2>5 DEF Aligned
  <2>7. write_len = up - First(1)
    BY <2>4 DEF write_len, zero_end
  <2> HIDE DEF up
  <2>8. First(1) \in Span(zero_start, write_len)
    BY SMTT(30), <1>2, <2>4, <2>5, <2>6, <2>7 DEF Span
  <2> QED
    BY <1>1, <2>1, <2>4, <2>8 DEF Writable
<1>9. CASE fail /\ UNCHANGED <<phdrs, gnu_relro>>
  <2>1. munmap("failed")
    BY <1>9 DEF fail
  <2>2. /\ pc' = "panic" /\ UNCHANGED <<fd, segments, i, space, mem, prot, phdrs, gnu_relro>>
    BY <1>2, <1>9, <2>1 DEF munmap
  <2>3. Headers'
    BY <1>1, <2>2 DEF Headers
  <2> QED
    BY <1>1, <1>3, <2>2, <2>3 DEF Unreserved
<1>10. CASE UNCHANGED vars
  <2>1. UNCHANGED <<pc, fd, segments, i, space, mem, prot, phdrs, gnu_relro>>
    BY <1>10 DEF vars, mapVars
  <2>2. Headers' /\ seg' = seg
    BY <1>1, <2>1 DEF Headers, seg
  <2>3. [j \in DOMAIN phdrs |-> Piece(j, First(j) - base, FALSE)]' =
          [j \in DOMAIN phdrs |-> Piece(j, First(j) - base, FALSE)]
    BY <1>3, <2>1
  <2>4. (pc \in {"copy", "zero"} => fd = "memory" /\ seg = Piece(1, First(1), TRUE))'
    BY ZenonT(180), <1>3, <2>1, <2>2 DEF Unreserved
  <2>5. (pc = "zero" => Edge(1) = First(1))'
    BY <1>3, <2>1 DEF Unreserved
  <2>6. (pc = "map" => segments = [j \in DOMAIN phdrs |-> Piece(j, First(j) - base, FALSE)])'
    BY <2>1, <2>3 DEF Unreserved
  <2> QED
    BY <1>1, <1>3, <2>1, <2>2, <2>4, <2>5, <2>6 DEF Unreserved
<1> QED
  BY <1>4, <1>5, <1>6, <1>7, <1>8, <1>9, <1>10 DEF Next, LoadNext

-----------------------------------------------------------------------------
(* The theorems *)

\* Every step of a load keeps the invariant, unless mmap refuses it.
LEMMA NextInv ==
  ASSUME IInv, [Next]_vars
  PROVE  IInv' \/ Unreserved'
<1>1. CASE create_space
  BY <1>1, CreateStep, CreateFailedStep
<1>2. CASE start_protect
  BY <1>2, StartProtectStep
<1>3. CASE relro
  BY <1>3, RelroStep
<1>4. CASE mmap_segment_fd /\ UNCHANGED <<phdrs, gnu_relro>>
  BY <1>4, MapFileStep
<1>5. CASE mmap_segment_copy /\ UNCHANGED <<phdrs, gnu_relro>>
  BY <1>5, MapMemoryStep
<1>6. CASE copy_data /\ UNCHANGED <<phdrs, gnu_relro>>
  BY <1>6, CopyStep
<1>7. CASE fill_zero /\ UNCHANGED <<phdrs, gnu_relro>>
  BY <1>7, ZeroStep
<1>8. CASE mprotect /\ UNCHANGED <<phdrs, gnu_relro>>
  BY <1>8, ProtectStep
<1>9. CASE fail /\ UNCHANGED <<phdrs, gnu_relro>>
  <2>1. pc # "reserve" /\ munmap("failed")
    BY <1>9 DEF fail, Fallible
  <2> QED
    BY <1>9, <2>1, DropStep
<1>10. CASE Drop /\ UNCHANGED <<phdrs, gnu_relro>>
  <2>1. pc # "reserve" /\ munmap("dropped")
    BY <1>10 DEF Drop
  <2> QED
    BY <1>10, <2>1, DropStep
<1>11. CASE UNCHANGED vars
  <2>1. /\ UNCHANGED <<pc, fd, segments, i, space, mem, prot, phdrs, gnu_relro>>
    BY <1>11 DEF vars, mapVars
  <2>2. Headers' /\ Contained' /\ Released' /\ ImageProtected' /\ (pc # "panic")'
    <3>1. Headers /\ Contained /\ Released /\ ImageProtected /\ pc # "panic"
      BY DEF IInv
    <3> QED
      BY SMTT(30), <2>1, <3>1 DEF Headers, Contained, Released, ImageProtected, base, Pages
  <2>3. Reserved'
    BY <2>1 DEF IInv, Reserved, First, End, base
  <2>4. Segments'
    <3>1. Segments
      BY DEF IInv
    <3> QED
      BY SMTT(30), <2>1, <3>1
         DEF Segments, SegmentAt, Piece, Rebased, First, Edge, Top, End, base
  <2>5. InPlace' /\ Filed'
    <3>1. InPlace /\ Filed
      BY DEF IInv
    <3>2. InPlace'
      BY SMTT(30), <2>1, <3>1 DEF InPlace, Loaded, First, Edge, Top, Byte, base
    <3>3. Filed'
      BY SMTT(30), <2>1, <3>1 DEF Filed, Room, First, End, Byte, base, FileByte
    <3> QED
      BY <3>2, <3>3
  <2>6. Blank' /\ Filled'
    BY <2>1 DEF IInv, Blank, Filled, Room, First, Edge, End, Byte, base
  <2>7. Shields' /\ Open'
    BY <2>1 DEF IInv, Shields, Open, Shielded, Rebased, Room, First, End, base
  <2> QED
    BY <2>2, <2>3, <2>4, <2>5, <2>6, <2>7 DEF IInv
<1> QED
  BY <1>1, <1>2, <1>3, <1>4, <1>5, <1>6, <1>7, <1>8, <1>9, <1>10, <1>11 DEF Next, LoadNext

\* The stores of copy_data and fill_zero: a segment that is copied is writable
\* and mapped; one that is mapped from the file is writable if it has anything
\* to clear, and the page of its last byte is a page of the file.
LEMMA StoresAllowed ==
  ASSUME IInv
  PROVE  NoFault
<1>1. Headers /\ Reserved /\ Segments /\ pc # "panic"
  BY DEF IInv
<1>2. ASSUME pc = "copy", seg.need_copy PROVE Writable(Copied)
  <2>1. fd = "memory" /\ i \in DOMAIN phdrs /\ Copied = First(i) .. (Edge(i) - 1)
    BY <1>1, <1>2, CopyWrites
  <2>2. ASSUME NEW x \in Copied
        PROVE  x \in Addr /\ "W" \in prot[x] /\ mem[x] \notin {Unmapped, Foreign, Beyond}
    <3>1. First(i) \in Nat /\ Edge(i) \in Nat /\ Top(i) \in Nat /\ Edge(i) <= Top(i)
      BY <1>1, <1>2, <2>1, Placed
    <3>2. x \in First(i) .. (Top(i) - 1)
      BY SMTT(30), <2>1, <3>1
    <3>3. x \in Room(i)
      BY <1>1, <1>2, <2>1, <3>2, TopInRoom
    <3>4. i \in Nat
      BY SMTT(30), <1>1, Shape
    <3>5. prot[x] = {"W"} /\ mem[x] = Zero
      BY SMTT(30), <1>2, <2>1, <3>3, <3>4 DEF IInv, Open, Blank
    <3>6. x \in Addr
      BY <1>1, <1>2, <2>1, <3>3, RoomApart
    <3> QED
      BY SMTT(30), <3>5, <3>6 DEF Zero, Unmapped, Foreign, Beyond
  <2> QED
    BY <2>2 DEF Writable
<1>3. ASSUME pc = "zero", seg.zero_size > 0 PROVE Writable(Span(zero_start, write_len))
  <2>1. /\ i \in DOMAIN phdrs /\ seg.zero_size = Top(i) - Edge(i)
        /\ zero_end \in Nat /\ Edge(i) <= zero_end /\ zero_end <= End(i)
        /\ zero_end < Edge(i) + PAGE /\ Aligned(zero_end)
        /\ Span(zero_start, write_len) = Edge(i) .. (zero_end - 1)
    BY <1>1, <1>3, ZeroWrites
  <2> DEFINE off == rounddown(phdrs[i].p_offset, PAGE)
  <2>2. /\ First(i) \in Nat /\ Edge(i) \in Nat /\ Top(i) \in Nat /\ End(i) \in Nat
        /\ First(i) <= base + phdrs[i].p_vaddr /\ base + phdrs[i].p_vaddr <= Edge(i)
        /\ phdrs[i].p_vaddr \in Nat /\ Aligned(First(i)) /\ off \in Nat /\ Aligned(off)
        /\ off + (Edge(i) - First(i)) <= FileLen
    BY <1>1, <1>3, <2>1, Placed
  <2>3. base \in Int
    BY <1>1, <1>3, BaseAligned
  <2>4. First(i) <= Edge(i) /\ Edge(i) < Top(i)
    BY SMTT(30), <1>3, <2>1, <2>2, <2>3
  <2> HIDE DEF off
  <2>5. ASSUME NEW x \in Edge(i) .. (zero_end - 1)
        PROVE  x \in Addr /\ "W" \in prot[x] /\ mem[x] \notin {Unmapped, Foreign, Beyond}
    <3>1. x \in Room(i) /\ x \in Int /\ Edge(i) <= x /\ x < zero_end
      BY SMTT(30), <2>1, <2>2, <2>4 DEF Room
    <3>2. x \in Addr
      BY <1>1, <1>3, <2>1, <3>1, RoomApart
    <3>3. CASE fd = "memory"
      <4>1. i \in Nat
        BY SMTT(30), <1>1, Shape
      <4>2. prot[x] = {"W"}
        BY SMTT(30), <1>3, <2>1, <3>1, <3>3, <4>1 DEF IInv, Open
      <4>3. mem[x] = Zero
        BY SMTT(30), <1>3, <2>2, <3>1, <3>3 DEF IInv, Filled
      <4> QED
        BY SMTT(30), <3>2, <4>2, <4>3 DEF Zero, Unmapped, Foreign, Beyond
    <3>4. CASE fd = "file"
      <4>1. "W" \in prot[x]
        <5>1. i \in Nat /\ phdrs[i] \in Phdr
          BY SMTT(30), <1>1, <2>1, Shape
        <5>2. Shielded(i)
          BY SMTT(30), <1>3, <3>4, <5>1 DEF Shielded, Rebased
        <5>3. prot[x] = phdrs[i].p_flags
          BY <2>1, <3>1, <5>2 DEF IInv, Shields
        <5>4. phdrs[i].p_memsz > phdrs[i].p_filesz
          <6>1. phdrs[i].p_memsz \in Nat /\ phdrs[i].p_filesz \in Nat
            BY <5>1, PhdrFacts
          <6> QED
            BY SMTT(30), <2>2, <2>3, <2>4, <6>1 DEF Top, Edge
        <5> QED
          BY <5>1, <5>3, <5>4, PhdrFacts
      <4>2. mem[x] = FileByte(Byte(i, x))
        BY <1>3, <3>1, <3>4 DEF IInv, Filed
      <4>3. Byte(i, x) = off + x - First(i) /\ Byte(i, x) \in Nat
        BY SMTT(30), <2>2, <2>4, <3>1 DEF Byte, off
      <4>4. Byte(i, x) < roundup(FileLen, PAGE)
        <5> DEFINE stop == (off + zero_end) - First(i)
                   edge == off + (Edge(i) - First(i))
        <5>1. stop \in Int /\ edge \in Int /\ stop < edge + PAGE /\ Byte(i, x) < stop
          <6>1. /\ PAGE \in Nat /\ off \in Nat /\ zero_end \in Nat /\ First(i) \in Nat
                /\ Edge(i) \in Nat /\ x \in Int /\ x < zero_end /\ zero_end < Edge(i) + PAGE
                /\ Byte(i, x) = off + x - First(i)
            BY <2>1, <2>2, <3>1, <4>3, SegmentMapAssumption
          <6> QED
            BY SMTT(30), <6>1
        <5>2. Aligned(stop)
          <6>1. off \in Int /\ zero_end \in Int /\ First(i) \in Int /\ off + zero_end \in Int
            BY SMTT(30), <2>1, <2>2
          <6>2. Aligned(off) /\ Aligned(zero_end) /\ Aligned(First(i))
            BY <2>1, <2>2
          <6>3. Aligned(off + zero_end)
            BY <6>1, <6>2, AlignedSum
          <6> QED
            BY <6>1, <6>2, <6>3, AlignedSum
        <5>3. FileLen \in Int /\ edge <= FileLen
          BY SMTT(30), <2>2, SegmentMapAssumption
        <5>4. /\ roundup(FileLen, PAGE) \in Int /\ Aligned(roundup(FileLen, PAGE))
              /\ FileLen <= roundup(FileLen, PAGE)
          BY <5>3, RoundsUp
        <5> HIDE DEF stop, edge
        <5> HIDE DEF stop, edge
        <5>5. stop <= roundup(FileLen, PAGE)
          BY SMTT(30), <5>1, <5>2, <5>3, <5>4, PageApart, SegmentMapAssumption
        <5> QED
          BY SMTT(30), <4>3, <5>1, <5>4, <5>5
      <4>5. FileByte(Byte(i, x)) \in Nat \cup {Zero}
        BY <4>3, <4>4 DEF FileByte
      <4> QED
        BY SMTT(30), <3>2, <4>1, <4>2, <4>5 DEF Zero, Unmapped, Foreign, Beyond
    <3> QED
      BY <1>1, <3>3, <3>4 DEF Headers
  <2> QED
    BY <2>1, <2>5 DEF Writable
<1>4. space.memory # MapFailed
  BY SMTT(30), <1>1 DEF Reserved, NoSpace, MapFailed
<1> QED
  BY <1>1, <1>2, <1>3, <1>4 DEF NoFault

\* The bytes of a loaded segment, counted from p_vaddr.
LEMMA BytesInPlace ==
  ASSUME IInv
  PROVE  ImageInPlace
<1>1. SUFFICES ASSUME pc \in After, NEW j \in DOMAIN phdrs,
                      NEW k \in 0 .. (phdrs[j].p_memsz - 1)
               PROVE  mem[base + phdrs[j].p_vaddr + k] =
                        IF k < phdrs[j].p_filesz THEN phdrs[j].p_offset + k ELSE Zero
  BY DEF ImageInPlace, After
<1> DEFINE v == phdrs[j].p_vaddr
           x == base + v + k
           off == rounddown(phdrs[j].p_offset, PAGE)
<1>2. Headers /\ Reserved /\ pc # "reserve" /\ Loaded(j)
  BY <1>1 DEF IInv, Loaded, After
<1>3. /\ First(j) \in Nat /\ Edge(j) \in Nat /\ Top(j) \in Nat /\ v \in Nat
      /\ First(j) <= base + v /\ Byte(j, base + v) = phdrs[j].p_offset /\ off \in Nat
  BY <1>2, Placed
<1>4. base \in Int /\ k \in Nat /\ phdrs[j].p_memsz \in Nat /\ phdrs[j].p_filesz \in Nat
  <2>1. phdrs[j] \in Phdr
    BY <1>2, Shape
  <2>2. phdrs[j].p_memsz \in Nat /\ phdrs[j].p_filesz \in Nat
    BY <2>1, PhdrFacts
  <2> QED
    BY SMTT(30), <1>2, <2>2, BaseAligned
<1>5. /\ Top(j) = base + v + phdrs[j].p_memsz /\ Edge(j) = base + v + phdrs[j].p_filesz
      /\ Byte(j, base + v) = off + (base + v) - First(j) /\ Byte(j, x) = off + x - First(j)
  BY DEF Top, Edge, Byte
<1> HIDE DEF v, off
<1> HIDE DEF v, off
<1>6. x \in First(j) .. (Top(j) - 1)
  BY SMTT(30), <1>3, <1>4, <1>5
<1>7. (x < Edge(j) <=> k < phdrs[j].p_filesz) /\ Byte(j, x) = phdrs[j].p_offset + k
  BY SMTT(30), <1>3, <1>4, <1>5
<1>8. mem[x] = IF x < Edge(j) THEN Byte(j, x) ELSE Zero
  BY <1>2, <1>6 DEF IInv, InPlace
<1> QED
  BY <1>7, <1>8 DEF v

\* The inductive invariant holds in every state of every load: the load has its
\* reservation, or mmap has refused it.
THEOREM InvHolds ==
  Spec => [](IInv \/ Unreserved)
<1>1. Init => IInv
  BY InitInv
<1>2. IInv /\ [Next]_vars => IInv' \/ Unreserved'
  BY NextInv
<1>3. Unreserved /\ [Next]_vars => Unreserved'
  BY UnreservedStep
<1> QED
  BY <1>1, <1>2, <1>3, PTL DEF Spec

\* The load of well-formed headers never touches memory outside its own
\* reservation (Contained): MAP_FIXED replaces no page of somebody else.
THEOREM LoadIsContained ==
  Spec => []Contained
<1>1. IInv => Contained
  BY DEF IInv
<1>2. Unreserved => Contained
  BY DEF Unreserved, Contained
<1> QED
  BY <1>1, <1>2, InvHolds, PTL

\* The munmap of ElfSegments takes back all that was mapped, whether loading
\* failed or the image was dropped (Released).
THEOREM LoadIsReleased ==
  Spec => []Released
<1>1. IInv => Released
  BY DEF IInv
<1>2. Unreserved => Released
  BY DEF Unreserved, Released
<1> QED
  BY <1>1, <1>2, InvHolds, PTL

\* With a reservation, copy_data and fill_zero only store to bytes that are
\* mapped and writable and munmap is given what it accepts; a load whose
\* reservation mmap has refused returns neither an image nor an error (NoFault).
THEOREM StoresDoNotFault ==
  Spec => []NoFault
<1>1. IInv => NoFault
  BY StoresAllowed
<1>2. Unreserved => NoFault
  BY DEF Unreserved, NoFault
<1> QED
  BY <1>1, <1>2, InvHolds, PTL

\* A loaded image reads as its program headers say (ImageInPlace), whether the
\* file was mapped or copied.
THEOREM ImageReadsAsHeadersSay ==
  Spec => []ImageInPlace
<1>1. IInv => ImageInPlace
  BY BytesInPlace
<1>2. Unreserved => ImageInPlace
  BY DEF Unreserved, ImageInPlace
<1> QED
  BY <1>1, <1>2, InvHolds, PTL

\* After mprotect a PT_LOAD allows what its p_flags say, and after relro the
\* pages with a byte of PT_GNU_RELRO, and no other, have become read-only
\* (ImageProtected).
THEOREM ImageProtectedAsHeadersSay ==
  Spec => []ImageProtected
<1>1. IInv => ImageProtected
  BY DEF IInv
<1>2. Unreserved => ImageProtected
  BY DEF Unreserved, ImageProtected
<1> QED
  BY <1>1, <1>2, InvHolds, PTL

=============================================================================
