------------------------------ MODULE ElfHashes ------------------------------
(***************************************************************************)
(* The hash functions of the symbol tables, over names that are sequences  *)
(* of bytes.                                                               *)
(***************************************************************************)
EXTENDS Naturals, Sequences, SequencesExt, Bitwise, HashWords

\* hash ^= (hash & 0xf0000000) >> 24
FoldTop(h) == <<h[1], h[2] ^^ ((h[1] \div 4096) * 16)>>
\* hash &= 0x0fffffff
ClearTop(h) == <<h[1] % 4096, h[2]>>

\* ElfGnuHash::hash
gnu_hash(name) == FoldLeft(LAMBDA h, b : MulAdd(h, 33, b), U32(5381), name)

\* ElfHash::hash.  The sum exceeds a u32 for a few names; it wraps, as it
\* does without overflow checks.
elf_hash(name) ==
  FoldLeft(LAMBDA h, b : ClearTop(FoldTop(MulAdd(h, 16, b))), U32(0), name)

\* SymbolVersion::dl_elf_hash: five unrolled rounds that cannot reach the top
\* bits, then rounds that leave the top bits in place until the end.
dl_elf_hash(name) ==
  LET head == FoldLeft(LAMBDA h, b : MulAdd(h, 16, b), U32(0), SubSeq(name, 1, 5))
      tail == SubSeq(name, 6, Len(name))
  IN IF Len(name) <= 4 THEN FoldLeft(LAMBDA h, b : MulAdd(h, 16, b), U32(0), name)
     ELSE ClearTop(FoldLeft(LAMBDA h, b : FoldTop(MulAdd(h, 16, b)), head, tail))

\* Names of up to nine bytes, small and large: long enough for the sums to
\* fill the top bits, and to carry out of a u32.
Probes == UNION {[1..k -> {9, 255}] : k \in 0..9}

\* dl_elf_hash, which get_version uses, computes what elf_hash does.
ASSUME HashesAgree == \A name \in Probes : dl_elf_hash(name) = elf_hash(name)
=============================================================================
