------------------------------ MODULE HashWords ------------------------------
(***************************************************************************)
(* A u32 hash as a pair <<high half, low half>>, and what the hash tables  *)
(* compute with it.                                                        *)
(***************************************************************************)
EXTENDS Naturals

Half == 65536
U32(n) == <<n \div Half, n % Half>>

\* Wrapping n * k + b, for k and b below 2^9.
MulAdd(h, k, b) == LET lo == h[2] * k + b
                   IN <<(h[1] * k + lo \div Half) % Half, lo % Half>>

\* h % n, for n below 2^15.
Mod(h, n) == ((h[1] % n) * (Half % n) + (h[2] % n)) % n

\* h | 1
Or1(h) == <<h[1], h[2] + 1 - (h[2] % 2)>>
=============================================================================
