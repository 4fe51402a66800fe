--------------------------- MODULE MCSymbolLookup ---------------------------
(* Small instances of SymbolLookup.  The two names have GNU hashes that      *)
(* differ in the low bit only; the version names are long enough to reach    *)
(* the top bits of their hashes.                                             *)
EXTENDS SymbolLookup, ElfHashes

MCName == {<<97, 98>>, <<97, 99>>}                        \* "ab", "ac"
MCVersions == <<<<71, 76, 73, 66, 67, 95, 50, 46, 50>>,   \* "GLIBC_2.2"
                <<86, 69, 82, 83, 73, 79, 78, 95, 49>>>>  \* "VERSION_1"
MCBase == <<97, 46, 115, 111>>                            \* "a.so"
MCMaxSyms == <<2, 1>>
MCNBucket == [gnu |-> {1, 2}, elf |-> {1}]
=============================================================================
