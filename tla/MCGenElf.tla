------------------------------ MODULE MCGenElf ------------------------------
(* Small instances of GenElfLazy: up to MaxRelocs relocations, one symbol   *)
(* of every kind, one of them given twice.                                  *)
EXTENDS GenElfLazy

CONSTANTS MaxRelocs, Calls

Symbols ==
  <<global_object(Plain("v"), 8), undefined_func(Plain("f")), undefined_func(Plain("g")),
    undefined_object(Plain("v")), with_size(undefined_object(Plain("c")), 12),
    with_size(undefined_object(Plain("d")), 8), undefined_tls(Plain("t"))>>

WithTls == Append(Symbols, global_tls(Plain("u"), 4))

Entries ==
  {RelocEntry("RELATIVE", NoName), RelocEntry("IRELATIVE", NoName),
   RelocEntry("GLOB_DAT", Plain("v")), RelocEntry("ABS", Plain("v")),
   RelocEntry("COPY", Plain("c")), RelocEntry("COPY", Plain("d")),
   RelocEntry("DTPOFF", Plain("t")), RelocEntry("PC", Plain("f")),
   RelocEntry("ABS", Plain("missing"))}
  \cup {RelocEntry("JUMP_SLOT", Plain(n)) : n \in Calls}

MCRequests ==
  [relocs : SeqOf(Entries, MaxRelocs), symbols : {Symbols}]
  \cup {[relocs |-> <<RelocEntry("JUMP_SLOT", Plain("f")), RelocEntry("RELATIVE", NoName),
                      RelocEntry("JUMP_SLOT", Plain("g")), RelocEntry("COPY", Plain("c")),
                      RelocEntry("IRELATIVE", NoName), RelocEntry("COPY", Plain("d")),
                      RelocEntry("GLOB_DAT", Plain("v")), RelocEntry("DTPOFF", Plain("u"))>>,
         symbols |-> WithTls],
        [relocs |-> <<RelocEntry("JUMP_SLOT", Plain("f")), RelocEntry("JUMP_SLOT", Plain("f")),
                      RelocEntry("JUMP_SLOT", Plain("g"))>>,
         symbols |-> Symbols]}
=============================================================================
