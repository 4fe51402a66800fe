--------------------------- MODULE MCLoadPipeline ---------------------------
(* A small shelf of files: every kind of file, every place one can be cut,  *)
(* and dynamic sections that can and cannot be parsed.                      *)
EXTENDS LoadPipeline

Phdr(t, o, v, s) ==
  [p_type |-> t, p_offset |-> o, p_vaddr |-> v, p_filesz |-> s, p_memsz |-> s]

ElfFile(t, phdrs, dyn) ==
  [e_type |-> t, ident |-> TRUE, phdrs |-> phdrs, dyn |-> dyn, len |-> 12,
   shoff |-> 10, shnum |-> 2]

Gnu == <<<<"NEEDED", 1>>, <<"JMPREL", 5>>, <<"GNU_HASH", 3>>, <<"NEEDED", 2>>,
         <<"PLTRELSZ", 2>>, <<"PLTREL", 7>>, <<"SYMTAB", 4>>, <<"FLAGS", 8>>,
         <<"NULL", 0>>, <<"NEEDED", 9>>>>
Sysv == <<<<"RELASZ", 3>>, <<"SYMTAB", 9>>, <<"RELA", 6>>, <<"HASH", 3>>,
          <<"SYMTAB", 4>>, <<"NEEDED", 0>>, <<"INIT_ARRAY", 8>>, <<"NULL", 0>>>>
NoHash == <<<<"SYMTAB", 4>>, <<"NULL", 0>>>>
NoNum == <<<<"HASH", 3>>, <<"VERNEED", 6>>, <<"NULL", 0>>>>
Rel == <<<<"HASH", 3>>, <<"PLTREL", 17>>, <<"NULL", 0>>>>
Mixed == <<<<"RELA", 6>>, <<"RELSZ", 3>>, <<"HASH", 3>>, <<"REL", 7>>,
           <<"RELASZ", 2>>, <<"RELCOUNT", 1>>, <<"PLTREL", 7>>, <<"NULL", 0>>>>

Load == Phdr("LOAD", 1, 11, 8)
Dyn == Phdr("DYNAMIC", 6, 16, 2)

Dylib == ElfFile("DYN", <<Phdr("PHDR", 2, 12, 3), Load, Dyn>>, Gnu)
Pie == ElfFile("DYN", <<Phdr("INTERP", 5, 15, 1), Load, Dyn>>, Sysv)
StaticPie == ElfFile("DYN", <<Load>>, <<>>)

MCFiles == <<
  Dylib, Pie, StaticPie,
  ElfFile("EXEC", <<Load, Dyn, Phdr("GNU_RELRO", 6, 16, 2)>>, NoNum),
  ElfFile("EXEC", <<Phdr("LOAD", 0, 10, 4)>>, <<>>),
  ElfFile("REL", <<>>, <<>>),
  ElfFile("CORE", <<>>, <<>>),
  ElfFile("DYN", <<Load, Dyn>>, NoHash),
  ElfFile("DYN", <<Phdr("LOAD", 0, 10, 5), Dyn>>, Rel),
  ElfFile("DYN", <<Load, Dyn, Phdr("INTERP", 5, 30, 1)>>, Mixed),
  [Dylib EXCEPT !.ident = FALSE],
  [Dylib EXCEPT !.len = 1],
  [Pie EXCEPT !.len = 4],
  [ElfFile("REL", <<>>, <<>>) EXCEPT !.len = 11]>>
=============================================================================
