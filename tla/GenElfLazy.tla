----------------------------- MODULE GenElfLazy -----------------------------
(***************************************************************************)
(* A library of gen-elf's in the hands of the loader: relocated with lazy  *)
(* binding, then called through its @helper functions.  The writer and the *)
(* loader are separate crates that have to agree, for each architecture,   *)
(* on the word of .got.plt the resolver is found at and on how a stub says *)
(* which relocation it wants.                                              *)
(*                                                                         *)
(* One step per jump: helper, stub, lazy part of a stub, PLT0.             *)
(***************************************************************************)
EXTENDS GenElf

CONSTANT Bias   \* the address the library is loaded at

VARIABLES
  mem,    \* .got.plt in memory: address -> [kind, at]
  cpu     \* [state, at, token, asked, reached]

lazyVars == <<vars, mem, cpu>>

Word(kind, at) == [kind |-> kind, at |-> at]
Addr(a) == Word("addr", a)
Function(sym) == Word("function", sym)

GotWord(k) == get_vaddr("GotPlt") + Bias + k * word_size
PltRels == {i \in DOMAIN rels : InPlt(i)}

\* dl_runtime_resolve: the word of .got.plt it is stored at, and what it
\* divides what it is told by to get an index.
Resolve(offset, div) == [offset |-> offset, div |-> div]
x86_64_resolve == Resolve(2, 1)
x86_resolve == Resolve(2, 8)
aarch64_resolve == Resolve(2, 8)
arm_resolve == Resolve(2, 4)
riscv64_resolve == Resolve(0, 8)
riscv32_resolve == Resolve(0, 8)
loongarch64_resolve == Resolve(0, 8)
dl_runtime_resolve ==
  [X86_64 |-> x86_64_resolve, X86 |-> x86_resolve, Aarch64 |-> aarch64_resolve,
   Arm |-> arm_resolve, Riscv64 |-> riscv64_resolve, Riscv32 |-> riscv32_resolve,
   Loongarch64 |-> loongarch64_resolve][arch]

DYLIB_OFFSET == 1
RESOLVE_FUNCTION_OFFSET == dl_runtime_resolve.offset

\* relocate_pltrel rebases the words of the slots, then prepare_lazy_bind
\* stores the core and the resolver behind DT_PLTGOT.
prepare_lazy_bind(words) ==
  LET got_ == Entry("PLTGOT") + Bias
  IN IF PltRels = {} THEN words
     ELSE [words EXCEPT ![got_ + DYLIB_OFFSET * word_size] = Word("core", 0),
                        ![got_ + RESOLVE_FUNCTION_OFFSET * word_size] = Word("resolver", 0)]

relocate ==
  /\ pc = "written" /\ pc' = "loaded"
  /\ mem' = prepare_lazy_bind(
       [a \in {GotWord(k) : k \in DOMAIN gotPlt} |->
          LET w == gotPlt[(a - GotWord(0)) \div word_size]
          IN IF \E i \in PltRels : rels[i].off + Bias = a THEN Addr(w + Bias) ELSE Addr(w)])
  /\ UNCHANGED <<given, tables, secs, fileOff, patched, dyn, file, cpu>>

Loaded == pc = "loaded" /\ UNCHANGED vars

\* A call of the helper of a function.
Call ==
  /\ Loaded /\ cpu.state = "idle"
  /\ \E p \in Stubs :
       \E sym \in {rels[i].sym : i \in {j \in PltRels : Stub(syms[rels[j].sym].name) = syms[p].name}} :
         cpu' = [cpu EXCEPT !.state = "running", !.at = jumps[HelperOf(p)] + Bias,
                            !.asked = sym, !.reached = 0]
  /\ mem' = mem

\* Execution at the target of a word.
JumpTo(w, token) ==
  CASE w.kind = "function" -> [cpu EXCEPT !.state = "idle", !.reached = w.at]
    [] w.kind = "addr" -> [cpu EXCEPT !.at = w.at, !.token = token]
    [] OTHER -> [cpu EXCEPT !.state = "crashed"]

AtStub(off) == {p \in Stubs : cpu.at = syms[p].value + Bias + off}

\* What a stub leaves behind by jumping through its slot.
StubToken(p) ==
  CASE Machine.tells = "slot" -> through[p] + Bias
    [] Machine.tells = "return" -> cpu.at + 12
    [] OTHER -> 0

plt_entry ==
  /\ Loaded /\ cpu.state = "running"
  /\ \E p \in AtStub(0) : cpu' = JumpTo(mem[through[p] + Bias], StubToken(p))
  /\ mem' = mem

\* Mutant: no architecture scales the index.
IndexToken_unscaled(idx) == idx

\* The index as the lazy part of a stub loads it.
IndexToken(idx) == idx * Machine.scale

\* The lazy part of a stub, which jumps to PLT0.
plt_entry_lazy ==
  /\ Loaded /\ cpu.state = "running" /\ AtStub(0) = {}
  /\ \E p \in AtStub(Machine.lazy) :
       LET e == entries[CHOOSE k \in DOMAIN entries : entries[k].stub = p]
       IN cpu' = [cpu EXCEPT !.at = syms[p].value + Bias - e.back, !.token = IndexToken(e.idx)]
  /\ mem' = mem

Plt0At == syms[get_sym_idx(PLT0)].value + Bias

\* The index dl_runtime_resolve passes on: the distance of the slot from the
\* first one, of the return address from that of the first stub (PLT0 has
\* halved it), or the index the stub loaded.
reloc_idx ==
  (CASE Machine.tells = "slot" -> cpu.token - GotWord(3)
     [] Machine.tells = "return" -> (cpu.token - Plt0At - 44) \div 2
     [] OTHER -> cpu.token) \div dl_runtime_resolve.div

\* The resolver writes the slot of relocation rela_idx and continues with the
\* function; an index outside the table is not checked for.
dl_fixup(rela_idx) ==
  LET rela == rels[plt_start + 1 + rela_idx]
  IN /\ mem' = [mem EXCEPT ![rela.off + Bias] = Function(rela.sym)]
     /\ cpu' = [cpu EXCEPT !.state = "idle", !.reached = rela.sym]

CanResolve ==
  /\ cpu.at = Plt0At
  /\ mem[GotWord(Machine.word)].kind = "resolver" /\ mem[GotWord(1)].kind = "core"
  /\ reloc_idx \in 0..(Len(rels) - plt_start - 1)

\* PLT0 and dl_runtime_resolve.
plt0 ==
  /\ Loaded /\ cpu.state = "running" /\ CanResolve
  /\ dl_fixup(reloc_idx)

\* Execution where the library has no such code, or PLT0 without the resolver
\* or with an index that is none.
astray ==
  /\ Loaded /\ cpu.state = "running"
  /\ AtStub(0) = {} /\ AtStub(Machine.lazy) = {} /\ ~CanResolve
  /\ cpu' = [cpu EXCEPT !.state = "crashed"] /\ mem' = mem

LazyInit ==
  /\ Init /\ mem = <<>>
  /\ cpu = [state |-> "idle", at |-> 0, token |-> 0, asked |-> 0, reached |-> 0]

LazyNext ==
  \/ Next /\ UNCHANGED <<mem, cpu>>
  \/ relocate \/ Call \/ plt_entry \/ plt_entry_lazy \/ plt0 \/ astray

LazySpec == LazyInit /\ [][LazyNext]_lazyVars

Distinct == \A i, j \in 1..Len(Jumps) : i # j => Jumps[i].name # Jumps[j].name

\* A call through a helper of a library gen-elf wrote reaches the function it
\* names, and afterwards the slot of that function, and no other one, holds
\* its address: the stub, PLT0, prepare_lazy_bind and dl_runtime_resolve mean
\* the same relocation.  A function named by two jump slots is outside of
\* this: its stub is generated for the first and patched for the last.
LazyCallBinds ==
  Distinct =>
    /\ cpu.state # "crashed"
    /\ cpu.state = "idle" => cpu.reached = cpu.asked
    /\ pc = "loaded" => \A i \in PltRels :
         mem[rels[i].off + Bias].kind = "function" => mem[rels[i].off + Bias].at = rels[i].sym
    /\ cpu.state = "idle" /\ cpu.asked # 0 =>
         \E i \in PltRels : mem[rels[i].off + Bias] = Function(cpu.asked)
=============================================================================
