\* Six architectures, every list of up to two relocations and one long list.
SPECIFICATION LazySpec
CONSTANTS
  Arches = {"X86_64", "X86", "Aarch64", "Arm", "Riscv64", "Loongarch64"}
  Requests <- MCRequests
  MaxRelocs = 2
  Calls = {"f", "g"}
  PageSize = 256
  BaseAddrs = {0, 4096}
  NameLen = 6
  Bias = 65536
\* write() returns or panics; a library without stubs is not called.
CHECK_DEADLOCK FALSE
INVARIANTS
  LaidOut
  SlotsOwn
  TablesAgree
  LazyCallBinds
