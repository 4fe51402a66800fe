\* The 32-bit RISC-V writer and loader.
SPECIFICATION LazySpec
CONSTANTS
  Arches = {"Riscv32"}
  Requests <- MCRequests
  MaxRelocs = 2
  Calls = {"f", "g"}
  PageSize = 256
  BaseAddrs = {4096}
  NameLen = 6
  Bias = 65536
\* write() returns or panics; a library without stubs is not called.
CHECK_DEADLOCK FALSE
INVARIANTS
  LazyCallBinds
