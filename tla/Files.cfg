SPECIFICATION Spec
CONSTANTS
  Procs = {1, 2}
  a = a
  b = b
  c = c
  Jobs = {a, b, c}
  ProcOf <- MCProcOf
  Kinds = {"config", "manifest", "watch", "update", "history", "export"}
  Pids = {1, 2}
  Old = Old
SYMMETRY Symmetry
INVARIANTS
  FilesReadable
  NoLitter
PROPERTIES
  SuccessIsOwn
