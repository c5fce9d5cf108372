\* One name of each sort; a program and the host rebind two of them.
CONSTANTS
  Names <- MCNames
  ArityOf <- MCArityOf
  MaxArgs = 2
  Files <- MCFiles
  SysFile = 1
  DeclarationsFile = 2
  SlowDefuns = {"stlib.slow"}
  Primitives <- MCPrimitives
  HashName = "hash"
  StoreNames <- MCStoreNames
  HotNames <- MCHotNames
  CacheNames = {"load"}
  JitLeaf = "shen.length-h"
  JitDemo = "shen-w1-sumto"
  Covered = {"f"}
  UserNames = {"f", "shen.length-h"}
  SealExclude <- MCSealExclude
  CallsInFile <- MCCallsInFile
  Undefined = Undefined
  NoSlot = NoSlot
SPECIFICATION Spec
INVARIANT SealedCallsAgree
