\* Operands and jumps short enough that some bodies do not compile.
CONSTANTS
  MaxOperand = 3
  MaxJump = 12
  FixnumMax = 3
  MaxOps = 200
  Programs <- AllPrograms
SPECIFICATION Spec
INVARIANTS Equivalent NeverBroken StackLaidOut TailCallsStayFlat Finishes
PROPERTIES CallersUntouched KeepsContract
CHECK_DEADLOCK FALSE
