CONSTANTS
  W = 3
  Program <- YieldingFirmware
  KernelIdle = 30
  Drivers <- OneTask
  Continuation <- SampleCode
  Operands <- TaskOperands
  Priority <- IrqPriority
  Level = {"IRQL1"}
  SampleIrq = "SPORT0_RX"
  Lines = {"IRQL1"}
  PC_STACK_DEPTH = 10
  CNTR_STACK_DEPTH = 4
  STAT_STACK_DEPTH = 4
  LOOP_STACK_DEPTH = 4
  MaxFaults = 0
SPECIFICATION Spec
INVARIANTS LoopIsOnStack
