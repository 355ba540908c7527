CONSTANTS
  W = 3
  Program <- Firmware
  KernelIdle = 30
  Drivers <- OneTask
  Continuation <- SampleCode
  Operands <- TaskOperands
  Priority <- IrqPriority
  Level = {"IRQL1"}
  SampleIrq = "SPORT0_RX"
  Lines = {"IRQL1"}
  PC_STACK_DEPTH = 10
  CNTR_STACK_DEPTH = 4
  STAT_STACK_DEPTH = 4
  LOOP_STACK_DEPTH = 4
  MaxFaults = 1
SPECIFICATION Spec
INVARIANTS TypeOK QuotientExact SumExact CountdownExact LoopIsOnStack StacksUnwind MaskComesBack NoneOverlooked
