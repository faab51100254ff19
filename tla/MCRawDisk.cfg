SPECIFICATION Spec
CONSTANTS
  W8 = 2
  W16 = 4
  W21 = 4
  W32 = 8
  W64 = 16
  DescriptorLength = 1
  HeaderLength = 1
  PageLength = 2
  NULL = NULL
  MBR = MBR
  ParamSet <- MCParamSet
  Commands <- MCCommands
INVARIANT TypeOK
INVARIANT PromiseKept
 
PROPERTY TransferExact
