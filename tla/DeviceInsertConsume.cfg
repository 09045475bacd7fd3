CONSTANTS
  N = 2
  MAX_NEW_EVENTS = 2
  Budget = 3
  MaxKernels = 1
SPECIFICATION Spec
PROPERTIES CpuConsumes
