CONSTANTS
  N = 2
  MAX_NEW_EVENTS = 2
  Budget = 2
  MaxKernels = 3
SPECIFICATION Spec
PROPERTIES ImplementsMailbox
