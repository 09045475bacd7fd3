CONSTANTS
  Packets = {p1, p2, p3, p4}
  Completion = Completion
  None = None
  m_queueSize = 2
  UintModulus = 256
  MaxKernels = 3
SPECIFICATION Spec
INVARIANTS NothingLost
