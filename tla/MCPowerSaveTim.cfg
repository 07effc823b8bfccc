\* One station that sleeps, is sent a frame, and leaves.
SPECIFICATION Spec
CONSTANTS
  Nodes = {n1}
  NoNode = NoNode
  MaxAid = 2
  MaxQueue = 2
  Lifetimes = {1}
  Wait = 1
  AgeMod = 4
  Ioctls = {}
  MaxRefs = 3
INVARIANTS TimOfMember
CHECK_DEADLOCK FALSE
