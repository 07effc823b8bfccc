\* One node, three saved frames, and an ioctl.
SPECIFICATION FairSpec
CONSTANTS
  Nodes = {n1}
  NoNode = NoNode
  MaxAid = 2
  MaxQueue = 3
  Lifetimes = {2}
  Wait = 1
  AgeMod = 4
  Ioctls = {p1}
  MaxRefs = 4
INVARIANTS AgedOut
PROPERTIES QueuesMove
CHECK_DEADLOCK FALSE
