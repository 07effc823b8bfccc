\* Two nodes, one association id, two saved frames.
SPECIFICATION Spec
CONSTANTS
  Nodes = {n1, n2}
  NoNode = NoNode
  MaxAid = 2
  MaxQueue = 2
  Lifetimes = {1, 2}
  Wait = 1
  AgeMod = 4
  Ioctls = {}
  MaxRefs = 3
INVARIANTS TypeOK PendingCounts RefsCover PsCounts AgedOut AidsUnique
SYMMETRY Symmetry
CHECK_DEADLOCK FALSE
