\* Three buffers, TAIL_DROP_COUNT 0; unfragmented frames start without error.
SPECIFICATION Spec
CONSTANTS
  tcp = tcp
  frag = frag
  arp = arp
  reply = reply
  mgmt = mgmt
  plain = plain
  null = null
  Mgmts = {plain, null}
  NoFrame = NoFrame
  Bufs = {b1, b2, b3}
  Packets = {frag, arp}
  Frags <- MCFrags
  Queue <- MCQueue
  Tcp <- MCTcp
  StartErrors = {"fragment", "mgmt"}
  TailDrop = 0
  FreeThreshold = 1
  MaxRefs = 3
SYMMETRY MCBufs
INVARIANTS TypeOK BuffersConserved RefsCover DepthBounded
CHECK_DEADLOCK FALSE
