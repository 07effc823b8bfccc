\* Two buffers, unfragmented packets only; the tasklet, a reset and the hardware are fair.
SPECIFICATION FairSpec
CONSTANTS
  tcp = tcp
  frag = frag
  arp = arp
  reply = reply
  mgmt = mgmt
  plain = plain
  null = null
  Mgmts = {mgmt, null}
  NoFrame = NoFrame
  Bufs = {b1, b2}
  Packets = {tcp}
  Frags <- MCFrags
  Queue <- MCQueue
  Tcp <- MCTcp
  StartErrors = {"mgmt"}
  TailDrop = 1
  FreeThreshold = 0
  MaxRefs = 2
PROPERTIES QueueRestarts QueuesDrain
CHECK_DEADLOCK FALSE
