\* One CPU, two readers, a ring of 4 slots, 4-bit words.
SPECIFICATION Spec
CONSTANTS
  p1 = p1
  p2 = p2
  CPUs = {c1}
  Readers = {r1, r2}
  Samples = {p1, p2}
  Cwnd <- MCCwnd
  Width <- MCWidth
  Lens = {2}
  BufSize = 4
  WordMod = 16
  NoSample = NoSample
SYMMETRY MCReaders
INVARIANTS TypeOK NoLostWakeup
PROPERTIES StoresUnlessFull AbsSpec
