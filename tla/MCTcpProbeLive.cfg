\* Two CPUs, two readers, a ring of 4 slots; every wake-up interleaving, with fairness.
SPECIFICATION FairSpec
CONSTANTS
  p1 = p1
  p2 = p2
  CPUs = {c1, c2}
  Readers = {r1, r2}
  Samples = {p1}
  Cwnd <- MCCwnd
  Width <- MCWidth
  Lens = {2}
  BufSize = 4
  WordMod = 8
  NoSample = NoSample
INVARIANTS NoLostWakeup
PROPERTIES ReaderServed
