\* One reader whose buffer holds part of a second record.
SPECIFICATION Spec
CONSTANTS
  p1 = p1
  p2 = p2
  CPUs = {c1}
  Readers = {r1}
  Samples = {p1, p2}
  Cwnd <- MCCwnd
  Width <- MCWidth
  Lens = {3}
  BufSize = 4
  WordMod = 16
  NoSample = NoSample
INVARIANTS FitsInSpaceLeft
