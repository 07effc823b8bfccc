\* The lock as the scripts use it, with races, deaths and forced releases.
CONSTANTS
  Recorders = {r1, r2}
  Checkers = {c1}
  Installers = {i1}
  Releasers = {o1}
  Dirs = {d1}
  NoDir = NoDir
SPECIFICATION FairSpec
INVARIANTS
  TypeOK
  ExclusionUnlessBreached
  NoLeakUnlessDied
PROPERTIES
  LockFreed
