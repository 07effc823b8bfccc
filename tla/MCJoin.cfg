SPECIFICATION FairSpec
CONSTANTS
  Aids <- MCAids
  FailsMax = 2
  MaxFrames = 3
  MaxTrouble = 4
INVARIANTS TypeOK StrandedByDefect AidsAgree
PROPERTIES Settles
CHECK_DEADLOCK FALSE
