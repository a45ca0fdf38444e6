CONSTANTS
  WordSize = 8
  a = a
  b = b
  c = c
  d = d
  Address <- MCAddress
  Genesis <- MCGenesis
  Epoch <- MCEpoch
  MaxNumber <- MCMaxNumber
SYMMETRY MCSymmetry
SPECIFICATION Spec
INVARIANTS
  TallyCountsVotes
  VotesInForce
  SomeSignerMaySeal
  RecentTestsAgree
PROPERTIES
  NoSignerTooSoon
  MajorityDecides
CHECK_DEADLOCK FALSE
