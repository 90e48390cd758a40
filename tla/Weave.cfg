SPECIFICATION Spec
CONSTANTS
  Layouts <- Systems
  PhaseLength = 4
  ThreadIds = {1, 2, 3}
  AccLat = 1
  ZeroLoad = 2
  MaxPhases = 2
INVARIANTS GraphSound  OnTime MSHRsExact
PROPERTY PhaseEnds
