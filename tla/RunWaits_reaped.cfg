SPECIFICATION Spec
CONSTANTS
  Wait = {approve}
  Decider = {alice}
  None = None
  Timeout = Timeout
  MaxCrashes = 0
  MaxLost = 0
  MaxFailedSends = 0
PROPERTIES ReapedRunStaysEnded
