SPECIFICATION Spec
CONSTANTS
  Wait = {approve}
  Decider = {alice, bob}
  None = None
  Timeout = Timeout
  MaxCrashes = 0
  MaxLost = 0
  MaxFailedSends = 1
INVARIANTS CreditedDecisionWasTaken
