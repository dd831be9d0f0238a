SPECIFICATION FairSpec
CONSTANTS
  Wait = {approve}
  Decider = {alice, bob}
  None = None
  Timeout = Timeout
  MaxCrashes = 1
  MaxLost = 1
  MaxFailedSends = 1
INVARIANTS OneDecisionPerWait TakenDecisionIsCredited ParkedRunWaits
PROPERTIES EndIsFinal RunEnds ClaimsAreSettled
