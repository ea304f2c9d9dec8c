CONSTANTS
  Event = {e1}
  Worker = {w1, w2}
  NoEvent = NoEvent
  MaxRetries = 1
  Threshold = 2
  MaxFailures = 3
  MaxLost = 2
SPECIFICATION FairSpec
CHECK_DEADLOCK FALSE
INVARIANTS LossCostsOneChain
PROPERTIES AcceptedIsNotRepeated EventsComeToRest DisabledByStreak
