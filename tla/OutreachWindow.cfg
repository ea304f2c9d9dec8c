CONSTANTS
  r1 = r1
  r2 = r2
  d1 = d1
  k1 = k1
  Item <- RecipientAndDelivery
  Campaign = {k1}
  NoCampaign = NoCampaign
  CampaignOf <- OneRecipient
  Customer <- OneCustomer
  CustomerOf <- ToAnn
  Worker = {w1, w2}
  NoItem = NoItem
  TimeLimit = 1
  Cooldown = 4
  MaxInFlight = 2
SPECIFICATION Spec
CHECK_DEADLOCK FALSE
SYMMETRY Symmetry
INVARIANTS TypeOK SentMeansMailed
PROPERTIES DoubleMailOnlyByOverlap OptOutStopsMail
