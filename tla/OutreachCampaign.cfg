CONSTANTS
  r1 = r1
  r2 = r2
  d1 = d1
  k1 = k1
  Item <- TwoRecipients
  Campaign = {k1}
  NoCampaign = NoCampaign
  CampaignOf <- BothInCampaign
  Customer <- OneCustomer
  CustomerOf <- BothToAnn
  Worker = {w1, w2}
  NoItem = NoItem
  TimeLimit = 0
  Cooldown = 1
  MaxInFlight = 2
SPECIFICATION Spec
CHECK_DEADLOCK FALSE
SYMMETRY Symmetry
INVARIANTS DoneMeansSettled
