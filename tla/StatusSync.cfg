CONSTANTS
  l1 = l1
  l2 = l2
  l3 = l3
  Link = {l1, l2, l3}
  Crowded = {l3}
  Category = {"new", "done"}
  Rank <- AsanaRanks
  Status = {"new", "resolved"}
  Target <- AsanaTargets
  Nothing = Nothing
  Setup <- Trackers
  Poll = {p}
  Hook = {h}
  Nobody = Nobody
  MaxMoves = 2
  MaxEdits = 1
  MaxFaults = 1
SPECIFICATION Spec
 
PROPERTIES SyncEventIsTrue LinksCatchUp
