---------------------------- MODULE MCStatusSync ----------------------------
EXTENDS StatusSync, TLC

\* The two categories of an Asana task.
AsanaRanks == "new" :> 0 @@ "done" :> 2
AsanaTargets == "new" :> "new" @@ "done" :> "resolved"

CONSTANTS l1, l2, l3
Tracker(links) == [tool |-> "tracker", links |-> links]
Ticket(l) == [tool |-> "ticket", links |-> {l}]
Trackers == {Tracker({l1}), Tracker({l1, l2}), Ticket(l1), Ticket(l3)}
==============================================================================
