------------------------- MODULE MCAutomationRules -------------------------
EXTENDS AutomationRules, TLC

CONSTANTS r1, r2
\* Two rules whose playbooks trigger each other.
Cycle == r1 :> r2 @@ r2 :> r1
Start == {None, "active"}
==============================================================================
