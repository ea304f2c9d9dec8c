------------------------- MODULE MCFeedbackAnalysis -------------------------
EXTENDS FeedbackAnalysis, TLC

CONSTANTS i1, i2
\* An item on its own, or two of an import.
Mixed == {{i2}, {i1, i2}}
==============================================================================
