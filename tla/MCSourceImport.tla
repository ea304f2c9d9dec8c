--------------------------- MODULE MCSourceImport ---------------------------
EXTENDS SourceImport, TLC

CONSTANTS c1, c2, w1, w2

\* One ticket and two workers, where Zendesk's tickets are reviewed and Intercom's are not.
Overlapping == {[provider |-> p, tickets |-> {c1}, crew |-> {w1, w2}, auto |-> p = "intercom"] :
                p \in {"zendesk", "intercom"}}
\* Two tickets and one worker.
OneByOne == [provider : {"zendesk", "intercom"}, tickets : {{c1, c2}}, crew : {{w1}},
             auto : BOOLEAN]
Either == Overlapping \cup OneByOne

Conversations == {s \in OneByOne : s.provider = "intercom"}
=============================================================================
