----------------------------- MODULE MCOutreach -----------------------------
EXTENDS Outreach, TLC

CONSTANTS r1, r2, d1, k1

Ann   == [org |-> 1, email |-> "ann"]
Ann2  == [org |-> 2, email |-> "ann"]

\* One customer in a campaign and in an automation delivery.
OneCustomer == {Ann}
RecipientAndDelivery == {r1, d1}
OneRecipient == r1 :> k1 @@ d1 :> NoCampaign
ToAnn == r1 :> Ann @@ d1 :> Ann

\* A campaign with two recipients, whose health rows differ in the case of the
\* address only: one customer to the sender.
TwoRecipients == {r1, r2}
BothInCampaign == r1 :> k1 @@ r2 :> k1
BothToAnn == r1 :> Ann @@ r2 :> Ann

Symmetry == Permutations(Worker)
==============================================================================
