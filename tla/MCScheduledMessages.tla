------------------------ MODULE MCScheduledMessages ------------------------
(* Instances: all messages in one session, or the second one in another.    *)
EXTENDS ScheduledMessages, TLC

CONSTANTS s1, s2, u1

OneSession  == [m \in Message |-> s1]
TwoSessions == [m \in Message |-> IF m = 2 THEN s2 ELSE s1]
OneOwner    == [m \in Message |-> u1]

DeliveryIds == Permutations(Delivery)
=============================================================================
