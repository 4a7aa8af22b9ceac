--------------------------- MODULE MCSubscription ---------------------------
EXTENDS Subscription

\* s1 and s2 are two settings of one server, s3 is another server.
CONSTANTS s1, s2, s3
Hosts == [c \in Servers |-> IF c = s2 THEN s1 ELSE c]
=============================================================================
