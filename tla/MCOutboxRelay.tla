--------------------------- MODULE MCOutboxRelay ---------------------------
EXTENDS OutboxRelay, TLC
\* Relay slots are interchangeable.
MCRelaySymmetry == Permutations(Relays)
\* The first row is a job, the others are verdict events.
MCRoute == [m \in Rows |-> IF m = 1 THEN "rabbitmq" ELSE "kafka"]
MCOnePost == [m \in Rows |-> "post"]
\* The job and the last verdict are about one post, the verdict between them
\* is about another.
MCTwoPosts == [m \in Rows |-> IF m = 2 THEN "other post" ELSE "post"]
\* The eventType of the second row has no route.
MCRouteGap == [m \in Rows |-> IF m = 2 THEN "none" ELSE "kafka"]
MCKafkaOnly == [m \in Rows |-> "kafka"]
=============================================================================
