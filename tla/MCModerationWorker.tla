------------------------- MODULE MCModerationWorker -------------------------
EXTENDS ModerationWorker, TLC
\* Channels c1 and c2 are two incarnations of one process, c3 of a second one.
MCProcessOf == [c \in Channels |-> IF c = "c3" THEN "p2" ELSE "p1"]
\* Every message is a copy of the same job: the outbox relay sent it twice.
MCOneJob == [m \in Messages |-> "job"]
\* Copies of one job are interchangeable.
MCCopySymmetry == Permutations(Messages)
=============================================================================
