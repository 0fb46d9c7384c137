---------------------------- MODULE MCWorkQueue ----------------------------
EXTENDS WorkQueue, TLC
\* Channels c1 and c2 are two incarnations of one process, c3 and c4 belong
\* to a second one.
MCProcessOf == [c \in Channels |-> IF c \in {"c1", "c2"} THEN "p1" ELSE "p2"]
\* Messages are interchangeable.
MCMessageSymmetry == Permutations(Messages)
=============================================================================
