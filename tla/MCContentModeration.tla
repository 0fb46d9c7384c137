------------------------ MODULE MCContentModeration ------------------------
EXTENDS ContentModeration
\* Channels c1 and c2 are two incarnations of one process, c3 of a second one.
MCProcessOf == [c \in Channels |-> IF c = "c3" THEN "p2" ELSE "p1"]
\* Two verdict messages for one post (its job was classified twice), then one
\* for another post.
MCPostOf == [v \in Messages |-> IF v = "v3" THEN "b" ELSE "a"]
=============================================================================
