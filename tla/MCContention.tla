---------------------------- MODULE MCContention ----------------------------
\* Contention for TLC, with the collision loops checked on more stations than the
\* exploration has.
EXTENDS Contention

\* The loops over CDMA_SSID_FLAG leave exactly the codes nobody else sent, however many
\* stations collide and in however many groups: four stations, three codes.
ASSUME CollisionLoops ==
    \A c \in [1..4 -> {None, 1, 2, 3}] :
        ClearCollisions(c) =
          {i \in 1..4 : c[i] # None /\ \A j \in 1..4 \ {i} : c[j] # c[i]}
=============================================================================
