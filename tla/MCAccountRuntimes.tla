-------------------------- MODULE MCAccountRuntimes --------------------------
EXTENDS AccountRuntimes
CONSTANTS c1, c2, k1, k2, o1, s1, n1, n2
\* The configurations are interchangeable: the first connect asks for the first.
\* The credential store starts without a session; the commits put one there.
MCInit ==
    /\ Init /\ retained = 0
    /\ \A c \in Connects : c = c1 => key[c] = k1
MCSpec == MCInit /\ [][Next]_vars /\ Fairness
=============================================================================
