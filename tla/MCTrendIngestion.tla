-------------------------- MODULE MCTrendIngestion --------------------------
(* Three candidates' worth of keys, two of them near duplicates; feeds     *)
(* that link two candidates in opposite orders, that change an item's key  *)
(* to a near one, that move an item to another candidate, and that hold    *)
(* one item twice.                                                         *)
EXTENDS TrendIngestion
CONSTANTS k1, k2, k3, i1, i2, q1, q2, q3

MCKeys == {k1, k2, k3}
MCNear == {<<k1, k2>>, <<k2, k1>>}
MCItems == {i1, i2}
MCTimes == 1..2
MCIngests == {q1, q2, q3}

Seen(i, k, t) == [id |-> i, key |-> k, at |-> t]
MCFeeds == {<<Seen(i1, k1, 1), Seen(i2, k3, 1)>>,
            <<Seen(i2, k3, 2), Seen(i1, k2, 2)>>,
            <<Seen(i2, k1, 1)>>, <<Seen(i1, k3, 1), Seen(i1, k1, 2)>>}
=============================================================================
