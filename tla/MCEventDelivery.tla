--------------------------- MODULE MCEventDelivery ---------------------------
(* One execution, at most two filters and three events.  A scenario says   *)
(* which filters run, how many events there are, whether the subscription  *)
(* has a timeout and how often each trouble may happen.                    *)
EXTENDS EventDelivery

CONSTANTS f1, f2

Scenario(fs, n, timed, b) ==
    [filters |-> fs, events |-> 1 .. n, timed |-> timed, time |-> MaxTime,
     budget |-> [t \in Trouble |-> IF t \in DOMAIN b THEN b[t] ELSE 0]]

Troubles ==
    {Scenario({f1}, 1, FALSE, [subscribe |-> 1, enqueue |-> 1, crash |-> 1]),
     Scenario({f1}, 1, FALSE, [subscribe |-> 1, redis |-> 1]),
     [Scenario({f1}, 1, FALSE, [subscribe |-> 2, lost |-> 1]) EXCEPT !.time = 0],
     [Scenario({f1, f2}, 1, FALSE, [subscribe |-> 1]) EXCEPT !.time = 0],
     Scenario({f1}, 1, TRUE, [subscribe |-> 1, window |-> 1]),
     Scenario({f1, f2}, 0, TRUE, [subscribe |-> 1, enqueue |-> 1, redis |-> 1]),
     Scenario({f1}, 0, TRUE, [subscribe |-> 2, cancel |-> 1, crash |-> 1]),
     Scenario({f1}, 0, TRUE, [subscribe |-> 1, release |-> 1]),
     Scenario({f1}, 1, FALSE, [subscribe |-> 1, expire |-> 1]),
     [Scenario({f1}, 1, FALSE, [subscribe |-> 1, expire |-> 1, redis |-> 1]) EXCEPT !.time = 0],
     Scenario({f1}, 0, TRUE, [subscribe |-> 2, expire |-> 1]),
     Scenario({f1}, 3, FALSE, [redis |-> 1]),
     Scenario({f1, f2}, 2, FALSE, <<>>),
     Scenario({f1}, 2, FALSE, [late |-> 1])}

OneFailure == {Scenario({f1, f2}, 1, FALSE, [subscribe |-> 1, enqueue |-> 1])}
=============================================================================
