---------------------------- MODULE MCEngineOutbox ----------------------------
(* One version with at most two definitions, one or two consoles.  A       *)
(* scenario says which consoles run and how often each trouble may happen; *)
(* the rows fit in a batch unless it is Paged.                             *)
EXTENDS EngineOutbox

CONSTANTS k1, k2, c1, c2

Scenario(ks, b) ==
    [consoles |-> ks, batch |-> MaxRow, ahead |-> 0,
     budget |-> [t \in Trouble |-> IF t \in DOMAIN b THEN b[t] ELSE 0]]

Paged(batch, ahead, s) == [s EXCEPT !.batch = batch, !.ahead = ahead]

Troubles ==
    {Scenario({k1}, [save |-> 2, delete |-> 1, db |-> 1, restore |-> 1, crash |-> 1]),
     Paged(2, 1, Scenario({k1}, [save |-> 1, edit |-> 1, tamper |-> 1])),
     Paged(1, 1, Scenario({k1}, [save |-> 1, edit |-> 1, tamper |-> 1])),
     Paged(1, 0, Scenario({k1}, [save |-> 2, remove |-> 1])),
     Scenario({k1}, [save |-> 1, delete |-> 1, exit |-> 1, db |-> 1, restore |-> 1, down |-> 1]),
     Scenario({k1}, [save |-> 1, down |-> 1, partial |-> 1, crash |-> 1]),
     Scenario({k1}, [save |-> 1, edit |-> 1, tamper |-> 1, slow |-> 1]),
     Scenario({k1}, [save |-> 2, remove |-> 1, delete |-> 1]),
     Scenario({k1}, [save |-> 1, remove |-> 1, down |-> 1, partial |-> 1]),
     Scenario({k1, k2}, [save |-> 2, delete |-> 1]),
     Scenario({k1, k2}, [save |-> 1, remove |-> 1, crash |-> 1]),
     Scenario({k1, k2}, [save |-> 1, tamper |-> 1, slow |-> 1]),
     Scenario({k1, k2}, [save |-> 1, down |-> 1, edit |-> 1]),
     Scenario({k1, k2}, [save |-> 1, partial |-> 1, exit |-> 1])}
==============================================================================
