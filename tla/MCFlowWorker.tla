---------------------------- MODULE MCFlowWorker ----------------------------
(* Two workers and one execution of a short flow; what may go wrong, and   *)
(* how often, are the Budgets that each configuration picks.               *)
EXTENDS FlowWorker, TLC

CONSTANTS w1, w2, nobody

MCWorker == {w1, w2}
Symmetry == Permutations(MCWorker)
MCTerminal == {d \in RowData : d.status \in TerminalStatus}

Tasks == <<"task", "task", "task">>
ServiceFlow == <<"task", "service", "task">>
EventFlow == <<"task", "event", "task">>

Calm == [f \in Fault |-> 0]
Crashes == {[Calm EXCEPT !["crash"] = 2, !["push"] = 1],
            [Calm EXCEPT !["crash"] = 1, !["fail"] = 1]}
Takeover == {[Calm EXCEPT !["stall"] = 1, !["crash"] = 2, !["fail"] = 1, !["retry"] = 1]}
FailAndRequest == {[Calm EXCEPT !["fail"] = 1, !["request"] = 1]}
OneStall == {[Calm EXCEPT !["stall"] = 1]}
OneCrash == {[Calm EXCEPT !["crash"] = 1]}
=============================================================================
