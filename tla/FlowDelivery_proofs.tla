------------------------ MODULE FlowDelivery_proofs ------------------------
(***************************************************************************)
(* What gets through to the execution, for any number of workers and any   *)
(* chain of nodes: published decisions reach the row that waits for them,  *)
(* an execution that runs has a carrier, and no service is left without    *)
(* its task.                                                               *)
(*                                                                         *)
(* The first part (FlowDecisionNotLost) takes any number of crashes,       *)
(* failed pushes and user retries in a steady run: no renewal stalls,      *)
(* nobody cancels or deletes the execution, and nodes fail less often than *)
(* each may be tried.  Its invariant is read from the bottom up.  In a     *)
(* steady run a worker with a token is the one holder of the lease, so     *)
(* what it has in memory is the row (SteadyInv, WorkInv).  A worker treats *)
(* the message of a decision as one (AttendInv), and what a session asks   *)
(* for was never asked for before (AskInv).  So a decision that the row    *)
(* waits for, or is about to, has a message that nobody throws away        *)
(* (DecisionInv).                                                          *)
(*                                                                         *)
(* The second part (FlowRunningHasCarrier, FlowNoForgottenDispatch) leaves *)
(* out failing nodes and bounds the crashes and failed pushes.  Then every *)
(* step of a worker is one of a few moves (Moves), and a row that runs, or *)
(* owes its service the task, is carried by the start until the first      *)
(* decision (CarriedInv) and by a decision after it (DriveInv).            *)
(***************************************************************************)
EXTENDS FlowWorker_proofs, Extrema

(* Crashes, failed pushes and user retries without limit, but no renewal   *)
(* that stalls, nothing cancelled or deleted, and fewer failures than a    *)
(* node may be tried.                                                      *)
Steady == \A b \in Budgets : b["stall"] = 0 /\ b["request"] = 0 /\ b["fail"] < RetryBudget

(* Nobody cancels or deletes the execution, and renewals come in time. *)
Undisturbed ==
    /\ budget["stall"] = 0 /\ budget["request"] = 0
    /\ ~cancelFlag /\ ctl = NoRequest /\ ~tombstone

(* What a worker does only once the execution is cancelled or given up. *)
GivenUp(r) ==
    \/ r.pc \in {"startCancel", "startAborted", "cancel", "dlqWrite"}
    \/ r.pc \in {"dlqLease", "dlqTomb"} /\ r.d.status = "error"

(* A failure that is still possible finds a try left at every node. *)
TriesLeft ==
    \A k \in Node :
       /\ tries[k] + budget["fail"] < RetryBudget
       /\ \A w \in Worker : wk[w].pc = "failed" => tries[k] + 1 + budget["fail"] < RetryBudget

(* Whoever has a token still has the lease, and the fence accepts it. *)
LeaseKept ==
    \A w \in Worker : /\ wk[w].pc = "idle" => token[w] = 0
                      /\ token[w] # 0 => HoldsLease(w) /\ FenceAccepts(w)

SteadyInv ==
    /\ Undisturbed /\ TriesLeft /\ LeaseKept
    /\ \A w \in Worker : ~GivenUp(wk[w])

(* At most one worker has a token. *)
LEMMA OneHolder ==
    ASSUME SteadyInv, NEW v \in Worker, NEW w \in Worker, token[v] # 0, token[w] # 0
    PROVE  v = w
BY DEF SteadyInv, LeaseKept, HoldsLease, LeaseValue

(* Spending one fault leaves the budgets of the others alone. *)
LEMMA SpendOne ==
    ASSUME FlowInv, NEW f \in Fault, Spend(f)
    PROVE  /\ budget'[f] = budget[f] - 1 /\ budget[f] > 0 /\ budget[f] \in Nat
           /\ \A g \in Fault \ {f} : budget'[g] = budget[g]
BY DEF FlowInv, WorldTyped, Spend

(* What a step of a steady execution may spend: crashes, pushes, failures. *)
LEMMA SteadySpends ==
    ASSUME FlowInv, SteadyInv, NEW w \in Worker, AnyStep(w)
    PROVE  /\ UNCHANGED <<cancelFlag, ctl>>
           /\ \/ budget' = budget \/ Spend("crash") \/ Spend("push")
              \/ Spend("fail") /\ NodeFails(w)
<1> USE DEF SteadyInv, Undisturbed
<1>1. CASE QueueStep(w)
  <2>1. ~Spend("stall")
    BY DEF Spend
  <2> QED
    BY <1>1, <2>1 DEF QueueStep, Take, Reclaim, DeadLetterGuard, DeadLetterProbe, DeadLetterVerdict,
                      DeadLetterWrite, Finish
<1>2. CASE StartStep(w)
  BY <1>2 DEF StartStep, StartCheck, StartCancelled, StartAcquire, StartPersist, StartFailed
<1>3. CASE ResumeStep(w)
  BY <1>3 DEF ResumeStep, GuardResume, CompensateAcquire, CompensateCheck, AcquireResume,
              RecheckResume, ResumeRefused, WakeUp
<1>4. CASE LoopStep(w)
  <2>1. CASE NodeFails(w)
    BY <2>1 DEF NodeFails
  <2>2. CASE PushTask(w)
    BY <2>2 DEF PushTask
  <2> QED
    BY <1>4, <2>1, <2>2
       DEF LoopStep, RunNode, ResolveNode, NodeAborted, LeaseLost, StepBoundary, StepPersist,
           SuspendPersist, ClearPending, EndPersist, CancelPersist, HandleFailure,
           ErrorPersist, Requeue
<1>5. CASE WorkerCrash(w)
  BY <1>5 DEF WorkerCrash
<1> QED
  BY <1>1, <1>2, <1>3, <1>4, <1>5 DEF AnyStep

(* No worker is told to cancel, and the guard gives no execution up. *)
LEMMA SteadyLabels ==
    ASSUME FlowInv, SteadyInv, NEW w \in Worker, AnyStep(w)
    PROVE  ~GivenUp(wk'[w])
<1> USE DEF SteadyInv, Undisturbed, GivenUp, FlowInv, WorkerState, Leave, Goto, Persist,
            AcquireLease, LeaseError
<1>1. CASE QueueStep(w)
  <2>1. CASE Take(w)
    BY <2>1, Dispatched DEF Take
  <2>2. CASE Reclaim(w)
    <3>1. PICK m \in Msg : \/ wk' = [wk EXCEPT ![w] = [Idle EXCEPT !.pc = "dlq", !.msg = m]]
                           \/ Dispatch(w, m, msgs[m].n + 1)
      BY <2>2 DEF Reclaim
    <3>2. [Idle EXCEPT !.pc = "dlq", !.msg = m].pc = "dlq"
      BY DEF Idle
    <3> QED
      BY <2>2, <3>1, <3>2, Dispatched DEF Reclaim
  <2>3. CASE DeadLetterGuard(w) \/ DeadLetterProbe(w) \/ DeadLetterVerdict(w)
    <3>1. ~RetriesExhausted
      <4> SUFFICES ASSUME NEW k \in Node, tries[k] >= RetryBudget PROVE FALSE
        BY DEF RetriesExhausted
      <4>1. /\ tries[k] \in Nat /\ budget["fail"] \in Nat /\ RetryBudget \in Nat
            /\ tries[k] + budget["fail"] < RetryBudget
        BY FlowConstants DEF WorldTyped, TriesLeft, Fault
      <4> QED
        BY <4>1
    <3> QED
      BY <2>3, <3>1 DEF DeadLetterGuard, DeadLetterProbe, DeadLetterVerdict, TerminalStatus
  <2>4. CASE DeadLetterWrite(w) \/ Finish(w)
    BY <2>4 DEF DeadLetterWrite, Finish, Idle
  <2> QED
    BY <1>1, <2>1, <2>2, <2>3, <2>4 DEF QueueStep
<1>2. CASE StartStep(w)
  BY <1>2 DEF StartStep, StartCheck, StartCancelled, StartAcquire, StartPersist, StartFailed
<1>3. CASE ResumeStep(w)
  <2>1. CASE GuardResume(w) \/ CompensateAcquire(w) \/ CompensateCheck(w) \/ AcquireResume(w)
    BY <2>1 DEF GuardResume, CompensateAcquire, CompensateCheck, AcquireResume
  <2>2. CASE RecheckResume(w)
    BY <2>2 DEF RecheckResume
  <2>3. CASE ResumeRefused(w) \/ WakeUp(w)
    BY <2>3 DEF ResumeRefused, queueVars, WakeUp
  <2> QED
    BY <1>3, <2>1, <2>2, <2>3 DEF ResumeStep
<1>4. CASE LoopStep(w)
  <2>1. CASE RunNode(w)
    BY <2>1 DEF RunNode, AfterRun
  <2>2. CASE ResolveNode(w) \/ NodeFails(w) \/ LeaseLost(w) \/ StepBoundary(w)
    BY <2>2 DEF ResolveNode, NodeFails, LeaseLost, StepBoundary
  <2>3. CASE NodeAborted(w)
    <3>1. token[w] # 0
      BY <2>3, WorkerFacts DEF NodeAborted, Sane, TokenPC
    <3> QED
      BY <2>3, <3>1 DEF NodeAborted, LeaseKept
  <2>4. CASE StepPersist(w) \/ SuspendPersist(w) \/ ClearPending(w) \/ PushTask(w)
    BY <2>4 DEF StepPersist, SuspendPersist, ClearPending, PushTask
  <2>5. CASE EndPersist(w) \/ CancelPersist(w) \/ ErrorPersist(w)
    BY <2>5 DEF EndPersist, CancelPersist, ErrorPersist
  <2>6. CASE HandleFailure(w) \/ Requeue(w)
    BY <2>6 DEF HandleFailure, Requeue
  <2> QED
    BY <1>4, <2>1, <2>2, <2>3, <2>4, <2>5, <2>6 DEF LoopStep
<1>5. CASE WorkerCrash(w)
  BY <1>5 DEF WorkerCrash, Idle
<1> QED
  BY <1>1, <1>2, <1>3, <1>4, <1>5 DEF AnyStep

(* How the retry counters of a steady execution move. *)
LEMMA SteadyTries ==
    ASSUME FlowInv, SteadyInv, NEW w \in Worker, AnyStep(w)
    PROVE  \/ wk'[w].pc = "failed" /\ tries' = tries /\ NodeFails(w)
           \/ /\ wk'[w].pc # "failed" /\ wk[w].pc = "failed"
              /\ tries' = tries \/ tries' = [tries EXCEPT ![wk[w].c + 1] = @ + 1]
           \/ /\ wk'[w].pc # "failed"
              /\ \/ tries' = tries \/ tries' = [tries EXCEPT ![wk[w].c + 1] = 0]
                 \/ tries' = [k \in Node |-> 0]
<1> USE DEF FlowInv, WorkerState, Leave, Goto, Persist, AcquireLease, LeaseError, counterVars
<1>1. CASE QueueStep(w)
  <2>1. CASE Take(w)
    BY <2>1, Dispatched DEF Take
  <2>2. CASE Reclaim(w)
    <3>1. PICK m \in Msg : \/ wk' = [wk EXCEPT ![w] = [Idle EXCEPT !.pc = "dlq", !.msg = m]]
                           \/ Dispatch(w, m, msgs[m].n + 1)
      BY <2>2 DEF Reclaim
    <3>2. [Idle EXCEPT !.pc = "dlq", !.msg = m].pc = "dlq"
      BY DEF Idle
    <3> QED
      BY <2>2, <3>1, <3>2, Dispatched DEF Reclaim
  <2>3. CASE DeadLetterGuard(w) \/ DeadLetterProbe(w) \/ DeadLetterVerdict(w)
    BY <2>3 DEF DeadLetterGuard, DeadLetterProbe, DeadLetterVerdict
  <2>4. CASE DeadLetterWrite(w) \/ Finish(w)
    BY <2>4 DEF DeadLetterWrite, Finish, Idle
  <2> QED
    BY <1>1, <2>1, <2>2, <2>3, <2>4 DEF QueueStep
<1>2. CASE StartStep(w)
  BY <1>2 DEF StartStep, StartCheck, StartCancelled, StartAcquire, StartPersist, StartFailed
<1>3. CASE ResumeStep(w)
  <2>1. CASE GuardResume(w) \/ CompensateAcquire(w) \/ CompensateCheck(w) \/ AcquireResume(w)
    BY <2>1 DEF GuardResume, CompensateAcquire, CompensateCheck, AcquireResume
  <2>2. CASE RecheckResume(w)
    BY <2>2 DEF RecheckResume
  <2>3. CASE ResumeRefused(w) \/ WakeUp(w)
    BY <2>3 DEF ResumeRefused, queueVars, WakeUp, CommitWakeup
  <2> QED
    BY <1>3, <2>1, <2>2, <2>3 DEF ResumeStep
<1>4. CASE LoopStep(w)
  <2>1. CASE RunNode(w)
    BY <2>1 DEF RunNode, AfterRun
  <2>2. CASE ResolveNode(w) \/ NodeFails(w) \/ NodeAborted(w) \/ LeaseLost(w) \/ StepBoundary(w)
    BY <2>2 DEF ResolveNode, NodeFails, NodeAborted, LeaseLost, StepBoundary
  <2>4. CASE StepPersist(w) \/ SuspendPersist(w) \/ ClearPending(w) \/ PushTask(w)
    BY <2>4 DEF StepPersist, SuspendPersist, ClearPending, PushTask
  <2>5. CASE EndPersist(w) \/ CancelPersist(w) \/ ErrorPersist(w)
    BY <2>5 DEF EndPersist, CancelPersist, ErrorPersist
  <2>6. CASE HandleFailure(w) \/ Requeue(w)
    BY <2>6 DEF HandleFailure, Requeue
  <2> QED
    BY <1>4, <2>1, <2>2, <2>4, <2>5, <2>6 DEF LoopStep
<1>5. CASE WorkerCrash(w)
  BY <1>5 DEF WorkerCrash, Idle
<1> QED
  BY <1>1, <1>2, <1>3, <1>4, <1>5 DEF AnyStep

(* Every label but those of a worker under a lease is reached without one. *)
LEMMA IdleHasNoToken ==
    ASSUME FlowInv, SteadyInv, NEW w \in Worker, AnyStep(w), wk'[w].pc = "idle"
    PROVE  token'[w] = 0
<1> USE DEF FlowInv, WorkerState, Leave, Goto, Persist, AcquireLease, LeaseError
<1>0. StoreInv /\ (wk[w].pc = "idle" => token[w] = 0)
  BY DEF SteadyInv, LeaseKept
<1>1. CASE QueueStep(w)
  <2>1. CASE Take(w)
    BY <1>0, <2>1, Dispatched DEF Take, storeVars
  <2>2. CASE Reclaim(w)
    BY <1>0, <2>2 DEF Reclaim, storeVars
  <2>3. CASE DeadLetterGuard(w) \/ DeadLetterProbe(w) \/ DeadLetterVerdict(w) \/ DeadLetterWrite(w)
    BY <2>3 DEF DeadLetterGuard, DeadLetterProbe, DeadLetterVerdict, DeadLetterWrite
  <2>4. CASE Finish(w)
    <3>1. CASE token[w] # 0
      BY <1>0, <2>4, <3>1 DEF Finish, Release, StoreInv, TypeOK, Worker
    <3>2. CASE token[w] = 0
      BY <2>4, <3>2 DEF Finish, storeVars
    <3> QED
      BY <3>1, <3>2
  <2> QED
    BY <1>1, <2>1, <2>2, <2>3, <2>4 DEF QueueStep
<1>2. CASE StartStep(w)
  BY <1>2 DEF StartStep, StartCheck, StartCancelled, StartAcquire, StartPersist, StartFailed
<1>3. CASE ResumeStep(w)
  <2>1. CASE GuardResume(w) \/ CompensateAcquire(w) \/ CompensateCheck(w) \/ AcquireResume(w)
    BY <2>1 DEF GuardResume, CompensateAcquire, CompensateCheck, AcquireResume
  <2>2. CASE RecheckResume(w)
    BY <2>2 DEF RecheckResume
  <2>3. CASE ResumeRefused(w) \/ WakeUp(w)
    BY <2>3 DEF ResumeRefused, queueVars, WakeUp
  <2> QED
    BY <1>3, <2>1, <2>2, <2>3 DEF ResumeStep
<1>4. CASE LoopStep(w)
  <2>1. CASE RunNode(w)
    BY <2>1 DEF RunNode, AfterRun
  <2>2. CASE ResolveNode(w) \/ NodeFails(w) \/ NodeAborted(w) \/ LeaseLost(w) \/ StepBoundary(w)
    BY <2>2 DEF ResolveNode, NodeFails, NodeAborted, LeaseLost, StepBoundary
  <2>4. CASE StepPersist(w) \/ SuspendPersist(w) \/ ClearPending(w) \/ PushTask(w)
    BY <2>4 DEF StepPersist, SuspendPersist, ClearPending, PushTask
  <2>5. CASE EndPersist(w) \/ CancelPersist(w) \/ ErrorPersist(w)
    BY <2>5 DEF EndPersist, CancelPersist, ErrorPersist
  <2>6. CASE HandleFailure(w) \/ Requeue(w)
    BY <2>6 DEF HandleFailure, Requeue
  <2> QED
    BY <1>4, <2>1, <2>2, <2>4, <2>5, <2>6 DEF LoopStep
<1>5. CASE WorkerCrash(w)
  <2>1. CASE token[w] # 0
    BY <1>0, <1>5, <2>1 DEF WorkerCrash, Crash, StoreInv, TypeOK, Worker
  <2>2. CASE token[w] = 0
    BY <1>5, <2>2 DEF WorkerCrash, storeVars
  <2> QED
    BY <2>1, <2>2
<1> QED
  BY <1>1, <1>2, <1>3, <1>4, <1>5 DEF AnyStep

(* Nobody's lease is lost to the step of a worker. *)
LEMMA SteadyLeases ==
    ASSUME FlowInv, SteadyInv, NEW w \in Worker, AnyStep(w)
    PROVE  LeaseKept' /\ tombstone' = tombstone
<1>0. /\ StoreInv /\ \A v \in Worker \ {w} : wk'[v] = wk[v]
      /\ \A v \in Worker : token[v] \in Nat
  BY OnlyAny DEF FlowInv, OnlyWorker, StoreInv, TypeOK, Worker
<1>1. LeaseKept
  BY DEF SteadyInv
<1>2. ASSUME NEW v \in Worker, wk'[v].pc = "idle" PROVE token'[v] = 0
  <2>1. v # w => token'[v] = token[v]
    BY QueueStepKeeps, StartStepKeeps, ResumeStepKeeps, LoopStepKeeps, CrashKeeps
       DEF OwnStep, AnyStep
  <2> QED
    BY <1>0, <1>1, <1>2, <2>1, IdleHasNoToken DEF LeaseKept
<1>3. ASSUME NEW v \in Worker, token'[v] # 0 PROVE HoldsLease(v)' /\ FenceAccepts(v)'
  <2>1. CASE UNCHANGED <<row, lease, fence, fencegen, token>>
    BY <1>1, <1>3, <2>1 DEF LeaseKept, HoldsLease, LeaseValue, FenceAccepts
  <2>2. CASE TryAcquireFenced(w)
    <3>1. v = w
      <4> SUFFICES ASSUME v # w PROVE FALSE
        OBVIOUS
      <4>1. token'[v] = token[v] /\ lease = Free
        BY <1>0, <2>2 DEF TryAcquireFenced, StoreInv, TypeOK, Worker
      <4>2. HoldsLease(v)
        BY <1>1, <1>3, <4>1 DEF LeaseKept
      <4> QED
        BY <1>0, <4>1, <4>2 DEF HoldsLease, LeaseValue, Free
    <3> QED
      BY <1>0, <1>3, <2>2, <3>1
         DEF TryAcquireFenced, HoldsLease, LeaseValue, FenceAccepts, StoreInv, TypeOK, Worker
  <2>3. CASE Release(w) \/ Crash(w)
    <3>1. token' = [token EXCEPT ![w] = 0] /\ UNCHANGED <<fence, fencegen>> /\ token[w] # 0
      BY <2>3 DEF Release, Crash, redisVars
    <3>2. v # w /\ token'[v] = token[v]
      BY <1>0, <1>3, <3>1 DEF StoreInv, TypeOK, Worker
    <3>3. FALSE
      BY <1>3, <3>1, <3>2, OneHolder
    <3> QED
      BY <3>3
  <2>4. ASSUME NEW d \in RowData, PlainSave(d) \/ FencedSave(w, d)
        PROVE  UNCHANGED <<lease, fence, fencegen, token>>
    BY <2>4 DEF PlainSave, FencedSave
  <2>5. CASE UNCHANGED <<lease, fence, fencegen, token>>
    BY <1>1, <1>3, <2>5 DEF LeaseKept, HoldsLease, LeaseValue, FenceAccepts
  <2> QED
    BY <2>1, <2>2, <2>3, <2>4, <2>5, StoreAny DEF WorkerStore
<1>4. tombstone' = tombstone
  <2>1. CASE QueueStep(w)
    BY <2>1 DEF QueueStep, Take, Reclaim, DeadLetterGuard, DeadLetterProbe, DeadLetterVerdict,
                DeadLetterWrite, Finish,
                LoadRow, Load, PlainSave, Release, storeVars, redisVars
  <2>2. CASE StartStep(w)
    BY <2>2 DEF StartStep, StartCheck, StartCancelled, StartAcquire, StartPersist, StartFailed,
                LoadRow, Load, PlainSave, storeVars, redisVars, AcquireLease, TryAcquireFenced,
                Persist, FencedSave
  <2>3. CASE ResumeStep(w)
    BY <2>3 DEF ResumeStep, GuardResume, CompensateAcquire, CompensateCheck, AcquireResume,
                RecheckResume, ResumeRefused, WakeUp,
                LoadRow, Load, storeVars, redisVars, AcquireLease, TryAcquireFenced,
                Persist, FencedSave, Release
  <2>4. CASE LoopStep(w)
    BY <2>4 DEF LoopStep, RunNode, ResolveNode, NodeFails, NodeAborted, LeaseLost, StepBoundary,
                StepPersist, SuspendPersist, PushTask, ClearPending, EndPersist, CancelPersist,
                HandleFailure, ErrorPersist, Requeue,
                LoadRow, Load, storeVars, redisVars, Persist, FencedSave, Release
  <2>5. CASE WorkerCrash(w)
    BY <2>5 DEF WorkerCrash, Crash, storeVars, redisVars
  <2> QED
    BY <2>1, <2>2, <2>3, <2>4, <2>5 DEF AnyStep
<1> QED
  BY <1>2, <1>3, <1>4 DEF LeaseKept

(* The tries left of a steady execution cover the failures to come. *)
LEMMA SteadyTriesLeft ==
    ASSUME FlowInv, SteadyInv, NEW w \in Worker, AnyStep(w)
    PROVE  TriesLeft'
<1> DEFINE F == budget["fail"]
<1>0. /\ \A v \in Worker \ {w} : wk'[v] = wk[v]
      /\ RetryBudget \in Nat /\ F \in Nat /\ tries \in [Node -> Nat] /\ tries' \in [Node -> Nat]
      /\ F' \in Nat
  <2>1. FlowInv'
    BY QueueStepKeeps, StartStepKeeps, ResumeStepKeeps, LoopStepKeeps, CrashKeeps DEF AnyStep
  <2> QED
    BY <2>1, OnlyAny, FlowConstants DEF FlowInv, WorldTyped, Fault, OnlyWorker
<1>1. \/ F' = F
      \/ F' = F - 1 /\ NodeFails(w)
  BY SteadySpends, SpendOne DEF Fault
<1>2. \A k \in Node : tries[k] + F < RetryBudget
  BY DEF SteadyInv, TriesLeft
<1>3. ASSUME NEW v \in Worker, wk[v].pc = "failed" PROVE \A k \in Node : tries[k] + 1 + F < RetryBudget
  BY <1>3 DEF SteadyInv, TriesLeft
<1> HIDE DEF F
<1>4. NodeFails(w) => wk[w].pc = "run" /\ wk'[w].pc = "failed" /\ tries' = tries /\ F' = F - 1
  BY SpendOne DEF NodeFails, Goto, FlowInv, WorkerState, counterVars, Fault, F
<1>5. ASSUME NEW v \in Worker \ {w}, wk[v].pc = "failed" PROVE wk[w].pc \notin {"run", "failed"}
  BY <1>5, OneHolder, WorkerFacts DEF Sane, TokenPC
<1>6. ASSUME NEW k \in Node PROVE tries'[k] + F' < RetryBudget
  <2>0. tries[k] \in Nat
    BY <1>0
  <2>1. CASE NodeFails(w)
    BY <1>0, <1>2, <1>4, <2>0, <2>1
  <2>2. CASE ~NodeFails(w)
    <3>1. F' = F
      BY <1>1, <2>2
    <3>2. CASE wk[w].pc = "failed" /\ tries' = [tries EXCEPT ![wk[w].c + 1] = @ + 1]
      <4>1. tries'[k] = tries[k] \/ tries'[k] = tries[k] + 1
        BY <1>0, <3>2
      <4> QED
        BY <1>0, <1>2, <1>3, <2>0, <3>1, <3>2, <4>1
    <3>3. CASE \/ tries' = tries \/ tries' = [tries EXCEPT ![wk[w].c + 1] = 0]
               \/ tries' = [l \in Node |-> 0]
      <4>1. tries'[k] <= tries[k]
        BY <1>0, <2>0, <3>3
      <4>2. tries'[k] \in Nat
        BY <1>0
      <4> QED
        BY <1>0, <1>2, <2>0, <3>1, <4>1, <4>2
    <3> QED
      BY <2>2, <3>2, <3>3, SteadyTries
  <2> QED
    BY <2>1, <2>2
<1>7. ASSUME NEW k \in Node, NEW v \in Worker, wk'[v].pc = "failed"
      PROVE  tries'[k] + 1 + F' < RetryBudget
  <2>0. tries[k] \in Nat
    BY <1>0
  <2>1. CASE v = w
    <3>1. NodeFails(w)
      BY <1>7, <2>1, SteadyTries
    <3> QED
      BY <1>0, <1>2, <1>4, <2>0, <3>1
  <2>2. CASE v # w
    <3>1. wk[v].pc = "failed"
      BY <1>0, <1>7, <2>2
    <3>2. wk[w].pc \notin {"run", "failed"}
      BY <1>5, <2>2, <3>1
    <3>3. F' = F
      BY <1>1, <1>4, <3>2
    <3>4. tries'[k] <= tries[k] /\ tries'[k] \in Nat
      BY <1>0, <1>4, <2>0, <3>2, SteadyTries
    <3> QED
      BY <1>0, <1>3, <2>0, <3>1, <3>3, <3>4
  <2> QED
    BY <2>1, <2>2
<1> QED
  BY <1>6, <1>7 DEF TriesLeft, F

(* A steady execution stays undisturbed, whoever takes the next step. *)
LEMMA SteadyNext == FlowInv /\ SteadyInv /\ [FlowNext]_vars => SteadyInv'
<1> SUFFICES ASSUME FlowInv, SteadyInv, [FlowNext]_vars PROVE SteadyInv'
  OBVIOUS
<1>1. ASSUME NEW w \in Worker, AnyStep(w) PROVE SteadyInv'
  <2>1. Undisturbed'
    <3>1. budget'["stall"] = budget["stall"] /\ budget'["request"] = budget["request"]
      BY <1>1, SteadySpends, SpendOne DEF Fault
    <3> QED
      BY <1>1, <3>1, SteadySpends, SteadyLeases DEF SteadyInv, Undisturbed
  <2>2. \A v \in Worker : ~GivenUp(wk'[v])
    BY <1>1, OnlyAny, SteadyLabels DEF OnlyWorker, SteadyInv
  <2> QED
    BY <1>1, <2>1, <2>2, SteadyTriesLeft, SteadyLeases DEF SteadyInv
<1>2. CASE Outside
  <2>1. /\ UNCHANGED <<wk, token, fencegen, tries, cancelFlag, ctl, tombstone>>
        /\ lease' = lease \/ \A v \in Worker : token[v] = 0
        /\ fence' = fence
        /\ budget' = budget \/ Spend("retry")
    <3> USE DEF storeVars, redisVars, queueVars, counterVars
    <3>1. ~Spend("stall") /\ ~Spend("request") /\ ctl.st = "none"
      BY DEF Spend, SteadyInv, Undisturbed, NoRequest
    <3>2. CASE LeaseTTL
      <4>1. ~HoldsLease(lease.holder)
        BY <3>1, <3>2 DEF LeaseTTL
      <4>2. ASSUME NEW v \in Worker, token[v] # 0 PROVE FALSE
        BY <4>1, <4>2 DEF SteadyInv, LeaseKept, HoldsLease, LeaseValue
      <4> QED
        BY <3>1, <3>2, <4>2 DEF LeaseTTL, LeaseExpires
    <3>3. CASE Publish
      BY <3>3, LoadStore DEF Publish, LoadRow, Load
    <3>4. CASE RetryRequest
      BY <3>4 DEF RetryRequest
    <3> QED
      BY <1>2, <3>1, <3>2, <3>3, <3>4
         DEF Outside, CancelRequest, CancelCommit, DeleteRequest, DeleteSignal, DeleteCommit,
             DeleteSweep
  <2>2. \A g \in Fault \ {"retry"} : budget'[g] = budget[g]
    BY <2>1, SpendOne DEF Fault
  <2>3. Undisturbed' /\ TriesLeft'
    BY <2>1, <2>2 DEF SteadyInv, Undisturbed, TriesLeft, Fault
  <2>4. LeaseKept'
    BY <2>1 DEF SteadyInv, LeaseKept, HoldsLease, LeaseValue, FenceAccepts
  <2> QED
    BY <2>1, <2>3, <2>4 DEF SteadyInv
<1>3. CASE UNCHANGED vars
  BY <1>3 DEF vars, flowVars, queueVars, worldVars, counterVars, storeVars, redisVars, SteadyInv,
              Undisturbed, TriesLeft, LeaseKept, HoldsLease, LeaseValue, FenceAccepts
<1> QED
  BY <1>1, <1>2, <1>3 DEF FlowNext, AnyStep

(* A run that nothing disturbs is steady from the start. *)
LEMMA SteadyInit == Steady /\ FlowInit => SteadyInv
<1> SUFFICES ASSUME Steady, FlowInit PROVE SteadyInv
  OBVIOUS
<1>1. Undisturbed
  BY DEF Steady, FlowInit, StoreInit, Undisturbed
<1>2. TriesLeft
  <2>1. budget \in [Fault -> Nat] /\ budget["fail"] < RetryBudget /\ RetryBudget \in Nat
    BY FlowAssumption DEF FlowInit, Steady
  <2>2. budget["fail"] \in Nat
    BY <2>1 DEF Fault
  <2>3. ASSUME NEW k \in Node PROVE tries[k] + budget["fail"] < RetryBudget
    BY <2>1, <2>2 DEF FlowInit
  <2>4. \A w \in Worker : wk[w].pc # "failed"
    BY DEF FlowInit, Idle
  <2> QED
    BY <2>3, <2>4 DEF TriesLeft
<1>3. LeaseKept /\ \A w \in Worker : ~GivenUp(wk[w])
  BY DEF FlowInit, StoreInit, Idle, LeaseKept, GivenUp, Worker
<1> QED
  BY <1>1, <1>2, <1>3 DEF SteadyInv

-----------------------------------------------------------------------------
(* Without a token only the failed first run of a start writes the row of  *)
(* a steady execution, and it writes it as running.                        *)
LEMMA SteadyRow ==
    ASSUME FlowInv, SteadyInv, NEW w \in Worker, AnyStep(w)
    PROVE  \/ row' = row
           \/ HasRow' /\ row'.data.status = "running" /\ token[w] = token'[w]
           \/ \E d \in RowData : FencedSave(w, d) /\ Written(w, d)
<1>1. ASSUME NEW d \in RowData, PlainSave(d)
      PROVE  row' = row \/ (HasRow' /\ row'.data.status = "running" /\ token[w] = token'[w])
  <2> USE DEF SteadyInv, Undisturbed, GivenUp
  <2>1. CASE QueueStep(w)
    BY <2>1 DEF QueueStep, Take, Reclaim, DeadLetterGuard, DeadLetterProbe, DeadLetterVerdict,
                DeadLetterWrite, Finish,
                LoadRow, Load, Release, storeVars, redisVars
  <2>2. CASE StartStep(w)
    <3>1. CASE StartFailed(w)
      <4>1. PlainSave(wk[w].d)
        BY <3>1 DEF StartFailed
      <4>2. wk[w].d.status = "running"
        BY <3>1, WorkerFacts DEF StartFailed, Sane, FreshPC
      <4> QED
        BY <4>1, <4>2 DEF PlainSave, HasRow
    <3>2. CASE StartCancelled(w)
      BY <3>2 DEF StartCancelled
    <3>3. CASE StartPersist(w)
      <4>1. wk[w].d.status = "running"
        BY <3>3, WorkerFacts DEF StartPersist, Sane, FreshPC
      <4> QED
        BY <3>3, <4>1 DEF StartPersist, Persist, FencedSave, HasRow, storeVars, redisVars
    <3> QED
      BY <2>2, <3>1, <3>2, <3>3
         DEF StartStep, StartCheck, StartAcquire, LoadRow, Load, storeVars, redisVars,
             AcquireLease, TryAcquireFenced
  <2>3. CASE ResumeStep(w)
    <3>1. CASE WakeUp(w)
      <4>1. wk[w].d.status = "error" /\ wk[w].d \in RowData
        BY <3>1, WorkerFacts DEF WakeUp, Sane
      <4> QED
        BY <3>1, <4>1, <1>1 DEF WakeUp, Persist, FencedSave, HasRow, storeVars, redisVars, PlainSave
    <3> QED
      BY <2>3, <3>1 DEF ResumeStep, GuardResume, CompensateAcquire, CompensateCheck, AcquireResume,
                  RecheckResume, ResumeRefused,
                  LoadRow, Load, storeVars, redisVars, AcquireLease, TryAcquireFenced, Release
  <2>4. CASE LoopStep(w)
    <3>1. ASSUME NEW e, FencedSave(w, e) PROVE FALSE
      BY <1>1, <3>1 DEF FencedSave, PlainSave
    <3>2. ASSUME NEW e, NEW p, Persist(w, e, p) PROVE row' = row
      BY <3>1, <3>2 DEF Persist, storeVars, redisVars
    <3> QED
      BY <2>4, <3>2
         DEF LoopStep, RunNode, ResolveNode, NodeFails, NodeAborted, LeaseLost, StepBoundary,
                StepPersist, SuspendPersist, PushTask, ClearPending, EndPersist, CancelPersist,
                HandleFailure, ErrorPersist, Requeue,
                LoadRow, Load, storeVars, redisVars, Release
  <2>5. CASE WorkerCrash(w)
    BY <2>5 DEF WorkerCrash, Crash, storeVars, redisVars
  <2> QED
    BY <2>1, <2>2, <2>3, <2>4, <2>5 DEF AnyStep
<1>2. CASE Release(w) \/ Crash(w) \/ TryAcquireFenced(w)
  BY <1>2 DEF Release, Crash, TryAcquireFenced, redisVars
<1> QED
  BY <1>1, <1>2, StoreAny DEF WorkerStore

(* Where a worker is between the row it was admitted on and its last write. *)
WorkPC == {"run", "top", "step", "suspend", "push", "clear", "end", "failed", "error"}

(* A row somebody works on is there and not final. *)
RowOpen == HasRow /\ row.data.status \notin TerminalStatus

WorkInv == \A w \in Worker : wk[w].pc \in WorkPC => RowOpen

(* A row that is woken up runs again. *)
LEMMA WokenStatus ==
    \A d \in RowData : \A k, tok :
       [d EXCEPT !.status = "running", !.node = k, !.tok = tok].status = "running"
BY DEF RowData

(* A worker begins and goes on to work on rows that are open. *)
LEMMA EntersWork ==
    ASSUME FlowInv, SteadyInv, WorkInv, NEW w \in Worker, AnyStep(w), wk'[w].pc \in WorkPC
    PROVE  RowOpen'
<1> USE DEF FlowInv, WorkerState, WorkPC, Leave, Goto, AcquireLease, LeaseError
<1>0. wk[w].pc \in WorkPC => RowOpen
  BY DEF WorkInv
<1>1. CASE QueueStep(w)
  <2>1. CASE Take(w)
    <3>1. wk'[w] = wk[w] /\ row' = row
      BY <2>1, Dispatched DEF Take, storeVars, redisVars
    <3> QED
      BY <2>1, <3>1 DEF Take
  <2>2. CASE Reclaim(w)
    <3>1. PICK m \in Msg : \/ wk' = [wk EXCEPT ![w] = [Idle EXCEPT !.pc = "dlq", !.msg = m]]
                           \/ Dispatch(w, m, msgs[m].n + 1)
      BY <2>2 DEF Reclaim
    <3>2. [Idle EXCEPT !.pc = "dlq", !.msg = m].pc = "dlq"
      BY DEF Idle
    <3> QED
      BY <2>2, <3>1, <3>2, Dispatched DEF Reclaim
  <2>3. CASE DeadLetterGuard(w) \/ DeadLetterProbe(w) \/ DeadLetterVerdict(w)
    BY <2>3 DEF DeadLetterGuard, DeadLetterProbe, DeadLetterVerdict
  <2>4. CASE DeadLetterWrite(w) \/ Finish(w)
    BY <2>4 DEF DeadLetterWrite, Finish, Idle
  <2> QED
    BY <1>1, <2>1, <2>2, <2>3, <2>4 DEF QueueStep
<1>2. CASE StartStep(w)
  <2>1. CASE StartPersist(w)
    <3>1. wk[w].d.status = "running"
      BY <2>1, WorkerFacts DEF StartPersist, Sane, FreshPC
    <3> QED
      BY <2>1, <3>1 DEF StartPersist, Persist, FencedSave, RowOpen, HasRow, TerminalStatus
  <2> QED
    BY <1>2, <2>1 DEF StartStep, StartCheck, StartCancelled, StartAcquire, StartFailed
<1>3. CASE ResumeStep(w)
  <2>1. CASE GuardResume(w) \/ CompensateAcquire(w) \/ AcquireResume(w)
    BY <2>1 DEF GuardResume, CompensateAcquire, AcquireResume
  <2>2. CASE CompensateCheck(w)
    BY <2>2, LoadStore DEF CompensateCheck, PendingDispatch, RowOpen, HasRow, TerminalStatus
  <2>3. CASE RecheckResume(w)
    <3>1. GuardVerdict(wk[w].type) = "go" /\ ~Wakeup(EffectiveType(w))
      BY <2>3 DEF RecheckResume, SteadyInv, Undisturbed
    <3>2. /\ HasRow /\ row.data.status \in {"running", "suspended", "error"}
          /\ row.data.status = "error" => wk[w].type = "retry"
      BY <3>1, VerdictGo, WorkerFacts
    <3>3. row' = row
      BY <2>3, LoadStore DEF RecheckResume
    <3>4. row.data.status # "error"
      BY <3>1, <3>2 DEF Wakeup, EffectiveType
    <3> QED
      BY <3>2, <3>3, <3>4 DEF RowOpen, HasRow, TerminalStatus
  <2>4. CASE ResumeRefused(w)
    BY <2>4 DEF ResumeRefused, queueVars
  <2>5. CASE WakeUp(w)
    <3>1. PICK k, tok : Persist(w, [wk[w].d EXCEPT !.status = "running", !.node = k, !.tok = tok], "run")
      BY <2>5 DEF WakeUp
    <3> DEFINE d == [wk[w].d EXCEPT !.status = "running", !.node = k, !.tok = tok]
    <3>2. d.status = "running"
      BY WorkerFacts, WokenStatus
    <3>3. Persist(w, d, "run")
      BY <3>1
    <3> HIDE DEF d
    <3>4. CASE FencedSave(w, d)
      BY <3>2, <3>4 DEF FencedSave, RowOpen, HasRow, TerminalStatus
    <3> QED
      BY <2>5, <3>3, <3>4 DEF Persist
  <2> QED
    BY <1>3, <2>1, <2>2, <2>3, <2>4, <2>5 DEF ResumeStep
<1>4. CASE LoopStep(w)
  <2>1. CASE RunNode(w) \/ ResolveNode(w) \/ NodeFails(w) \/ LeaseLost(w) \/ StepBoundary(w)
             \/ PushTask(w)
    BY <1>0, <2>1 DEF RunNode, ResolveNode, NodeFails, LeaseLost, StepBoundary, PushTask, RowOpen,
                      HasRow, storeVars, redisVars
  <2>2. CASE NodeAborted(w)
    BY <2>2 DEF NodeAborted
  <2>3. CASE StepPersist(w)
    BY <1>0, <2>3 DEF StepPersist, Persist, NextStep, FencedSave, RowOpen, HasRow, TerminalStatus,
                      storeVars, redisVars
  <2>4. CASE SuspendPersist(w)
    BY <2>4 DEF SuspendPersist, Persist, PendingRef, FencedSave, RowOpen, HasRow, TerminalStatus
  <2>5. CASE ClearPending(w) \/ EndPersist(w) \/ CancelPersist(w) \/ ErrorPersist(w)
    BY <2>5 DEF EndPersist, CancelPersist, ErrorPersist, ClearPending, Persist
  <2>6. CASE HandleFailure(w)
    BY <1>0, <2>6 DEF HandleFailure, Release, storeVars, redisVars, RowOpen, HasRow
  <2>7. CASE Requeue(w)
    BY <2>7 DEF Requeue
  <2> QED
    BY <1>4, <2>1, <2>2, <2>3, <2>4, <2>5, <2>6, <2>7 DEF LoopStep
<1>5. CASE WorkerCrash(w)
  BY <1>5 DEF WorkerCrash, Idle
<1> QED
  BY <1>1, <1>2, <1>3, <1>4, <1>5 DEF AnyStep

(* The control plane leaves the row of a steady execution alone. *)
LEMMA SteadyOutside ==
    ASSUME FlowInv, SteadyInv, Outside
    PROVE  /\ UNCHANGED <<wk, row, token, fencegen, tries, subs>>
           /\ \/ UNCHANGED <<msgs, decided>>
              \/ HasSlot /\ msgs' = Enqueued("retry", 0) /\ decided' = decided
              \/ \E s \in subs : /\ HasSlot /\ msgs' = Enqueued("event", s[1])
                                 /\ decided' = decided \cup {s[1]}
<1> USE DEF storeVars, redisVars, queueVars, counterVars, worldVars
<1>1. ~Spend("stall") /\ ~Spend("request") /\ ctl.st = "none"
  BY DEF Spend, SteadyInv, Undisturbed, NoRequest
<1>2. CASE LeaseTTL
  BY <1>2 DEF LeaseTTL, LeaseExpires
<1>3. CASE Publish
  BY <1>3, LoadStore DEF Publish, LoadRow, Load
<1>4. CASE RetryRequest
  BY <1>4 DEF RetryRequest
<1> QED
  BY <1>1, <1>2, <1>3, <1>4
     DEF Outside, CancelRequest, CancelCommit, DeleteRequest, DeleteSignal, DeleteCommit,
         DeleteSweep

(* Every step keeps the rows under work open. *)
LEMMA WorkNext == FlowInv /\ SteadyInv /\ WorkInv /\ [FlowNext]_vars => WorkInv'
<1> SUFFICES ASSUME FlowInv, SteadyInv, WorkInv, [FlowNext]_vars PROVE WorkInv'
  OBVIOUS
<1>1. ASSUME NEW w \in Worker, AnyStep(w), NEW v \in Worker, wk'[v].pc \in WorkPC PROVE RowOpen'
  <2>1. CASE v = w
    BY <1>1, <2>1, EntersWork
  <2>2. CASE v # w
    <3>1. wk[v].pc \in WorkPC /\ RowOpen
      BY <1>1, <2>2, OnlyAny DEF OnlyWorker, WorkInv
    <3>2. token[v] # 0
      BY <3>1, WorkerFacts DEF Sane, TokenPC, WorkPC
    <3>3. token[w] = 0
      BY <2>2, <3>2, OneHolder
    <3>4. ~ \E d \in RowData : FencedSave(w, d)
      BY <3>3 DEF FencedSave
    <3> QED
      BY <1>1, <3>1, <3>4, SteadyRow DEF RowOpen, HasRow, TerminalStatus
  <2> QED
    BY <2>1, <2>2
<1>2. CASE Outside
  BY <1>2, SteadyOutside DEF WorkInv, RowOpen, HasRow
<1>3. CASE UNCHANGED vars
  BY <1>3 DEF vars, flowVars, queueVars, storeVars, redisVars, WorkInv, RowOpen, HasRow
<1> QED
  BY <1>1, <1>2, <1>3 DEF FlowNext, AnyStep, WorkInv

-----------------------------------------------------------------------------
(* The copy of a message, or a continue for a decision that came late. *)
Copied(w, t, sub) ==
    \/ t = "continue" /\ sub = 0
    \/ /\ sub = msgs[wk[w].msg].sub
       /\ msgs[wk[w].msg].type = "event" => t = "event"

(* The worker holds on to its message, or has let go of it. *)
SameMessage(w) == wk'[w].msg = wk[w].msg \/ wk'[w] = Idle

(* Everything a step of worker w may do to the queue: an idle one takes or *)
(* claims a message, a busy one does nothing, enqueues one as its last     *)
(* step or acknowledges its own.                                           *)
MessageMoves(w) ==
    \/ UNCHANGED msgs /\ SameMessage(w) /\ wk[w].pc # "idle"
    \/ /\ wk[w].pc = "idle"
       /\ \E m \in Msg, n \in 0 .. MaxDeliveries :
             /\ Live(m) /\ wk'[w].msg = m
             /\ \/ /\ msgs' = [msgs EXCEPT ![m].st = "pending", ![m].by = w, ![m].n = n]
                   /\ wk'[w].type = msgs[m].type
                   /\ wk'[w].pc = IF msgs[m].type = "start" THEN "start" ELSE "guard"
                \/ msgs' = [msgs EXCEPT ![m].by = w] /\ wk'[w].pc = "dlq"
    \/ /\ HasSlot /\ wk[w].pc # "idle" /\ wk'[w].pc = "finish" /\ wk'[w].msg = wk[w].msg
       /\ \E t \in MsgType, sub \in 0 .. MaxGen : Copied(w, t, sub) /\ msgs' = Enqueued(t, sub)
    \/ /\ wk[w].pc = "finish" /\ wk[w].ack /\ wk'[w] = Idle
       /\ msgs' = Acked(msgs, wk[w].msg)

(* A message that is handed out, of an execution that is not deleted. *)
LEMMA HandedOut ==
    ASSUME FlowInv, SteadyInv, NEW w \in Worker, NEW m \in Msg, NEW n \in 0 .. MaxDeliveries,
           Dispatch(w, m, n), Live(m), wk[w].pc = "idle"
    PROVE  MessageMoves(w)
<1> DEFINE p == IF msgs[m].type = "start" THEN "start" ELSE "guard"
           r == [Idle EXCEPT !.pc = p, !.msg = m, !.type = msgs[m].type]
<1>1. /\ msgs' = [msgs EXCEPT ![m].st = "pending", ![m].by = w, ![m].n = n]
      /\ wk' = [wk EXCEPT ![w] = r]
  BY DEF Dispatch, SteadyInv, Undisturbed
<1>2. r.pc = p /\ r.msg = m /\ r.type = msgs[m].type
  BY DEF Idle
<1> HIDE DEF r
<1>3. wk'[w] = r
  BY <1>1 DEF FlowInv
<1> QED
  BY <1>1, <1>2, <1>3 DEF MessageMoves

(* What a step of the task queue does to the messages. *)
LEMMA MovesQueue ==
    ASSUME FlowInv, SteadyInv, NEW w \in Worker, QueueStep(w)
    PROVE  MessageMoves(w)
<1>0. \A m \in Msg : msgs[m].n \in 0 .. MaxDeliveries /\ msgs[m].type \in MsgType
                     /\ msgs[m].sub \in 0 .. MaxGen
  BY DEF FlowInv, WorldTyped, Message
<1>1. CASE Take(w)
  <2>1. PICK m \in Msg : msgs[m].st = "queued" /\ Dispatch(w, m, 1)
    BY <1>1 DEF Take
  <2>2. 1 \in 0 .. MaxDeliveries /\ Live(m)
    BY <2>1, FlowConstants DEF Live
  <2> QED
    BY <1>1, <2>1, <2>2, HandedOut DEF Take
<1>2. CASE Reclaim(w)
  <2>1. PICK m \in Msg :
          /\ msgs[m].st = "pending"
          /\ IF msgs[m].n >= MaxDeliveries
               THEN /\ wk' = [wk EXCEPT ![w] = [Idle EXCEPT !.pc = "dlq", !.msg = m]]
                    /\ msgs' = [msgs EXCEPT ![m].by = w]
               ELSE Dispatch(w, m, msgs[m].n + 1)
    BY <1>2 DEF Reclaim
  <2>2. Live(m) /\ wk[w].pc = "idle"
    BY <1>2, <2>1 DEF Live, Reclaim
  <2>3. CASE msgs[m].n >= MaxDeliveries
    <3> DEFINE r == [Idle EXCEPT !.pc = "dlq", !.msg = m]
    <3>1. r.pc = "dlq" /\ r.msg = m
      BY DEF Idle
    <3>2. wk' = [wk EXCEPT ![w] = r]
      BY <2>1, <2>3
    <3> HIDE DEF r
    <3>3. wk'[w] = r
      BY <3>2 DEF FlowInv
    <3> QED
      BY <1>0, <2>1, <2>2, <2>3, <3>1, <3>3 DEF MessageMoves
  <2>4. CASE ~(msgs[m].n >= MaxDeliveries)
    <3>1. msgs[m].n + 1 \in 0 .. MaxDeliveries
      BY <1>0, <2>4, FlowConstants
    <3> QED
      BY <2>1, <2>2, <2>4, <3>1, HandedOut
  <2> QED
    BY <2>3, <2>4
<1>3. CASE DeadLetterGuard(w) \/ DeadLetterProbe(w)
  BY <1>3 DEF DeadLetterGuard, DeadLetterProbe, Leave, FlowInv, WorkerState, MessageMoves, SameMessage
<1>a. CASE DeadLetterVerdict(w)
  <2>0. wk[w].msg \in Msg
    BY <1>a, WorkerFacts DEF DeadLetterVerdict, Sane
  <2>1. CASE UNCHANGED msgs
    BY <1>a, <2>1 DEF DeadLetterVerdict, Leave, FlowInv, WorkerState, MessageMoves, SameMessage
  <2>2. ASSUME HasSlot, Leave(w, TRUE), msgs' = Enqueued(msgs[wk[w].msg].type, msgs[wk[w].msg].sub)
        PROVE  MessageMoves(w)
    <3>1. wk[w].pc # "idle" /\ wk'[w].pc = "finish" /\ wk'[w].msg = wk[w].msg
      BY <1>a, <2>2 DEF DeadLetterVerdict, Leave, FlowInv, WorkerState
    <3>2. Copied(w, msgs[wk[w].msg].type, msgs[wk[w].msg].sub)
      BY DEF Copied
    <3> QED
      BY <1>0, <2>0, <2>2, <3>1, <3>2 DEF MessageMoves
  <2> QED
    BY <1>a, <2>1, <2>2 DEF DeadLetterVerdict
<1>4. CASE DeadLetterWrite(w)
  BY <1>4 DEF DeadLetterWrite, Leave, FlowInv, WorkerState, MessageMoves, SameMessage
<1>5. CASE Finish(w)
  BY <1>5 DEF Finish, FlowInv, MessageMoves, SameMessage
<1> QED
  BY <1>1, <1>2, <1>3, <1>a, <1>4, <1>5 DEF QueueStep

(* What any step of a worker does to the messages. *)
LEMMA MovesAny ==
    ASSUME FlowInv, SteadyInv, NEW w \in Worker, AnyStep(w)
    PROVE  MessageMoves(w)
<1> USE DEF FlowInv, WorkerState, Leave, Goto, Persist, AcquireLease, LeaseError, SameMessage
<1>2. CASE StartStep(w)
  <2>1. UNCHANGED msgs /\ wk'[w].msg = wk[w].msg /\ wk[w].pc # "idle"
    BY <1>2 DEF StartStep, StartCheck, StartCancelled, StartAcquire, StartPersist, StartFailed
  <2> QED
    BY <2>1 DEF MessageMoves
<1>3. CASE ResumeStep(w)
  <2>0. UNCHANGED msgs /\ SameMessage(w) /\ wk[w].pc # "idle" => MessageMoves(w)
    BY DEF MessageMoves
  <2>1. CASE GuardResume(w) \/ CompensateCheck(w)
    <3>1. UNCHANGED msgs /\ SameMessage(w) /\ wk[w].pc # "idle"
      BY <2>1 DEF GuardResume, CompensateCheck
    <3> QED
      BY <2>0, <3>1
  <2>5. CASE CompensateAcquire(w) \/ AcquireResume(w)
    <3>1. UNCHANGED msgs /\ SameMessage(w) /\ wk[w].pc # "idle"
      BY <2>5 DEF CompensateAcquire, AcquireResume
    <3> QED
      BY <2>0, <3>1
  <2>2. CASE RecheckResume(w)
    BY <2>2 DEF RecheckResume, MessageMoves
  <2>3. CASE ResumeRefused(w)
    <3>1. CASE UNCHANGED queueVars
      BY <2>3, <3>1 DEF ResumeRefused, queueVars, MessageMoves
    <3>2. CASE Leave(w, TRUE) /\ UNCHANGED msgs
      BY <2>3, <3>2 DEF ResumeRefused, MessageMoves
    <3>3. CASE Leave(w, TRUE) /\ HasSlot /\ msgs' = Enqueued("continue", 0)
      <4>1. wk[w].pc # "idle" /\ wk'[w].pc = "finish" /\ wk'[w].msg = wk[w].msg
        BY <2>3, <3>3 DEF ResumeRefused
      <4>2. Copied(w, "continue", 0) /\ "continue" \in MsgType /\ 0 \in 0 .. MaxGen
        BY Labels, Zeros DEF Copied
      <4> QED
        BY <3>3, <4>1, <4>2 DEF MessageMoves
    <3> QED
      BY <2>3, <3>1, <3>2, <3>3 DEF ResumeRefused
  <2>4. CASE WakeUp(w)
    BY <2>4 DEF WakeUp, MessageMoves
  <2> QED
    BY <1>3, <2>1, <2>2, <2>3, <2>4, <2>5 DEF ResumeStep
<1>4. CASE LoopStep(w)
  <2>0. UNCHANGED msgs /\ wk'[w].msg = wk[w].msg /\ wk[w].pc # "idle" => MessageMoves(w)
    BY DEF MessageMoves
  <2>1. CASE RunNode(w) \/ ResolveNode(w) \/ NodeFails(w)
    <3>1. UNCHANGED msgs /\ wk'[w].msg = wk[w].msg /\ wk[w].pc # "idle"
      BY <2>1 DEF RunNode, ResolveNode, NodeFails
    <3> QED
      BY <2>0, <3>1
  <2>2. CASE NodeAborted(w) \/ LeaseLost(w) \/ StepBoundary(w)
    <3>1. UNCHANGED msgs /\ wk'[w].msg = wk[w].msg /\ wk[w].pc # "idle"
      BY <2>2 DEF NodeAborted, LeaseLost, StepBoundary
    <3> QED
      BY <2>0, <3>1
  <2>3. CASE StepPersist(w) \/ SuspendPersist(w) \/ ClearPending(w)
    <3>1. UNCHANGED msgs /\ wk'[w].msg = wk[w].msg /\ wk[w].pc # "idle"
      BY <2>3 DEF StepPersist, SuspendPersist, ClearPending
    <3> QED
      BY <2>0, <3>1
  <2>5. CASE EndPersist(w) \/ CancelPersist(w) \/ ErrorPersist(w)
    <3>1. UNCHANGED msgs /\ wk'[w].msg = wk[w].msg /\ wk[w].pc # "idle"
      BY <2>5 DEF EndPersist, CancelPersist, ErrorPersist
    <3> QED
      BY <2>0, <3>1
  <2>6. CASE HandleFailure(w) \/ PushTask(w)
    <3>1. UNCHANGED msgs /\ wk'[w].msg = wk[w].msg /\ wk[w].pc # "idle"
      BY <2>6 DEF HandleFailure, PushTask
    <3> QED
      BY <2>0, <3>1
  <2>4. CASE Requeue(w)
    <3>0. wk[w].msg \in Msg
      BY <2>4, WorkerFacts DEF Requeue, Sane
    <3>1. wk[w].pc # "idle" /\ wk'[w].pc = "finish" /\ wk'[w].msg = wk[w].msg
      BY <2>4 DEF Requeue
    <3>2. CASE UNCHANGED msgs
      BY <3>1, <3>2 DEF MessageMoves
    <3>3. CASE HasSlot /\ msgs' = Enqueued(RequeueType(wk[w].msg), msgs[wk[w].msg].sub)
      <4>1. RequeueType(wk[w].msg) \in MsgType /\ msgs[wk[w].msg].sub \in 0 .. MaxGen
        BY <3>0, MessageTypes, Labels DEF RequeueType
      <4>2. Copied(w, RequeueType(wk[w].msg), msgs[wk[w].msg].sub)
        BY DEF Copied, RequeueType
      <4> QED
        BY <3>1, <3>3, <4>1, <4>2 DEF MessageMoves
    <3> QED
      BY <2>4, <3>2, <3>3 DEF Requeue
  <2> QED
    BY <1>4, <2>1, <2>2, <2>3, <2>4, <2>5, <2>6 DEF LoopStep
<1>5. CASE WorkerCrash(w)
  BY <1>5 DEF WorkerCrash, MessageMoves
<1> QED
  BY <1>2, <1>3, <1>4, <1>5, MovesQueue DEF AnyStep

(* The slot a message is enqueued in is a free one. *)
LEMMA SlotFree ==
    ASSUME HasSlot
    PROVE  Slot \in Msg /\ msgs[Slot].st = "free"
<1> DEFINE S == {m \in Msg : msgs[m].st = "free"}
<1>1. S \in SUBSET Nat /\ S # {}
  BY FlowConstants DEF HasSlot, Msg
<1>2. PICK m \in S : \A k \in S : m <= k
  BY <1>1, LeastElement
<1>3. \A k \in Msg : k < m => msgs[k].st # "free"
  <2> SUFFICES ASSUME NEW k \in S, k < m PROVE FALSE
    OBVIOUS
  <2>1. m <= k /\ m \in Nat /\ k \in Nat
    BY <1>1, <1>2
  <2> QED
    BY <2>1
<1> QED
  BY <1>2, <1>3 DEF Slot

(* What a step of a worker leaves of the messages there are: their type    *)
(* and subscription, and all but the one it acknowledges stay alive.       *)
LEMMA MessagesKept ==
    ASSUME FlowInv, NEW w \in Worker, MessageMoves(w), NEW m \in Msg, msgs[m].st # "free"
    PROVE  /\ msgs'[m].type = msgs[m].type /\ msgs'[m].sub = msgs[m].sub
           /\ msgs'[m].st # "free"
           /\ Live(m) => \/ Live(m)'
                         \/ wk[w].pc = "finish" /\ wk[w].ack /\ wk[w].msg = m
<1>0. msgs \in [Msg -> Message]
  BY DEF FlowInv, WorldTyped
<1>2. ASSUME NEW k \in Msg, NEW n,
             \/ msgs' = [msgs EXCEPT ![k].st = "pending", ![k].by = w, ![k].n = n]
             \/ msgs' = [msgs EXCEPT ![k].by = w]
      PROVE  /\ msgs'[m].type = msgs[m].type /\ msgs'[m].sub = msgs[m].sub
             /\ msgs'[m].st \in {msgs[m].st, "pending"}
  BY <1>0, <1>2 DEF Message
<1>3. ASSUME HasSlot, NEW t, NEW sub, msgs' = Enqueued(t, sub)
      PROVE  msgs'[m] = msgs[m]
  BY <1>0, <1>3, SlotFree DEF Enqueued
<1>4. ASSUME msgs' = Acked(msgs, wk[w].msg)
      PROVE  /\ msgs'[m].type = msgs[m].type /\ msgs'[m].sub = msgs[m].sub
             /\ msgs'[m].st = msgs[m].st \/ (m = wk[w].msg /\ msgs'[m].st = "gone")
  BY <1>0, <1>4 DEF Acked, Message
<1>5. CASE wk[w].pc = "idle"
  <2>1. /\ msgs'[m].type = msgs[m].type /\ msgs'[m].sub = msgs[m].sub
        /\ msgs'[m].st \in {msgs[m].st, "pending"}
    BY <1>2, <1>3, <1>5 DEF MessageMoves
  <2> QED
    BY <2>1 DEF Live
<1>6. CASE wk[w].pc # "idle"
  <2>1. \/ msgs'[m] = msgs[m]
        \/ wk[w].pc = "finish" /\ wk[w].ack /\ msgs' = Acked(msgs, wk[w].msg)
    BY <1>3, <1>6 DEF MessageMoves
  <2> QED
    BY <1>4, <2>1 DEF Live
<1> QED
  BY <1>5, <1>6

(* A message that appears is one that was enqueued. *)
LEMMA MessageEnqueued ==
    ASSUME FlowInv, HasSlot, NEW t \in MsgType, NEW sub \in 0 .. MaxGen, msgs' = Enqueued(t, sub)
    PROVE  /\ Slot \in Msg /\ msgs[Slot].st = "free"
           /\ msgs'[Slot].st = "queued" /\ msgs'[Slot].type = t /\ msgs'[Slot].sub = sub
           /\ \A m \in Msg \ {Slot} : msgs'[m] = msgs[m]
<1>1. Slot \in Msg /\ msgs[Slot].st = "free" /\ msgs \in [Msg -> Message]
  BY SlotFree DEF FlowInv, WorldTyped
<1>2. Queued(t, sub).st = "queued" /\ Queued(t, sub).type = t /\ Queued(t, sub).sub = sub
  BY DEF Queued, FreeMsg
<1> QED
  BY <1>1, <1>2 DEF Enqueued

(* A worker that comes across an event message treats it as an event until *)
(* it is admitted, and never mends the dispatch of another subscription.   *)
AttendInv ==
    \A w \in Worker : wk[w].pc # "idle" =>
       /\ msgs[wk[w].msg].st # "free"
       /\ msgs[wk[w].msg].type = "event" =>
             /\ wk[w].pc \notin {"start", "compAcquire", "compCheck"}
             /\ wk[w].pc \in {"guard", "acquire", "recheck"} => wk[w].type = "event"
             /\ wk[w].pc \in {"push", "clear"} => wk[w].d.sub = token[w]

(* What AttendInv says of one worker. *)
AsEvent(r, t) ==
    /\ r.pc \notin {"start", "compAcquire", "compCheck"}
    /\ r.pc \in {"guard", "acquire", "recheck"} => r.type = "event"
    /\ r.pc \in {"push", "clear"} => r.d.sub = t

(* The guard lets an event through to an open row and mends nothing for it. *)
LEMMA EventVerdict ==
    ASSUME FlowInv
    PROVE  /\ GuardVerdict("event") \in {"go", "drop"}
           /\ RowOpen /\ ~tombstone => GuardVerdict("event") = "go"
<1>1. row.data.status \in Status /\ tombstone \in BOOLEAN
  BY FlowConstants DEF FlowInv, StoreInv, TypeOK, Row, RowData
<1>2. CASE ~HasRow \/ tombstone
  BY <1>1, <1>2 DEF GuardVerdict, RowOpen
<1>3. CASE HasRow /\ ~tombstone /\ row.data.status \in TerminalStatus
  BY <1>3 DEF GuardVerdict, Wakeup, RowOpen, TerminalStatus
<1>4. CASE HasRow /\ ~tombstone /\ row.data.status \in {"suspended", "running"}
  BY <1>4 DEF GuardVerdict, TerminalStatus
<1> QED
  BY <1>1, <1>2, <1>3, <1>4 DEF Status, TerminalStatus

(* A worker that keeps its message keeps to it as an event. *)
LEMMA EventTreated ==
    ASSUME FlowInv, NEW w \in Worker, StartStep(w) \/ ResumeStep(w) \/ LoopStep(w),
           AsEvent(wk[w], token[w])
    PROVE  AsEvent(wk'[w], token'[w])
<1> USE DEF FlowInv, WorkerState, Leave, Goto, Persist, AcquireLease, LeaseError, AsEvent
<1>1. CASE StartStep(w)
  <2>1. ~StartCheck(w)
    BY DEF StartCheck
  <2>2. wk'[w].pc \in {"startPersist", "run", "finish"}
    BY <1>1, <2>1 DEF StartStep, StartCancelled, StartAcquire, StartPersist, StartFailed
  <2> QED
    BY <2>2
<1>2. CASE ResumeStep(w)
  <2>0. wk[w].type = "event" => GuardVerdict(wk[w].type) # "compensate"
    BY EventVerdict
  <2>1. CASE GuardResume(w)
    BY <2>0, <2>1 DEF GuardResume
  <2>2. CASE CompensateAcquire(w) \/ CompensateCheck(w) \/ AcquireResume(w)
    BY <2>2 DEF CompensateAcquire, CompensateCheck, AcquireResume
  <2>3. CASE RecheckResume(w)
    BY <2>0, <2>3 DEF RecheckResume
  <2>4. CASE ResumeRefused(w)
    BY <2>4 DEF ResumeRefused, queueVars
  <2>5. CASE WakeUp(w)
    BY <2>5 DEF WakeUp
  <2> QED
    BY <1>2, <2>1, <2>2, <2>3, <2>4, <2>5 DEF ResumeStep
<1>3. CASE LoopStep(w)
  <2>1. CASE RunNode(w)
    BY <2>1 DEF RunNode, AfterRun
  <2>2. CASE ResolveNode(w) \/ NodeFails(w) \/ LeaseLost(w) \/ StepBoundary(w)
    BY <2>2 DEF ResolveNode, NodeFails, LeaseLost, StepBoundary
  <2>3. CASE NodeAborted(w)
    BY <2>3 DEF NodeAborted
  <2>4. CASE StepPersist(w)
    BY <2>4 DEF StepPersist
  <2>5. CASE SuspendPersist(w)
    BY <2>5 DEF SuspendPersist, FencedSave, PendingRef
  <2>6. CASE PushTask(w)
    BY <2>6 DEF PushTask, storeVars
  <2>7. CASE ClearPending(w)
    BY <2>7 DEF ClearPending
  <2>8. CASE EndPersist(w) \/ CancelPersist(w) \/ ErrorPersist(w)
    BY <2>8 DEF EndPersist, CancelPersist, ErrorPersist
  <2>9. CASE HandleFailure(w)
    BY <2>9 DEF HandleFailure
  <2>10. CASE Requeue(w)
    BY <2>10 DEF Requeue
  <2> QED
    BY <1>3, <2>1, <2>2, <2>3, <2>4, <2>5, <2>6, <2>7, <2>8, <2>9, <2>10 DEF LoopStep
<1> QED
  BY <1>1, <1>2, <1>3

(* A step of a worker that takes no message leaves it the one it has. *)
LEMMA StaysWithMessage ==
    ASSUME FlowInv, SteadyInv, NEW w \in Worker, AnyStep(w), wk[w].pc # "idle", wk'[w].pc # "idle"
    PROVE  wk'[w].msg = wk[w].msg
<1>1. Idle.pc = "idle"
  BY DEF Idle
<1> QED
  BY <1>1, MovesAny DEF MessageMoves, SameMessage

(* Every step keeps what the attended messages say of their workers. *)
LEMMA AttendNext == FlowInv /\ SteadyInv /\ AttendInv /\ [FlowNext]_vars => AttendInv'
<1> SUFFICES ASSUME FlowInv, SteadyInv, AttendInv, [FlowNext]_vars PROVE AttendInv'
  OBVIOUS
<1>a. \A v \in Worker : wk[v].pc # "idle" => /\ wk[v].msg \in Msg /\ msgs[wk[v].msg].st # "free"
                                             /\ msgs[wk[v].msg].type = "event" => AsEvent(wk[v], token[v])
  BY DEF FlowInv, WorkersSane, Sane, AttendInv, AsEvent
<1>b. SUFFICES ASSUME NEW v \in Worker, wk'[v].pc # "idle"
               PROVE  /\ msgs'[wk'[v].msg].st # "free"
                      /\ msgs'[wk'[v].msg].type = "event" => AsEvent(wk'[v], token'[v])
  BY DEF AttendInv, AsEvent
<1>1. ASSUME NEW w \in Worker, AnyStep(w)
      PROVE  /\ msgs'[wk'[v].msg].st # "free"
             /\ msgs'[wk'[v].msg].type = "event" => AsEvent(wk'[v], token'[v])
  <2>0. MessageMoves(w)
    BY <1>1, MovesAny
  <2>1. CASE v # w
    <3>1. wk'[v] = wk[v] /\ token'[v] = token[v]
      BY <1>1, <2>1, OnlyAny, QueueStepKeeps, StartStepKeeps, ResumeStepKeeps, LoopStepKeeps, CrashKeeps
         DEF OnlyWorker, OwnStep, AnyStep
    <3> QED
      BY <1>a, <1>b, <2>0, <3>1, MessagesKept
  <2>2. CASE v = w /\ wk[w].pc # "idle"
    <3>1. wk'[w].msg = wk[w].msg
      BY <1>b, <1>1, <2>2, StaysWithMessage
    <3>2. /\ wk[w].msg \in Msg /\ msgs'[wk[w].msg].st # "free"
          /\ msgs'[wk[w].msg].type = msgs[wk[w].msg].type
      BY <1>a, <2>0, <2>2, MessagesKept
    <3>3. CASE StartStep(w) \/ ResumeStep(w) \/ LoopStep(w)
      BY <1>a, <2>2, <3>1, <3>2, <3>3, EventTreated
    <3>4. CASE QueueStep(w) \/ WorkerCrash(w)
      <4>0. Idle.pc = "idle" /\ wk \in [Worker -> WorkerState]
        BY DEF Idle, FlowInv
      <4>1. wk'[w].pc \in {"finish", "dlqLease", "dlqTomb", "dlqWrite"}
        BY <1>b, <2>2, <3>4, <4>0 DEF QueueStep, Take, Reclaim, DeadLetterGuard, DeadLetterProbe, DeadLetterVerdict,
                                      DeadLetterWrite, Finish,
                                WorkerCrash, Leave, WorkerState
      <4> QED
        BY <2>2, <3>1, <3>2, <4>1 DEF AsEvent
    <3> QED
      BY <1>1, <3>3, <3>4 DEF AnyStep
  <2>3. CASE v = w /\ wk[w].pc = "idle"
    <3>1. PICK m \in Msg, n \in 0 .. MaxDeliveries :
             /\ Live(m) /\ wk'[w].msg = m
             /\ \/ /\ wk'[w].type = msgs[m].type
                   /\ wk'[w].pc = IF msgs[m].type = "start" THEN "start" ELSE "guard"
                \/ wk'[w].pc = "dlq"
      BY <2>0, <2>3 DEF MessageMoves
    <3>2. msgs[m].st # "free"
      BY <3>1 DEF Live
    <3>3. msgs'[m].type = msgs[m].type /\ msgs'[m].st # "free"
      BY <2>0, <3>2, MessagesKept
    <3>4. msgs[m].type = "event" => AsEvent(wk'[w], token'[w])
      BY <3>1 DEF AsEvent
    <3> QED
      BY <2>3, <3>1, <3>3, <3>4
  <2> QED
    BY <2>1, <2>2, <2>3
<1>2. CASE Outside
  <2>1. wk' = wk /\ token' = token
    BY <1>2, SteadyOutside
  <2>2. \/ msgs' = msgs
        \/ \E t \in MsgType, sub \in 0 .. MaxGen : HasSlot /\ msgs' = Enqueued(t, sub)
    <3>1. "retry" \in MsgType /\ "event" \in MsgType /\ \A s \in subs : s[1] \in 0 .. MaxGen
      BY DEF MsgType, FlowInv, WorldTyped
    <3>2. 0 \in 0 .. MaxGen
      BY Zeros
    <3>3. \/ msgs' = msgs
          \/ HasSlot /\ msgs' = Enqueued("retry", 0)
          \/ \E s \in subs : HasSlot /\ msgs' = Enqueued("event", s[1])
      BY <1>2, SteadyOutside
    <3> QED
      BY <3>1, <3>2, <3>3
  <2>3. msgs'[wk[v].msg] = msgs[wk[v].msg]
    BY <1>a, <1>b, <2>1, <2>2, MessageEnqueued
  <2> QED
    BY <1>a, <1>b, <2>1, <2>3
<1>3. CASE UNCHANGED vars
  BY <1>a, <1>b, <1>3 DEF vars, flowVars, queueVars, storeVars
<1> QED
  BY <1>1, <1>2, <1>3 DEF FlowNext, AnyStep

-----------------------------------------------------------------------------
(* The subscriptions that were ever asked for and may still be answered. *)
Asked == {s[1] : s \in subs} \cup decided

(* Where a worker is once the node it ran has asked for a decision. *)
AskedPC == {"suspend", "push", "clear", "finish"}

(* A subscription bears the generation of the session that asked for it,   *)
(* so a session that has not asked yet waits for nothing that was decided, *)
(* and the message it has belongs to an older session.                     *)
AskInv ==
    /\ \A s \in Asked : s <= fencegen
    /\ \A m \in Msg : msgs[m].sub <= fencegen
    /\ \A w \in Worker : token[w] # 0 =>
          /\ wk[w].pc \notin AskedPC => token[w] \notin Asked
          /\ msgs[wk[w].msg].sub < token[w]

(* Only a node that runs asks for a decision, under its session's token. *)
LEMMA AsksOnly ==
    ASSUME FlowInv, NEW w \in Worker, AnyStep(w)
    PROVE  /\ decided' = decided
           /\ \/ subs' \subseteq subs
              \/ /\ wk[w].pc = "run" /\ wk'[w].pc = "suspend" /\ UNCHANGED <<token, fencegen>>
                 /\ \E k \in Node : subs' = subs \cup {<<token[w], k>>}
<1> USE DEF worldVars
<1>1. CASE QueueStep(w) \/ WorkerCrash(w)
  BY <1>1 DEF QueueStep, Take, Reclaim, DeadLetterGuard, DeadLetterProbe, DeadLetterVerdict,
              DeadLetterWrite, Finish, WorkerCrash
<1>2. CASE StartStep(w)
  BY <1>2 DEF StartStep, StartCheck, StartCancelled, StartAcquire, StartPersist, StartFailed
<1>3. CASE ResumeStep(w)
  BY <1>3 DEF ResumeStep, GuardResume, CompensateAcquire, CompensateCheck, AcquireResume,
              RecheckResume, ResumeRefused, WakeUp
<1>4. CASE LoopStep(w)
  <2>1. CASE RunNode(w)
    <3> DEFINE k == wk[w].c + 1
    <3>1. k \in Node /\ (Kind[k] # "task" => k # LastNode)
      <4>1. wk[w].c \in 0 .. LastNode /\ wk[w].c < LastNode
        BY <2>1, WorkerFacts DEF RunNode, Sane
      <4> QED
        BY <4>1, FlowConstants
    <3>2. UNCHANGED <<decided, token, fencegen>> /\ wk[w].pc = "run"
      BY <2>1 DEF RunNode, storeVars, redisVars
    <3>3. CASE Kind[k] = "task"
      BY <2>1, <3>2, <3>3 DEF RunNode
    <3>4. CASE Kind[k] # "task"
      <4>1. wk'[w].pc = "suspend" /\ subs' = subs \cup {<<token[w], k>>}
        BY <2>1, <3>1, <3>4 DEF RunNode, FlowInv, WorkerState
      <4> QED
        BY <3>1, <3>2, <4>1
    <3> QED
      BY <3>3, <3>4
  <2>2. CASE ResolveNode(w)
    BY <2>2 DEF ResolveNode
  <2> QED
    BY <1>4, <2>1, <2>2
       DEF LoopStep, NodeFails, NodeAborted, LeaseLost, StepBoundary, StepPersist, SuspendPersist,
           PushTask, ClearPending, EndPersist, CancelPersist, HandleFailure, ErrorPersist, Requeue
<1> QED
  BY <1>1, <1>2, <1>3, <1>4 DEF AnyStep

(* A session that has asked runs no further node. *)
LEMMA AskedRunsNoMore ==
    ASSUME FlowInv, SteadyInv, NEW w \in Worker, AnyStep(w), wk[w].pc \in AskedPC
    PROVE  wk'[w].pc \in AskedPC \/ token'[w] = 0
<1> USE DEF AskedPC, FlowInv, WorkerState, Leave, Goto, Persist, LeaseError
<1>1. CASE QueueStep(w) \/ WorkerCrash(w)
  <2>1. Idle.pc = "idle"
    BY DEF Idle
  <2>2. wk'[w].pc = "idle"
    BY <1>1, <2>1 DEF QueueStep, Take, Reclaim, DeadLetterGuard, DeadLetterProbe, DeadLetterVerdict,
                      DeadLetterWrite, Finish, WorkerCrash
  <2> QED
    BY <2>2, IdleHasNoToken
<1>2. CASE StartStep(w) \/ ResumeStep(w)
  BY <1>2 DEF StartStep, StartCheck, StartCancelled, StartAcquire, StartPersist, StartFailed,
              ResumeStep, GuardResume, CompensateAcquire, CompensateCheck, AcquireResume,
              RecheckResume, ResumeRefused, WakeUp
<1>3. CASE LoopStep(w)
  <2>1. CASE LeaseLost(w) \/ SuspendPersist(w)
    BY <2>1 DEF LeaseLost, SuspendPersist
  <2>2. CASE PushTask(w) \/ ClearPending(w)
    BY <2>2 DEF PushTask, ClearPending
  <2> QED
    BY <1>3, <2>1, <2>2
       DEF LoopStep, RunNode, ResolveNode, NodeFails, NodeAborted, StepBoundary, StepPersist,
           EndPersist, CancelPersist, HandleFailure, ErrorPersist, Requeue
<1> QED
  BY <1>1, <1>2, <1>3 DEF AnyStep

(* What a step of a worker does to its token. *)
LEMMA TokenMoves ==
    ASSUME FlowInv, SteadyInv, NEW w \in Worker, AnyStep(w)
    PROVE  \/ token'[w] = token[w] /\ fencegen' = fencegen
           \/ token'[w] = 0
           \/ /\ wk'[w].pc \in {"startPersist", "compCheck", "recheck"}
              /\ token[w] = 0 /\ token'[w] > fencegen
<1>1. StoreInv /\ w \in Session
  BY DEF FlowInv, Worker
<1>2. CASE TryAcquireFenced(w) /\ wk'[w].pc \in {"startPersist", "compCheck", "recheck"}
  <2>1. NextGeneration > fencegen
    BY <1>1, NextGenerationExceeds DEF StoreInv, TypeOK
  <2> QED
    BY <1>1, <1>2, <2>1 DEF TryAcquireFenced, StoreInv, TypeOK
<1>3. CASE Release(w) \/ Crash(w)
  BY <1>1, <1>3 DEF Release, Crash, StoreInv, TypeOK
<1>4. ASSUME NEW d \in RowData, PlainSave(d) \/ FencedSave(w, d)
      PROVE  token' = token /\ fencegen' = fencegen
  BY <1>4 DEF PlainSave, FencedSave
<1> QED
  BY <1>2, <1>3, <1>4, StoreAny DEF WorkerStore

(* A message a worker enqueues carries its own's subscription, or none. *)
LEMMA MessageSubs ==
    ASSUME FlowInv, NEW w \in Worker, MessageMoves(w), NEW m \in Msg
    PROVE  \/ msgs'[m].sub = msgs[m].sub
           \/ msgs'[m].sub = 0
           \/ wk[w].pc # "idle" /\ msgs'[m].sub = msgs[wk[w].msg].sub
<1>0. msgs \in [Msg -> Message]
  BY DEF FlowInv, WorldTyped
<1>1. ASSUME NEW k \in Msg, NEW n,
             \/ msgs' = [msgs EXCEPT ![k].st = "pending", ![k].by = w, ![k].n = n]
             \/ msgs' = [msgs EXCEPT ![k].by = w]
      PROVE  msgs'[m].sub = msgs[m].sub
  BY <1>0, <1>1 DEF Message
<1>2. ASSUME HasSlot, NEW t \in MsgType, NEW sub \in 0 .. MaxGen, msgs' = Enqueued(t, sub)
      PROVE  msgs'[m].sub = msgs[m].sub \/ msgs'[m].sub = sub
  BY <1>2, MessageEnqueued
<1>3. msgs' = Acked(msgs, wk[w].msg) => msgs'[m].sub = msgs[m].sub
  BY <1>0 DEF Acked, Message
<1>4. CASE wk[w].pc = "idle"
  BY <1>1, <1>4 DEF MessageMoves
<1>5. CASE wk[w].pc # "idle"
  <2>1. CASE \E t \in MsgType, sub \in 0 .. MaxGen :
                HasSlot /\ Copied(w, t, sub) /\ msgs' = Enqueued(t, sub)
    <3>1. PICK t \in MsgType, sub \in 0 .. MaxGen :
             HasSlot /\ Copied(w, t, sub) /\ msgs' = Enqueued(t, sub)
      BY <2>1
    <3> QED
      BY <1>2, <1>5, <3>1 DEF Copied
  <2> QED
    BY <1>3, <1>5, <2>1 DEF MessageMoves
<1> QED
  BY <1>4, <1>5

(* Every step keeps what generations say of subscriptions. *)
LEMMA AskNext == FlowInv /\ SteadyInv /\ AttendInv /\ AskInv /\ [FlowNext]_vars => AskInv'
<1> SUFFICES ASSUME FlowInv, SteadyInv, AttendInv, AskInv, [FlowNext]_vars PROVE AskInv'
  OBVIOUS
<1>0. /\ fencegen \in Nat /\ \A v \in Worker : token[v] \in Nat
      /\ \A m \in Msg : msgs[m].sub \in Nat
      /\ \A v \in Worker : wk[v].pc # "idle" => wk[v].msg \in Msg /\ msgs[wk[v].msg].st # "free"
  <2>1. \A m \in Msg : msgs[m].sub \in 0 .. MaxGen
    BY DEF FlowInv, WorldTyped, Message
  <2> QED
    BY <2>1, FlowConstants
       DEF FlowInv, StoreInv, TypeOK, Worker, WorkersSane, Sane, AttendInv
<1>a. \A s \in Asked : s <= fencegen /\ s \in Nat
  <2>1. \A s \in subs : s[1] \in Nat
    <3>1. \A s \in (1 .. MaxGen) \X Node : s[1] \in 1 .. MaxGen
      OBVIOUS
    <3>2. \A g \in 1 .. MaxGen : g \in Nat
      BY FlowConstants
    <3> QED
      BY <3>1, <3>2 DEF FlowInv, WorldTyped
  <2>2. \A s \in decided : s \in Nat
    BY FlowConstants DEF FlowInv, WorldTyped
  <2> QED
    BY <2>1, <2>2 DEF Asked, AskInv
<1>1. ASSUME NEW w \in Worker, AnyStep(w) PROVE AskInv'
  <2>0. /\ FlowInv' /\ fencegen' >= fencegen /\ fencegen' \in Nat
        /\ \A v \in Worker \ {w} : token'[v] = token[v] /\ wk'[v] = wk[v]
        /\ MessageMoves(w) /\ SteadyInv'
    <3>1. FlowInv' /\ OwnStep(w)
      BY <1>1, QueueStepKeeps, StartStepKeeps, ResumeStepKeeps, LoopStepKeeps, CrashKeeps DEF AnyStep
    <3>2. SteadyInv'
      BY <1>1, SteadyNext DEF FlowNext, AnyStep
    <3> QED
      BY <1>1, <3>1, <3>2, OnlyAny, MovesAny DEF OwnStep, OnlyWorker, FlowInv, StoreInv, TypeOK
  <2>1. \A m \in Msg : msgs'[m].sub <= fencegen'
    <3> SUFFICES ASSUME NEW m \in Msg PROVE msgs'[m].sub <= fencegen'
      OBVIOUS
    <3>1. msgs'[m].sub = msgs[m].sub \/ msgs'[m].sub = 0
          \/ \E k \in Msg : msgs'[m].sub = msgs[k].sub
      BY <1>0, <2>0, MessageSubs
    <3>2. \A k \in Msg : msgs[k].sub <= fencegen
      BY DEF AskInv
    <3>3. ASSUME NEW k \in Msg, msgs'[m].sub = msgs[k].sub PROVE msgs'[m].sub <= fencegen'
      BY <1>0, <2>0, <3>2, <3>3
    <3> QED
      BY <2>0, <3>1, <3>3
  <2>2. Asked' \subseteq Asked
        \/ /\ wk[w].pc = "run" /\ wk'[w].pc = "suspend" /\ UNCHANGED <<token, fencegen>>
           /\ token[w] # 0 /\ Asked' \subseteq Asked \cup {token[w]}
    <3>1. wk[w].pc = "run" => token[w] # 0
      BY WorkerFacts DEF Sane, TokenPC
    <3>2. CASE subs' \subseteq subs
      BY <1>1, <3>2, AsksOnly DEF Asked
    <3>3. ASSUME NEW k \in Node, subs' = subs \cup {<<token[w], k>>}
          PROVE  Asked' \subseteq Asked \cup {token[w]}
      BY <1>1, <3>3, AsksOnly DEF Asked
    <3> QED
      BY <1>1, <3>1, <3>2, <3>3, AsksOnly
  <2>3. \A s \in Asked' : s <= fencegen'
    <3>1. \A s \in Asked : s <= fencegen /\ s \in Nat
      BY <1>a
    <3>2. token[w] # 0 => token[w] <= fencegen
      BY <1>0 DEF SteadyInv, LeaseKept, FenceAccepts
    <3>3. SUFFICES ASSUME NEW s \in Asked' PROVE s <= fencegen'
      OBVIOUS
    <3>4. CASE s \in Asked
      BY <1>0, <2>0, <3>1, <3>4
    <3>5. CASE s \notin Asked
      <4>1. s = token[w] /\ token[w] # 0
        BY <2>2, <3>3, <3>5
      <4> QED
        BY <1>0, <2>0, <3>2, <4>1
    <3> QED
      BY <3>4, <3>5
  <2>4. ASSUME NEW v \in Worker, token'[v] # 0
        PROVE  wk'[v].pc \notin AskedPC => token'[v] \notin Asked'
    <3>1. CASE v # w
      <4>1. token'[v] = token[v] /\ wk'[v] = wk[v] /\ token[w] = 0
        BY <2>0, <2>4, <3>1, OneHolder
      <4>2. Asked' \subseteq Asked
        BY <2>2, <4>1
      <4> QED
        BY <2>4, <4>1, <4>2 DEF AskInv
    <3>2. CASE v = w /\ token'[w] = token[w]
      <4>1. wk'[w].pc \notin AskedPC => wk[w].pc \notin AskedPC /\ Asked' \subseteq Asked
        <5>1. "suspend" \in AskedPC
          BY DEF AskedPC
        <5> QED
          BY <1>1, <2>2, <2>4, <3>2, <5>1, AskedRunsNoMore
      <4> QED
        BY <2>4, <3>2, <4>1 DEF AskInv
    <3>3. CASE v = w /\ token'[w] > fencegen /\ wk'[w].pc # "suspend"
      <4>1. Asked' \subseteq Asked
        BY <2>2, <3>3
      <4>2. \A s \in Asked : s <= fencegen /\ s \in Nat
        BY <1>a
      <4> QED
        <5> SUFFICES ASSUME token'[w] \in Asked PROVE FALSE
          BY <3>3, <4>1
        <5>1. token'[w] <= fencegen /\ token'[w] \in Nat /\ token'[w] > fencegen
          BY <3>3, <4>2
        <5> QED
          BY <1>0, <5>1
    <3> QED
      BY <1>1, <2>4, <3>1, <3>2, <3>3, TokenMoves
  <2>5. ASSUME NEW v \in Worker, token'[v] # 0
        PROVE  msgs'[wk'[v].msg].sub < token'[v]
    <3>0. wk'[v].pc # "idle"
      BY <2>0, <2>5 DEF SteadyInv, LeaseKept
    <3>1. CASE v # w
      <4>1. token'[v] = token[v] /\ wk'[v] = wk[v]
        BY <2>0, <3>1
      <4>2. wk[v].msg \in Msg /\ msgs[wk[v].msg].st # "free"
        BY <1>0, <3>0, <4>1
      <4>3. msgs'[wk[v].msg].sub = msgs[wk[v].msg].sub
        BY <2>0, <4>2, MessagesKept
      <4> QED
        BY <2>5, <4>1, <4>3 DEF AskInv
    <3>2. CASE v = w /\ wk[w].pc # "idle"
      <4>1. wk'[w].msg = wk[w].msg
        BY <1>1, <3>0, <3>2, StaysWithMessage
      <4>2. wk[w].msg \in Msg /\ msgs'[wk[w].msg].sub = msgs[wk[w].msg].sub
        BY <1>0, <2>0, <3>2, MessagesKept
      <4>3. CASE token'[w] = token[w]
        BY <2>5, <3>2, <4>1, <4>2, <4>3 DEF AskInv
      <4>4. CASE token'[w] > fencegen
        <5>1. msgs[wk[w].msg].sub <= fencegen /\ msgs[wk[w].msg].sub \in Nat /\ token'[w] \in Nat
          <6>1. FlowInv' => token'[w] \in Nat
            BY DEF FlowInv, StoreInv, TypeOK, Worker
          <6> QED
            BY <1>0, <2>0, <4>2, <6>1 DEF AskInv
        <5> QED
          BY <1>0, <3>2, <4>1, <4>2, <4>4, <5>1
      <4> QED
        BY <1>1, <2>5, <3>2, <4>3, <4>4, TokenMoves
    <3>3. CASE v = w /\ wk[w].pc = "idle"
      <4>1. token[w] = 0
        BY <3>3 DEF SteadyInv, LeaseKept
      <4>2. wk'[w].pc \in {"start", "guard", "dlq"}
        BY <2>0, <3>3 DEF MessageMoves
      <4> QED
        BY <1>1, <2>5, <3>3, <4>1, <4>2, TokenMoves
    <3> QED
      BY <3>1, <3>2, <3>3
  <2> QED
    BY <2>1, <2>3, <2>4, <2>5 DEF AskInv
<1>2. CASE Outside
  <2>1. UNCHANGED <<wk, token, fencegen, subs>>
    BY <1>2, SteadyOutside
  <2>2. Asked' = Asked
    <3>1. decided' = decided \/ \E s \in subs : decided' = decided \cup {s[1]}
      BY <1>2, SteadyOutside
    <3> QED
      BY <2>1, <3>1 DEF Asked
  <2>3. \/ msgs' = msgs
        \/ \E t \in MsgType, sub \in 0 .. MaxGen :
              HasSlot /\ msgs' = Enqueued(t, sub) /\ sub <= fencegen
    <3>1. "retry" \in MsgType /\ "event" \in MsgType
          /\ \A s \in subs : s[1] \in 0 .. MaxGen /\ s[1] <= fencegen
      BY DEF MsgType, FlowInv, WorldTyped, AskInv, Asked
    <3>2. 0 \in 0 .. MaxGen /\ 0 <= fencegen
      BY <1>0, Zeros
    <3>3. \/ msgs' = msgs
          \/ HasSlot /\ msgs' = Enqueued("retry", 0)
          \/ \E s \in subs : HasSlot /\ msgs' = Enqueued("event", s[1])
      BY <1>2, SteadyOutside
    <3> QED
      BY <3>1, <3>2, <3>3
  <2>4. \A m \in Msg : msgs'[m].sub <= fencegen
    <3>1. \A m \in Msg : msgs[m].sub <= fencegen
      BY DEF AskInv
    <3>2. ASSUME NEW t \in MsgType, NEW sub \in 0 .. MaxGen, HasSlot, msgs' = Enqueued(t, sub), sub <= fencegen
          PROVE  \A m \in Msg : msgs'[m].sub <= fencegen
      BY <3>1, <3>2, MessageEnqueued
    <3> QED
      BY <2>3, <3>1, <3>2
  <2>5. \A v \in Worker : token[v] # 0 => msgs'[wk[v].msg] = msgs[wk[v].msg]
    <3> SUFFICES ASSUME NEW v \in Worker, token[v] # 0 PROVE msgs'[wk[v].msg] = msgs[wk[v].msg]
      OBVIOUS
    <3>1. wk[v].msg \in Msg /\ msgs[wk[v].msg].st # "free"
      BY <1>0 DEF SteadyInv, LeaseKept
    <3> QED
      BY <2>3, <3>1, MessageEnqueued
  <2> QED
    BY <2>1, <2>2, <2>4, <2>5 DEF AskInv
<1>3. CASE UNCHANGED vars
  BY <1>3 DEF vars, flowVars, queueVars, worldVars, storeVars, redisVars, AskInv, Asked
<1> QED
  BY <1>1, <1>2, <1>3 DEF FlowNext, AnyStep

-----------------------------------------------------------------------------
(* The execution waits, or is about to, for the decision on subscription s. *)
Awaits(w, s) ==
    \/ wk[w].pc = "suspend" /\ token[w] = s
    \/ wk[w].pc \in {"push", "clear"} /\ wk[w].d.sub = s

Pending(s) ==
    \/ HasRow /\ row.data.status = "suspended" /\ row.data.sub = s
    \/ \E w \in Worker : Awaits(w, s)

(* The worker will acknowledge its message whatever happens, unless it dies. *)
Doomed(w) == wk[w].pc = "refused" \/ (wk[w].pc = "finish" /\ wk[w].ack)

(* The message carries the decision on s, and nobody is about to drop it. *)
Carries(m, s) ==
    /\ Live(m) /\ msgs[m].type = "event" /\ msgs[m].sub = s
    /\ \A w \in Worker : wk[w].msg = m => ~Doomed(w)

(* A published decision that the execution waits for has a carrier. *)
DecisionInv == \A s \in decided : Pending(s) => \E m \in Msg : Carries(m, s)

DeliveryInv == SteadyInv /\ WorkInv /\ AttendInv /\ AskInv /\ DecisionInv

(* Whoever waits for a decision has a row that is not final. *)
LEMMA PendingOpen ==
    ASSUME WorkInv, NEW s, Pending(s)
    PROVE  RowOpen
<1>1. CASE HasRow /\ row.data.status = "suspended"
  BY <1>1 DEF RowOpen, TerminalStatus
<1>2. ASSUME NEW w \in Worker, Awaits(w, s) PROVE RowOpen
  BY <1>2 DEF WorkInv, WorkPC, Awaits
<1> QED
  BY <1>1, <1>2 DEF Pending

(* A worker that comes to wait for a decision: it ran the node that asks,  *)
(* wrote the row that waits, or found it owing its service the task.       *)
LEMMA EntersWait ==
    ASSUME FlowInv, NEW w \in Worker, AnyStep(w), wk'[w].pc \in {"suspend", "push", "clear"}
    PROVE  \/ wk[w].pc = "run" /\ wk'[w].pc = "suspend"
           \/ wk[w].pc = "suspend" /\ wk'[w].pc = "push" /\ wk'[w].d.sub = token[w]
           \/ wk[w].pc = "push" /\ wk'[w].pc = "clear" /\ wk'[w].d = wk[w].d
           \/ wk'[w].pc = "push" /\ PendingDispatch /\ wk'[w].d = row.data
<1> USE DEF FlowInv, WorkerState, Leave, Goto, AcquireLease, LeaseError
<1>1. CASE QueueStep(w)
  <2>1. CASE Take(w)
    <3>1. wk'[w].pc \in {"idle", "start", "guard"}
      BY <2>1, Dispatched DEF Take
    <3> QED
      BY <3>1
  <2>2. CASE Reclaim(w)
    <3>1. PICK m \in Msg : \/ wk' = [wk EXCEPT ![w] = [Idle EXCEPT !.pc = "dlq", !.msg = m]]
                           \/ Dispatch(w, m, msgs[m].n + 1)
      BY <2>2 DEF Reclaim
    <3>2. [Idle EXCEPT !.pc = "dlq", !.msg = m].pc = "dlq"
      BY DEF Idle
    <3>3. wk'[w].pc \in {"idle", "start", "guard", "dlq"}
      BY <2>2, <3>1, <3>2, Dispatched DEF Reclaim
    <3> QED
      BY <3>3
  <2>3. CASE DeadLetterGuard(w) \/ DeadLetterProbe(w) \/ DeadLetterVerdict(w)
    BY <2>3 DEF DeadLetterGuard, DeadLetterProbe, DeadLetterVerdict
  <2>4. CASE DeadLetterWrite(w) \/ Finish(w)
    BY <2>4 DEF DeadLetterWrite, Finish, Idle
  <2> QED
    BY <1>1, <2>1, <2>2, <2>3, <2>4 DEF QueueStep
<1>2. CASE StartStep(w)
  BY <1>2 DEF StartStep, StartCheck, StartCancelled, StartAcquire, StartPersist, StartFailed, Persist
<1>3. CASE ResumeStep(w)
  <2>1. CASE GuardResume(w) \/ CompensateAcquire(w) \/ AcquireResume(w)
    BY <2>1 DEF GuardResume, CompensateAcquire, AcquireResume
  <2>2. CASE CompensateCheck(w)
    BY <2>2 DEF CompensateCheck
  <2>3. CASE RecheckResume(w)
    BY <2>3 DEF RecheckResume
  <2>4. CASE ResumeRefused(w)
    BY <2>4 DEF ResumeRefused, queueVars
  <2>5. CASE WakeUp(w)
    BY <2>5 DEF WakeUp, Persist
  <2> QED
    BY <1>3, <2>1, <2>2, <2>3, <2>4, <2>5 DEF ResumeStep
<1>4. CASE LoopStep(w)
  <2>1. CASE RunNode(w)
    BY <2>1 DEF RunNode, AfterRun
  <2>2. CASE ResolveNode(w) \/ NodeFails(w) \/ LeaseLost(w) \/ StepBoundary(w)
    BY <2>2 DEF ResolveNode, NodeFails, LeaseLost, StepBoundary
  <2>3. CASE NodeAborted(w) \/ HandleFailure(w) \/ Requeue(w)
    BY <2>3 DEF NodeAborted, HandleFailure, Requeue
  <2>4. CASE StepPersist(w)
    BY <2>4 DEF StepPersist, Persist
  <2>5. CASE SuspendPersist(w)
    <3> DEFINE d == PendingRef(wk[w].c, token[w])
    <3>1. d.sub = token[w]
      BY DEF PendingRef
    <3>2. Persist(w, d, IF d.dp THEN "push" ELSE "finish") /\ wk[w].pc = "suspend"
      BY <2>5 DEF SuspendPersist
    <3> HIDE DEF d
    <3> QED
      BY <3>1, <3>2 DEF Persist
  <2>6. CASE PushTask(w)
    BY <2>6 DEF PushTask
  <2>7. CASE ClearPending(w) \/ EndPersist(w) \/ CancelPersist(w) \/ ErrorPersist(w)
    BY <2>7 DEF ClearPending, EndPersist, CancelPersist, ErrorPersist, Persist
  <2> QED
    BY <1>4, <2>1, <2>2, <2>3, <2>4, <2>5, <2>6, <2>7 DEF LoopStep
<1>5. CASE WorkerCrash(w)
  BY <1>5 DEF WorkerCrash, Idle
<1> QED
  BY <1>1, <1>2, <1>3, <1>4, <1>5 DEF AnyStep

(* A worker that writes the row it waits on names its own subscription. *)
LEMMA SuspendedSub ==
    ASSUME NEW w \in Worker, SuspendPersist(w), NEW d, FencedSave(w, d)
    PROVE  wk[w].pc = "suspend" /\ row'.data.sub = token[w]
<1> DEFINE e == PendingRef(wk[w].c, token[w])
<1>1. e.sub = token[w]
  BY DEF PendingRef
<1>2. Persist(w, e, IF e.dp THEN "push" ELSE "finish") /\ wk[w].pc = "suspend"
  BY DEF SuspendPersist
<1> HIDE DEF e
<1>3. FencedSave(w, e)
  BY <1>2 DEF Persist, FencedSave
<1> QED
  BY <1>1, <1>2, <1>3 DEF FencedSave

(* What a decision is published for was waited for when it was published,  *)
(* so a step of a worker makes nobody wait for one already published.      *)
LEMMA PendingBefore ==
    ASSUME FlowInv, SteadyInv, AskInv, NEW w \in Worker, AnyStep(w),
           NEW s \in decided, Pending(s)'
    PROVE  Pending(s)
<1>0. /\ \A v \in Worker \ {w} : token'[v] = token[v] /\ wk'[v] = wk[v]
  BY OnlyAny, QueueStepKeeps, StartStepKeeps, ResumeStepKeeps, LoopStepKeeps, CrashKeeps
     DEF OnlyWorker, OwnStep, AnyStep
<1>1. CASE HasRow' /\ row'.data.status = "suspended" /\ row'.data.sub = s
  <2>1. CASE row' = row
    BY <1>1, <2>1 DEF Pending, HasRow
  <2>2. ASSUME NEW d \in RowData, FencedSave(w, d), Written(w, d) PROVE Pending(s)
    <3>1. row'.data = d
      BY <2>2 DEF FencedSave
    <3>2. CASE SuspendPersist(w)
      BY <1>1, <2>2, <3>2, SuspendedSub DEF Pending, Awaits
    <3>3. CASE ClearPending(w) /\ d.sub = wk[w].d.sub
      BY <1>1, <3>1, <3>3 DEF ClearPending, Pending, Awaits
    <3> QED
      BY <1>1, <2>2, <3>1, <3>2, <3>3 DEF Written, TerminalStatus
  <2> QED
    BY <1>1, <2>1, <2>2, SteadyRow
<1>2. ASSUME NEW v \in Worker, Awaits(v, s)' PROVE Pending(s)
  <2>1. CASE v # w
    BY <1>0, <1>2, <2>1 DEF Awaits, Pending
  <2>2. CASE v = w
    <3>1. CASE wk[w].pc = "run" /\ wk'[w].pc = "suspend"
      <4>1. token[w] # 0 /\ token[w] \notin Asked
        BY <3>1, WorkerFacts DEF Sane, TokenPC, AskInv, AskedPC
      <4>2. token'[w] = s /\ s # 0
        BY <1>2, <2>2, <3>1 DEF Awaits, FlowInv, WorldTyped
      <4>3. token'[w] = token[w]
        BY <3>1, <4>2, TokenMoves
      <4> QED
        BY <4>1, <4>2, <4>3 DEF Asked
    <3>2. CASE wk[w].pc = "suspend" /\ wk'[w].pc = "push" /\ wk'[w].d.sub = token[w]
      BY <1>2, <2>2, <3>2 DEF Awaits, Pending
    <3>3. CASE wk[w].pc = "push" /\ wk'[w].pc = "clear" /\ wk'[w].d = wk[w].d
      BY <1>2, <2>2, <3>3 DEF Awaits, Pending
    <3>4. CASE wk'[w].pc = "push" /\ PendingDispatch /\ wk'[w].d = row.data
      BY <1>2, <2>2, <3>4 DEF Awaits, Pending, PendingDispatch
    <3>5. wk'[w].pc \in {"suspend", "push", "clear"}
      BY <1>2, <2>2 DEF Awaits
    <3> QED
      BY <3>1, <3>2, <3>3, <3>4, <3>5, EntersWait
  <2> QED
    BY <2>1, <2>2
<1> QED
  BY <1>1, <1>2 DEF Pending

(* The decision is copied, or the worker has seen the execution through to *)
(* where it waits for it no longer.                                        *)
SeenThrough(w) ==
    /\ token[w] # 0 /\ wk'[w].pc = "finish"
    /\ row'.data.status \in TerminalStatus \/ row'.data.sub = token[w]

Handed(w, s) ==
    \/ HasSlot /\ msgs' = Enqueued("event", s)
    \/ SeenThrough(w)

(* What a worker has before it that attends the decision waited for. *)
Attends(w, s) ==
    /\ wk[w].pc # "idle" /\ ~Doomed(w)
    /\ wk[w].msg \in Msg /\ msgs[wk[w].msg].type = "event" /\ msgs[wk[w].msg].sub = s
    /\ AsEvent(wk[w], token[w])
    /\ RowOpen /\ Pending(s)

(* The queue gives up no decision that is waited for. *)
LEMMA QueueHands ==
    ASSUME FlowInv, SteadyInv, NEW w \in Worker, NEW s, Attends(w, s), QueueStep(w), Doomed(w)'
    PROVE  Handed(w, s)
<1> USE DEF Attends, FlowInv, WorkerState, Leave, Doomed
<1>1. CASE Take(w) \/ Reclaim(w)
  BY <1>1 DEF Take, Reclaim
<1>2. CASE DeadLetterGuard(w) \/ DeadLetterProbe(w) \/ DeadLetterVerdict(w)
  <2>1. ~tombstone /\ HasRow /\ row.data.status \notin TerminalStatus
    BY DEF SteadyInv, Undisturbed, RowOpen
  <2>2. ~GivenUp(wk[w])
    BY DEF SteadyInv
  <2> QED
    BY <1>2, <2>1, <2>2 DEF DeadLetterGuard, DeadLetterProbe, DeadLetterVerdict, GivenUp, Handed
<1>3. CASE DeadLetterWrite(w)
  BY <1>3 DEF DeadLetterWrite, SteadyInv, GivenUp
<1>4. CASE Finish(w)
  BY <1>4 DEF Finish, Idle
<1> QED
  BY <1>1, <1>2, <1>3, <1>4 DEF QueueStep

(* A start that attends to a decision gives nothing up. *)
LEMMA StartHands ==
    ASSUME FlowInv, SteadyInv, NEW w \in Worker, NEW s, Attends(w, s), StartStep(w), Doomed(w)'
    PROVE  FALSE
<1> USE DEF Attends, FlowInv, WorkerState, Leave, Goto, Persist, AcquireLease, LeaseError,
            LeaseConflictAckSafe, Doomed, SteadyInv, Undisturbed, GivenUp
<1>1. CASE StartCheck(w)
  BY <1>1 DEF StartCheck, AsEvent
<1>2. CASE StartCancelled(w)
  BY <1>2 DEF StartCancelled
<1>3. CASE StartAcquire(w)
  BY <1>3 DEF StartAcquire
<1>4. CASE StartPersist(w)
  BY <1>4 DEF StartPersist
<1>5. CASE StartFailed(w)
  BY <1>5 DEF StartFailed
<1> QED
  BY <1>1, <1>2, <1>3, <1>4, <1>5 DEF StartStep

(* A decision that is waited for is never refused under the lease. *)
LEMMA DecisionAdmitted ==
    ASSUME FlowInv, SteadyInv, NEW w \in Worker, NEW s, Attends(w, s), wk[w].pc = "recheck"
    PROVE  /\ GuardVerdict(wk[w].type) = "go"
           /\ ~Wakeup(EffectiveType(w)) /\ ~EngineRefuses(EffectiveType(w), wk[w].msg)
<1>1. wk[w].type = "event" /\ token[w] # 0
  BY WorkerFacts DEF Attends, AsEvent, Sane, TokenPC
<1>2. HasRow /\ row.data.status = "suspended" /\ row.data.sub = s
  <2> SUFFICES ASSUME NEW v \in Worker, Awaits(v, s) PROVE FALSE
    BY DEF Attends, Pending
  <2>1. token[v] # 0 /\ wk[v].pc # "recheck"
    BY WorkerFacts DEF Awaits, Sane, TokenPC
  <2> QED
    BY <1>1, <2>1, OneHolder DEF Attends
<1>3. row.data.ctx # 0
  BY <1>2 DEF FlowInv, RowSound, Sound
<1>4. EffectiveType(w) = "event"
  BY <1>1, <1>2 DEF EffectiveType
<1>5. GuardVerdict(wk[w].type) = "go"
  BY <1>1, EventVerdict DEF Attends, SteadyInv, Undisturbed
<1> QED
  BY <1>2, <1>3, <1>4, <1>5 DEF Wakeup, EngineRefuses, Attends

(* A resume that attends to a decision that is waited for gives nothing up. *)
LEMMA ResumeHands ==
    ASSUME FlowInv, SteadyInv, NEW w \in Worker, NEW s, Attends(w, s), ResumeStep(w), Doomed(w)'
    PROVE  FALSE
<1> USE DEF FlowInv, WorkerState, Leave, Goto, Persist, AcquireLease, LeaseError,
            LeaseConflictAckSafe, Doomed
<1>0. /\ ~cancelFlag /\ msgs[wk[w].msg].type = "event"
      /\ wk[w].pc \notin {"refused", "compAcquire", "compCheck"}
  BY DEF SteadyInv, Undisturbed, Attends, AsEvent
<1>1. CASE GuardResume(w)
  <2>1. GuardVerdict(wk[w].type) = "go"
    BY <1>1, EventVerdict DEF GuardResume, Attends, AsEvent, SteadyInv, Undisturbed
  <2> QED
    BY <1>1, <2>1 DEF GuardResume
<1>2. CASE CompensateAcquire(w) \/ CompensateCheck(w) \/ AcquireResume(w)
  BY <1>0, <1>2 DEF CompensateAcquire, CompensateCheck, AcquireResume
<1>3. CASE RecheckResume(w)
  <2>1. /\ GuardVerdict(wk[w].type) = "go" /\ wk[w].pc = "recheck"
        /\ ~Wakeup(EffectiveType(w)) /\ ~EngineRefuses(EffectiveType(w), wk[w].msg)
    BY <1>3, DecisionAdmitted DEF RecheckResume
  <2>2. wk'[w].pc = "run"
    BY <1>0, <1>3, <2>1 DEF RecheckResume
  <2> QED
    BY <2>2
<1>4. CASE ResumeRefused(w)
  BY <1>0, <1>4 DEF ResumeRefused
<1>5. CASE WakeUp(w)
  BY <1>0, <1>5 DEF WakeUp
<1> QED
  BY <1>1, <1>2, <1>3, <1>4, <1>5 DEF ResumeStep

(* A drive that lets its decision go has copied it, or is through. *)
LEMMA LoopHands ==
    ASSUME FlowInv, SteadyInv, NEW w \in Worker, NEW s, Attends(w, s), LoopStep(w), Doomed(w)'
    PROVE  Handed(w, s)
<1> USE DEF FlowInv, WorkerState, Leave, Goto, LeaseError, LeaseConflictAckSafe, Doomed
<1>0. /\ ~cancelFlag /\ msgs[wk[w].msg].type = "event" /\ msgs[wk[w].msg].sub = s
      /\ wk[w].pc # "cancel" /\ (token[w] # 0 => HoldsLease(w) /\ FenceAccepts(w))
  BY DEF SteadyInv, Undisturbed, LeaseKept, Attends, GivenUp
<1>1. wk[w].pc \in TokenPC => token[w] # 0
  BY WorkerFacts DEF Sane
<1>2. ASSUME NEW d, Persist(w, d, "finish"), wk[w].pc \in TokenPC,
             d.status \in TerminalStatus \/ d.sub = token[w]
      PROVE  Handed(w, s)
  <2>1. FencedSave(w, d) /\ wk'[w].pc = "finish"
    BY <1>0, <1>1, <1>2 DEF Persist
  <2>2. row'.data = d
    BY <2>1 DEF FencedSave
  <2> QED
    BY <1>1, <1>2, <2>1, <2>2 DEF Handed, SeenThrough
<1>3. CASE RunNode(w)
  BY <1>3 DEF RunNode, AfterRun
<1>4. CASE ResolveNode(w) \/ NodeFails(w)
  BY <1>4 DEF ResolveNode, NodeFails
<1>5. CASE NodeAborted(w) \/ LeaseLost(w)
  BY <1>0, <1>1, <1>5 DEF NodeAborted, LeaseLost, TokenPC
<1>6. CASE StepBoundary(w) \/ StepPersist(w)
  BY <1>0, <1>6 DEF StepBoundary, StepPersist, Persist
<1>7. CASE SuspendPersist(w)
  <2> DEFINE d == PendingRef(wk[w].c, token[w])
  <2>1. d.sub = token[w]
    BY DEF PendingRef
  <2>2. Persist(w, d, IF d.dp THEN "push" ELSE "finish") /\ wk[w].pc = "suspend"
    BY <1>7 DEF SuspendPersist
  <2> HIDE DEF d
  <2>3. CASE d.dp
    BY <1>0, <2>2, <2>3 DEF Persist
  <2>4. CASE ~d.dp
    BY <1>2, <2>1, <2>2, <2>4 DEF TokenPC
  <2> QED
    BY <2>3, <2>4
<1>8. CASE PushTask(w)
  BY <1>8 DEF PushTask
<1>9. CASE ClearPending(w)
  <2> DEFINE d == [wk[w].d EXCEPT !.dp = FALSE]
  <2>1. d.sub = token[w]
    <3>1. wk[w].d \in RowData /\ wk[w].d.sub = token[w]
      BY <1>9, WorkerFacts DEF ClearPending, Attends, AsEvent
    <3> QED
      BY <3>1 DEF RowData
  <2>2. Persist(w, d, "finish") /\ wk[w].pc = "clear"
    BY <1>9 DEF ClearPending
  <2> HIDE DEF d
  <2> QED
    BY <1>2, <2>1, <2>2 DEF TokenPC
<1>10. CASE EndPersist(w)
  <2> DEFINE d == [Terminated(wk[w].d, "completed") EXCEPT !.ctx = wk[w].c]
  <2>1. d.status \in TerminalStatus
    <3>1. Terminated(wk[w].d, "completed") \in RowData /\ Terminated(wk[w].d, "completed").status = "completed"
      BY WorkerFacts, TerminatedType
    <3> QED
      BY <3>1 DEF RowData, TerminalStatus
  <2>2. Persist(w, d, "finish") /\ wk[w].pc = "end"
    BY <1>10 DEF EndPersist
  <2> HIDE DEF d
  <2> QED
    BY <1>2, <2>1, <2>2 DEF TokenPC
<1>11. CASE ErrorPersist(w)
  <2> DEFINE d == [Terminated(wk[w].d, "error") EXCEPT !.ctx = wk[w].c]
  <2>1. d.status \in TerminalStatus
    <3>1. Terminated(wk[w].d, "error") \in RowData /\ Terminated(wk[w].d, "error").status = "error"
      BY WorkerFacts, TerminatedType
    <3> QED
      BY <3>1 DEF RowData, TerminalStatus
  <2>2. Persist(w, d, "finish") /\ wk[w].pc = "error"
    BY <1>11 DEF ErrorPersist
  <2> HIDE DEF d
  <2> QED
    BY <1>2, <2>1, <2>2 DEF TokenPC
<1>12. CASE CancelPersist(w) \/ HandleFailure(w)
  BY <1>0, <1>12 DEF CancelPersist, HandleFailure
<1>13. CASE Requeue(w)
  <2>1. RequeueType(wk[w].msg) = "event"
    BY <1>0 DEF RequeueType
  <2> QED
    BY <1>0, <1>13, <2>1 DEF Requeue, Handed
<1> QED
  BY <1>3, <1>4, <1>5, <1>6, <1>7, <1>8, <1>9, <1>10, <1>11, <1>12, <1>13 DEF LoopStep

(* A decision that a worker lets go has another carrier, or nobody waits   *)
(* for it any more.                                                        *)
LEMMA HandedOver ==
    ASSUME FlowInv, DeliveryInv, NEW w \in Worker, AnyStep(w),
           NEW s \in decided, Pending(s), Pending(s)', NEW m \in Msg, Carries(m, s),
           wk'[w].msg = m, Doomed(w)'
    PROVE  \E k \in Msg : Carries(k, s)'
<1> USE DEF DeliveryInv
<1>0. /\ MessageMoves(w) /\ msgs[m].st # "free" /\ msgs[m].type = "event" /\ msgs[m].sub = s
      /\ \A v \in Worker \ {w} : wk'[v] = wk[v]
  BY OnlyAny, MovesAny DEF OnlyWorker, Carries, Live
<1>1. wk[w].pc # "idle" /\ wk'[w].pc # "idle"
  BY <1>0 DEF MessageMoves, Doomed
<1>2. wk[w].msg = m
  BY <1>1, StaysWithMessage
<1>3. Attends(w, s)
  BY <1>0, <1>1, <1>2, PendingOpen DEF Attends, Carries, AttendInv, AsEvent
<1>4. Handed(w, s)
  <2>1. ~WorkerCrash(w)
    BY <1>1 DEF WorkerCrash, Idle, FlowInv
  <2> QED
    BY <1>3, <2>1, QueueHands, StartHands, ResumeHands, LoopHands DEF AnyStep
<1>5. CASE HasSlot /\ msgs' = Enqueued("event", s)
  <2>1. "event" \in MsgType /\ s \in 0 .. MaxGen
    BY FlowConstants DEF MsgType, FlowInv, WorldTyped
  <2>2. /\ Slot \in Msg /\ msgs[Slot].st = "free"
        /\ msgs'[Slot].st = "queued" /\ msgs'[Slot].type = "event" /\ msgs'[Slot].sub = s
    BY <1>5, <2>1, MessageEnqueued
  <2>3. ASSUME NEW v \in Worker, wk'[v].msg = Slot, Doomed(v)' PROVE FALSE
    <3>1. v # w
      BY <1>0, <2>2, <2>3
    <3>2. wk[v].msg = Slot /\ wk[v].pc # "idle"
      BY <1>0, <2>3, <3>1 DEF Doomed
    <3> QED
      BY <2>2, <3>2 DEF AttendInv
  <2> QED
    BY <2>2, <2>3 DEF Carries, Live
<1>6. CASE SeenThrough(w)
  <2>1. token[w] # 0 /\ s < token[w] /\ s \in Nat /\ token[w] \in Nat
    <3>1. token[w] # 0 /\ s < token[w]
      BY <1>0, <1>2, <1>6 DEF SeenThrough, AskInv
    <3>2. s \in 1 .. MaxGen /\ token[w] \in 0 .. MaxGen
      BY WorkerFacts DEF FlowInv, WorldTyped
    <3> QED
      BY <3>1, <3>2, FlowConstants
  <2>2. ~(HasRow' /\ row'.data.status = "suspended" /\ row'.data.sub = s)
    BY <1>6, <2>1 DEF SeenThrough, TerminalStatus
  <2>3. ASSUME NEW v \in Worker, Awaits(v, s)' PROVE FALSE
    <3>1. v # w
      BY <1>6, <2>3 DEF SeenThrough, Awaits
    <3>2. wk[v].pc \in {"suspend", "push", "clear"}
      BY <1>0, <2>3, <3>1 DEF Awaits
    <3>3. token[v] # 0
      BY <3>2, WorkerFacts DEF Sane, TokenPC
    <3> QED
      BY <2>1, <3>1, <3>3, OneHolder
  <2> QED
    BY <2>2, <2>3 DEF Pending
<1> QED
  BY <1>4, <1>5, <1>6 DEF Handed

(* Every step leaves each decision waited for its carrier. *)
LEMMA DecisionNext == FlowInv /\ DeliveryInv /\ [FlowNext]_vars => DecisionInv'
<1> SUFFICES ASSUME FlowInv, DeliveryInv, [FlowNext]_vars PROVE DecisionInv'
  OBVIOUS
<1> USE DEF DeliveryInv
<1>1. ASSUME NEW w \in Worker, AnyStep(w) PROVE DecisionInv'
  <2> SUFFICES ASSUME NEW s \in decided', Pending(s)' PROVE \E k \in Msg : Carries(k, s)'
    BY DEF DecisionInv
  <2>1. s \in decided
    BY <1>1, AsksOnly
  <2>2. Pending(s)
    BY <1>1, <2>1, PendingBefore
  <2>3. PICK m \in Msg : Carries(m, s)
    BY <2>1, <2>2 DEF DecisionInv
  <2>4. /\ msgs'[m].type = "event" /\ msgs'[m].sub = s /\ Live(m)'
    <3>1. msgs[m].st # "free" /\ Live(m) /\ msgs[m].type = "event" /\ msgs[m].sub = s
      BY <2>3 DEF Carries, Live
    <3>2. ~(wk[w].pc = "finish" /\ wk[w].ack /\ wk[w].msg = m)
      BY <2>3 DEF Carries, Doomed
    <3>3. MessageMoves(w)
      BY <1>1, MovesAny
    <3> QED
      BY <3>1, <3>2, <3>3, MessagesKept
  <2>5. CASE wk'[w].msg = m /\ Doomed(w)'
    BY <1>1, <2>1, <2>2, <2>3, <2>5, HandedOver
  <2>6. CASE ~(wk'[w].msg = m /\ Doomed(w)')
    <3>1. \A v \in Worker \ {w} : wk'[v] = wk[v]
      BY <1>1, OnlyAny DEF OnlyWorker
    <3>2. \A v \in Worker : wk'[v].msg = m => ~Doomed(v)'
      BY <2>3, <2>6, <3>1 DEF Carries, Doomed
    <3> QED
      BY <2>4, <3>2 DEF Carries
  <2> QED
    BY <2>5, <2>6
<1>2. CASE Outside
  <2>0. UNCHANGED <<wk, row, token>>
    BY <1>2, SteadyOutside
  <2>a. \A s : Pending(s)' <=> Pending(s)
    BY <2>0 DEF Pending, Awaits, HasRow
  <2>b. \A v \in Worker : Doomed(v)' <=> Doomed(v)
    BY <2>0 DEF Doomed
  <2>1. CASE UNCHANGED <<msgs, decided>>
    BY <2>0, <2>1, <2>a, <2>b DEF DecisionInv, Carries, Live
  <2>2. ASSUME NEW t \in MsgType, NEW sub \in 0 .. MaxGen, HasSlot, msgs' = Enqueued(t, sub),
               decided' = decided \/ (t = "event" /\ decided' = decided \cup {sub})
        PROVE  DecisionInv'
    <3>1. /\ Slot \in Msg /\ msgs[Slot].st = "free"
          /\ msgs'[Slot].st = "queued" /\ msgs'[Slot].type = t /\ msgs'[Slot].sub = sub
          /\ \A m \in Msg \ {Slot} : msgs'[m] = msgs[m]
      BY <2>2, MessageEnqueued
    <3> SUFFICES ASSUME NEW s \in decided', Pending(s)' PROVE \E k \in Msg : Carries(k, s)'
      BY DEF DecisionInv
    <3>2. CASE s \in decided
      <4>1. PICK m \in Msg : Carries(m, s)
        BY <2>a, <3>2 DEF DecisionInv
      <4>2. m # Slot
        BY <3>1, <4>1 DEF Carries, Live
      <4>3. msgs'[m] = msgs[m]
        BY <3>1, <4>2
      <4> QED
        BY <2>0, <2>b, <4>1, <4>3 DEF Carries, Live
    <3>3. CASE s \notin decided
      <4>1. t = "event" /\ sub = s
        BY <2>2, <3>3
      <4>2. \A v \in Worker : wk'[v].msg = Slot => ~Doomed(v)'
        BY <2>0, <3>1 DEF AttendInv, Doomed
      <4> QED
        BY <3>1, <4>1, <4>2 DEF Carries, Live
    <3> QED
      BY <3>2, <3>3
  <2>3. /\ "retry" \in MsgType /\ "event" \in MsgType /\ 0 \in 0 .. MaxGen
        /\ \A s \in subs : s[1] \in 0 .. MaxGen
    BY Zeros DEF MsgType, FlowInv, WorldTyped
  <2>4. CASE HasSlot /\ msgs' = Enqueued("retry", 0) /\ decided' = decided
    BY <2>2, <2>3, <2>4
  <2>5. ASSUME NEW s \in subs, HasSlot, msgs' = Enqueued("event", s[1]), decided' = decided \cup {s[1]}
        PROVE  DecisionInv'
    BY <2>2, <2>3, <2>5
  <2> QED
    BY <1>2, <2>1, <2>4, <2>5, SteadyOutside
<1>3. CASE UNCHANGED vars
  BY <1>3 DEF vars, flowVars, queueVars, worldVars, storeVars, redisVars, DecisionInv, Pending,
              Awaits, Carries, Doomed, Live, HasRow
<1> QED
  BY <1>1, <1>2, <1>3 DEF FlowNext, AnyStep

(* Every step keeps the delivery of decisions. *)
LEMMA DeliveryNext == FlowInv /\ DeliveryInv /\ [FlowNext]_vars => DeliveryInv'
BY SteadyNext, WorkNext, AttendNext, AskNext, DecisionNext DEF DeliveryInv

(* A steady run has nothing to deliver to begin with. *)
LEMMA DeliveryInit == Steady /\ FlowInit => DeliveryInv
<1> SUFFICES ASSUME Steady, FlowInit PROVE DeliveryInv
  OBVIOUS
<1>1. SteadyInv /\ fencegen \in Nat
  BY SteadyInit, FlowInitKeeps DEF FlowInv, StoreInv, TypeOK
<1>2. \A w \in Worker : wk[w].pc = "idle" /\ token[w] = 0
  BY DEF FlowInit, StoreInit, Idle, Worker
<1>3. \A m \in Msg : msgs[m].sub = 0
  BY DEF FlowInit, Queued, FreeMsg
<1>4. subs = {} /\ decided = {}
  BY DEF FlowInit
<1> QED
  BY <1>1, <1>2, <1>3, <1>4
     DEF DeliveryInv, WorkInv, WorkPC, AttendInv, AskInv, Asked, DecisionInv

(* Published decisions are not lost, for any flow, any number of workers,  *)
(* crashes, failed pushes and user retries and either relation of the two  *)
(* timeouts: as long as no renewal stalls, nobody cancels or deletes the   *)
(* execution, and nodes fail less often than each may be tried.            *)
THEOREM FlowDecisionNotLost == ASSUME Steady PROVE FlowSpec => []DecisionNotLost
<1>1. FlowInit => DeliveryInv
  BY DeliveryInit
<1>2. DeliveryInv => DecisionNotLost
  BY DEF DeliveryInv, DecisionInv, DecisionNotLost, Pending, Carries
<1> QED
  BY <1>1, <1>2, DeliveryNext, FlowInvariant, PTL DEF FlowSpec

-----------------------------------------------------------------------------
(* Nodes do not fail, and a message is not taken often enough to be        *)
(* dead-lettered by crashes and failed pushes alone.                       *)
CrashesOnly ==
    \A b \in Budgets : b["fail"] = 0 /\ b["crash"] + b["push"] < MaxDeliveries

(* What a worker does only about a node that failed. *)
FailurePC == {"failed", "startFail", "requeue", "error", "wake"}

NoFailure ==
    /\ budget["fail"] = 0
    /\ HasRow => row.data.status # "error"
    /\ \A w \in Worker : wk[w].pc \notin FailurePC

(* An execution without failed nodes never comes to end in error. *)
LEMMA FailureLabels ==
    ASSUME FlowInv, SteadyInv, NoFailure, NEW w \in Worker, AnyStep(w)
    PROVE  wk'[w].pc \notin FailurePC
<1> USE DEF FlowInv, WorkerState, FailurePC, NoFailure, Leave, Goto, Persist, AcquireLease, LeaseError
<1>1. CASE QueueStep(w)
  <2>1. CASE Take(w)
    BY <2>1, Dispatched DEF Take
  <2>2. CASE Reclaim(w)
    <3>1. PICK m \in Msg : \/ wk' = [wk EXCEPT ![w] = [Idle EXCEPT !.pc = "dlq", !.msg = m]]
                           \/ Dispatch(w, m, msgs[m].n + 1)
      BY <2>2 DEF Reclaim
    <3>2. [Idle EXCEPT !.pc = "dlq", !.msg = m].pc = "dlq"
      BY DEF Idle
    <3> QED
      BY <2>2, <3>1, <3>2, Dispatched DEF Reclaim
  <2>3. CASE DeadLetterGuard(w) \/ DeadLetterProbe(w) \/ DeadLetterVerdict(w)
    BY <2>3 DEF DeadLetterGuard, DeadLetterProbe, DeadLetterVerdict
  <2>4. CASE DeadLetterWrite(w) \/ Finish(w)
    BY <2>4 DEF DeadLetterWrite, Finish, Idle
  <2> QED
    BY <1>1, <2>1, <2>2, <2>3, <2>4 DEF QueueStep
<1>2. CASE StartStep(w)
  BY <1>2 DEF StartStep, StartCheck, StartCancelled, StartAcquire, StartPersist, StartFailed
<1>3. CASE ResumeStep(w)
  <2>1. CASE GuardResume(w) \/ CompensateAcquire(w) \/ CompensateCheck(w) \/ AcquireResume(w)
    BY <2>1 DEF GuardResume, CompensateAcquire, CompensateCheck, AcquireResume
  <2>2. CASE RecheckResume(w)
    <3>1. ~(HasRow /\ Wakeup(EffectiveType(w)))
      BY DEF Wakeup
    <3>2. GuardVerdict(wk[w].type) = "go" => HasRow
      BY DEF GuardVerdict
    <3> QED
      BY <2>2, <3>1, <3>2 DEF RecheckResume
  <2>3. CASE ResumeRefused(w) \/ WakeUp(w)
    BY <2>3 DEF ResumeRefused, queueVars, WakeUp
  <2> QED
    BY <1>3, <2>1, <2>2, <2>3 DEF ResumeStep
<1>4. CASE LoopStep(w)
  <2>1. CASE RunNode(w)
    BY <2>1 DEF RunNode, AfterRun
  <2>2. CASE ResolveNode(w) \/ NodeAborted(w) \/ LeaseLost(w) \/ StepBoundary(w)
    BY <2>2 DEF ResolveNode, NodeAborted, LeaseLost, StepBoundary
  <2>3. CASE NodeFails(w)
    BY <2>3 DEF NodeFails, Spend
  <2>4. CASE StepPersist(w) \/ SuspendPersist(w) \/ ClearPending(w) \/ PushTask(w)
    BY <2>4 DEF StepPersist, SuspendPersist, ClearPending, PushTask
  <2>5. CASE EndPersist(w) \/ CancelPersist(w) \/ ErrorPersist(w)
    BY <2>5 DEF EndPersist, CancelPersist, ErrorPersist
  <2>6. CASE HandleFailure(w) \/ Requeue(w)
    BY <2>6 DEF HandleFailure, Requeue
  <2> QED
    BY <1>4, <2>1, <2>2, <2>3, <2>4, <2>5, <2>6 DEF LoopStep
<1>5. CASE WorkerCrash(w)
  BY <1>5 DEF WorkerCrash, Idle
<1> QED
  BY <1>1, <1>2, <1>3, <1>4, <1>5 DEF AnyStep

-----------------------------------------------------------------------------
(* What a worker of such an execution may do, by what it leaves alone.     *)

(* It takes a message, looks at the row, or meets a taken lease. *)
Looks(w) ==
    /\ UNCHANGED <<row, lease, token, pushed, subs, budget>>
    /\ \/ wk[w].pc = "idle" /\ wk'[w].pc \in {"start", "guard", "dlq"} /\ wk'[w].c = 0
       \/ /\ wk[w].pc \in {"dlq", "dlqLease", "dlqTomb"}
          /\ wk'[w].pc \in {"dlqLease", "dlqTomb", "finish"}
       \/ /\ wk[w].pc = "start" /\ wk'[w].c = wk[w].c
          /\ \/ wk'[w].pc = "guard" /\ wk'[w].type = "continue"
             \/ wk'[w].pc = "startAcquire" /\ ~HasCheckpoint /\ ~wk'[w].d.dp
       \/ /\ wk[w].pc \in {"startAcquire", "compAcquire", "acquire"} /\ lease # Free
          /\ wk'[w].pc = "finish"
          /\ wk'[w].ack => wk[w].pc = "compAcquire" \/ LeaseConflictAckSafe(wk[w].msg)
       \/ /\ wk[w].pc \in {"guard", "recheck"} /\ GuardVerdict(wk[w].type) = "drop"
          /\ wk'[w].pc = "finish" /\ wk'[w].ack
       \/ /\ GuardVerdict(wk[w].type) = "compensate"
          /\ <<wk[w].pc, wk'[w].pc>> \in {<<"guard", "compAcquire">>, <<"recheck", "compCheck">>}
       \/ wk[w].pc = "guard" /\ wk'[w].pc = "acquire" /\ wk'[w].type = wk[w].type
       \/ wk[w].pc = "compCheck" /\ PendingDispatch /\ wk'[w].pc = "push" /\ wk'[w].d = row.data
       \/ wk[w].pc = "compCheck" /\ ~PendingDispatch /\ wk'[w].pc = "finish" /\ wk'[w].ack
       \/ /\ wk[w].pc = "recheck" /\ HasRow
          /\ \/ EngineRefuses(EffectiveType(w), wk[w].msg) /\ wk'[w].pc = "refused"
             \/ /\ ~EngineRefuses(EffectiveType(w), wk[w].msg)
                /\ GuardVerdict(wk[w].type) = "go"
                /\ wk'[w].pc = "run" /\ wk'[w].c = row.data.ctx
       \/ wk[w].pc = "refused" /\ token[w] = 0 /\ wk'[w].pc = "finish"
       \/ wk[w].pc = "finish" /\ token[w] = 0 /\ wk'[w].pc = "idle"

(* It drives the chain on: the first run goes to the step boundary without *)
(* a write.                                                                *)
Drives(w) ==
    /\ UNCHANGED <<row, lease, token, pushed, budget>>
    /\ \/ /\ wk[w].pc = "top" /\ wk'[w].pc = "run" /\ subs' = subs
          /\ wk'[w].c = wk[w].c /\ wk'[w].initial = wk[w].initial
       \/ /\ wk[w].pc = "run" /\ wk'[w].pc = "top" /\ subs' \subseteq subs
          /\ wk'[w].c = wk[w].c /\ ~wk'[w].initial
       \/ /\ wk[w].pc = "run" /\ wk'[w].c = wk[w].c + 1 /\ ~wk'[w].initial
          /\ \/ wk'[w].c = LastNode /\ wk'[w].pc = "end" /\ subs' = subs
             \/ /\ Kind[wk'[w].c] = "task" /\ subs' = subs
                /\ wk'[w].pc = IF wk[w].initial THEN "top" ELSE "step"
             \/ /\ Kind[wk'[w].c] # "task" /\ wk'[w].pc = "suspend"
                /\ subs' = subs \cup {<<token[w], wk'[w].c>>}

(* It acquires the lease. *)
Acquires(w) ==
    /\ UNCHANGED <<row, pushed, subs, budget>> /\ TryAcquireFenced(w)
    /\ <<wk[w].pc, wk'[w].pc>> \in {<<"startAcquire", "startPersist">>, <<"compAcquire", "compCheck">>,
                                    <<"acquire", "recheck">>}
    /\ wk'[w].c = wk[w].c /\ wk'[w].type = wk[w].type /\ wk'[w].d = wk[w].d

(* It gives the lease back. *)
Yields(w) ==
    /\ UNCHANGED <<row, pushed, subs, budget>> /\ token[w] # 0
    /\ lease' = Free /\ token' = [token EXCEPT ![w] = 0]
    /\ \/ wk[w].pc = "finish" /\ wk'[w].pc = "idle"
       \/ wk[w].pc = "refused" /\ wk'[w] = wk[w]

(* It dies, and its lease lives on. *)
Dies(w) ==
    /\ UNCHANGED <<row, lease, pushed, subs>> /\ Spend("crash")
    /\ wk[w].pc # "idle" /\ wk'[w].pc = "idle"

(* It pushes the task of the service, or fails to. *)
Pushes(w) ==
    /\ UNCHANGED <<row, lease, token, subs>> /\ wk[w].pc = "push"
    /\ \/ /\ pushed' = pushed \cup {wk[w].d.sub} /\ budget' = budget
          /\ wk'[w].pc = "clear" /\ wk'[w].d = wk[w].d
       \/ pushed' = pushed /\ Spend("push") /\ wk'[w].pc = "finish" /\ ~wk'[w].ack

(* It writes the row under its token. *)
Writes(w, d) ==
    /\ UNCHANGED <<lease, token, pushed, subs, budget>> /\ token[w] # 0
    /\ HasRow' /\ row'.data = d /\ wk'[w].c = wk[w].c
    /\ \/ wk[w].pc = "startPersist" /\ wk'[w].pc = "run" /\ d = wk[w].d
       \/ /\ wk[w].pc = "step" /\ wk'[w].pc = "top"
          /\ d.status = "running" /\ d.ctx = wk[w].c /\ ~d.dp
       \/ /\ wk[w].pc = "suspend" /\ d = PendingRef(wk[w].c, token[w])
          /\ IF d.dp THEN wk'[w].pc = "push" /\ wk'[w].d = d ELSE wk'[w].pc = "finish" /\ wk'[w].ack
       \/ /\ wk[w].pc = "clear" /\ wk'[w].pc = "finish" /\ wk'[w].ack
          /\ d = [wk[w].d EXCEPT !.dp = FALSE]
       \/ /\ wk[w].pc = "end" /\ wk'[w].pc = "finish" /\ wk'[w].ack
          /\ d.status = "completed" /\ d.ctx = wk[w].c /\ ~d.dp

Moves(w) ==
    \/ Looks(w) \/ Drives(w) \/ Acquires(w) \/ Yields(w) \/ Dies(w) \/ Pushes(w)
    \/ \E d \in RowData : Writes(w, d)

(* A worker that has a token has the lease, and its writes are accepted. *)
LEMMA Accepted ==
    ASSUME FlowInv, SteadyInv, NEW w \in Worker, token[w] # 0
    PROVE  /\ HoldsLease(w) /\ FenceAccepts(w)
           /\ \A d, p : Persist(w, d, p) =>
                 /\ UNCHANGED <<lease, token>> /\ HasRow' /\ row'.data = d
                 /\ wk' = [wk EXCEPT ![w].pc = p, ![w].d = d, ![w].ack = TRUE]
<1>1. HoldsLease(w) /\ FenceAccepts(w)
  BY DEF SteadyInv, LeaseKept
<1>2. ASSUME NEW d, NEW p, Persist(w, d, p)
      PROVE  FencedSave(w, d) /\ wk' = [wk EXCEPT ![w].pc = p, ![w].d = d, ![w].ack = TRUE]
  BY <1>1, <1>2 DEF Persist
<1>3. ASSUME NEW d, FencedSave(w, d)
      PROVE  UNCHANGED <<lease, token>> /\ HasRow' /\ row'.data = d
  BY <1>3 DEF FencedSave, HasRow
<1> QED
  BY <1>1, <1>2, <1>3

(* The queue: a message is taken, given up or acknowledged. *)
LEMMA CalmQueue ==
    ASSUME FlowInv, SteadyInv, NoFailure, NEW w \in Worker, QueueStep(w)
    PROVE  Moves(w)
<1> USE DEF FlowInv, WorkerState
<1>0. token[w] = 0 \/ wk[w].pc # "idle"
  BY DEF SteadyInv, LeaseKept
<1>1. ASSUME NEW m \in Msg, NEW n, Dispatch(w, m, n)
      PROVE  wk'[w].pc \in {"start", "guard"} /\ wk'[w].c = 0
  <2> DEFINE p == IF msgs[m].type = "start" THEN "start" ELSE "guard"
             r == [Idle EXCEPT !.pc = p, !.msg = m, !.type = msgs[m].type]
  <2>1. wk' = [wk EXCEPT ![w] = r]
    BY <1>1 DEF Dispatch, SteadyInv, Undisturbed
  <2>2. r.pc = p /\ r.c = 0
    BY DEF Idle
  <2> HIDE DEF r
  <2>3. wk'[w] = r
    BY <2>1
  <2> QED
    BY <2>2, <2>3
<1>2. UNCHANGED storeVars => UNCHANGED <<row, lease, token>>
  BY DEF storeVars, redisVars
<1>3. CASE Take(w)
  <2>1. wk'[w].pc \in {"start", "guard"} /\ wk'[w].c = 0
    BY <1>1, <1>3 DEF Take
  <2>2. wk[w].pc = "idle" /\ UNCHANGED <<row, lease, token, pushed, subs, budget>>
    BY <1>2, <1>3 DEF Take, worldVars
  <2> QED
    BY <2>1, <2>2 DEF Moves, Looks
<1>4. CASE Reclaim(w)
  <2>1. budget' = budget
    BY <1>4 DEF Reclaim, Spend, SteadyInv, Undisturbed
  <2>2. wk'[w].pc \in {"start", "guard", "dlq"} /\ wk'[w].c = 0
    <3> DEFINE r(m) == [Idle EXCEPT !.pc = "dlq", !.msg = m]
    <3>1. PICK m \in Msg : wk' = [wk EXCEPT ![w] = r(m)] \/ Dispatch(w, m, msgs[m].n + 1)
      BY <1>4 DEF Reclaim
    <3>2. r(m).pc = "dlq" /\ r(m).c = 0
      BY DEF Idle
    <3> HIDE DEF r
    <3>3. CASE wk' = [wk EXCEPT ![w] = r(m)]
      BY <3>2, <3>3
    <3> QED
      BY <1>1, <3>1, <3>3
  <2>3. wk[w].pc = "idle" /\ UNCHANGED <<row, lease, token, pushed, subs>>
    BY <1>2, <1>4 DEF Reclaim, worldVars
  <2> QED
    BY <2>1, <2>2, <2>3 DEF Moves, Looks
<1>5. CASE DeadLetterGuard(w) \/ DeadLetterProbe(w) \/ DeadLetterVerdict(w)
  <2>1. wk'[w].pc \in {"dlqLease", "dlqTomb", "finish", "dlqWrite"}
    BY <1>5 DEF DeadLetterGuard, DeadLetterProbe, DeadLetterVerdict, Leave
  <2>2. wk'[w].pc # "dlqWrite"
    BY SteadyLabels DEF AnyStep, GivenUp
  <2>3. UNCHANGED <<row, lease, token, pushed, subs, budget>>
    BY <1>2, <1>5, LoadStore DEF DeadLetterGuard, DeadLetterProbe, DeadLetterVerdict, worldVars
  <2>4. wk[w].pc \in {"dlq", "dlqLease", "dlqTomb"}
    BY <1>5 DEF DeadLetterGuard, DeadLetterProbe, DeadLetterVerdict
  <2> QED
    BY <2>1, <2>2, <2>3, <2>4 DEF Moves, Looks
<1>6. CASE DeadLetterWrite(w)
  BY <1>6 DEF DeadLetterWrite, SteadyInv, GivenUp
<1>7. CASE Finish(w)
  <2>1. wk'[w].pc = "idle"
    BY <1>7 DEF Finish, Idle
  <2>2. CASE token[w] = 0
    BY <1>2, <1>7, <2>1, <2>2 DEF Finish, Moves, Looks, worldVars
  <2>3. CASE token[w] # 0
    <3>1. HoldsLease(w) /\ Release(w)
      BY <1>7, <2>3, Accepted DEF Finish
    <3>2. lease' = Free /\ token' = [token EXCEPT ![w] = 0] /\ row' = row
      BY <3>1 DEF Release, LeaseAfterRelease, HoldsLease
    <3>3. wk[w].pc = "finish" /\ UNCHANGED <<pushed, subs, budget>>
      BY <1>7 DEF Finish, worldVars
    <3> QED
      BY <2>1, <2>3, <3>2, <3>3 DEF Moves, Yields
  <2> QED
    BY <2>2, <2>3
<1> QED
  BY <1>3, <1>4, <1>5, <1>6, <1>7 DEF QueueStep

(* A start that goes on finds no row that has come any further. *)
LEMMA CalmStart ==
    ASSUME FlowInv, SteadyInv, NoFailure, NEW w \in Worker, StartStep(w)
    PROVE  Moves(w)
<1> USE DEF FlowInv, WorkerState, worldVars
<1>1. CASE StartCheck(w)
  <2>1. UNCHANGED <<row, lease, token, pushed, subs, budget>> /\ wk[w].pc = "start"
    BY <1>1, LoadStore DEF StartCheck
  <2>2. ~tombstone /\ ~cancelFlag
    BY DEF SteadyInv, Undisturbed
  <2>3. CASE HasCheckpoint
    <3>1. wk' = [wk EXCEPT ![w].pc = "guard", ![w].type = "continue"]
      BY <1>1, <2>2, <2>3 DEF StartCheck
    <3>2. wk'[w].pc = "guard" /\ wk'[w].type = "continue" /\ wk'[w].c = wk[w].c
      BY <3>1
    <3> QED
      BY <2>1, <3>2 DEF Moves, Looks
  <2>4. CASE ~HasCheckpoint
    <3>1. wk' = [wk EXCEPT ![w].pc = "startAcquire", ![w].path = "start", ![w].d = FreshState(nextTok + 1)]
      BY <1>1, <2>2, <2>4 DEF StartCheck
    <3>2. wk'[w].pc = "startAcquire" /\ wk'[w].d = FreshState(nextTok + 1) /\ wk'[w].c = wk[w].c
      BY <3>1
    <3>3. ~wk'[w].d.dp
      BY <3>2 DEF FreshState
    <3> QED
      BY <2>1, <2>4, <3>2, <3>3 DEF Moves, Looks
  <2> QED
    BY <2>3, <2>4
<1>2. CASE StartCancelled(w)
  BY <1>2 DEF StartCancelled, SteadyInv, GivenUp, Undisturbed
<1>3. CASE StartAcquire(w)
  <2>1. CASE AcquireLease(w, "startPersist")
    BY <1>3, <2>1 DEF StartAcquire, AcquireLease, Goto, Moves, Acquires, TryAcquireFenced
  <2>2. CASE lease # Free /\ LeaseError(w) /\ UNCHANGED storeVars
    BY <1>3, <2>2 DEF StartAcquire, LeaseError, Leave, Moves, Looks, storeVars, redisVars
  <2> QED
    BY <1>3, <2>1, <2>2 DEF StartAcquire
<1>4. CASE StartPersist(w)
  <2>1. token[w] # 0 /\ wk[w].d \in RowData
    BY <1>4, WorkerFacts DEF StartPersist, Sane, TokenPC
  <2>2. Persist(w, wk[w].d, "run")
    BY <1>4 DEF StartPersist
  <2>3. /\ UNCHANGED <<lease, token>> /\ HasRow' /\ row'.data = wk[w].d
        /\ wk' = [wk EXCEPT ![w].pc = "run", ![w].d = wk[w].d, ![w].ack = TRUE]
    BY <2>1, <2>2, Accepted
  <2>4. wk'[w].pc = "run" /\ wk'[w].c = wk[w].c
    BY <2>3
  <2>5. wk[w].pc = "startPersist" /\ UNCHANGED <<pushed, subs, budget>>
    BY <1>4 DEF StartPersist
  <2> QED
    BY <2>1, <2>3, <2>4, <2>5 DEF Moves, Writes
<1>5. CASE StartFailed(w)
  BY <1>5 DEF StartFailed, SteadyInv, GivenUp, NoFailure, FailurePC
<1> QED
  BY <1>1, <1>2, <1>3, <1>4, <1>5 DEF StartStep

(* A resume ends in the step loop, in a compensation or with its message. *)
LEMMA CalmResume ==
    ASSUME FlowInv, SteadyInv, NoFailure, NEW w \in Worker, ResumeStep(w)
    PROVE  Moves(w)
<1> USE DEF FlowInv, WorkerState, worldVars
<1>1. CASE GuardResume(w)
  <2>1. UNCHANGED <<row, lease, token, pushed, subs, budget>> /\ wk[w].pc = "guard"
    BY <1>1, LoadStore DEF GuardResume
  <2>2. \/ GuardVerdict(wk[w].type) = "drop" /\ wk'[w].pc = "finish" /\ wk'[w].ack
        \/ GuardVerdict(wk[w].type) = "compensate" /\ wk'[w].pc = "compAcquire"
        \/ wk'[w].pc = "acquire" /\ wk'[w].type = wk[w].type
    BY <1>1 DEF GuardResume, Leave, Goto
  <2> QED
    BY <2>1, <2>2 DEF Moves, Looks
<1>2. CASE CompensateAcquire(w)
  <2>1. CASE AcquireLease(w, "compCheck")
    BY <1>2, <2>1 DEF CompensateAcquire, AcquireLease, Goto, Moves, Acquires, TryAcquireFenced
  <2>2. CASE lease # Free /\ Leave(w, TRUE) /\ UNCHANGED storeVars
    BY <1>2, <2>2 DEF CompensateAcquire, Leave, Moves, Looks, storeVars, redisVars
  <2> QED
    BY <1>2, <2>1, <2>2 DEF CompensateAcquire
<1>3. CASE CompensateCheck(w)
  BY <1>3, LoadStore DEF CompensateCheck, Leave, Moves, Looks
<1>4. CASE AcquireResume(w)
  <2>1. CASE AcquireLease(w, "recheck")
    BY <1>4, <2>1 DEF AcquireResume, AcquireLease, Goto, Moves, Acquires, TryAcquireFenced
  <2>2. CASE lease # Free /\ LeaseError(w) /\ UNCHANGED storeVars
    <3>1. wk'[w].pc = "finish" /\ (wk'[w].ack => LeaseConflictAckSafe(wk[w].msg))
      BY <2>2 DEF LeaseError, Leave
    <3>2. wk[w].pc = "acquire" /\ UNCHANGED <<row, lease, token, pushed, subs, budget>>
      BY <1>4, <2>2 DEF AcquireResume, storeVars, redisVars
    <3> QED
      BY <2>2, <3>1, <3>2 DEF Moves, Looks
  <2> QED
    BY <1>4, <2>1, <2>2 DEF AcquireResume
<1>5. CASE RecheckResume(w)
  <2>1. UNCHANGED <<row, lease, token, pushed, subs, budget>> /\ wk[w].pc = "recheck"
    BY <1>5, LoadStore DEF RecheckResume
  <2>2. ~cancelFlag /\ (GuardVerdict(wk[w].type) = "go" => HasRow)
    BY DEF SteadyInv, Undisturbed, GuardVerdict
  <2>3. HasRow => ~Wakeup(EffectiveType(w))
    BY DEF NoFailure, Wakeup
  <2> DEFINE t == EffectiveType(w)
             r(p) == [wk[w] EXCEPT !.pc = p, !.type = t, !.d = row.data, !.c = row.data.ctx,
                                   !.waits = (row.data.status = "suspended")]
  <2>4. \/ GuardVerdict(wk[w].type) = "drop" /\ wk'[w].pc = "finish" /\ wk'[w].ack
        \/ GuardVerdict(wk[w].type) = "compensate" /\ wk'[w].pc = "compCheck"
        \/ /\ GuardVerdict(wk[w].type) = "go"
           /\ wk'[w] = IF EngineRefuses(t, wk[w].msg) THEN r("refused") ELSE r("run")
    <3>1. CASE GuardVerdict(wk[w].type) = "go"
      <4>1. wk' = [wk EXCEPT ![w] = IF EngineRefuses(t, wk[w].msg) THEN r("refused") ELSE r("run")]
        BY <1>5, <2>2, <2>3, <3>1 DEF RecheckResume
      <4> HIDE DEF r, t
      <4> QED
        BY <3>1, <4>1
    <3>2. CASE GuardVerdict(wk[w].type) # "go"
      BY <1>5, <3>2 DEF RecheckResume, Leave, Goto
    <3> QED
      BY <3>1, <3>2
  <2>5. \A p : r(p).pc = p /\ r(p).c = row.data.ctx
    OBVIOUS
  <2> HIDE DEF t, r
  <2> QED
    BY <2>1, <2>2, <2>4, <2>5 DEF Moves, Looks, t
<1>6. CASE ResumeRefused(w)
  <2>1. CASE token[w] # 0 /\ Release(w) /\ UNCHANGED queueVars
    <3>1. lease' = Free /\ token' = [token EXCEPT ![w] = 0] /\ row' = row
      BY <2>1, Accepted DEF Release, LeaseAfterRelease, HoldsLease
    <3> QED
      BY <1>6, <2>1, <3>1 DEF ResumeRefused, Moves, Yields, queueVars
  <2>2. CASE token[w] = 0 /\ LoadRow /\ Leave(w, TRUE)
    BY <1>6, <2>2, LoadStore DEF ResumeRefused, Leave, Moves, Looks
  <2> QED
    BY <1>6, <2>1, <2>2 DEF ResumeRefused
<1>7. CASE WakeUp(w)
  BY <1>7 DEF WakeUp, NoFailure, FailurePC
<1> QED
  BY <1>1, <1>2, <1>3, <1>4, <1>5, <1>6, <1>7 DEF ResumeStep

(* The step loop goes on, suspends or ends: nobody takes the lease away. *)
LEMMA CalmLoop ==
    ASSUME FlowInv, SteadyInv, NoFailure, NEW w \in Worker, LoopStep(w)
    PROVE  Moves(w)
<1> USE DEF FlowInv, WorkerState, worldVars
<1>0. ~cancelFlag /\ (token[w] # 0 => HoldsLease(w)) /\ wk[w].d \in RowData
  BY WorkerFacts DEF SteadyInv, Undisturbed, LeaseKept
<1>a. wk[w].pc \in TokenPC => token[w] # 0
  BY WorkerFacts DEF Sane
<1>b. UNCHANGED storeVars => UNCHANGED <<row, lease, token>>
  BY DEF storeVars, redisVars
<1>c. ASSUME NEW d, NEW p, Persist(w, d, p), wk[w].pc \in TokenPC
      PROVE  /\ UNCHANGED <<lease, token>> /\ HasRow' /\ row'.data = d /\ token[w] # 0
             /\ wk'[w].pc = p /\ wk'[w].d = d /\ wk'[w].ack /\ wk'[w].c = wk[w].c
  <2>1. /\ UNCHANGED <<lease, token>> /\ HasRow' /\ row'.data = d /\ token[w] # 0
        /\ wk' = [wk EXCEPT ![w].pc = p, ![w].d = d, ![w].ack = TRUE]
    BY <1>a, <1>c, Accepted
  <2>2. wk'[w].pc = p /\ wk'[w].d = d /\ wk'[w].ack /\ wk'[w].c = wk[w].c
    BY <2>1
  <2> QED
    BY <2>1, <2>2
<1>1. CASE RunNode(w)
  <2> DEFINE k == wk[w].c + 1
  <2>1. /\ wk'[w].c = k /\ ~wk'[w].initial
        /\ wk'[w].pc = IF k = LastNode THEN "end" ELSE IF Kind[k] # "task" THEN "suspend" ELSE AfterRun(w)
    BY <1>1 DEF RunNode
  <2>2. AfterRun(w) = IF wk[w].initial THEN "top" ELSE "step"
    BY <1>0 DEF AfterRun
  <2>3. /\ wk[w].pc = "run" /\ UNCHANGED <<row, lease, token, pushed, budget>>
        /\ subs' = IF Kind[k] # "task" THEN subs \cup {<<token[w], k>>} ELSE subs
    BY <1>1, <1>b DEF RunNode
  <2>4. k = LastNode => Kind[k] = "task"
    BY FlowAssumption
  <2> HIDE DEF k
  <2>5. wk'[w].c = wk[w].c + 1
    BY <2>1 DEF k
  <2> QED
    BY <2>1, <2>2, <2>3, <2>4, <2>5 DEF Moves, Drives
<1>2. CASE ResolveNode(w)
  BY <1>2, <1>b DEF ResolveNode, Moves, Drives
<1>3. CASE NodeFails(w)
  BY <1>3 DEF NodeFails, Spend, NoFailure
<1>4. CASE NodeAborted(w) \/ LeaseLost(w)
  BY <1>0, <1>4, <1>a DEF NodeAborted, LeaseLost, TokenPC
<1>5. CASE StepBoundary(w)
  BY <1>0, <1>5, <1>a, <1>b DEF StepBoundary, Goto, TokenPC, Moves, Drives
<1>6. CASE StepPersist(w)
  <2> DEFINE d == NextStep(wk[w].c, nextTok + 1)
  <2>1. wk[w].pc = "step" /\ Persist(w, d, "top") /\ UNCHANGED <<pushed, subs, budget>>
    BY <1>0, <1>6 DEF StepPersist
  <2>2. d.status = "running" /\ d.ctx = wk[w].c /\ ~d.dp
    BY DEF NextStep
  <2> HIDE DEF d
  <2>3. /\ UNCHANGED <<lease, token>> /\ HasRow' /\ row'.data = d /\ token[w] # 0
        /\ wk'[w].pc = "top" /\ wk'[w].c = wk[w].c
    BY <1>c, <2>1 DEF TokenPC
  <2>4. d \in RowData
    BY <2>1, <2>3, LoopStepKeeps, FlowConstants DEF StoreInv, TypeOK, Row
  <2> QED
    BY <2>1, <2>2, <2>3, <2>4 DEF Moves, Writes
<1>7. CASE SuspendPersist(w)
  <2> DEFINE d == PendingRef(wk[w].c, token[w])
  <2>1. /\ wk[w].pc = "suspend" /\ UNCHANGED <<pushed, subs, budget>>
        /\ Persist(w, d, IF d.dp THEN "push" ELSE "finish")
    BY <1>7 DEF SuspendPersist
  <2> HIDE DEF d
  <2>2. /\ UNCHANGED <<lease, token>> /\ HasRow' /\ row'.data = d /\ token[w] # 0
        /\ wk'[w].pc = (IF d.dp THEN "push" ELSE "finish")
        /\ wk'[w].d = d /\ wk'[w].ack /\ wk'[w].c = wk[w].c
    BY <1>c, <2>1 DEF TokenPC
  <2>3. d \in RowData
    BY <2>1, <2>2, LoopStepKeeps, FlowConstants DEF StoreInv, TypeOK, Row
  <2> QED
    BY <2>1, <2>2, <2>3 DEF Moves, Writes, d
<1>8. CASE PushTask(w)
  BY <1>8, <1>b DEF PushTask, Leave, Goto, Moves, Pushes
<1>9. CASE ClearPending(w)
  <2> DEFINE d == [wk[w].d EXCEPT !.dp = FALSE]
  <2>1. wk[w].pc = "clear" /\ Persist(w, d, "finish") /\ UNCHANGED <<pushed, subs, budget>>
    BY <1>9 DEF ClearPending
  <2> HIDE DEF d
  <2>2. /\ UNCHANGED <<lease, token>> /\ HasRow' /\ row'.data = d /\ token[w] # 0
        /\ wk'[w].pc = "finish" /\ wk'[w].ack /\ wk'[w].c = wk[w].c
    BY <1>c, <2>1 DEF TokenPC
  <2>3. d \in RowData
    BY <2>1, <2>2, LoopStepKeeps, FlowConstants DEF StoreInv, TypeOK, Row
  <2> QED
    BY <2>1, <2>2, <2>3 DEF Moves, Writes, d
<1>10. CASE EndPersist(w)
  <2> DEFINE d == [Terminated(wk[w].d, "completed") EXCEPT !.ctx = wk[w].c]
  <2>1. wk[w].pc = "end" /\ Persist(w, d, "finish") /\ UNCHANGED <<pushed, subs, budget>>
    BY <1>10 DEF EndPersist
  <2>2. d.status = "completed" /\ d.ctx = wk[w].c /\ ~d.dp
    BY <1>0 DEF Terminated, RowData
  <2> HIDE DEF d
  <2>3. /\ UNCHANGED <<lease, token>> /\ HasRow' /\ row'.data = d /\ token[w] # 0
        /\ wk'[w].pc = "finish" /\ wk'[w].ack /\ wk'[w].c = wk[w].c
    BY <1>c, <2>1 DEF TokenPC
  <2>4. d \in RowData
    BY <2>1, <2>3, LoopStepKeeps, FlowConstants DEF StoreInv, TypeOK, Row
  <2> QED
    BY <2>1, <2>2, <2>3, <2>4 DEF Moves, Writes
<1>11. CASE CancelPersist(w) \/ ErrorPersist(w) \/ HandleFailure(w) \/ Requeue(w)
  BY <1>11 DEF CancelPersist, ErrorPersist, HandleFailure, Requeue, NoFailure, FailurePC,
               SteadyInv, GivenUp
<1> QED
  BY <1>1, <1>2, <1>3, <1>4, <1>5, <1>6, <1>7, <1>8, <1>9, <1>10, <1>11 DEF LoopStep

(* These are all the steps of a worker. *)
LEMMA CalmStep ==
    ASSUME FlowInv, SteadyInv, NoFailure, NEW w \in Worker, AnyStep(w)
    PROVE  Moves(w)
<1>1. CASE WorkerCrash(w)
  <2>1. UNCHANGED <<row, lease, pushed, subs>>
    BY <1>1 DEF WorkerCrash, Crash, storeVars, redisVars, worldVars
  <2>2. wk[w].pc # "idle" /\ Spend("crash") /\ wk'[w].pc = "idle"
    BY <1>1 DEF WorkerCrash, Idle, FlowInv
  <2> QED
    BY <2>1, <2>2 DEF Moves, Dies
<1> QED
  BY <1>1, CalmQueue, CalmStart, CalmResume, CalmLoop DEF AnyStep

(* The environment gives no lease away and publishes decisions, no more. *)
LEMMA CalmOutside ==
    ASSUME FlowInv, SteadyInv, NoFailure, Outside
    PROVE  /\ UNCHANGED <<wk, row, token, subs, pushed, fencegen>>
           /\ \A f \in {"fail", "crash", "push"} : budget'[f] = budget[f]
           /\ \/ /\ UNCHANGED <<msgs, decided>>
                 /\ \/ lease' = lease
                    \/ lease # Free /\ lease' = Free /\ \A w \in Worker : token[w] = 0
              \/ /\ HasRow /\ lease' = lease /\ HasSlot
                 /\ \E s \in subs :
                       /\ row.data.ctx \in {0, s[2]}
                       /\ Kind[s[2]] = "service" => s[1] \in pushed
                       /\ msgs' = Enqueued("event", s[1])
                       /\ decided' = decided \cup {s[1]}
<1>0. /\ budget["stall"] = 0 /\ budget["request"] = 0 /\ ctl.st = "none"
      /\ budget \in [Fault -> Nat]
  BY DEF SteadyInv, Undisturbed, NoRequest, FlowInv, WorldTyped
<1>a. UNCHANGED <<wk, row, token, subs, fencegen>>
  BY SteadyOutside
<1>1. CASE LeaseTTL
  <2>1. ~HoldsLease(lease.holder) /\ budget' = budget
    BY <1>0, <1>1 DEF LeaseTTL, Spend
  <2>2. ASSUME NEW w \in Worker, token[w] # 0 PROVE FALSE
    <3>1. HoldsLease(w)
      BY <2>2 DEF SteadyInv, LeaseKept
    <3> QED
      BY <2>1, <3>1 DEF HoldsLease, LeaseValue
  <2> QED
    BY <1>a, <1>1, <2>1, <2>2 DEF LeaseTTL, LeaseExpires, queueVars, worldVars
<1>2. CASE Publish
  <2>1. lease' = lease
    BY <1>2, LoadStore DEF Publish
  <2> QED
    BY <1>a, <1>2, <2>1 DEF Publish
<1>3. CASE RetryRequest
  BY <1>3 DEF RetryRequest, NoFailure
<1>4. CASE CancelRequest \/ DeleteRequest
  BY <1>0, <1>4 DEF CancelRequest, DeleteRequest, Spend
<1>5. CASE CancelCommit \/ DeleteSignal \/ DeleteCommit \/ DeleteSweep
  BY <1>0, <1>5 DEF CancelCommit, DeleteSignal, DeleteCommit, DeleteSweep
<1> QED
  BY <1>1, <1>2, <1>3, <1>4, <1>5 DEF Outside

(* No node fails later either. *)
LEMMA NoFailureNext == FlowInv /\ SteadyInv /\ NoFailure /\ [FlowNext]_vars => NoFailure'
<1> SUFFICES ASSUME FlowInv, SteadyInv, NoFailure, [FlowNext]_vars PROVE NoFailure'
  OBVIOUS
<1>1. ASSUME NEW w \in Worker, AnyStep(w) PROVE NoFailure'
  <2>1. \A v \in Worker : wk'[v].pc \notin FailurePC
    BY <1>1, FailureLabels, OnlyAny DEF NoFailure, OnlyWorker
  <2>2. budget'["fail"] = 0
    <3>1. "fail" \in Fault /\ "crash" \in Fault /\ "push" \in Fault /\ "crash" # "fail" /\ "push" # "fail"
      BY DEF Fault
    <3> QED
      BY <1>1, <3>1, SteadySpends, SpendOne DEF NoFailure, NodeFails, Spend
  <2>3. HasRow' => row'.data.status # "error"
    <3>1. UNCHANGED row \/ \E d \in RowData : Writes(w, d)
      BY <1>1, CalmStep DEF Moves, Looks, Drives, Acquires, Yields, Dies, Pushes
    <3>2. ASSUME NEW d \in RowData, Writes(w, d) PROVE row'.data.status # "error"
      <4>1. wk[w].pc = "startPersist" => wk[w].d.status = "running"
        BY WorkerFacts DEF Sane, FreshPC
      <4>2. wk[w].pc = "clear" => wk[w].d.status = "suspended" /\ wk[w].d \in RowData
        BY WorkerFacts DEF Sane
      <4> QED
        BY <3>2, <4>1, <4>2 DEF Writes, PendingRef, RowData
    <3> QED
      BY <3>1, <3>2 DEF NoFailure, HasRow
  <2> QED
    BY <2>1, <2>2, <2>3 DEF NoFailure
<1>2. CASE Outside
  BY <1>2, CalmOutside DEF NoFailure, HasRow
<1>3. CASE UNCHANGED vars
  BY <1>3 DEF vars, flowVars, queueVars, storeVars, redisVars, NoFailure, HasRow
<1> QED
  BY <1>1, <1>2, <1>3 DEF FlowNext, AnyStep

-----------------------------------------------------------------------------
(* Where a worker has no token yet. *)
EarlyPC == {"idle", "start", "startAcquire", "guard", "compAcquire", "acquire",
            "dlq", "dlqLease", "dlqTomb"}

(* A message under work is pending, in the name of the one worker that has *)
(* it; nobody cancels; and before it is admitted a worker treats a message *)
(* as what it is, or as a continue.                                        *)
OwnInv ==
    /\ \A m \in Msg : msgs[m].type # "cancel"
    /\ \A w \in Worker :
       /\ wk[w].pc \in EarlyPC => token[w] = 0
       /\ wk[w].pc # "idle" => msgs[wk[w].msg].st = "pending" /\ msgs[wk[w].msg].by = w
       /\ wk[w].pc \in {"guard", "acquire", "recheck"} =>
             \/ wk[w].type = "continue"
             \/ wk[w].type = msgs[wk[w].msg].type /\ wk[w].type # "start"

(* A worker takes a message that nobody has. *)
Takes(w, m) ==
    /\ Live(m) /\ wk'[w].msg = m
    /\ \A v \in Worker : wk[v].pc # "idle" => wk[v].msg # m
    /\ msgs'[m].st = "pending" /\ msgs'[m].by = w /\ msgs'[m].type = msgs[m].type
    /\ \A k \in Msg \ {m} : msgs'[k] = msgs[k]
    /\ \/ msgs[m].st = "queued" /\ msgs'[m].n = 1 /\ wk'[w].pc # "dlq"
       \/ /\ msgs[m].st = "pending" /\ (ClaimIdleExceedsLease => ~LeaseOfDeadOwner(m))
          /\ IF msgs[m].n >= MaxDeliveries THEN wk'[w].pc = "dlq"
                                           ELSE msgs'[m].n = msgs[m].n + 1 /\ wk'[w].pc # "dlq"
    /\ wk'[w].pc # "dlq" => /\ wk'[w].type = msgs[m].type
                            /\ wk'[w].pc = IF msgs[m].type = "start" THEN "start" ELSE "guard"

(* What an idle worker does. *)
LEMMA IdleTakes ==
    ASSUME FlowInv, SteadyInv, OwnInv, NEW w \in Worker, AnyStep(w), wk[w].pc = "idle"
    PROVE  \E m \in Msg : Takes(w, m)
<1>0. \A m \in Msg : /\ msgs[m] \in Message
                     /\ msgs[m].st = "queued" => \A v \in Worker : wk[v].pc # "idle" => wk[v].msg # m
  BY DEF FlowInv, WorldTyped, OwnInv
<1>1. ASSUME NEW m \in Msg, NEW n \in Nat, Dispatch(w, m, n)
      PROVE  /\ msgs'[m].st = "pending" /\ msgs'[m].by = w /\ msgs'[m].type = msgs[m].type
             /\ msgs'[m].n = n /\ \A k \in Msg \ {m} : msgs'[k] = msgs[k]
             /\ wk'[w].msg = m /\ wk'[w].type = msgs[m].type
             /\ wk'[w].pc = IF msgs[m].type = "start" THEN "start" ELSE "guard"
  <2> DEFINE p == IF msgs[m].type = "start" THEN "start" ELSE "guard"
             r == [Idle EXCEPT !.pc = p, !.msg = m, !.type = msgs[m].type]
  <2>1. /\ msgs' = [msgs EXCEPT ![m].st = "pending", ![m].by = w, ![m].n = n]
        /\ wk' = [wk EXCEPT ![w] = r]
    BY <1>1 DEF Dispatch, SteadyInv, Undisturbed
  <2>2. r.pc = p /\ r.msg = m /\ r.type = msgs[m].type
    BY DEF Idle
  <2> HIDE DEF r
  <2>3. wk'[w] = r
    BY <2>1 DEF FlowInv
  <2>4. /\ msgs'[m].st = "pending" /\ msgs'[m].by = w /\ msgs'[m].type = msgs[m].type
        /\ msgs'[m].n = n /\ \A k \in Msg \ {m} : msgs'[k] = msgs[k]
    BY <1>0, <2>1 DEF FlowInv, WorldTyped, Message
  <2> QED
    BY <2>2, <2>3, <2>4
<1>2. CASE Take(w)
  <2>1. PICK m \in Msg : msgs[m].st = "queued" /\ Dispatch(w, m, 1)
    BY <1>2 DEF Take
  <2>2. wk'[w].pc \in {"start", "guard"}
    BY <1>1, <2>1
  <2> QED
    BY <1>0, <1>1, <2>1, <2>2 DEF Takes, Live
<1>3. CASE Reclaim(w)
  <2> DEFINE r(m) == [Idle EXCEPT !.pc = "dlq", !.msg = m]
  <2>1. PICK m \in Msg :
          /\ msgs[m].st = "pending" /\ (ClaimIdleExceedsLease => ~LeaseOfDeadOwner(m))
          /\ IF Attended(m) THEN Spend("stall") ELSE UNCHANGED budget
          /\ IF msgs[m].n >= MaxDeliveries
               THEN /\ wk' = [wk EXCEPT ![w] = r(m)]
                    /\ msgs' = [msgs EXCEPT ![m].by = w]
               ELSE Dispatch(w, m, msgs[m].n + 1)
    BY <1>3 DEF Reclaim
  <2>2. \A v \in Worker : wk[v].pc # "idle" => wk[v].msg # m
    BY <2>1 DEF Attended, Spend, SteadyInv, Undisturbed
  <2>3. r(m).pc = "dlq" /\ r(m).msg = m
    BY DEF Idle
  <2>4. Live(m) /\ msgs[m].n \in 0 .. MaxDeliveries
    BY <1>0, <2>1 DEF Live, Message
  <2> HIDE DEF r
  <2>5. CASE msgs[m].n >= MaxDeliveries
    <3>1. wk'[w].pc = "dlq" /\ wk'[w].msg = m
      BY <2>1, <2>3, <2>5 DEF FlowInv
    <3>2. /\ msgs'[m].st = "pending" /\ msgs'[m].by = w /\ msgs'[m].type = msgs[m].type
          /\ \A k \in Msg \ {m} : msgs'[k] = msgs[k]
      BY <1>0, <2>1, <2>5 DEF FlowInv, WorldTyped, Message
    <3> QED
      BY <2>1, <2>2, <2>4, <2>5, <3>1, <3>2 DEF Takes
  <2>6. CASE ~(msgs[m].n >= MaxDeliveries)
    <3>1. Dispatch(w, m, msgs[m].n + 1) /\ msgs[m].n + 1 \in Nat
      BY <2>1, <2>4, <2>6, FlowConstants
    <3>2. wk'[w].pc \in {"start", "guard"}
      BY <1>1, <3>1
    <3> QED
      BY <1>1, <2>1, <2>2, <2>4, <2>6, <3>1, <3>2 DEF Takes
  <2> QED
    BY <2>5, <2>6
<1>4. CASE \/ DeadLetterGuard(w) \/ DeadLetterProbe(w) \/ DeadLetterVerdict(w)
           \/ DeadLetterWrite(w) \/ Finish(w) \/ WorkerCrash(w)
  BY <1>4 DEF DeadLetterGuard, DeadLetterProbe, DeadLetterVerdict, DeadLetterWrite, Finish, WorkerCrash
<1>5. CASE StartStep(w)
  BY <1>5 DEF StartStep, StartCheck, StartCancelled, StartAcquire, StartPersist, StartFailed
<1>6. CASE ResumeStep(w)
  BY <1>6 DEF ResumeStep, GuardResume, CompensateAcquire, CompensateCheck, AcquireResume,
              RecheckResume, ResumeRefused, WakeUp
<1>7. CASE LoopStep(w)
  BY <1>7 DEF LoopStep, RunNode, ResolveNode, NodeFails, NodeAborted, LeaseLost, StepBoundary,
              StepPersist, SuspendPersist, PushTask, ClearPending, EndPersist, CancelPersist,
              HandleFailure, ErrorPersist, Requeue
<1> QED
  BY <1>2, <1>3, <1>4, <1>5, <1>6, <1>7 DEF AnyStep, QueueStep

(* What a busy worker does to the queue: a dead letter whose execution is  *)
(* alive is kept or cloned, a decision that came late becomes a continue.  *)
Carriages(w) ==
    \/ /\ UNCHANGED msgs /\ wk[w].pc \notin {"dlq", "dlqLease", "dlqTomb"}
       /\ wk[w].pc = "finish" /\ wk[w].ack => Spend("crash")
    \/ /\ UNCHANGED msgs /\ wk[w].pc \in {"dlq", "dlqLease", "dlqTomb"}
       /\ \/ wk'[w].pc \in {"idle", "dlqLease", "dlqTomb"} \/ ~RowOpen
          \/ wk'[w].pc = "finish" /\ ~wk'[w].ack
    \/ /\ wk[w].pc = "finish" /\ wk[w].ack /\ wk'[w].pc = "idle" /\ budget' = budget
       /\ msgs' = Acked(msgs, wk[w].msg)
    \/ /\ HasSlot /\ wk'[w].pc = "finish" /\ wk[w].pc = "dlqTomb"
       /\ msgs' = Enqueued(msgs[wk[w].msg].type, msgs[wk[w].msg].sub)
    \/ /\ HasSlot /\ wk'[w].pc = "finish" /\ wk[w].pc = "refused"
       /\ msgs[wk[w].msg].type = "event" /\ msgs' = Enqueued("continue", 0)

(* It does nothing else to it. *)
LEMMA BusyCarries ==
    ASSUME FlowInv, SteadyInv, NoFailure, NEW w \in Worker, AnyStep(w), wk[w].pc # "idle"
    PROVE  Carriages(w)
<1>1. CASE QueueStep(w)
  <2>1. CASE Take(w) \/ Reclaim(w)
    BY <2>1 DEF Take, Reclaim
  <2>a. /\ \A a : Leave(w, a) => wk'[w].pc = "finish" /\ wk'[w].ack = a
        /\ wk \in [Worker -> WorkerState] /\ ~GivenUp(wk[w])
    BY DEF Leave, FlowInv, WorkerState, SteadyInv
  <2>2. CASE DeadLetterGuard(w)
    <3>1. CASE (~HasRow \/ row.data.status \in TerminalStatus) /\ UNCHANGED msgs
      BY <2>2, <3>1 DEF DeadLetterGuard, Carriages, RowOpen
    <3>2. CASE HasRow /\ row.data.status \notin TerminalStatus
      BY <2>2, <2>a, <3>2 DEF DeadLetterGuard, Carriages, WorkerState
    <3> QED
      BY <2>2, <3>1, <3>2 DEF DeadLetterGuard
  <2>b. CASE DeadLetterProbe(w)
    BY <2>a, <2>b DEF DeadLetterProbe, Carriages, WorkerState
  <2>c. CASE DeadLetterVerdict(w)
    <3>1. ~tombstone /\ wk[w].d.status # "error"
      BY <2>a, <2>c DEF DeadLetterVerdict, SteadyInv, Undisturbed, GivenUp
    <3> QED
      BY <2>a, <2>c, <3>1 DEF DeadLetterVerdict, Carriages
  <2>3. CASE DeadLetterWrite(w)
    BY <2>3 DEF DeadLetterWrite, SteadyInv, GivenUp
  <2>4. CASE Finish(w)
    BY <2>4 DEF Finish, FlowInv, Carriages, Idle
  <2> QED
    BY <1>1, <2>1, <2>2, <2>b, <2>c, <2>3, <2>4 DEF QueueStep
<1>2. CASE StartStep(w)
  BY <1>2 DEF StartStep, StartCheck, StartCancelled, StartAcquire, StartPersist, StartFailed, Carriages
<1>3. CASE ResumeStep(w)
  <2>1. CASE ResumeRefused(w)
    <3>1. Leave(w, TRUE) => wk'[w].pc = "finish"
      BY DEF Leave, FlowInv, WorkerState
    <3>2. CASE UNCHANGED msgs
      BY <2>1, <3>2 DEF ResumeRefused, Carriages
    <3> QED
      BY <2>1, <3>1, <3>2 DEF ResumeRefused, Carriages, queueVars
  <2> QED
    BY <1>3, <2>1 DEF ResumeStep, GuardResume, CompensateAcquire, CompensateCheck, AcquireResume,
                      RecheckResume, WakeUp, Carriages
<1>4. CASE LoopStep(w)
  <2>1. CASE Requeue(w) \/ HandleFailure(w)
    BY <2>1 DEF Requeue, HandleFailure, NoFailure, FailurePC
  <2> QED
    BY <1>4, <2>1
       DEF LoopStep, RunNode, ResolveNode, NodeFails, NodeAborted, LeaseLost, StepBoundary,
           StepPersist, SuspendPersist, PushTask, ClearPending, EndPersist, CancelPersist,
           ErrorPersist, Carriages
<1>5. CASE WorkerCrash(w)
  BY <1>5 DEF WorkerCrash, Carriages, FlowInv, Idle
<1> QED
  BY <1>1, <1>2, <1>3, <1>4, <1>5 DEF AnyStep

(* What a step of worker w leaves of the message that a worker has. *)
LEMMA MessageKept ==
    ASSUME FlowInv, SteadyInv, NoFailure, OwnInv, NEW w \in Worker, AnyStep(w),
           NEW v \in Worker, wk[v].pc # "idle", v = w => wk'[w].pc # "idle"
    PROVE  wk'[v].msg = wk[v].msg /\ wk[v].msg \in Msg /\ msgs'[wk[v].msg] = msgs[wk[v].msg]
<1>0. /\ wk[v].msg \in Msg /\ msgs[wk[v].msg].st = "pending" /\ msgs[wk[v].msg].by = v
      /\ msgs \in [Msg -> Message]
  BY WorkerFacts DEF Sane, OwnInv, FlowInv, WorldTyped
<1>1. wk'[v].msg = wk[v].msg
  BY StaysWithMessage, OnlyAny DEF OnlyWorker
<1>2. CASE wk[w].pc = "idle"
  <2>1. PICK m \in Msg : Takes(w, m)
    BY <1>2, IdleTakes
  <2> QED
    BY <1>0, <1>1, <1>2, <2>1 DEF Takes
<1>3. CASE wk[w].pc # "idle"
  <2>0. wk[w].msg \in Msg /\ msgs[wk[w].msg].by = w
    BY <1>3, WorkerFacts DEF Sane, OwnInv
  <2>1. CASE msgs' = Acked(msgs, wk[w].msg) /\ wk'[w].pc = "idle"
    <3>1. v # w /\ wk[v].msg # wk[w].msg
      BY <1>0, <2>0, <2>1
    <3> QED
      BY <1>0, <1>1, <2>0, <2>1, <3>1 DEF Acked
  <2>2. ASSUME HasSlot, NEW t, NEW sub, msgs' = Enqueued(t, sub) PROVE msgs'[wk[v].msg] = msgs[wk[v].msg]
    BY <1>0, <2>2, SlotFree DEF Enqueued
  <2> QED
    BY <1>0, <1>1, <1>3, <2>1, <2>2, BusyCarries DEF Carriages
<1> QED
  BY <1>2, <1>3

(* How a worker comes before the lease, and what it takes its message for. *)
LEMMA EarlySteps ==
    ASSUME FlowInv, SteadyInv, NoFailure, OwnInv, NEW w \in Worker, AnyStep(w)
    PROVE  /\ wk'[w].pc \in EarlyPC => token'[w] = 0
           /\ wk'[w].pc \in {"guard", "acquire", "recheck"} =>
                 \/ wk[w].pc = "idle"
                 \/ wk'[w].type = "continue"
                 \/ wk[w].pc \in {"guard", "acquire"} /\ wk'[w].type = wk[w].type
<1> USE DEF EarlyPC
<1>1. wk'[w].pc = "idle" => token'[w] = 0
  BY SteadyLeases DEF LeaseKept
<1>2. wk[w].pc \in EarlyPC => token[w] = 0
  BY DEF OwnInv
<1>3. CASE Looks(w)
  BY <1>1, <1>2, <1>3 DEF Looks
<1>4. CASE Drives(w)
  BY <1>4 DEF Drives
<1>5. CASE Acquires(w)
  BY <1>5 DEF Acquires
<1>6. CASE Yields(w)
  <2>1. token \in [Worker -> Nat]
    BY DEF FlowInv, StoreInv, TypeOK, Worker
  <2> QED
    BY <1>1, <1>6, <2>1 DEF Yields
<1>7. CASE Dies(w) \/ Pushes(w)
  BY <1>1, <1>7 DEF Dies, Pushes
<1>8. ASSUME NEW d \in RowData, Writes(w, d)
      PROVE  wk'[w].pc \notin {"idle", "start", "startAcquire", "guard", "compAcquire", "acquire",
                          "dlq", "dlqLease", "dlqTomb", "recheck"}
  BY <1>8 DEF Writes
<1> QED
  BY <1>3, <1>4, <1>5, <1>6, <1>7, <1>8, CalmStep DEF Moves

(* Every step leaves the messages under work to their workers. *)
LEMMA OwnNext == FlowInv /\ SteadyInv /\ NoFailure /\ OwnInv /\ [FlowNext]_vars => OwnInv'
<1> SUFFICES ASSUME FlowInv, SteadyInv, NoFailure, OwnInv, [FlowNext]_vars PROVE OwnInv'
  OBVIOUS
<1>0. /\ msgs \in [Msg -> Message] /\ \A m \in Msg : msgs[m].type # "cancel"
      /\ "continue" \in MsgType /\ 0 \in 0 .. MaxGen /\ "event" \in MsgType
      /\ \A s \in subs : s[1] \in 0 .. MaxGen
  BY Zeros DEF FlowInv, WorldTyped, OwnInv, MsgType
<1>a. ASSUME NEW t \in MsgType, NEW sub \in 0 .. MaxGen, HasSlot, msgs' = Enqueued(t, sub), t # "cancel"
      PROVE  \A m \in Msg : msgs'[m].type # "cancel"
  BY <1>0, <1>a, MessageEnqueued
<1>1. ASSUME NEW w \in Worker, AnyStep(w) PROVE OwnInv'
  <2>1. \A m \in Msg : msgs'[m].type # "cancel"
    <3>1. CASE wk[w].pc = "idle"
      <4>1. PICK m \in Msg : Takes(w, m)
        BY <1>1, <3>1, IdleTakes
      <4> QED
        BY <1>0, <4>1 DEF Takes
    <3>2. CASE wk[w].pc # "idle"
      <4>0. wk[w].msg \in Msg
        BY <3>2, WorkerFacts DEF Sane
      <4>1. msgs[wk[w].msg].type \in MsgType /\ msgs[wk[w].msg].sub \in 0 .. MaxGen
        BY <4>0, MessageTypes
      <4>2. CASE msgs' = Acked(msgs, wk[w].msg)
        BY <1>0, <4>0, <4>2 DEF Acked, Message
      <4> QED
        BY <1>0, <1>1, <1>a, <3>2, <4>0, <4>1, <4>2, BusyCarries DEF Carriages
    <3> QED
      BY <3>1, <3>2
  <2>2. ASSUME NEW v \in Worker, v # w
        PROVE  wk'[v] = wk[v] /\ token'[v] = token[v]
    BY <1>1, <2>2, OnlyAny, QueueStepKeeps, StartStepKeeps, ResumeStepKeeps, LoopStepKeeps, CrashKeeps
       DEF OnlyWorker, OwnStep, AnyStep
  <2>3. ASSUME NEW v \in Worker, wk[v].pc # "idle", wk'[v].pc # "idle"
        PROVE  wk'[v].msg = wk[v].msg /\ msgs'[wk[v].msg] = msgs[wk[v].msg]
    BY <1>1, <2>3, MessageKept
  <2>4. ASSUME NEW v \in Worker PROVE wk'[v].pc \in EarlyPC => token'[v] = 0
    BY <1>1, <2>2, EarlySteps DEF OwnInv
  <2>5. ASSUME wk[w].pc = "idle"
        PROVE  /\ msgs'[wk'[w].msg].st = "pending" /\ msgs'[wk'[w].msg].by = w
               /\ wk'[w].pc \in {"guard", "acquire", "recheck"} =>
                     wk'[w].type = msgs'[wk'[w].msg].type /\ wk'[w].type # "start"
    <3>1. PICK m \in Msg : Takes(w, m)
      BY <1>1, <2>5, IdleTakes
    <3> QED
      BY <3>1 DEF Takes
  <2>6. ASSUME NEW v \in Worker, wk'[v].pc # "idle"
        PROVE  msgs'[wk'[v].msg].st = "pending" /\ msgs'[wk'[v].msg].by = v
    BY <2>2, <2>3, <2>5, <2>6 DEF OwnInv
  <2>7. ASSUME NEW v \in Worker, wk'[v].pc \in {"guard", "acquire", "recheck"}
        PROVE  \/ wk'[v].type = "continue"
               \/ wk'[v].type = msgs'[wk'[v].msg].type /\ wk'[v].type # "start"
    <3>1. CASE v # w
      BY <2>2, <2>3, <2>7, <3>1 DEF OwnInv
    <3>2. CASE v = w /\ wk[w].pc # "idle"
      BY <1>1, <2>3, <2>7, <3>2, EarlySteps DEF OwnInv
    <3> QED
      BY <2>5, <2>7, <3>1, <3>2
  <2> QED
    BY <2>1, <2>4, <2>6, <2>7 DEF OwnInv
<1>2. CASE Outside
  <2>1. UNCHANGED <<wk, token>>
    BY <1>2, CalmOutside
  <2>2. CASE UNCHANGED msgs
    BY <2>1, <2>2 DEF OwnInv
  <2>3. ASSUME NEW s \in subs, HasSlot, msgs' = Enqueued("event", s[1]) PROVE OwnInv'
    <3>1. \A m \in Msg : msgs'[m].type # "cancel"
      BY <1>0, <1>a, <2>3
    <3>2. ASSUME NEW v \in Worker, wk[v].pc # "idle" PROVE msgs'[wk[v].msg] = msgs[wk[v].msg]
      <4>1. wk[v].msg \in Msg /\ msgs[wk[v].msg].st = "pending"
        BY <3>2, WorkerFacts DEF Sane, OwnInv
      <4> QED
        BY <1>0, <2>3, <4>1, SlotFree DEF Enqueued
    <3> QED
      BY <2>1, <3>1, <3>2 DEF OwnInv
  <2> QED
    BY <1>2, <2>2, <2>3, CalmOutside
<1>3. CASE UNCHANGED vars
  BY <1>3 DEF vars, flowVars, queueVars, storeVars, redisVars, OwnInv
<1> QED
  BY <1>1, <1>2, <1>3 DEF FlowNext, AnyStep

-----------------------------------------------------------------------------
(* What a worker has in memory, compared with the row: a first start is    *)
(* before every node, a push is about the marker of the row, and a session *)
(* is at the node of the row, past it by the node it has just run, or past *)
(* it by the task of its first run, which is not recorded.                 *)
Placed(r) ==
    /\ r.pc \in {"start", "startAcquire", "startPersist"} => r.c = 0
    /\ r.pc \in {"startAcquire", "startPersist"} => ~r.d.dp
    /\ r.pc \in {"push", "clear"} => HasRow /\ r.d = row.data /\ row.data.dp
    /\ r.pc \in {"run", "top"} =>
          /\ HasRow
          /\ \/ r.c = row.data.ctx
             \/ r.c = row.data.ctx + 1 /\ Kind[r.c] = "task" /\ ~r.initial
    /\ r.pc \in {"step", "suspend", "end"} => HasRow /\ row.data.ctx < r.c

(* The marker is that of a row that is suspended on a service. *)
RowInv ==
    /\ HasRow /\ row.data.dp => row.data.status = "suspended" /\ Kind[row.data.ctx] = "service"
    /\ \A w \in Worker : Placed(wk[w])

(* A step leaves the row alone, or it is a write. *)
LEMMA RowWritten ==
    ASSUME FlowInv, SteadyInv, NoFailure, NEW w \in Worker, AnyStep(w)
    PROVE  \/ row' = row
           \/ \E d \in RowData : Writes(w, d)
BY CalmStep DEF Moves, Looks, Drives, Acquires, Yields, Dies, Pushes

(* A worker past its admission is alone with the row. *)
LEMMA OthersRow ==
    ASSUME FlowInv, SteadyInv, NoFailure, NEW w \in Worker, AnyStep(w),
           NEW v \in Worker, v # w, wk[v].pc \in TokenPC
    PROVE  row' = row
<1>1. token[v] # 0
  BY WorkerFacts DEF Sane
<1>2. ASSUME NEW d \in RowData, Writes(w, d) PROVE FALSE
  BY <1>1, <1>2, OneHolder DEF Writes
<1> QED
  BY <1>2, RowWritten

(* The worker that makes the step is in its place afterwards. *)
LEMMA PlacedStep ==
    ASSUME FlowInv, SteadyInv, NoFailure, RowInv, NEW w \in Worker, AnyStep(w)
    PROVE  Placed(wk[w])'
<1>0. /\ wk[w].c \in Nat /\ wk'[w].c \in Nat /\ row.data.ctx \in Nat /\ wk[w].initial \in BOOLEAN
      /\ wk[w] \in WorkerState
  <2>1. FlowInv'
    BY FlowNextKeeps DEF FlowNext, AnyStep
  <2>2. wk' \in [Worker -> WorkerState]
    BY <2>1 DEF FlowInv
  <2>3. wk'[w].c \in 0 .. LastNode
    BY <2>2 DEF WorkerState
  <2> QED
    BY <2>3, WorkerFacts, FlowConstants DEF WorkerState, RowData
<1>1. Placed(wk[w])
  BY DEF RowInv
<1>2. row' = row => HasRow' = HasRow
  BY DEF HasRow
<1>3. CASE Looks(w)
  <2>1. wk'[w].pc = "start" => wk'[w].c = 0
    BY <1>3 DEF Looks
  <2>2. wk'[w].pc \in {"startAcquire", "startPersist"} => wk'[w].c = 0 /\ ~wk'[w].d.dp
    BY <1>1, <1>3 DEF Looks, Placed
  <2>3. wk'[w].pc \in {"push", "clear"} => HasRow' /\ wk'[w].d = row'.data /\ row'.data.dp
    BY <1>2, <1>3 DEF Looks, PendingDispatch
  <2>4. wk'[w].pc \in {"run", "top"} => HasRow' /\ wk'[w].c = row'.data.ctx
    BY <1>2, <1>3 DEF Looks
  <2>5. wk'[w].pc \notin {"step", "suspend", "end"}
    BY <1>3 DEF Looks
  <2> QED
    BY <2>1, <2>2, <2>3, <2>4, <2>5 DEF Placed
<1>4. CASE Drives(w)
  BY <1>0, <1>1, <1>2, <1>4 DEF Drives, Placed
<1>5. CASE Acquires(w)
  BY <1>1, <1>2, <1>5 DEF Acquires, Placed
<1>6. CASE Yields(w) \/ Dies(w)
  BY <1>6 DEF Yields, Dies, Placed
<1>7. CASE Pushes(w)
  BY <1>1, <1>2, <1>7 DEF Pushes, Placed
<1>8. ASSUME NEW d \in RowData, Writes(w, d) PROVE Placed(wk[w])'
  <2>1. wk[w].pc = "startPersist" => wk[w].d.ctx = 0
    BY WorkerFacts DEF Sane, FreshPC
  <2> QED
    BY <1>0, <1>1, <1>8, <2>1 DEF Writes, Placed
<1> QED
  BY <1>3, <1>4, <1>5, <1>6, <1>7, <1>8, CalmStep DEF Moves

(* The marker belongs to a suspended service after every write. *)
LEMMA MarkerStep ==
    ASSUME FlowInv, SteadyInv, NoFailure, RowInv, NEW w \in Worker, NEW d \in RowData, Writes(w, d)
    PROVE  d.dp => d.status = "suspended" /\ Kind[d.ctx] = "service"
<1>1. wk[w].pc = "startPersist" => ~wk[w].d.dp
  BY DEF RowInv, Placed
<1>2. wk[w].pc = "clear" => wk[w].d \in RowData
  BY WorkerFacts
<1>3. wk[w].pc = "clear" => ~[wk[w].d EXCEPT !.dp = FALSE].dp
  BY <1>2 DEF RowData
<1>4. PendingRef(wk[w].c, token[w]).dp = (Kind[wk[w].c] = "service")
  BY DEF PendingRef
<1>5. PendingRef(wk[w].c, token[w]).ctx = wk[w].c /\ PendingRef(wk[w].c, token[w]).status = "suspended"
  BY DEF PendingRef
<1> QED
  BY <1>1, <1>3, <1>4, <1>5 DEF Writes

(* Every step keeps the workers in their places. *)
LEMMA RowNext == FlowInv /\ SteadyInv /\ NoFailure /\ RowInv /\ [FlowNext]_vars => RowInv'
<1> SUFFICES ASSUME FlowInv, SteadyInv, NoFailure, RowInv, [FlowNext]_vars PROVE RowInv'
  OBVIOUS
<1>1. ASSUME NEW w \in Worker, AnyStep(w) PROVE RowInv'
  <2>1. HasRow' /\ row'.data.dp => row'.data.status = "suspended" /\ Kind[row'.data.ctx] = "service"
    <3>1. CASE row' = row
      BY <3>1 DEF RowInv, HasRow
    <3>2. ASSUME NEW d \in RowData, Writes(w, d)
          PROVE  row'.data.dp => row'.data.status = "suspended" /\ Kind[row'.data.ctx] = "service"
      BY <3>2, MarkerStep DEF Writes
    <3> QED
      BY <1>1, <3>1, <3>2, RowWritten
  <2>2. ASSUME NEW v \in Worker, v # w PROVE Placed(wk[v])'
    <3>1. wk'[v] = wk[v] /\ Placed(wk[v])
      BY <1>1, <2>2, OnlyAny DEF OnlyWorker, RowInv
    <3>2. CASE wk[v].pc \in TokenPC
      <4>1. row' = row
        BY <1>1, <2>2, <3>2, OthersRow
      <4> QED
        BY <3>1, <4>1 DEF Placed, HasRow
    <3>3. CASE wk[v].pc \notin TokenPC
      BY <3>1, <3>3 DEF Placed, TokenPC
    <3> QED
      BY <3>2, <3>3
  <2> QED
    BY <1>1, <2>1, <2>2, PlacedStep DEF RowInv
<1>2. CASE Outside
  BY <1>2, CalmOutside DEF RowInv, Placed, HasRow
<1>3. CASE UNCHANGED vars
  BY <1>3 DEF vars, flowVars, queueVars, storeVars, redisVars, RowInv, Placed, HasRow
<1> QED
  BY <1>1, <1>2, <1>3 DEF FlowNext, AnyStep

-----------------------------------------------------------------------------
(* Behind an event node there is a row: the first run persists nothing     *)
(* before its second node, so neither of the first two nodes of a flow is  *)
(* an event, unless a service suspends the execution before it.            *)
SavedBeforeEvents ==
    /\ Kind[1] # "event"
    /\ LastNode > 1 /\ Kind[1] = "task" => Kind[2] # "event"

Progress == HasRow /\ row.data.ctx # 0

(* Whoever could send a decision was asked by a row that is past Start. *)
ProgressInv ==
    /\ \A s \in subs : Kind[s[2]] # "task"
    /\ decided # {} \/ pushed # {} \/ (\E s \in subs : Kind[s[2]] = "event") => Progress

(* A first start has not been overtaken. *)
FirstInv == \A w \in Worker : wk[w].pc \in {"startAcquire", "startPersist"} => ~HasCheckpoint

(* A session that goes on from a suspended row has its decision. *)
ResolvedInv ==
    \A w \in Worker : wk[w].pc \in {"run", "top", "step"} /\ row.data.status = "suspended"
                         => msgs[wk[w].msg].type = "event"

(* Before the first decision there is one message, the start, and at most  *)
(* one worker, which has it; a lease is that worker's or its dead          *)
(* predecessor's.                                                          *)
AloneInv ==
    decided = {} =>
       /\ msgs[1].type = "start" /\ \A m \in Msg \ {1} : msgs[m].st = "free"
       /\ \A w \in Worker : wk[w].pc # "idle" =>
             /\ wk[w].pc \notin {"dlq", "dlqLease", "dlqTomb", "refused"}
             /\ token[w] = 0 => lease = Free
             /\ wk[w].pc \in {"compAcquire", "compCheck"} => HasRow /\ row.data.status = "suspended"
       /\ lease # Free => msgs[1].st = "pending" /\ lease.holder = msgs[1].by /\ lease.holder \in Worker

(* So every worker but one is idle. *)
LEMMA SoleWorker ==
    ASSUME FlowInv, OwnInv, AloneInv, decided = {}, NEW w \in Worker, wk[w].pc # "idle"
    PROVE  /\ wk[w].msg = 1 /\ msgs[1].st = "pending" /\ msgs[1].by = w
           /\ \A v \in Worker : wk[v].pc # "idle" => v = w
<1>1. \A v \in Worker : wk[v].pc # "idle" => wk[v].msg = 1 /\ msgs[1].st = "pending" /\ msgs[1].by = v
  BY WorkerFacts DEF Sane, OwnInv, AloneInv
<1> QED
  BY <1>1

(* A row that is past Start stays past Start: no start writes it afresh. *)
LEMMA RowAdvances ==
    ASSUME FlowInv, SteadyInv, NoFailure, RowInv, FirstInv,
           NEW w \in Worker, NEW d \in RowData, Writes(w, d)
    PROVE  /\ Progress => d.ctx # 0 /\ row.data.ctx <= d.ctx
           /\ wk[w].pc # "startPersist" => HasRow
<1>0. /\ wk[w].c \in Nat /\ row.data.ctx \in Nat /\ d.ctx \in Nat
      /\ wk[w].d \in RowData /\ Placed(wk[w])
  <2>1. wk[w].c \in 0 .. LastNode /\ wk[w].d \in RowData /\ row.data \in RowData
    BY WorkerFacts
  <2>2. \A x \in RowData : x.ctx \in Nat
    BY FlowConstants DEF RowData
  <2> QED
    BY <2>1, <2>2, FlowConstants DEF RowInv
<1>1. CASE wk[w].pc = "startPersist"
  BY <1>1 DEF FirstInv, HasCheckpoint, Progress
<1>2. CASE wk[w].pc \in {"step", "end"}
  BY <1>0, <1>2 DEF Writes, Placed
<1>3. CASE wk[w].pc = "suspend"
  <2>1. d = PendingRef(wk[w].c, token[w]) /\ HasRow /\ row.data.ctx < wk[w].c
    BY <1>0, <1>3 DEF Writes, Placed
  <2>2. d.ctx = wk[w].c
    BY <2>1 DEF PendingRef
  <2> QED
    BY <1>0, <2>1, <2>2, <1>3
<1>4. CASE wk[w].pc = "clear"
  <2>1. d = [row.data EXCEPT !.dp = FALSE] /\ HasRow /\ row.data \in RowData
    BY <1>0, <1>4, WorkerFacts DEF Writes, Placed
  <2>2. d.ctx = row.data.ctx
    BY <2>1 DEF RowData
  <2> QED
    BY <1>0, <1>4, <2>1, <2>2 DEF Progress
<1> QED
  BY <1>1, <1>2, <1>3, <1>4 DEF Writes

(* Whatever a worker does then, the row stays past Start. *)
LEMMA ProgressKept ==
    ASSUME FlowInv, SteadyInv, NoFailure, RowInv, FirstInv, NEW w \in Worker, AnyStep(w), Progress
    PROVE  Progress'
<1>1. CASE row' = row
  BY <1>1 DEF Progress, HasRow
<1>2. ASSUME NEW d \in RowData, Writes(w, d) PROVE Progress'
  BY <1>2, RowAdvances DEF Writes, Progress
<1> QED
  BY <1>1, <1>2, RowWritten

(* A decision is published, a task pushed and a subscription for an event  *)
(* made only by an execution that is past Start.                           *)
LEMMA ProgressNext ==
    ASSUME SavedBeforeEvents
    PROVE  FlowInv /\ SteadyInv /\ NoFailure /\ RowInv /\ FirstInv /\ ProgressInv /\ [FlowNext]_vars
             => ProgressInv'
<1> SUFFICES ASSUME FlowInv, SteadyInv, NoFailure, RowInv, FirstInv, ProgressInv, [FlowNext]_vars
             PROVE  ProgressInv'
  OBVIOUS
<1>1. ASSUME NEW w \in Worker, AnyStep(w) PROVE ProgressInv'
  <2>0. /\ wk[w].c \in 0 .. LastNode /\ row.data.ctx \in 0 .. LastNode /\ Placed(wk[w])
        /\ LastNode \in Nat \ {0} /\ wk[w].initial \in BOOLEAN
    BY WorkerFacts, FlowConstants DEF RowData, RowInv, WorkerState
  <2>1. decided' = decided
    BY <1>1, AsksOnly
  <2>2. Progress => Progress'
    BY <1>1, ProgressKept
  <2>3. CASE UNCHANGED pushed /\ subs' \subseteq subs
    BY <2>1, <2>2, <2>3 DEF ProgressInv
  <2>4. CASE Pushes(w)
    <3>1. HasRow /\ row.data = wk[w].d /\ row.data.status = "suspended"
      BY <2>0, <2>4, WorkerFacts DEF Pushes, Placed, Sane
    <3>2. Progress
      BY <3>1 DEF FlowInv, RowSound, Sound, Progress
    <3> QED
      BY <2>1, <2>2, <2>4, <3>2 DEF Pushes, ProgressInv
  <2>5. CASE /\ wk[w].pc = "run" /\ Kind[wk[w].c + 1] # "task" /\ pushed' = pushed
             /\ subs' = subs \cup {<<token[w], wk[w].c + 1>>}
             /\ wk[w].c + 1 <= LastNode
    <3>1. \A s \in subs' : Kind[s[2]] # "task"
      BY <2>5 DEF ProgressInv
    <3>2. ASSUME Kind[wk[w].c + 1] = "event" PROVE Progress
      <4>1. wk[w].c # 0
        BY <3>2 DEF SavedBeforeEvents
      <4>2. ASSUME row.data.ctx = 0 PROVE FALSE
        <5>1. wk[w].c = 1 /\ Kind[1] = "task"
          BY <2>0, <2>5, <4>1, <4>2 DEF Placed
        <5>2. Kind[2] = "event" /\ LastNode > 1
          BY <2>0, <2>5, <3>2, <5>1
        <5> QED
          BY <5>1, <5>2 DEF SavedBeforeEvents
      <4> QED
        BY <2>0, <2>5, <4>2 DEF Placed, Progress
    <3>3. (\E s \in subs' : Kind[s[2]] = "event") => Progress
      BY <2>5, <3>2 DEF ProgressInv
    <3> QED
      BY <2>1, <2>2, <2>5, <3>1, <3>3 DEF ProgressInv
  <2>6. CASE Drives(w)
    <3>1. ASSUME wk'[w].c = wk[w].c + 1, Kind[wk'[w].c] # "task", wk[w].pc = "run",
                 subs' = subs \cup {<<token[w], wk'[w].c>>}, pushed' = pushed
          PROVE  ProgressInv'
      <4>1. wk'[w].c <= LastNode
        <5>1. wk[w].c < LastNode
          BY <3>1, WorkerFacts DEF Sane
        <5> QED
          BY <2>0, <3>1, <5>1
      <4> QED
        BY <2>5, <3>1, <4>1
    <3> QED
      BY <2>3, <2>6, <3>1 DEF Drives
  <2>7. CASE Looks(w) \/ Acquires(w) \/ Yields(w) \/ Dies(w) \/ \E d \in RowData : Writes(w, d)
    <3>1. UNCHANGED pushed /\ subs' = subs
      BY <2>7 DEF Looks, Acquires, Yields, Dies, Writes
    <3> QED
      BY <2>3, <3>1
  <2> QED
    BY <1>1, <2>4, <2>6, <2>7, CalmStep DEF Moves
<1>2. CASE Outside
  <2>1. UNCHANGED <<row, subs, pushed>>
    BY <1>2, CalmOutside
  <2>2. CASE decided' = decided
    BY <2>1, <2>2 DEF ProgressInv, Progress, HasRow
  <2>3. ASSUME NEW s \in subs, Kind[s[2]] = "service" => s[1] \in pushed PROVE Progress
    <3>1. s[2] \in Node
      BY DEF FlowInv, WorldTyped
    <3>2. Kind[s[2]] \in {"service", "event"}
      BY <3>1, FlowConstants DEF ProgressInv
    <3> QED
      BY <2>3, <3>2 DEF ProgressInv
  <2> QED
    BY <1>2, <2>1, <2>2, <2>3, CalmOutside DEF ProgressInv, Progress, HasRow
<1>3. CASE UNCHANGED vars
  BY <1>3 DEF vars, flowVars, worldVars, storeVars, redisVars, ProgressInv, Progress, HasRow
<1> QED
  BY <1>1, <1>2, <1>3 DEF FlowNext, AnyStep

(* The worker that comes to a first start has seen no checkpoint, and the  *)
(* others are idle or have a checkpoint behind them.                       *)
LEMMA FirstNext ==
    FlowInv /\ SteadyInv /\ NoFailure /\ OwnInv /\ RowInv /\ ProgressInv /\ FirstInv /\ AloneInv
      /\ [FlowNext]_vars => FirstInv'
<1> SUFFICES ASSUME FlowInv, SteadyInv, NoFailure, OwnInv, RowInv, ProgressInv, FirstInv, AloneInv,
                    [FlowNext]_vars
             PROVE  FirstInv'
  OBVIOUS
<1>1. ASSUME NEW w \in Worker, AnyStep(w), NEW v \in Worker,
             wk'[v].pc \in {"startAcquire", "startPersist"}
      PROVE  ~HasCheckpoint'
  <2>1. row' = row => HasCheckpoint' = HasCheckpoint
    BY DEF HasCheckpoint, HasRow
  <2>2. CASE v = w
    <3>1. row' = row /\ ~HasCheckpoint
      BY <1>1, <2>2, CalmStep
         DEF Moves, Looks, Drives, Acquires, Yields, Dies, Pushes, Writes, FirstInv
    <3> QED
      BY <2>1, <3>1
  <2>3. CASE v # w
    <3>1. wk[v].pc \in {"startAcquire", "startPersist"} /\ ~HasCheckpoint
      BY <1>1, <2>3, OnlyAny DEF OnlyWorker, FirstInv
    <3>2. ASSUME NEW d \in RowData, Writes(w, d) PROVE FALSE
      <4>1. wk[w].pc # "idle"
        BY <3>2 DEF Writes
      <4>2. decided # {}
        BY <2>3, <3>1, <4>1, SoleWorker
      <4> QED
        BY <3>1, <4>2 DEF ProgressInv, Progress, HasCheckpoint
    <3> QED
      BY <1>1, <2>1, <3>1, <3>2, RowWritten
  <2> QED
    BY <2>2, <2>3
<1>2. CASE Outside
  <2>1. wk' = wk /\ row' = row
    BY <1>2, CalmOutside
  <2> QED
    BY <2>1 DEF FirstInv, HasCheckpoint, HasRow
<1>3. CASE UNCHANGED vars
  BY <1>3 DEF vars, flowVars, queueVars, storeVars, redisVars, FirstInv, HasCheckpoint, HasRow
<1> QED
  BY <1>1, <1>2, <1>3 DEF FlowNext, AnyStep, FirstInv

(* A suspended row lets only its decision through.                         *)
LEMMA ResolvedNext ==
    FlowInv /\ SteadyInv /\ NoFailure /\ OwnInv /\ RowInv /\ ResolvedInv /\ [FlowNext]_vars
      => ResolvedInv'
<1> SUFFICES ASSUME FlowInv, SteadyInv, NoFailure, OwnInv, RowInv, ResolvedInv, [FlowNext]_vars
             PROVE  ResolvedInv'
  OBVIOUS
<1> DEFINE Late == {"run", "top", "step"}
<1>1. ASSUME NEW w \in Worker, AnyStep(w), NEW v \in Worker, wk'[v].pc \in Late,
             row'.data.status = "suspended"
      PROVE  msgs'[wk'[v].msg].type = "event"
  <2>1. ASSUME wk[v].pc # "idle", row'.data.status = row.data.status,
               wk[v].pc \in Late \/ msgs[wk[v].msg].type = "event"
        PROVE  msgs'[wk'[v].msg].type = "event"
    <3>1. wk'[v].msg = wk[v].msg /\ msgs'[wk[v].msg] = msgs[wk[v].msg]
      BY <1>1, <2>1, MessageKept
    <3> QED
      BY <1>1, <2>1, <3>1 DEF ResolvedInv
  <2>2. CASE v = w
    <3>1. CASE wk[w].pc = "recheck"
      <4>1. row' = row /\ GuardVerdict(wk[w].type) = "go"
        BY <1>1, <2>2, <3>1, CalmStep
           DEF Moves, Looks, Drives, Acquires, Yields, Dies, Pushes, Writes
      <4>2. wk[w].type \notin {"continue", "retry"}
        BY <1>1, <4>1 DEF GuardVerdict, SteadyInv, Undisturbed, TerminalStatus, HasRow
      <4>3. msgs[wk[w].msg].type \notin {"start", "continue", "retry", "cancel"}
        BY <3>1, <4>2, WorkerFacts DEF OwnInv, Sane
      <4>4. msgs[wk[w].msg].type = "event"
        BY <3>1, <4>3, WorkerFacts DEF Sane, FlowInv, WorldTyped, Message, MsgType
      <4> QED
        BY <2>1, <2>2, <3>1, <4>1, <4>4
    <3>2. CASE wk[w].pc # "recheck"
      <4>1. wk[w].pc \in Late /\ row' = row
        <5>1. ASSUME NEW d \in RowData, Writes(w, d) PROVE FALSE
          <6>1. wk[w].pc = "startPersist" => wk[w].d.status = "running"
            BY WorkerFacts DEF Sane, FreshPC
          <6> QED
            BY <1>1, <2>2, <5>1, <6>1 DEF Writes
        <5> QED
          BY <1>1, <2>2, <3>2, <5>1, CalmStep
             DEF Moves, Looks, Drives, Acquires, Yields, Dies, Pushes
      <4> QED
        BY <2>1, <2>2, <4>1
    <3> QED
      BY <3>1, <3>2
  <2>3. CASE v # w
    <3>1. wk[v].pc \in Late
      BY <1>1, <2>3, OnlyAny DEF OnlyWorker
    <3>2. row' = row
      BY <1>1, <2>3, <3>1, OthersRow DEF TokenPC
    <3> QED
      BY <2>1, <3>1, <3>2
  <2> QED
    BY <2>2, <2>3
<1>2. CASE Outside
  <2>0. /\ wk' = wk /\ row' = row
        /\ \A s \in subs : s[1] \in 0 .. MaxGen
        /\ "event" \in MsgType
    BY <1>2, CalmOutside DEF FlowInv, WorldTyped, MsgType
  <2>1. ASSUME NEW v \in Worker, wk[v].pc \in Late PROVE msgs'[wk[v].msg] = msgs[wk[v].msg]
    <3>1. wk[v].msg \in Msg /\ msgs[wk[v].msg].st = "pending"
      BY <2>1, WorkerFacts DEF Sane, OwnInv
    <3>2. ASSUME NEW s \in subs, HasSlot, msgs' = Enqueued("event", s[1])
          PROVE  msgs'[wk[v].msg] = msgs[wk[v].msg]
      BY <2>0, <3>1, <3>2, MessageEnqueued
    <3> QED
      BY <1>2, <3>2, CalmOutside
  <2> QED
    BY <2>0, <2>1 DEF ResolvedInv
<1>3. CASE UNCHANGED vars
  BY <1>3 DEF vars, flowVars, queueVars, storeVars, redisVars, ResolvedInv
<1> QED
  BY <1>1, <1>2, <1>3 DEF FlowNext, AnyStep, ResolvedInv

-----------------------------------------------------------------------------
(* What can still go wrong with the start message. *)
Troubles == budget["crash"] + budget["push"]

(* Some worker is at work on a message, or through with it. *)
Handled == \E w \in Worker : wk[w].pc # "idle" /\ (wk[w].pc = "finish" => wk[w].ack)

(* The deliveries of the start and what can go wrong with it stay within   *)
(* MaxDeliveries: every delivery but the last was lost by one of them.     *)
DeliveriesInv ==
    decided = {} =>
       /\ msgs[1].st = "queued" => Troubles < MaxDeliveries
       /\ msgs[1].st = "pending" => msgs[1].n + Troubles <= MaxDeliveries
       /\ msgs[1].st = "pending" /\ ~Handled => msgs[1].n + Troubles < MaxDeliveries

(* An execution that runs, or owes a service its task, has its start.      *)
CarriedInv ==
    decided = {} /\ HasRow /\ (row.data.status = "running" \/ row.data.dp)
      => Live(1) /\ \A w \in Worker : ~Doomed(w)

(* They are counted. *)
LEMMA TroublesType ==
    ASSUME FlowInv
    PROVE  /\ Troubles \in Nat /\ budget["crash"] \in Nat /\ budget["push"] \in Nat
           /\ "crash" \in Fault /\ "push" \in Fault /\ "crash" # "push"
           /\ 1 \in Msg /\ msgs[1] \in Message /\ msgs[1].n \in Nat
           /\ MaxDeliveries \in Nat /\ MaxDeliveries > 1
BY FlowConstants DEF FlowInv, WorldTyped, Fault, Troubles, Message

(* A crash and a failed push each use one of them up. *)
LEMMA TroubleSpent ==
    ASSUME FlowInv, Spend("crash") \/ Spend("push")
    PROVE  Troubles' = Troubles - 1
BY TroublesType, SpendOne DEF Troubles

(* The start is taken when nobody has it and no lease is left. *)
LEMMA AloneTake ==
    ASSUME FlowInv, SteadyInv, NoFailure, OwnInv, AloneInv, DeliveriesInv, ClaimIdleExceedsLease,
           decided = {}, NEW w \in Worker, AnyStep(w), wk[w].pc = "idle"
    PROVE  /\ Takes(w, 1) /\ wk'[w].pc = "start" /\ wk'[w].msg = 1
           /\ \A v \in Worker : wk[v].pc = "idle"
           /\ UNCHANGED <<row, lease, token, budget>> /\ lease = Free
           /\ msgs'[1].n + Troubles <= MaxDeliveries
<1>1. PICK m \in Msg : Takes(w, m)
  BY IdleTakes
<1>2. m = 1
  BY <1>1 DEF Takes, Live, AloneInv
<1>3. ASSUME NEW v \in Worker, wk[v].pc # "idle" PROVE FALSE
  BY <1>1, <1>2, <1>3, SoleWorker DEF Takes
<1>4. lease = Free
  <2> SUFFICES ASSUME lease # Free PROVE FALSE
    OBVIOUS
  <2>1. msgs[1].st = "pending" /\ lease.holder = msgs[1].by /\ lease.holder \in Worker
    BY DEF AloneInv
  <2>2. HoldsLease(lease.holder)
    BY <1>1, <1>2, <2>1 DEF Takes, LeaseOfDeadOwner
  <2>3. wk[lease.holder].pc # "idle"
    BY <2>1, <2>2 DEF HoldsLease, SteadyInv, LeaseKept
  <2> QED
    BY <1>3, <2>1, <2>3
<1>5. UNCHANGED <<row, lease, token, budget>>
  BY CalmStep DEF Moves, Looks, Drives, Acquires, Yields, Dies, Pushes, Writes
<1>6. ~Handled
  BY <1>3 DEF Handled
<1>7. wk'[w].pc # "dlq" /\ msgs'[1].n + Troubles <= MaxDeliveries
  BY <1>1, <1>2, <1>6, TroublesType DEF Takes, DeliveriesInv
<1>8. wk'[w].pc = "start"
  BY <1>1, <1>2, <1>7 DEF Takes, AloneInv
<1> QED
  BY <1>1, <1>2, <1>3, <1>4, <1>5, <1>7, <1>8 DEF Takes

(* The one worker at work leaves the start in the queue until it is        *)
(* through with it, and meets no other lease.                              *)
LEMMA AloneWorks ==
    ASSUME FlowInv, SteadyInv, NoFailure, OwnInv, AloneInv,
           decided = {}, NEW w \in Worker, AnyStep(w), wk[w].pc # "idle"
    PROVE  /\ \/ /\ UNCHANGED msgs
                 /\ wk[w].pc = "finish" /\ wk[w].ack => Spend("crash")
              \/ /\ wk[w].pc = "finish" /\ wk[w].ack /\ wk'[w].pc = "idle"
                 /\ UNCHANGED budget /\ msgs' = Acked(msgs, 1)
           /\ wk'[w].pc \notin {"dlq", "dlqLease", "dlqTomb", "refused"}
           /\ wk[w].pc \in {"startAcquire", "compAcquire", "acquire"} => lease = Free
           /\ wk[w].pc \in {"guard", "recheck"} => wk[w].type = "continue"
<1>0. wk[w].pc \notin {"dlq", "dlqLease", "dlqTomb", "refused"} /\ msgs[1].type = "start" /\ wk[w].msg = 1
  BY SoleWorker DEF AloneInv
<1>1. wk[w].pc \in {"startAcquire", "compAcquire", "acquire"} => lease = Free
  BY DEF OwnInv, EarlyPC, AloneInv
<1>2. wk[w].pc \in {"guard", "recheck"} => wk[w].type = "continue"
  BY <1>0 DEF OwnInv
<1>3. \/ UNCHANGED msgs /\ (wk[w].pc = "finish" /\ wk[w].ack => Spend("crash"))
      \/ /\ wk[w].pc = "finish" /\ wk[w].ack /\ wk'[w].pc = "idle"
         /\ UNCHANGED budget /\ msgs' = Acked(msgs, 1)
  BY <1>0, BusyCarries DEF Carriages
<1>4. ~EngineRefuses("continue", wk[w].msg)
  BY DEF EngineRefuses
<1>5. wk[w].pc = "recheck" => EffectiveType(w) = "continue"
  BY <1>2 DEF EffectiveType
<1>6. wk'[w].pc \notin {"dlq", "dlqLease", "dlqTomb", "refused"}
  BY <1>0, <1>4, <1>5, CalmStep
     DEF Moves, Looks, Drives, Acquires, Yields, Dies, Pushes, Writes
<1> QED
  BY <1>1, <1>2, <1>3, <1>6

(* What a step does to the lease, and to the token of its worker. *)
LEMMA LeaseMoves ==
    ASSUME FlowInv, SteadyInv, NoFailure, NEW w \in Worker, AnyStep(w)
    PROVE  \/ lease' = lease /\ (token'[w] = token[w] \/ wk'[w].pc = "idle")
           \/ lease' = Free /\ token[w] # 0
           \/ lease'.holder = w /\ token'[w] # 0
<1>1. CASE Acquires(w)
  BY <1>1, LeaseAcquired DEF Acquires, TryAcquireFenced
<1>2. CASE Yields(w)
  BY <1>2 DEF Yields
<1>3. CASE Dies(w)
  BY <1>3 DEF Dies
<1>4. CASE Looks(w) \/ Drives(w) \/ Pushes(w) \/ \E d \in RowData : Writes(w, d)
  BY <1>4 DEF Looks, Drives, Pushes, Writes
<1> QED
  BY <1>1, <1>2, <1>3, <1>4, CalmStep DEF Moves

(* Before the first decision there is still one message and one worker. *)
LEMMA AloneNext ==
    ASSUME ClaimIdleExceedsLease
    PROVE  FlowInv /\ SteadyInv /\ NoFailure /\ OwnInv /\ RowInv /\ AloneInv /\ DeliveriesInv
             /\ [FlowNext]_vars => AloneInv'
<1> SUFFICES ASSUME FlowInv, SteadyInv, NoFailure, OwnInv, RowInv, AloneInv, DeliveriesInv,
                    [FlowNext]_vars, decided' = {}
             PROVE  AloneInv'
  BY DEF AloneInv
<1>1. ASSUME NEW w \in Worker, AnyStep(w) PROVE AloneInv'
  <2>0. /\ decided = {} /\ \A v \in Worker \ {w} : wk'[v] = wk[v]
        /\ token \in [Worker -> Nat] /\ \A v \in Worker \ {w} : token'[v] = token[v]
        /\ NoSession \notin Worker
    BY <1>1, AsksOnly, OnlyAny, FlowConstants, QueueStepKeeps, StartStepKeeps, ResumeStepKeeps,
       LoopStepKeeps, CrashKeeps
       DEF OnlyWorker, OwnStep, AnyStep, FlowInv, StoreInv, TypeOK, Worker
  <2>1. CASE wk[w].pc = "idle"
    <3>1. /\ Takes(w, 1) /\ wk'[w].pc = "start" /\ lease' = Free
          /\ \A v \in Worker : wk[v].pc = "idle"
      BY <1>1, <2>0, <2>1, AloneTake
    <3>2. msgs'[1].type = "start" /\ \A m \in Msg \ {1} : msgs'[m].st = "free"
      BY <2>0, <3>1 DEF Takes, AloneInv
    <3>3. \A v \in Worker : wk'[v].pc \in {"idle", "start"}
      BY <2>0, <3>1
    <3> QED
      BY <3>1, <3>2, <3>3 DEF AloneInv
  <2>2. CASE wk[w].pc # "idle"
    <3>0. /\ wk[w].msg = 1 /\ msgs[1].st = "pending" /\ msgs[1].by = w
          /\ \A v \in Worker : wk[v].pc # "idle" => v = w
          /\ msgs[1] \in Message /\ 1 \in Msg /\ msgs \in [Msg -> Message]
      BY <2>0, <2>2, SoleWorker, TroublesType DEF FlowInv, WorldTyped
    <3>1. /\ \/ /\ UNCHANGED msgs
             \/ /\ wk[w].pc = "finish" /\ wk[w].ack /\ wk'[w].pc = "idle"
                /\ UNCHANGED budget /\ msgs' = Acked(msgs, 1)
          /\ wk'[w].pc \notin {"dlq", "dlqLease", "dlqTomb", "refused"}
          /\ wk[w].pc \in {"startAcquire", "compAcquire", "acquire"} => lease = Free
          /\ wk[w].pc \in {"guard", "recheck"} => wk[w].type = "continue"
      BY <1>1, <2>0, <2>2, AloneWorks
    <3>2. msgs'[1].type = "start" /\ \A m \in Msg \ {1} : msgs'[m].st = "free"
      <4>1. msgs[1].type = "start" /\ \A m \in Msg \ {1} : msgs[m].st = "free"
        BY <2>0 DEF AloneInv
      <4>2. ASSUME msgs' = Acked(msgs, 1)
            PROVE  msgs'[1].type = msgs[1].type /\ \A m \in Msg \ {1} : msgs'[m] = msgs[m]
        BY <3>0, <4>2 DEF Acked, Message
      <4> QED
        BY <3>1, <4>1, <4>2
    <3>3. wk'[w].pc # "idle" /\ token'[w] = 0 => lease' = Free
      <4>1. token[w] = 0 => lease = Free
        BY <2>0, <2>2 DEF AloneInv
      <4> QED
        BY <1>1, <4>1, LeaseMoves
    <3>4. wk'[w].pc \in {"compAcquire", "compCheck"} => HasRow' /\ row'.data.status = "suspended"
      <4>1. GuardVerdict(wk[w].type) = "compensate" => HasRow /\ row.data.status = "suspended"
        BY WorkerFacts DEF GuardVerdict, RowData, Status, TerminalStatus
      <4>2. wk[w].pc = "compAcquire" => HasRow /\ row.data.status = "suspended"
        BY <2>0 DEF AloneInv
      <4>3. row' = row => HasRow' = HasRow
        BY DEF HasRow
      <4> QED
        BY <1>1, <2>2, <4>1, <4>2, <4>3, CalmStep
           DEF Moves, Looks, Drives, Acquires, Yields, Dies, Pushes, Writes
    <3>5. lease' # Free => msgs'[1].st = "pending" /\ lease'.holder = msgs'[1].by /\ lease'.holder \in Worker
      <4>1. CASE UNCHANGED msgs
        <5>1. CASE lease' = lease
          BY <2>0, <4>1, <5>1 DEF AloneInv
        <5>2. CASE lease' # lease
          <6>1. lease' = Free \/ lease'.holder = w
            BY <1>1, <5>2, LeaseMoves
          <6> QED
            BY <3>0, <4>1, <6>1
        <5> QED
          BY <5>1, <5>2
      <4>2. CASE wk[w].pc = "finish" /\ wk'[w].pc = "idle" /\ UNCHANGED budget
        <5>1. token[w] = 0 => lease = Free
          BY <2>0, <2>2 DEF AloneInv
        <5>2. ~Dies(w)
          BY <4>2, SpendOne, TroublesType DEF Dies
        <5> QED
          BY <1>1, <4>2, <5>1, <5>2, CalmStep
             DEF Moves, Looks, Drives, Acquires, Yields, Pushes, Writes
      <4> QED
        BY <3>1, <4>1, <4>2
    <3>6. \A v \in Worker : wk'[v].pc # "idle" => v = w
      BY <2>0, <3>0
    <3> QED
      BY <3>1, <3>2, <3>3, <3>4, <3>5, <3>6 DEF AloneInv
  <2> QED
    BY <2>1, <2>2
<1>2. CASE Outside
  <2>1. UNCHANGED <<wk, row, token, msgs, decided>> /\ lease' \in {lease, Free}
    BY <1>2, CalmOutside
  <2> QED
    BY <2>1 DEF AloneInv, HasRow
<1>3. CASE UNCHANGED vars
  BY <1>3 DEF vars, flowVars, queueVars, worldVars, storeVars, redisVars, AloneInv, HasRow
<1> QED
  BY <1>1, <1>2, <1>3 DEF FlowNext, AnyStep

(* A worker gives its message up only when it dies or fails to push. *)
LEMMA AloneGivesUp ==
    ASSUME FlowInv, SteadyInv, NoFailure, OwnInv, AloneInv,
           decided = {}, NEW w \in Worker, AnyStep(w), wk[w].pc # "idle",
           wk[w].pc = "finish" => wk[w].ack, UNCHANGED msgs,
           wk'[w].pc # "idle" => wk'[w].pc = "finish" /\ ~wk'[w].ack
    PROVE  Spend("crash") \/ Spend("push")
<1>1. /\ wk[w].pc = "finish" /\ wk[w].ack => Spend("crash")
      /\ wk[w].pc \notin {"dlq", "dlqLease", "dlqTomb", "refused"}
      /\ wk[w].pc \in {"startAcquire", "compAcquire", "acquire"} => lease = Free
  <2>1. Acked(msgs, 1)[1].st = "gone" /\ msgs[1].st = "pending"
    BY SoleWorker, TroublesType DEF Acked, FlowInv, WorldTyped, Message
  <2> QED
    BY <2>1, AloneWorks DEF AloneInv
<1>2. CASE Looks(w)
  BY <1>1, <1>2 DEF Looks
<1>3. CASE Drives(w) \/ Acquires(w)
  BY <1>3 DEF Drives, Acquires
<1>4. CASE Yields(w)
  BY <1>1, <1>4 DEF Yields
<1>5. CASE Dies(w) \/ Pushes(w)
  BY <1>5 DEF Dies, Pushes
<1>6. ASSUME NEW d \in RowData, Writes(w, d) PROVE FALSE
  BY <1>6 DEF Writes
<1> QED
  BY <1>2, <1>3, <1>4, <1>5, <1>6, CalmStep DEF Moves

(* Every delivery of the start that comes to nothing used up a crash or a  *)
(* failed push.                                                            *)
LEMMA DeliveriesNext ==
    ASSUME ClaimIdleExceedsLease
    PROVE  FlowInv /\ SteadyInv /\ NoFailure /\ OwnInv /\ AloneInv /\ DeliveriesInv
             /\ [FlowNext]_vars => DeliveriesInv'
<1> SUFFICES ASSUME FlowInv, SteadyInv, NoFailure, OwnInv, AloneInv, DeliveriesInv,
                    [FlowNext]_vars, decided' = {}
             PROVE  DeliveriesInv'
  BY DEF DeliveriesInv
<1>1. ASSUME NEW w \in Worker, AnyStep(w) PROVE DeliveriesInv'
  <2>0. decided = {} /\ \A v \in Worker \ {w} : wk'[v] = wk[v]
    BY <1>1, AsksOnly, OnlyAny DEF OnlyWorker
  <2>1. CASE wk[w].pc = "idle"
    <3>1. /\ Takes(w, 1) /\ wk'[w].pc = "start" /\ UNCHANGED budget
          /\ msgs'[1].n + Troubles <= MaxDeliveries
      BY <1>1, <2>0, <2>1, AloneTake
    <3>2. Handled'
      BY <3>1 DEF Handled
    <3> QED
      BY <3>1, <3>2 DEF Takes, DeliveriesInv, Troubles
  <2>2. CASE wk[w].pc # "idle"
    <3>0. /\ msgs[1].st = "pending" /\ msgs[1].n + Troubles <= MaxDeliveries
          /\ ~Handled => msgs[1].n + Troubles < MaxDeliveries
      BY <2>0, <2>2, SoleWorker DEF DeliveriesInv
    <3>1. CASE UNCHANGED msgs
      <4>1. Troubles' \in Nat /\ (Spend("crash") \/ Spend("push") \/ Troubles' = Troubles)
        <5>1. budget' = budget \/ Spend("crash") \/ Spend("push")
          BY <1>1, CalmStep DEF Moves, Looks, Drives, Acquires, Yields, Dies, Pushes, Writes
        <5>2. budget' \in [Fault -> Nat]
          BY FlowNextKeeps DEF FlowInv, WorldTyped
        <5> QED
          BY <5>1, <5>2 DEF Troubles, Fault
      <4>2. Spend("crash") \/ Spend("push") => Troubles' = Troubles - 1
        BY TroubleSpent
      <4>3. Handled /\ ~Handled' => Spend("crash") \/ Spend("push")
        <5> SUFFICES ASSUME Handled, ~Handled' PROVE Spend("crash") \/ Spend("push")
          OBVIOUS
        <5>1. wk[w].pc = "finish" => wk[w].ack
          BY <2>0, <2>2, SoleWorker DEF Handled
        <5>2. wk'[w].pc # "idle" => wk'[w].pc = "finish" /\ ~wk'[w].ack
          BY DEF Handled
        <5> QED
          BY <1>1, <2>0, <2>2, <3>1, <5>1, <5>2, AloneGivesUp
      <4> QED
        BY <3>0, <3>1, <4>1, <4>2, <4>3, TroublesType DEF DeliveriesInv
    <3>2. CASE msgs' = Acked(msgs, 1)
      <4>1. msgs'[1].st = "gone"
        BY <3>2, TroublesType DEF Acked, FlowInv, WorldTyped, Message
      <4> QED
        BY <4>1 DEF DeliveriesInv
    <3> QED
      BY <1>1, <2>0, <2>2, <3>1, <3>2, AloneWorks
  <2> QED
    BY <2>1, <2>2
<1>2. CASE Outside
  <2>1. UNCHANGED <<wk, msgs, decided>> /\ \A f \in {"crash", "push"} : budget'[f] = budget[f]
    BY <1>2, CalmOutside
  <2> QED
    BY <2>1 DEF DeliveriesInv, Handled, Troubles
<1>3. CASE UNCHANGED vars
  BY <1>3 DEF vars, flowVars, queueVars, worldVars, DeliveriesInv, Handled, Troubles
<1> QED
  BY <1>1, <1>2, <1>3 DEF FlowNext, AnyStep

(* Nobody is through with the start while the execution runs or owes its   *)
(* service the task.                                                       *)
LEMMA CarriedStep ==
    ASSUME FlowInv, SteadyInv, NoFailure, OwnInv, RowInv, AloneInv, DeliveriesInv, CarriedInv,
           ClaimIdleExceedsLease, decided = {}, NEW w \in Worker, AnyStep(w), wk[w].pc # "idle",
           HasRow', row'.data.status = "running" \/ row'.data.dp
    PROVE  ~Doomed(w)' /\ (Doomed(w) => wk[w].pc # "finish")
<1>0. /\ wk'[w].pc \notin {"dlq", "dlqLease", "dlqTomb", "refused"} /\ wk[w].pc \notin {"dlq", "dlqLease", "dlqTomb", "refused"}
      /\ wk[w].pc \in {"startAcquire", "compAcquire", "acquire"} => lease = Free
      /\ wk[w].pc \in {"guard", "recheck"} => wk[w].type = "continue"
  BY AloneWorks DEF AloneInv
<1>1. ASSUME NEW d \in RowData, Writes(w, d) PROVE wk'[w].pc # "finish" /\ wk[w].pc # "finish"
  <2>1. wk[w].pc = "clear" => d.status = "suspended" /\ ~d.dp
    BY <1>1, WorkerFacts DEF Writes, Sane, RowData
  <2>2. wk[w].pc = "suspend" => d.status = "suspended"
    BY <1>1 DEF Writes, PendingRef
  <2> QED
    BY <1>1, <2>1, <2>2 DEF Writes
<1>2. CASE row' = row
  <2>0. HasRow /\ (row.data.status = "running" \/ row.data.dp)
    BY <1>2 DEF HasRow
  <2>1. ~(wk[w].pc = "finish" /\ wk[w].ack)
    BY <2>0 DEF CarriedInv, Doomed
  <2>2. GuardVerdict("continue") # "drop"
    <3>1. row.data.status \in {"running", "suspended"}
      BY <2>0, WorkerFacts DEF RowInv
    <3> QED
      BY <2>0, <3>1 DEF GuardVerdict, SteadyInv, Undisturbed, TerminalStatus
  <2>3. wk[w].pc = "compCheck" => PendingDispatch
    BY <2>0 DEF AloneInv, PendingDispatch
  <2>4. ~(wk'[w].pc = "finish" /\ wk'[w].ack)
    <3>1. ~Looks(w) \/ ~(wk'[w].pc = "finish" /\ wk'[w].ack)
      BY <1>0, <2>2, <2>3 DEF Looks
    <3>2. ~Yields(w) \/ ~(wk'[w].pc = "finish" /\ wk'[w].ack)
      BY <1>0 DEF Yields
    <3>3. ~Pushes(w) \/ ~(wk'[w].pc = "finish" /\ wk'[w].ack)
      BY DEF Pushes
    <3>4. ~(Drives(w) \/ Acquires(w) \/ Dies(w)) \/ wk'[w].pc # "finish"
      BY DEF Drives, Acquires, Dies
    <3> QED
      BY <1>1, <3>1, <3>2, <3>3, <3>4, CalmStep DEF Moves
  <2> QED
    BY <1>0, <2>1, <2>4 DEF Doomed
<1>3. ASSUME NEW d \in RowData, Writes(w, d) PROVE ~Doomed(w)' /\ (Doomed(w) => wk[w].pc # "finish")
  BY <1>0, <1>1, <1>3 DEF Doomed
<1> QED
  BY <1>2, <1>3, RowWritten

(* The start stays in the queue as long as the execution needs it. *)
LEMMA CarriedNext ==
    ASSUME ClaimIdleExceedsLease
    PROVE  FlowInv /\ SteadyInv /\ NoFailure /\ OwnInv /\ RowInv /\ AloneInv /\ DeliveriesInv
             /\ CarriedInv /\ [FlowNext]_vars => CarriedInv'
<1> SUFFICES ASSUME FlowInv, SteadyInv, NoFailure, OwnInv, RowInv, AloneInv, DeliveriesInv, CarriedInv,
                    [FlowNext]_vars, decided' = {}, HasRow', row'.data.status = "running" \/ row'.data.dp
             PROVE  Live(1)' /\ \A v \in Worker : ~Doomed(v)'
  BY DEF CarriedInv
<1>1. ASSUME NEW w \in Worker, AnyStep(w) PROVE Live(1)' /\ \A v \in Worker : ~Doomed(v)'
  <2>0. decided = {} /\ \A v \in Worker \ {w} : wk'[v] = wk[v]
    BY <1>1, AsksOnly, OnlyAny DEF OnlyWorker
  <2>1. CASE wk[w].pc = "idle"
    <3>1. Takes(w, 1) /\ wk'[w].pc = "start" /\ \A v \in Worker : wk[v].pc = "idle"
      BY <1>1, <2>0, <2>1, AloneTake
    <3>2. \A v \in Worker : wk'[v].pc \in {"start", "idle"}
      BY <2>0, <3>1
    <3> QED
      BY <3>1, <3>2 DEF Takes, Live, Doomed
  <2>2. CASE wk[w].pc # "idle"
    <3>1. ~Doomed(w)' /\ (Doomed(w) => wk[w].pc # "finish")
      BY <1>1, <2>0, <2>2, CarriedStep
    <3>2. UNCHANGED msgs
      BY <1>1, <2>0, <2>2, <3>1, AloneWorks DEF Doomed
    <3>3. msgs[1].st = "pending" /\ \A v \in Worker \ {w} : wk'[v].pc = "idle"
      BY <2>0, <2>2, SoleWorker
    <3> QED
      BY <3>1, <3>2, <3>3 DEF Live, Doomed
  <2> QED
    BY <2>1, <2>2
<1>2. CASE Outside
  <2>1. UNCHANGED <<wk, row, msgs, decided>>
    BY <1>2, CalmOutside
  <2> QED
    BY <2>1 DEF CarriedInv, Doomed, Live, HasRow
<1>3. CASE UNCHANGED vars
  BY <1>3 DEF vars, flowVars, queueVars, worldVars, storeVars, redisVars, CarriedInv, Doomed, Live, HasRow
<1> QED
  BY <1>1, <1>2, <1>3 DEF FlowNext, AnyStep

-----------------------------------------------------------------------------
(* A decision that nobody is through with. *)
Delivers(m) ==
    /\ Live(m) /\ msgs[m].type = "event"
    /\ \A w \in Worker : wk[w].msg = m => ~Doomed(w)

(* After the first decision an execution that runs has a decision that     *)
(* drives it, or that would be taken for a continue.                       *)
DriveInv ==
    decided # {} /\ HasRow /\ row.data.status = "running" => \E m \in Msg : Delivers(m)

(* A worker with a decision is not through with it while the execution     *)
(* runs, unless a copy of it is in the queue.                              *)
LEMMA DriverStays ==
    ASSUME FlowInv, SteadyInv, NoFailure, AttendInv, RowInv, ProgressInv,
           decided # {}, NEW w \in Worker, AnyStep(w), wk[w].pc # "idle", ~Doomed(w),
           msgs[wk[w].msg].type = "event",
           HasRow', row'.data.status = "running", row' = row \/ wk[w].pc = "step"
    PROVE  \/ ~Doomed(w)'
           \/ HasSlot /\ msgs' = Enqueued("event", msgs[wk[w].msg].sub)
<1>1. ASSUME NEW d \in RowData, Writes(w, d) PROVE wk'[w].pc \notin {"finish", "refused"}
  <2>1. wk[w].pc = "clear" => d.status = "suspended"
    BY <1>1, WorkerFacts DEF Writes, Sane, RowData
  <2>2. wk[w].pc = "suspend" => d.status = "suspended"
    BY <1>1 DEF Writes, PendingRef
  <2> QED
    BY <1>1, <2>1, <2>2 DEF Writes
<1>2. CASE row' = row
  <2>0. HasRow /\ row.data.status = "running" /\ RowOpen /\ row.data.ctx # 0
    BY <1>2 DEF HasRow, RowOpen, TerminalStatus, ProgressInv, Progress
  <2>1. /\ wk[w].pc \notin {"start", "compAcquire", "compCheck", "refused"}
        /\ wk[w].pc \in {"guard", "acquire", "recheck"} => wk[w].type = "event"
        /\ ~(wk[w].pc = "finish" /\ wk[w].ack)
    BY DEF AttendInv, Doomed
  <2>2. GuardVerdict("event") = "go"
    BY <2>0, EventVerdict DEF SteadyInv, Undisturbed
  <2>3. wk[w].pc = "recheck" => ~EngineRefuses(EffectiveType(w), wk[w].msg)
    BY <2>0, <2>1 DEF EffectiveType, EngineRefuses
  <2>4. ~LeaseConflictAckSafe(wk[w].msg)
    BY DEF LeaseConflictAckSafe
  <2>5. Looks(w) => wk[w].pc \in {"dlq", "dlqLease", "dlqTomb"} \/ (wk'[w].pc # "refused" /\ ~(wk'[w].pc = "finish" /\ wk'[w].ack))
    BY <2>1, <2>2, <2>3, <2>4 DEF Looks
  <2>6. wk[w].pc \in {"dlq", "dlqLease", "dlqTomb"} =>
           \/ wk'[w].pc # "refused" /\ ~(wk'[w].pc = "finish" /\ wk'[w].ack)
           \/ HasSlot /\ msgs' = Enqueued("event", msgs[wk[w].msg].sub)
    BY <2>0, BusyCarries DEF Carriages
  <2>7. Yields(w) \/ Dies(w) \/ Drives(w) \/ Acquires(w) \/ Pushes(w)
          => wk'[w].pc # "refused" /\ ~(wk'[w].pc = "finish" /\ wk'[w].ack)
    BY <2>1 DEF Yields, Dies, Drives, Acquires, Pushes
  <2> QED
    BY <1>1, <2>5, <2>6, <2>7, CalmStep DEF Moves, Doomed
<1>3. CASE wk[w].pc = "step" /\ row' # row
  <2>1. PICK d \in RowData : Writes(w, d)
    BY <1>3, RowWritten
  <2> QED
    BY <1>1, <2>1 DEF Doomed
<1> QED
  BY <1>2, <1>3

(* A decision that delivers does so after a step, or a copy of it does. *)
LEMMA DeliversOn ==
    ASSUME FlowInv, SteadyInv, NoFailure, OwnInv, AttendInv, RowInv, ProgressInv,
           decided # {}, NEW w \in Worker, AnyStep(w), NEW m \in Msg, Delivers(m),
           HasRow', row'.data.status = "running", row' = row \/ wk[w].pc = "step"
    PROVE  \E k \in Msg : Delivers(k)'
<1>0. /\ \A v \in Worker \ {w} : wk'[v] = wk[v]
      /\ \A v \in Worker : wk[v].pc # "idle" => wk[v].msg \in Msg /\ msgs[wk[v].msg].st = "pending"
      /\ \A v \in Worker : Doomed(v) => wk[v].pc # "idle"
      /\ msgs \in [Msg -> Message]
      /\ msgs[m].st # "free"
  BY OnlyAny, WorkerFacts DEF OnlyWorker, OwnInv, Sane, Doomed, FlowInv, WorldTyped, Delivers, Live
<1>1. CASE wk[w].pc = "idle"
  <2>1. PICK k \in Msg : Takes(w, k)
    BY <1>1, IdleTakes
  <2>2. ~Doomed(w)'
    <3>1. wk'[w].pc \in {"start", "guard", "dlq"}
      BY <2>1 DEF Takes
    <3> QED
      BY <3>1 DEF Doomed
  <2>3. Live(m)' /\ msgs'[m].type = "event"
    BY <2>1 DEF Takes, Delivers, Live
  <2> QED
    BY <1>0, <2>2, <2>3 DEF Delivers, Doomed
<1>2. CASE wk[w].pc # "idle"
  <2>0. wk[w].msg \in Msg /\ msgs[wk[w].msg].st = "pending"
    BY <1>0, <1>2
  <2>1. ASSUME NEW t \in MsgType, NEW sub \in 0 .. MaxGen, HasSlot, msgs' = Enqueued(t, sub)
        PROVE  /\ msgs'[m] = msgs[m]
               /\ t = "event" => \E k \in Msg : Delivers(k)'
    <3>1. PICK f \in Msg : /\ msgs[f].st = "free" /\ msgs'[m] = msgs[m]
                           /\ msgs'[f].st = "queued" /\ msgs'[f].type = t
      BY <1>0, <2>1, MessageEnqueued
    <3>2. ASSUME NEW v \in Worker, wk'[v].msg = f PROVE ~Doomed(v)'
      <4>1. CASE v # w
        BY <1>0, <3>1, <3>2, <4>1 DEF Doomed
      <4>2. CASE v = w /\ wk'[w].pc # "idle"
        BY <1>2, <2>0, <3>1, <3>2, <4>2, StaysWithMessage
      <4> QED
        BY <4>1, <4>2 DEF Doomed
    <3>3. t = "event" => Delivers(f)'
      BY <3>1, <3>2 DEF Delivers, Live
    <3> QED
      BY <3>1, <3>3
  <2>2. CASE wk[w].msg = m
    <3>1. ~Doomed(w) /\ msgs[wk[w].msg].type = "event"
      BY <2>2 DEF Delivers
    <3>2. CASE ~Doomed(w)' /\ msgs'[m] = msgs[m]
      BY <1>0, <3>2 DEF Delivers, Live, Doomed
    <3>3. CASE HasSlot /\ msgs' = Enqueued("event", msgs[wk[w].msg].sub)
      <4>1. "event" \in MsgType /\ msgs[wk[w].msg].sub \in 0 .. MaxGen
        BY <2>0, MessageTypes DEF MsgType
      <4> QED
        BY <2>1, <3>3, <4>1
    <3>4. CASE ~Doomed(w)'
      <4>1. CASE wk'[w].pc = "idle"
        <5>1. UNCHANGED msgs
          BY <1>2, <2>2, <3>1, <4>1, BusyCarries DEF Carriages, Doomed
        <5> QED
          BY <3>2, <3>4, <5>1
      <4>2. CASE wk'[w].pc # "idle"
        BY <1>2, <2>2, <3>2, <3>4, <4>2, MessageKept
      <4> QED
        BY <4>1, <4>2
    <3> QED
      BY <1>2, <3>1, <3>3, <3>4, DriverStays
  <2>3. CASE wk[w].msg # m
    <3>1. msgs'[m] = msgs[m]
      <4>1. msgs[wk[w].msg].type \in MsgType /\ msgs[wk[w].msg].sub \in 0 .. MaxGen
            /\ "continue" \in MsgType /\ 0 \in 0 .. MaxGen
        BY <2>0, MessageTypes, Labels, Zeros
      <4>2. msgs' = Acked(msgs, wk[w].msg) => msgs'[m] = msgs[m]
        BY <1>0, <2>0, <2>3 DEF Acked
      <4> QED
        BY <1>2, <2>1, <4>1, <4>2, BusyCarries DEF Carriages
    <3>2. wk'[w].msg = m => wk'[w].pc = "idle"
      BY <1>2, <2>3, StaysWithMessage
    <3> QED
      BY <1>0, <3>1, <3>2 DEF Delivers, Live, Doomed
  <2> QED
    BY <2>2, <2>3
<1> QED
  BY <1>1, <1>2

(* A decision keeps driving the execution. *)
LEMMA DriveNext ==
    FlowInv /\ SteadyInv /\ WorkInv /\ AttendInv /\ NoFailure /\ OwnInv /\ RowInv /\ ProgressInv
      /\ FirstInv /\ ResolvedInv /\ DriveInv /\ [FlowNext]_vars => DriveInv'
<1> SUFFICES ASSUME FlowInv, SteadyInv, WorkInv, AttendInv, NoFailure, OwnInv, RowInv, ProgressInv,
                    FirstInv, ResolvedInv, DriveInv, [FlowNext]_vars,
                    decided' # {}, HasRow', row'.data.status = "running"
             PROVE  \E m \in Msg : Delivers(m)'
  BY DEF DriveInv
<1>1. ASSUME NEW w \in Worker, AnyStep(w) PROVE \E m \in Msg : Delivers(m)'
  <2>0. decided # {}
    BY <1>1, AsksOnly
  <2>1. CASE row' = row
    <3>1. PICK m \in Msg : Delivers(m)
      BY <2>0, <2>1 DEF DriveInv, HasRow
    <3> QED
      BY <1>1, <2>0, <2>1, <3>1, DeliversOn
  <2>2. CASE row' # row
    <3>1. PICK d \in RowData : Writes(w, d)
      BY <1>1, <2>2, RowWritten
    <3>2. wk[w].pc = "step"
      <4>1. wk[w].pc # "startPersist"
        BY <2>0 DEF FirstInv, ProgressInv, Progress, HasCheckpoint
      <4>2. wk[w].pc = "clear" => d.status = "suspended"
        BY <3>1, WorkerFacts DEF Writes, Sane, RowData
      <4>3. wk[w].pc = "suspend" => d.status = "suspended"
        BY <3>1 DEF Writes, PendingRef
      <4> QED
        BY <3>1, <4>1, <4>2, <4>3 DEF Writes
    <3>3. HasRow /\ row.data.status \in {"running", "suspended"}
      BY <3>2, WorkerFacts DEF WorkInv, WorkPC, RowOpen, RowData, Status, TerminalStatus
    <3>4. PICK m \in Msg : Delivers(m)
      <4>1. CASE row.data.status = "running"
        BY <2>0, <3>3, <4>1 DEF DriveInv
      <4>2. CASE row.data.status = "suspended"
        <5>1. /\ wk[w].msg \in Msg /\ msgs[wk[w].msg].type = "event"
              /\ msgs[wk[w].msg].st = "pending" /\ msgs[wk[w].msg].by = w
          BY <3>2, <4>2, WorkerFacts DEF ResolvedInv, OwnInv, Sane
        <5>2. ASSUME NEW v \in Worker, wk[v].msg = wk[w].msg PROVE ~Doomed(v)
          BY <3>2, <5>1, <5>2 DEF OwnInv, Doomed
        <5> QED
          BY <5>1, <5>2 DEF Delivers, Live
      <4> QED
        BY <3>3, <4>1, <4>2
    <3> QED
      BY <1>1, <2>0, <3>2, <3>4, DeliversOn
  <2> QED
    BY <2>1, <2>2
<1>2. CASE Outside
  <2>0. wk' = wk /\ row' = row
    BY <1>2, CalmOutside
  <2>1. CASE UNCHANGED <<msgs, decided>>
    BY <2>0, <2>1 DEF DriveInv, Delivers, Live, Doomed, HasRow
  <2>2. ASSUME NEW s \in subs, HasSlot, msgs' = Enqueued("event", s[1])
        PROVE  \E m \in Msg : Delivers(m)'
    <3>0. s[1] \in 0 .. MaxGen /\ "event" \in MsgType
      BY DEF FlowInv, WorldTyped, MsgType
    <3>1. PICK f \in Msg : msgs[f].st = "free" /\ msgs'[f].st = "queued" /\ msgs'[f].type = "event"
      BY <2>2, <3>0, MessageEnqueued
    <3>2. ASSUME NEW v \in Worker, wk[v].msg = f PROVE ~Doomed(v)
      BY <3>1, <3>2 DEF OwnInv, Doomed
    <3> QED
      BY <2>0, <3>1, <3>2 DEF Delivers, Live, Doomed
  <2> QED
    BY <1>2, <2>1, <2>2, CalmOutside
<1>3. CASE UNCHANGED vars
  BY <1>3 DEF vars, flowVars, queueVars, worldVars, storeVars, redisVars, DriveInv, Delivers, Live,
              Doomed, HasRow
<1> QED
  BY <1>1, <1>2, <1>3 DEF FlowNext, AnyStep

-----------------------------------------------------------------------------
(* The inductive invariant: before the first decision the start carries the *)
(* execution, after it a decision does.                                    *)
CarrierInv ==
    /\ NoFailure /\ OwnInv /\ RowInv
    /\ ProgressInv /\ FirstInv /\ ResolvedInv
    /\ AloneInv /\ DeliveriesInv /\ CarriedInv /\ DriveInv

(* Every step preserves it. *)
LEMMA CarrierNext ==
    ASSUME SavedBeforeEvents, ClaimIdleExceedsLease
    PROVE  FlowInv /\ DeliveryInv /\ CarrierInv /\ [FlowNext]_vars => CarrierInv'
BY NoFailureNext, OwnNext, RowNext, ProgressNext, FirstNext, ResolvedNext, AloneNext, DeliveriesNext,
   CarriedNext, DriveNext
   DEF CarrierInv, DeliveryInv

(* It holds of an execution that was just submitted. *)
LEMMA CarrierInit == CrashesOnly /\ FlowInit => CarrierInv
<1> SUFFICES ASSUME CrashesOnly, FlowInit PROVE CarrierInv
  OBVIOUS
<1>0. /\ ~HasRow /\ lease = Free /\ wk = [w \in Worker |-> Idle]
      /\ msgs = [m \in Msg |-> IF m = 1 THEN Queued("start", 0) ELSE FreeMsg]
      /\ token = [w \in Worker |-> 0]
      /\ decided = {} /\ pushed = {} /\ subs = {}
      /\ budget["fail"] = 0 /\ Troubles < MaxDeliveries
  BY DEF FlowInit, StoreInit, NoRow, HasRow, CrashesOnly, Troubles, Worker
<1>1. \A w \in Worker : wk[w].pc = "idle" /\ token[w] = 0
  BY <1>0 DEF Idle
<1>2. /\ \A m \in Msg : msgs[m].type = "start"
      /\ msgs[1].st = "queued" /\ \A m \in Msg \ {1} : msgs[m].st = "free"
  BY <1>0, FlowConstants DEF Queued, FreeMsg
<1>3. NoFailure /\ OwnInv /\ RowInv
  BY <1>0, <1>1, <1>2 DEF NoFailure, FailurePC, OwnInv, RowInv, Placed
<1>4. ProgressInv /\ FirstInv /\ ResolvedInv
  BY <1>0, <1>1 DEF ProgressInv, FirstInv, ResolvedInv
<1>5. AloneInv /\ DeliveriesInv
  <2>1. lease = Free /\ \A w \in Worker : wk[w].pc = "idle"
    BY <1>0, <1>1
  <2>2. AloneInv
    BY <1>2, <2>1, FlowConstants DEF AloneInv
  <2>3. DeliveriesInv
    BY <1>0, <1>2 DEF DeliveriesInv
  <2> QED
    BY <2>2, <2>3
<1>6. CarriedInv /\ DriveInv
  BY <1>0 DEF CarriedInv, DriveInv
<1> QED
  BY <1>3, <1>4, <1>5, <1>6 DEF CarrierInv

(* When all is quiet no message is left, so the row does not run. *)
LEMMA CarrierKept ==
    ASSUME FlowInv, CarrierInv
    PROVE  RunningHasCarrier
<1> SUFFICES ASSUME Quiet, HasRow, row.data.status = "running" PROVE FALSE
  BY DEF RunningHasCarrier
<1>1. CASE decided = {}
  BY <1>1, FlowConstants DEF CarrierInv, CarriedInv, Quiet
<1>2. CASE decided # {}
  BY <1>2 DEF CarrierInv, DriveInv, Delivers, Quiet
<1> QED
  BY <1>1, <1>2

(* An execution that is under way has a carrier (the acknowledgements of   *)
(* _consume_loop, the claims of _reclaim_one and the dead-letter guard),   *)
(* if no node fails, crashes and failed pushes do not use up the           *)
(* deliveries of its start, no worker stalls, nobody cancels or deletes,   *)
(* claims wait for leases, and no node among the first two is an event     *)
(* that the row does not show yet: RunningHasCarrier.                      *)
THEOREM FlowRunningHasCarrier ==
    ASSUME Steady, CrashesOnly, SavedBeforeEvents, ClaimIdleExceedsLease
    PROVE  FlowSpec => []RunningHasCarrier
<1>1. FlowInit => FlowInv /\ DeliveryInv /\ CarrierInv
  BY FlowInitKeeps, DeliveryInit, CarrierInit
<1>2. FlowInv /\ DeliveryInv /\ CarrierInv /\ [FlowNext]_vars => (FlowInv /\ DeliveryInv /\ CarrierInv)'
  BY FlowNextKeeps, DeliveryNext, CarrierNext
<1>3. FlowInv /\ CarrierInv => RunningHasCarrier
  BY CarrierKept
<1> QED
  BY <1>1, <1>2, <1>3, PTL DEF FlowSpec

-----------------------------------------------------------------------------
(* A service comes after tasks only: it is run by a session that began     *)
(* with the start, or by one that took its place, and not by a decision.   *)
ServiceFirst == \A j, k \in Node : j < k /\ Kind[k] = "service" => Kind[j] = "task"

(* The only service is behind the row when a task was pushed or a decision *)
(* published, and what a row with a marker was pushed and answered for is  *)
(* its own subscription.                                                   *)
ServiceInv ==
    /\ decided # {} \/ pushed # {} => \A k \in Node : Kind[k] = "service" => k <= row.data.ctx
    /\ HasRow /\ row.data.dp => decided \cup pushed \subseteq {row.data.sub}

(* Behind a node that suspends there is no service. *)
LEMMA NoServiceBehind ==
    ASSUME ServiceFirst, NEW j \in Node, Kind[j] # "task"
    PROVE  \A k \in Node : Kind[k] = "service" => k <= j
BY FlowConstants DEF ServiceFirst

(* A row with a marker is at its service. *)
LEMMA MarkerPlace ==
    ASSUME FlowInv, RowInv, HasRow, row.data.dp
    PROVE  row.data.ctx \in Node /\ Kind[row.data.ctx] = "service"
<1>1. row.data.ctx \in 0 .. LastNode /\ row.data.ctx # 0 /\ Kind[row.data.ctx] = "service"
  BY FlowConstants DEF RowInv, FlowInv, StoreInv, TypeOK, Row, RowSound, Sound, RowData
<1> QED
  BY <1>1, FlowConstants

(* Every step keeps the service and its decisions together. *)
LEMMA ServiceNext ==
    ASSUME ServiceFirst
    PROVE  FlowInv /\ SteadyInv /\ NoFailure /\ RowInv /\ ProgressInv /\ FirstInv /\ ServiceInv
             /\ [FlowNext]_vars => ServiceInv'
<1> SUFFICES ASSUME FlowInv, SteadyInv, NoFailure, RowInv, ProgressInv, FirstInv, ServiceInv,
                    [FlowNext]_vars
             PROVE  ServiceInv'
  OBVIOUS
<1>0. row.data.ctx \in Nat /\ \A k \in Node : k \in Nat
  BY Zeros, FlowConstants DEF FlowInv, StoreInv, TypeOK, Row, RowData
<1>1. ASSUME NEW w \in Worker, AnyStep(w) PROVE ServiceInv'
  <2>0. decided' = decided /\ Placed(wk[w])
    BY <1>1, AsksOnly DEF RowInv
  <2>1. CASE row' = row /\ pushed' = pushed
    BY <2>0, <2>1 DEF ServiceInv, HasRow
  <2>2. CASE Pushes(w) /\ pushed' # pushed
    <3>1. HasRow /\ wk[w].d = row.data /\ row.data.dp
      BY <2>0, <2>2 DEF Pushes, Placed
    <3>2. pushed' = pushed \cup {row.data.sub} /\ row' = row
      BY <2>2, <3>1 DEF Pushes
    <3>3. \A k \in Node : Kind[k] = "service" => k <= row.data.ctx
      BY <3>1, MarkerPlace, NoServiceBehind
    <3> QED
      BY <2>0, <3>1, <3>2, <3>3 DEF ServiceInv, HasRow
  <2>3. ASSUME NEW d \in RowData, Writes(w, d) PROVE ServiceInv'
    <3>0. row'.data = d /\ HasRow' /\ pushed' = pushed /\ d.ctx \in Nat
      BY <2>3, FlowConstants DEF Writes, RowData
    <3>1. decided # {} \/ pushed # {} => row.data.ctx <= d.ctx
      BY <2>3, RowAdvances DEF ProgressInv
    <3>2. decided # {} \/ pushed # {} => \A k \in Node : Kind[k] = "service" => k <= d.ctx
      BY <1>0, <3>0, <3>1 DEF ServiceInv
    <3>3. ASSUME d.dp PROVE decided \cup pushed = {}
      <4>1. wk[w].pc = "suspend" /\ d = PendingRef(wk[w].c, token[w])
        <5>1. wk[w].pc = "startPersist" => ~wk[w].d.dp
          BY <2>0 DEF Placed
        <5>2. wk[w].pc = "clear" => ~[wk[w].d EXCEPT !.dp = FALSE].dp
          BY WorkerFacts DEF RowData
        <5> QED
          BY <2>3, <3>3, <5>1, <5>2 DEF Writes
      <4>2. d.ctx = wk[w].c /\ Kind[wk[w].c] = "service"
        BY <3>3, <4>1 DEF PendingRef
      <4>3. row.data.ctx < wk[w].c
        BY <2>0, <4>1 DEF Placed
      <4>4. wk[w].c \in Node
        <5>1. wk[w].c \in 0 .. LastNode /\ wk[w].c # 0
          BY <4>1, WorkerFacts DEF Sane
        <5> QED
          BY <5>1, FlowConstants
      <4> QED
        BY <1>0, <4>2, <4>3, <4>4 DEF ServiceInv
    <3> QED
      BY <2>0, <3>0, <3>2, <3>3 DEF ServiceInv
  <2>4. pushed' = pushed \/ Pushes(w)
    BY <1>1, CalmStep DEF Moves, Looks, Drives, Acquires, Yields, Dies, Writes
  <2>5. CASE row' = row
    BY <2>1, <2>2, <2>4, <2>5
  <2> QED
    BY <1>1, <2>3, <2>5, RowWritten
<1>2. CASE Outside
  <2>0. UNCHANGED <<row, pushed>>
    BY <1>2, CalmOutside
  <2>1. CASE decided' = decided
    BY <2>0, <2>1 DEF ServiceInv, HasRow
  <2>2. ASSUME NEW s \in subs, row.data.ctx \in {0, s[2]}, Kind[s[2]] = "service" => s[1] \in pushed,
               decided' = decided \cup {s[1]}
        PROVE  ServiceInv'
    <3>1. s[2] \in Node /\ Kind[s[2]] \in {"service", "event"}
      <4>1. s[2] \in Node
        BY DEF FlowInv, WorldTyped
      <4> QED
        BY <4>1, FlowConstants DEF ProgressInv
    <3>2. Progress
      BY <2>2, <3>1 DEF ProgressInv
    <3>3. row.data.ctx = s[2]
      BY <2>2, <3>2 DEF Progress
    <3>4. \A k \in Node : Kind[k] = "service" => k <= row.data.ctx
      BY <3>1, <3>3, NoServiceBehind
    <3>5. HasRow /\ row.data.dp => s[1] \in {row.data.sub}
      BY <2>2, <3>3, MarkerPlace DEF ServiceInv
    <3> QED
      BY <2>0, <2>2, <3>4, <3>5 DEF ServiceInv, HasRow
  <2> QED
    BY <1>2, <2>1, <2>2, CalmOutside
<1>3. CASE UNCHANGED vars
  BY <1>3 DEF vars, flowVars, worldVars, storeVars, redisVars, ServiceInv, HasRow
<1> QED
  BY <1>1, <1>2, <1>3 DEF FlowNext, AnyStep

(* When all is quiet no message is left, so the row has no marker. *)
LEMMA DispatchKept ==
    ASSUME FlowInv, DeliveryInv, CarrierInv, ServiceInv
    PROVE  NoForgottenDispatch
<1> SUFFICES ASSUME Quiet, HasRow, row.data.dp PROVE FALSE
  BY DEF NoForgottenDispatch
<1>1. CASE decided = {}
  BY <1>1, FlowConstants DEF CarrierInv, CarriedInv, Quiet
<1>2. CASE decided # {}
  <2>1. row.data.sub \in decided
    BY <1>2 DEF ServiceInv
  <2>2. Pending(row.data.sub)
    BY DEF CarrierInv, RowInv, Pending
  <2>3. PICK m \in Msg : Carries(m, row.data.sub)
    BY <2>1, <2>2 DEF DeliveryInv, DecisionInv
  <2> QED
    BY <2>3 DEF Carries, Quiet
<1> QED
  BY <1>1, <1>2

(* No service is left without its task when everything has come to rest    *)
(* (_compensate_suspend_dispatch, the redelivery after a failed push),     *)
(* under the same conditions and if no service comes after an event or     *)
(* another service: NoForgottenDispatch.                                   *)
THEOREM FlowNoForgottenDispatch ==
    ASSUME Steady, CrashesOnly, SavedBeforeEvents, ServiceFirst, ClaimIdleExceedsLease
    PROVE  FlowSpec => []NoForgottenDispatch
<1>1. FlowInit => FlowInv /\ DeliveryInv /\ CarrierInv /\ ServiceInv
  <2>1. FlowInit => ServiceInv
    BY DEF FlowInit, StoreInit, NoRow, HasRow, ServiceInv
  <2> QED
    BY <2>1, FlowInitKeeps, DeliveryInit, CarrierInit
<1>2. FlowInv /\ DeliveryInv /\ CarrierInv /\ ServiceInv /\ [FlowNext]_vars
        => (FlowInv /\ DeliveryInv /\ CarrierInv /\ ServiceInv)'
  <2>1. FlowInv /\ DeliveryInv /\ CarrierInv /\ ServiceInv /\ [FlowNext]_vars => ServiceInv'
    BY ServiceNext DEF DeliveryInv, CarrierInv
  <2> QED
    BY <2>1, FlowNextKeeps, DeliveryNext, CarrierNext
<1>3. FlowInv /\ DeliveryInv /\ CarrierInv /\ ServiceInv => NoForgottenDispatch
  BY DispatchKept
<1> QED
  BY <1>1, <1>2, <1>3, PTL DEF FlowSpec
=============================================================================
