------------------------- MODULE FlowWorker_proofs -------------------------
(***************************************************************************)
(* What holds of one execution and its workers for any number of workers,  *)
(* any chain of nodes, any retry and delivery budget and any number of     *)
(* crashes, stalls, failures and requests.                                 *)
(*                                                                         *)
(* First FlowInv, what every worker has in memory at every label, and that *)
(* the workers' store is the fenced store.  Then what a worker may do: a   *)
(* cancel stops every worker after the node it runs, the marker of a       *)
(* suspension is cleared only after its dispatch, the holder of the lease  *)
(* repeats no completed node, and a final row stays final.  Each of these  *)
(* has an invariant of its own beside FlowInv.                             *)
(***************************************************************************)
EXTENDS FlowWorker, FencedStore_proofs

(* Where a worker acts under a lease it acquired. *)
TokenPC ==
    {"startPersist", "compCheck", "push", "clear", "recheck", "wake", "run", "top",
     "step", "suspend", "end", "cancel", "failed", "error"}

(* Where start_flow has the row of a first start in memory. *)
FreshPC == {"startCancel", "startAcquire", "startPersist", "startFail", "startAborted"}

(* Where a worker has in memory a row that it may write. *)
LoadedPC ==
    FreshPC \cup {"acquire", "push", "clear", "recheck", "wake", "run", "top", "step",
                  "suspend", "end", "cancel", "failed", "error", "dlqLease", "dlqTomb", "dlqWrite"}

(* A row that is not over, or may be woken up, has a node left to run; one *)
(* that waits, waits at a node that suspends and for a subscription.       *)
Sound(d) ==
    /\ d.status \in {"running", "suspended", "error"} => d.ctx < LastNode
    /\ d.status = "suspended" => d.ctx # 0 /\ Kind[d.ctx] # "task" /\ d.sub # 0

(* What a worker at r.pc has in memory, with g its fence token. *)
Sane(r, g) ==
    /\ r.pc # "idle" => r.msg \in Msg
    /\ r.pc \in TokenPC => g # 0
    /\ r.pc \notin {"end", "finish"} => r.c < LastNode
    /\ r.pc \in LoadedPC => Sound(r.d)
    /\ r.pc \in FreshPC \/ (r.pc \in {"run", "failed"} /\ r.initial /\ r.path = "start")
         => r.d.status = "running" /\ r.d.ctx = 0
    /\ r.pc \in {"start", "guard", "acquire", "recheck", "wake"} => r.path = "resume"
    /\ r.pc \in {"top", "step"} => ~r.initial
    /\ r.pc = "suspend" => r.c # 0 /\ Kind[r.c] # "task"
    /\ r.pc \in {"push", "clear"} => r.d.status = "suspended"
    /\ r.pc = "wake" => r.d.status = "error" /\ r.d.ctx = r.c
    /\ r.pc = "dlqWrite" => r.d.status = "error"

(* The types of everything but the workers. *)
WorldTyped ==
    /\ msgs \in [Msg -> Message]
    /\ cancelFlag \in BOOLEAN
    /\ tries \in [Node -> Nat] /\ wakeups \in 0 .. MaxWakeups /\ nextTok \in 0 .. MaxTok
    /\ ctl \in [st : {"none", "cancel", "signal", "delete", "sweep"}, d : RowData]
    /\ subs \subseteq (1 .. MaxGen) \X Node
    /\ pushed \subseteq 1 .. MaxGen /\ decided \subseteq 1 .. MaxGen
    /\ budget \in [Fault -> Nat]
    /\ ran \subseteq Node \X (0 .. MaxTok) /\ late \in [Worker -> Nat]

WorkersSane == \A w \in Worker : Sane(wk[w], token[w])

RowSound == HasRow => Sound(row.data)

(* A worker about to wake the row up, and not overtaken, has one wake-up   *)
(* left to count.                                                          *)
WakeupsLeft ==
    \A w \in Worker : wk[w].pc = "wake" /\ token[w] = fencegen => wakeups < MaxWakeups

(* The inductive invariant. *)
FlowInv ==
    /\ StoreInv /\ fencegen <= MaxGen
    /\ WorldTyped /\ wk \in [Worker -> WorkerState]
    /\ RowSound /\ WorkersSane /\ WakeupsLeft

-----------------------------------------------------------------------------

(* What the assumptions say of the constants, spelled out. *)
LEMMA FlowConstants ==
    /\ LastNode \in Nat \ {0} /\ Node = 1 .. LastNode /\ LastNode \in Node
    /\ \A k \in Node : Kind[k] \in {"task", "service", "event"}
    /\ \A k \in Node : Kind[k] # "task" => k < LastNode
    /\ MaxTok \in Nat /\ MaxGen \in Nat /\ MaxDeliveries \in Nat \ {0, 1}
    /\ MaxMsg \in Nat /\ 1 \in Msg /\ MaxWakeups \in Nat /\ RetryBudget \in Nat
    /\ Content = RowData /\ NoSession \notin Session
BY FlowAssumption, StoreAssumption DEF LastNode, Node, Msg

(* The starting values lie in their ranges. *)
LEMMA Zeros ==
    /\ 0 \in 0 .. LastNode /\ 1 \in 0 .. LastNode /\ 0 \in 0 .. MaxTok
    /\ 0 \in 0 .. MaxGen /\ 0 \in 0 .. MaxDeliveries
BY FlowConstants

(* The arbitrary row content is row data. *)
LEMMA SomeContentType == SomeContent \in RowData
BY FlowAssumption, StoreAssumption DEF SomeContent

(* A worker without a message is sane under any token. *)
LEMMA IdleType == Idle \in WorkerState /\ \A g : Sane(Idle, g)
<1>1. Idle \in WorkerState
  BY SomeContentType, FlowConstants DEF Idle, WorkerState, PC, MsgType, NoMsg
<1>2. \A g : Sane(Idle, g)
  BY FlowConstants DEF Idle, Sane, TokenPC, LoadedPC, FreshPC
<1> QED
  BY <1>1, <1>2

(* What a step of worker w does to the store leaves the tokens of the      *)
(* others alone and never takes a generation back.                         *)
OwnStep(w) ==
    /\ [StoreNext]_storeVars
    /\ \A v \in Worker \ {w} : token'[v] = token[v]
    /\ fencegen' >= fencegen /\ fencegen' <= MaxGen

(* A step that leaves the store alone is a step the invariant allows. *)
LEMMA StoreUnchanged ==
    ASSUME FlowInv, NEW w \in Worker, UNCHANGED storeVars
    PROVE  OwnStep(w) /\ UNCHANGED <<row, token, tombstone>> /\ RowSound'
BY DEF FlowInv, StoreInv, TypeOK, OwnStep, storeVars, redisVars, RowSound, HasRow

(* Loading the row leaves its content and the token alone. *)
LEMMA RowLoaded ==
    ASSUME FlowInv, NEW w \in Worker, LoadRow
    PROVE  OwnStep(w) /\ UNCHANGED <<row, token, tombstone>> /\ RowSound'
<1>1. CASE HasRow
  <2>1. Load
    BY <1>1 DEF LoadRow
  <2>2. [StoreNext]_storeVars
    BY <2>1 DEF StoreNext
  <2>3. UNCHANGED <<row, token, tombstone, fencegen>>
    BY <2>1 DEF Load
  <2> QED
    BY <2>2, <2>3 DEF FlowInv, StoreInv, TypeOK, OwnStep, RowSound, HasRow
<1>2. CASE ~HasRow
  BY <1>2, StoreUnchanged DEF LoadRow
<1> QED
  BY <1>1, <1>2

(* Acquiring the lease leaves the row alone and gives the worker a token. *)
LEMMA LeaseAcquired ==
    ASSUME FlowInv, NEW w \in Worker, TryAcquireFenced(w)
    PROVE  OwnStep(w) /\ UNCHANGED <<row, tombstone>> /\ RowSound' /\ token'[w] # 0
<1>1. [StoreNext]_storeVars
  BY DEF StoreNext, Worker
<1>2. NextGeneration \in Nat \ {0} /\ NextGeneration > fencegen
  BY NextGenerationExceeds DEF FlowInv, StoreInv, TypeOK
<1>3. fencegen' >= fencegen /\ fencegen' <= MaxGen
  BY <1>2, FlowConstants DEF TryAcquireFenced, FlowInv, StoreInv, TypeOK
<1>4. token'[w] # 0 /\ \A v \in Worker \ {w} : token'[v] = token[v]
  BY <1>2 DEF TryAcquireFenced, FlowInv, StoreInv, TypeOK, Worker
<1>5. UNCHANGED <<row, tombstone>>
  BY DEF TryAcquireFenced
<1>6. RowSound'
  BY <1>5 DEF FlowInv, RowSound, HasRow
<1> QED
  BY <1>1, <1>3, <1>4, <1>5, <1>6 DEF OwnStep

(* Releasing the lease or crashing leaves the row alone and ends the token. *)
LEMMA SessionEnded ==
    ASSUME FlowInv, NEW w \in Worker, Release(w) \/ Crash(w)
    PROVE  OwnStep(w) /\ UNCHANGED <<row, tombstone>> /\ RowSound' /\ token'[w] = 0
<1>1. [StoreNext]_storeVars
  BY DEF StoreNext, Worker
<1>2. token' = [token EXCEPT ![w] = 0] /\ UNCHANGED <<row, tombstone, fencegen>>
  BY DEF Release, Crash, redisVars
<1>3. token'[w] = 0 /\ \A v \in Worker \ {w} : token'[v] = token[v]
  BY <1>2 DEF FlowInv, StoreInv, TypeOK, Worker
<1> QED
  BY <1>1, <1>2, <1>3 DEF FlowInv, StoreInv, TypeOK, OwnStep, RowSound, HasRow

(* Saving sound data by any of the three writers leaves a sound row. *)
LEMMA RowSaved ==
    ASSUME FlowInv, NEW w \in Worker, NEW d \in RowData, Sound(d),
           FencedSave(w, d) \/ PlainSave(d) \/ ConsoleSave(d)
    PROVE  OwnStep(w) /\ UNCHANGED <<token, fencegen>> /\ RowSound' /\ row'.data = d
<1>1. [StoreNext]_storeVars
  BY FlowConstants DEF StoreNext, Worker
<1>2. UNCHANGED <<token, fencegen>> /\ row'.data = d
  BY DEF FencedSave, PlainSave, ConsoleSave
<1> QED
  BY <1>1, <1>2 DEF FlowInv, StoreInv, TypeOK, OwnStep, RowSound, HasRow

(* What a worker's step leaves alone keeps its type. *)
LEMMA WorldUnchanged ==
    ASSUME FlowInv,
           UNCHANGED <<msgs, cancelFlag, counterVars, ctl, worldVars, budget, flowHistory>>
    PROVE  WorldTyped' /\ wakeups' = wakeups
BY DEF FlowInv, WorldTyped, counterVars, worldVars, flowHistory

-----------------------------------------------------------------------------
(* A worker's own step, whatever it does to the store. *)
LEMMA WorkerStep ==
    ASSUME FlowInv, NEW w \in Worker, NEW r \in WorkerState, OwnStep(w),
           wk' = [wk EXCEPT ![w] = r], Sane(r, token'[w]),
           r.pc = "wake" => wakeups < MaxWakeups,
           wakeups' = wakeups, RowSound', WorldTyped'
    PROVE  FlowInv'
<1>1. StoreInv' /\ fencegen' <= MaxGen
  BY NextKeepsInv DEF FlowInv, OwnStep
<1>2. wk' \in [Worker -> WorkerState] /\ \A v \in Worker : wk'[v] = IF v = w THEN r ELSE wk[v]
  BY DEF FlowInv
<1>3. WorkersSane'
  BY <1>2 DEF FlowInv, WorkersSane, OwnStep
<1>4. WakeupsLeft'
  <2> SUFFICES ASSUME NEW v \in Worker, wk'[v].pc = "wake", token'[v] = fencegen'
               PROVE  wakeups' < MaxWakeups
    BY DEF WakeupsLeft
  <2>1. CASE v = w
    BY <1>2, <2>1
  <2>2. CASE v # w
    <3>1. wk[v].pc = "wake" /\ token[v] = fencegen' /\ fencegen' >= fencegen
      BY <1>2, <2>2 DEF OwnStep
    <3>2. token[v] <= fencegen /\ token[v] \in Nat /\ fencegen \in Nat /\ fencegen' \in Nat
      BY <1>1 DEF FlowInv, StoreInv, TokensGranted, TypeOK, Worker
    <3> QED
      BY <3>1, <3>2 DEF FlowInv, WakeupsLeft
  <2> QED
    BY <2>1, <2>2
<1> QED
  BY <1>1, <1>2, <1>3, <1>4 DEF FlowInv

(* A step of a worker to another label keeps the invariant. *)
LEMMA GotoStep ==
    ASSUME FlowInv, NEW w \in Worker, NEW p \in PC \ {"wake"}, OwnStep(w), Goto(w, p),
           Sane([wk[w] EXCEPT !.pc = p], token'[w]),
           wakeups' = wakeups, RowSound', WorldTyped'
    PROVE  FlowInv'
<1> DEFINE r == [wk[w] EXCEPT !.pc = p]
<1>1. r \in WorkerState /\ r.pc = p
  BY DEF FlowInv, WorkerState
<1>2. wk' = [wk EXCEPT ![w] = r]
  BY DEF Goto
<1> QED
  BY <1>1, <1>2, WorkerStep

(* A worker that is done with its message keeps the invariant. *)
LEMMA LeaveStep ==
    ASSUME FlowInv, NEW w \in Worker, NEW a \in BOOLEAN, OwnStep(w), Leave(w, a),
           wk[w].pc # "idle", wakeups' = wakeups, RowSound', WorldTyped'
    PROVE  FlowInv'
<1> DEFINE r == [wk[w] EXCEPT !.pc = "finish", !.ack = a]
<1>0. wk[w] \in WorkerState /\ wk[w].msg \in Msg
  BY DEF FlowInv, WorkersSane, Sane
<1>1. r \in WorkerState /\ r.pc = "finish" /\ r.msg = wk[w].msg
  BY <1>0 DEF WorkerState, PC
<1>2. wk' = [wk EXCEPT ![w] = r]
  BY DEF Leave, FlowInv
<1>3. Sane(r, token'[w])
  BY <1>0, <1>1 DEF Sane, TokenPC, LoadedPC, FreshPC
<1> HIDE DEF r
<1> QED
  BY <1>1, <1>2, <1>3, WorkerStep

(* A worker that learns its lease is gone keeps the invariant. *)
LEMMA LeaseErrorStep ==
    ASSUME FlowInv, NEW w \in Worker, OwnStep(w), LeaseError(w),
           wk[w].pc # "idle", wakeups' = wakeups, RowSound', WorldTyped'
    PROVE  FlowInv'
BY LeaveStep DEF LeaseError, LeaseConflictAckSafe

(* Persisting sound data, accepted or refused, keeps the invariant. *)
LEMMA PersistStep ==
    ASSUME FlowInv, NEW w \in Worker, NEW d \in RowData, Sound(d), NEW p \in PC \ {"wake"},
           Persist(w, d, p), wk[w].pc # "idle",
           Sane([wk[w] EXCEPT !.pc = p, !.d = d, !.ack = TRUE], token[w]),
           wakeups' = wakeups, WorldTyped'
    PROVE  FlowInv' /\ OwnStep(w)
<1> DEFINE r == [wk[w] EXCEPT !.pc = p, !.d = d, !.ack = TRUE]
<1>1. r \in WorkerState /\ r.pc = p
  BY DEF FlowInv, WorkerState
<1>2. ASSUME FencedSave(w, d), wk' = [wk EXCEPT ![w].pc = p, ![w].d = d, ![w].ack = TRUE]
      PROVE  FlowInv' /\ OwnStep(w)
  <2>1. wk' = [wk EXCEPT ![w] = r]
    BY <1>2 DEF FlowInv
  <2>2. OwnStep(w) /\ RowSound' /\ token' = token
    BY <1>2, RowSaved
  <2> HIDE DEF r
  <2> QED
    BY <1>1, <2>1, <2>2, WorkerStep DEF r
<1>3. ASSUME LeaseError(w), UNCHANGED storeVars
      PROVE  FlowInv' /\ OwnStep(w)
  BY <1>3, StoreUnchanged, LeaseErrorStep
<1> QED
  BY <1>2, <1>3 DEF Persist

(* Enqueueing and acknowledging make queues of messages. *)
LEMMA MessageTypes ==
    ASSUME FlowInv
    PROVE  /\ \A t \in MsgType, sub \in 0 .. MaxGen : Enqueued(t, sub) \in [Msg -> Message]
           /\ \A m \in Msg : Acked(msgs, m) \in [Msg -> Message]
           /\ \A m \in Msg : msgs[m].type \in MsgType /\ msgs[m].sub \in 0 .. MaxGen
<1>0. 0 \in 0 .. MaxDeliveries
  BY Zeros
<1>1. ASSUME NEW t \in MsgType, NEW sub \in 0 .. MaxGen PROVE Queued(t, sub) \in Message
  <2>1. [FreeMsg EXCEPT !.type = t]
           = [type |-> t, sub |-> 0, st |-> "free", by |-> NoSession, n |-> 0]
    BY DEF FreeMsg
  <2>2. [FreeMsg EXCEPT !.type = t, !.sub = sub] \in Message
    BY <1>0, <2>1 DEF Message
  <2> QED
    BY <2>2 DEF Queued, Message
<1>2. msgs \in [Msg -> Message]
  BY DEF FlowInv, WorldTyped
<1>3. ASSUME NEW t \in MsgType, NEW sub \in 0 .. MaxGen
      PROVE  Enqueued(t, sub) \in [Msg -> Message]
  BY <1>1, <1>2 DEF Enqueued
<1>4. ASSUME NEW m \in Msg PROVE Acked(msgs, m) \in [Msg -> Message]
  <2>1. [msgs[m] EXCEPT !.st = "gone", !.by = NoSession, !.n = 0] \in Message
    BY <1>0, <1>2 DEF Message
  <2>2. Acked(msgs, m) = [msgs EXCEPT ![m] = [msgs[m] EXCEPT !.st = "gone", !.by = NoSession, !.n = 0]]
    BY <1>2 DEF Acked
  <2> QED
    BY <1>2, <2>1, <2>2
<1> QED
  BY <1>2, <1>3, <1>4 DEF Message

(* A step that changes only the queue and the worker keeps the types of    *)
(* the rest.                                                               *)
LEMMA QueueChanged ==
    ASSUME FlowInv, msgs' \in [Msg -> Message],
           UNCHANGED <<cancelFlag, counterVars, ctl, worldVars, flowHistory>>,
           budget' \in [Fault -> Nat]
    PROVE  WorldTyped' /\ wakeups' = wakeups
BY DEF FlowInv, WorldTyped, counterVars, worldVars, flowHistory

(* Spending from a fault budget leaves naturals. *)
LEMMA SpendType ==
    ASSUME FlowInv, NEW f \in Fault, Spend(f)
    PROVE  budget' \in [Fault -> Nat]
BY DEF FlowInv, WorldTyped, Spend

(* Handing a message to a worker keeps the invariant. *)
LEMMA DispatchStep ==
    ASSUME FlowInv, NEW w \in Worker, NEW m \in Msg, NEW n \in 1 .. MaxDeliveries,
           Dispatch(w, m, n), UNCHANGED storeVars, budget' \in [Fault -> Nat],
           UNCHANGED <<cancelFlag, counterVars, ctl, worldVars, flowHistory>>
    PROVE  FlowInv' /\ OwnStep(w)
<1>0. OwnStep(w) /\ token' = token /\ RowSound'
  BY StoreUnchanged
<1>1. CASE tombstone
  <2>1. wk' = [wk EXCEPT ![w] = wk[w]] /\ msgs' = Acked(msgs, m)
    BY <1>1 DEF Dispatch, FlowInv
  <2>2. WorldTyped' /\ wakeups' = wakeups
    BY <2>1, MessageTypes, QueueChanged
  <2>3. wk[w] \in WorkerState /\ Sane(wk[w], token'[w])
    BY <1>0 DEF FlowInv, WorkersSane
  <2>4. CASE wk[w].pc # "wake"
    BY <1>0, <2>1, <2>2, <2>3, <2>4, WorkerStep
  <2>5. CASE wk[w].pc = "wake"
    <3>1. wk' = wk
      BY <1>1 DEF Dispatch
    <3>2. UNCHANGED <<fencegen, row>>
      BY DEF storeVars, redisVars
    <3> QED
      BY <1>0, <2>2, <3>1, <3>2, NextKeepsInv
         DEF FlowInv, OwnStep, WorkersSane, WakeupsLeft
  <2> QED
    BY <1>0, <2>4, <2>5
<1>2. CASE ~tombstone
  <2> DEFINE r == [Idle EXCEPT !.pc = IF msgs[m].type = "start" THEN "start" ELSE "guard",
                               !.msg = m, !.type = msgs[m].type]
  <2>1. wk' = [wk EXCEPT ![w] = r]
    BY <1>2 DEF Dispatch
  <2>2. r \in WorkerState /\ r.pc \in {"start", "guard"} /\ r.msg = m /\ r.c = 0 /\ r.path = "resume"
    BY IdleType, MessageTypes DEF WorkerState, PC, Idle
  <2>3. Sane(r, token'[w])
    BY <2>2, FlowConstants DEF Sane, TokenPC, LoadedPC, FreshPC
  <2>4. [msgs[m] EXCEPT !.st = "pending", !.by = w, !.n = n] \in Message
    <3>1. msgs[m] \in Message /\ n \in 0 .. MaxDeliveries
      BY FlowConstants DEF FlowInv, WorldTyped
    <3> QED
      BY <3>1 DEF Message
  <2>5. msgs' = [msgs EXCEPT ![m] = [msgs[m] EXCEPT !.st = "pending", !.by = w, !.n = n]]
    BY <1>2 DEF Dispatch, FlowInv, WorldTyped
  <2>6. WorldTyped' /\ wakeups' = wakeups
    BY <2>4, <2>5, QueueChanged DEF FlowInv, WorldTyped
  <2> HIDE DEF r
  <2> QED
    BY <1>0, <2>1, <2>2, <2>3, <2>6, WorkerStep
<1> QED
  BY <1>1, <1>2

(* The steps of the task queue keep the invariant. *)
LEMMA QueueStepKeeps ==
    ASSUME FlowInv, NEW w \in Worker, QueueStep(w)
    PROVE  FlowInv' /\ OwnStep(w)
<1>1. CASE Take(w)
  <2>1. 1 \in 1 .. MaxDeliveries
    BY FlowConstants
  <2>2. budget' \in [Fault -> Nat]
    BY <1>1 DEF Take, FlowInv, WorldTyped
  <2> QED
    BY <1>1, <2>1, <2>2, DispatchStep DEF Take
<1>2. CASE Reclaim(w)
  <2> PICK m \in Msg :
          /\ IF Attended(m) THEN Spend("stall") ELSE UNCHANGED budget
          /\ IF msgs[m].n >= MaxDeliveries
               THEN /\ wk' = [wk EXCEPT ![w] = [Idle EXCEPT !.pc = "dlq", !.msg = m]]
                    /\ msgs' = [msgs EXCEPT ![m].by = w]
               ELSE Dispatch(w, m, msgs[m].n + 1)
    BY <1>2 DEF Reclaim
  <2>0. UNCHANGED <<storeVars, cancelFlag, counterVars, ctl, worldVars, flowHistory>>
    BY <1>2 DEF Reclaim
  <2>1. budget' \in [Fault -> Nat]
    BY SpendType DEF FlowInv, WorldTyped, Fault
  <2>2. msgs[m] \in Message /\ msgs[m].n \in 0 .. MaxDeliveries
    BY DEF FlowInv, WorldTyped, Message
  <2>3. CASE msgs[m].n >= MaxDeliveries
    <3> DEFINE r == [Idle EXCEPT !.pc = "dlq", !.msg = m]
    <3>1. r \in WorkerState /\ r.pc = "dlq" /\ r.msg = m /\ r.c = 0
      BY IdleType DEF WorkerState, PC, Idle
    <3>2. Sane(r, token'[w])
      BY <3>1, FlowConstants DEF Sane, TokenPC, LoadedPC, FreshPC
    <3>3. [msgs[m] EXCEPT !.by = w] \in Message
      BY <2>2 DEF Message
    <3>4. WorldTyped' /\ wakeups' = wakeups
      BY <2>0, <2>1, <2>3, <3>3, QueueChanged DEF FlowInv, WorldTyped
    <3>5. wk' = [wk EXCEPT ![w] = r]
      BY <2>3
    <3> HIDE DEF r
    <3> QED
      BY <2>0, <3>1, <3>2, <3>4, <3>5, StoreUnchanged, WorkerStep
  <2>4. CASE ~(msgs[m].n >= MaxDeliveries)
    <3>1. msgs[m].n + 1 \in 1 .. MaxDeliveries
      BY <2>2, <2>4, FlowConstants
    <3> QED
      BY <2>0, <2>1, <2>4, <3>1, DispatchStep
  <2> QED
    BY <2>3, <2>4
<1>3. CASE DeadLetterGuard(w)
  <2>0. /\ OwnStep(w) /\ UNCHANGED <<row, token>> /\ RowSound' /\ wk[w].pc = "dlq"
        /\ UNCHANGED <<msgs, cancelFlag, counterVars, ctl, worldVars, budget, flowHistory>>
    BY <1>3, RowLoaded DEF DeadLetterGuard
  <2>1. wk[w] \in WorkerState /\ wk[w].msg \in Msg /\ wk[w].c < LastNode
    BY <2>0 DEF FlowInv, WorkersSane, Sane
  <2>2. ASSUME Leave(w, TRUE) PROVE FlowInv'
    BY <2>0, <2>2, WorldUnchanged, LeaveStep
  <2>3. ASSUME HasRow, NEW x, x = (row.data.status = "running" /\ RetriesExhausted),
               wk' = [wk EXCEPT ![w].pc = "dlqLease",
                                ![w].d = IF x THEN Terminated(row.data, "error") ELSE row.data]
        PROVE  FlowInv'
    <3> DEFINE d == IF x THEN Terminated(row.data, "error") ELSE row.data
               r == [wk[w] EXCEPT !.pc = "dlqLease", !.d = d]
    <3>1. row.data \in RowData /\ Sound(row.data)
      BY <2>3, FlowConstants DEF FlowInv, RowSound, StoreInv, TypeOK, Row
    <3>2. d \in RowData /\ Sound(d)
      BY <2>3, <3>1 DEF Terminated, RowData, Sound, Status
    <3> HIDE DEF d
    <3>3. /\ r \in WorkerState /\ r.pc = "dlqLease" /\ r.d = d
          /\ r.c = wk[w].c /\ r.msg = wk[w].msg
      BY <2>1, <3>2 DEF WorkerState, PC
    <3>4. wk' = [wk EXCEPT ![w] = r]
      BY <2>3 DEF d, FlowInv
    <3>5. Sane(r, token'[w])
      BY <2>1, <3>2, <3>3 DEF Sane, TokenPC, FreshPC
    <3> HIDE DEF r
    <3> QED
      BY <2>0, <3>3, <3>4, <3>5, WorldUnchanged, WorkerStep
  <2> QED
    BY <1>3, <2>0, <2>2, <2>3 DEF DeadLetterGuard
<1>a. ASSUME wk[w].pc \in {"dlqLease", "dlqTomb"}, UNCHANGED storeVars,
             UNCHANGED <<msgs, cancelFlag, counterVars, ctl, worldVars, budget, flowHistory>>,
             NEW pc \in {"dlqTomb", "dlqWrite"}, pc = "dlqWrite" => wk[w].d.status = "error",
             wk' = [wk EXCEPT ![w].pc = pc]
      PROVE  FlowInv' /\ OwnStep(w)
  <2> DEFINE r == [wk[w] EXCEPT !.pc = pc]
  <2>1. wk[w] \in WorkerState /\ wk[w].msg \in Msg /\ wk[w].c < LastNode /\ Sound(wk[w].d)
    BY <1>a DEF FlowInv, WorkersSane, Sane, LoadedPC
  <2>2. r \in WorkerState /\ r.pc = pc /\ r.d = wk[w].d /\ r.c = wk[w].c /\ r.msg = wk[w].msg
    BY <2>1 DEF WorkerState, PC
  <2>3. Sane(r, token'[w])
    BY <1>a, <2>1, <2>2 DEF Sane, TokenPC, FreshPC
  <2>4. wk' = [wk EXCEPT ![w] = r]
    BY <1>a DEF FlowInv
  <2> HIDE DEF r
  <2> QED
    BY <1>a, <2>2, <2>3, <2>4, StoreUnchanged, WorldUnchanged, WorkerStep
<1>b. CASE DeadLetterProbe(w)
  <2>1. ASSUME Leave(w, FALSE) PROVE FlowInv' /\ OwnStep(w)
    BY <1>b, <2>1, StoreUnchanged, WorldUnchanged, LeaveStep DEF DeadLetterProbe
  <2> QED
    BY <1>a, <1>b, <2>1 DEF DeadLetterProbe
<1>c. CASE DeadLetterVerdict(w)
  <2>0. /\ wk[w].pc = "dlqTomb" /\ UNCHANGED storeVars
        /\ UNCHANGED <<cancelFlag, counterVars, ctl, worldVars, budget, flowHistory>>
    BY <1>c DEF DeadLetterVerdict
  <2>1. wk[w].msg \in Msg /\ budget' \in [Fault -> Nat] /\ msgs \in [Msg -> Message]
    BY <2>0 DEF FlowInv, WorldTyped, WorkersSane, Sane
  <2>2. ASSUME Leave(w, TRUE), UNCHANGED msgs PROVE FlowInv' /\ OwnStep(w)
    BY <2>0, <2>1, <2>2, StoreUnchanged, QueueChanged, LeaveStep
  <2>3. ASSUME Leave(w, TRUE), msgs' = Enqueued(msgs[wk[w].msg].type, msgs[wk[w].msg].sub)
        PROVE  FlowInv' /\ OwnStep(w)
    BY <2>0, <2>1, <2>3, StoreUnchanged, MessageTypes, QueueChanged, LeaveStep
  <2> QED
    BY <1>a, <1>c, <2>0, <2>2, <2>3 DEF DeadLetterVerdict
<1>4. CASE DeadLetterWrite(w)
  <2>1. wk[w].d \in RowData /\ Sound(wk[w].d)
    BY <1>4 DEF DeadLetterWrite, FlowInv, WorkersSane, Sane, LoadedPC, WorkerState
  <2>2. OwnStep(w) /\ RowSound'
    BY <1>4, <2>1, RowSaved DEF DeadLetterWrite
  <2> QED
    BY <1>4, <2>2, WorldUnchanged, LeaveStep DEF DeadLetterWrite
<1>5. CASE Finish(w)
  <2>1. OwnStep(w) /\ RowSound'
    BY <1>5, SessionEnded, StoreUnchanged DEF Finish
  <2>2. wk[w].msg \in Msg
    BY <1>5 DEF Finish, FlowInv, WorkersSane, Sane
  <2>3. msgs' \in [Msg -> Message] /\ budget' \in [Fault -> Nat]
    BY <1>5, <2>2, MessageTypes DEF Finish, FlowInv, WorldTyped
  <2>4. WorldTyped' /\ wakeups' = wakeups
    BY <1>5, <2>3, QueueChanged DEF Finish
  <2>5. wk' = [wk EXCEPT ![w] = Idle]
    BY <1>5 DEF Finish
  <2>6. Idle.pc = "idle"
    BY DEF Idle
  <2> QED
    BY <2>1, <2>4, <2>5, <2>6, IdleType, WorkerStep
<1> QED
  BY <1>1, <1>2, <1>3, <1>b, <1>c, <1>4, <1>5 DEF QueueStep

(* Some labels of workers, and the type of a message that was handed on. *)
LEMMA Labels ==
    /\ \A pc \in {"guard", "acquire", "push", "run", "top", "startCancel", "startAcquire"} : pc \in PC
    /\ "continue" \in MsgType
BY DEF PC, MsgType

(* What a worker has in memory, for the steps below. *)
LEMMA WorkerFacts ==
    ASSUME FlowInv, NEW w \in Worker
    PROVE  /\ wk[w] \in WorkerState /\ wk[w].d \in RowData /\ wk[w].c \in 0 .. LastNode
           /\ wk[w].pc \in PC /\ wk[w].type \in MsgType
           /\ Sane(wk[w], token[w]) /\ token[w] \in 0 .. MaxGen
           /\ row.data \in RowData /\ row.src \in {"none", "fenced", "plain", "console", "restored"}
<1>1. wk[w] \in WorkerState /\ Sane(wk[w], token[w])
  BY DEF FlowInv, WorkersSane
<1>2. token[w] \in 0 .. MaxGen
  BY FlowConstants DEF FlowInv, StoreInv, TypeOK, TokensGranted, Worker
<1>3. row.data \in RowData /\ row.src \in {"none", "fenced", "plain", "console", "restored"}
  BY FlowConstants DEF FlowInv, StoreInv, TypeOK, Row
<1> QED
  BY <1>1, <1>2, <1>3 DEF WorkerState

(* A terminal verdict on a sound row is sound, except for its context. *)
LEMMA TerminatedType ==
    ASSUME NEW d \in RowData, NEW s \in {"completed", "error", "cancelled"}
    PROVE  /\ Terminated(d, s) \in RowData
           /\ Terminated(d, s).status = s
           /\ Terminated(d, s).ctx = d.ctx
           /\ s # "error" => Sound(Terminated(d, s))
<1>1. /\ Terminated(d, s) \in RowData
      /\ Terminated(d, s).status = s
      /\ Terminated(d, s).ctx = d.ctx
  <2>1. CASE s = "error"
    BY <2>1 DEF Terminated, RowData, Status
  <2>2. CASE s # "error"
    BY <2>2, Zeros DEF Terminated, RowData, Status
  <2> QED
    BY <2>1, <2>2
<1> QED
  BY <1>1 DEF Sound

(* The attempt to acquire the lease, won or lost, keeps the invariant. *)
LEMMA AcquireStep ==
    ASSUME FlowInv, NEW w \in Worker, NEW p \in PC \ {"wake"}, AcquireLease(w, p),
           \A g : g # 0 => Sane([wk[w] EXCEPT !.pc = p], g),
           UNCHANGED <<msgs, cancelFlag, counterVars, ctl, worldVars, budget, flowHistory>>
    PROVE  FlowInv' /\ OwnStep(w)
BY LeaseAcquired, WorldUnchanged, GotoStep DEF AcquireLease

(* The steps of start_flow keep the invariant. *)
LEMMA StartStepKeeps ==
    ASSUME FlowInv, NEW w \in Worker, StartStep(w)
    PROVE  FlowInv' /\ OwnStep(w)
<1>1. CASE StartCheck(w)
  <2>0. OwnStep(w) /\ UNCHANGED <<row, token>> /\ RowSound' /\ wk[w].pc = "start"
    BY <1>1, RowLoaded DEF StartCheck
  <2>1. wk[w].msg \in Msg /\ wk[w].c < LastNode /\ wk[w].path = "resume"
    BY <2>0, WorkerFacts DEF Sane
  <2>2. ASSUME UNCHANGED nextTok PROVE WorldTyped' /\ wakeups' = wakeups
    BY <1>1, <2>2 DEF StartCheck, FlowInv, WorldTyped, worldVars, flowHistory
  <2>3. ASSUME Leave(w, TRUE), UNCHANGED nextTok PROVE FlowInv'
    BY <2>0, <2>2, <2>3, LeaveStep
  <2>4. ASSUME wk' = [wk EXCEPT ![w].pc = "guard", ![w].type = "continue"], UNCHANGED nextTok
        PROVE  FlowInv'
    <3> DEFINE r == [wk[w] EXCEPT !.pc = "guard", !.type = "continue"]
    <3>1. /\ r \in WorkerState /\ r.pc = "guard" /\ r.msg = wk[w].msg
          /\ r.c = wk[w].c /\ r.path = wk[w].path
      BY WorkerFacts, Labels DEF WorkerState
    <3>2. wk' = [wk EXCEPT ![w] = r]
      BY <2>4 DEF FlowInv
    <3>3. Sane(r, token'[w])
      BY <2>1, <3>1 DEF Sane, TokenPC, LoadedPC, FreshPC
    <3> HIDE DEF r
    <3> QED
      BY <2>0, <2>2, <2>4, <3>1, <3>2, <3>3, WorkerStep
  <2>5. ASSUME NEW p \in {"startCancel", "startAcquire"},
               nextTok < MaxTok, nextTok' = nextTok + 1,
               wk' = [wk EXCEPT ![w].pc = p, ![w].path = "start", ![w].d = FreshState(nextTok + 1)]
        PROVE  FlowInv'
    <3> DEFINE d == FreshState(nextTok + 1)
               r == [wk[w] EXCEPT !.pc = p, !.path = "start", !.d = d]
    <3>1. d \in RowData /\ d.status = "running" /\ d.ctx = 0
      <4>1. nextTok + 1 \in 0 .. MaxTok
        BY <2>5, FlowConstants DEF FlowInv, WorldTyped
      <4> QED
        BY <4>1, Zeros DEF FreshState, RowData, Status
    <3>2. Sound(d)
      BY <3>1, FlowConstants DEF Sound
    <3> HIDE DEF d
    <3>3. r \in WorkerState /\ r.pc = p /\ r.msg = wk[w].msg /\ r.c = wk[w].c /\ r.d = d
      BY <3>1, WorkerFacts, Labels DEF WorkerState
    <3>4. wk' = [wk EXCEPT ![w] = r]
      BY <2>5 DEF d, FlowInv
    <3>5. Sane(r, token'[w])
      BY <2>1, <3>1, <3>2, <3>3 DEF Sane, TokenPC, FreshPC
    <3>6. WorldTyped' /\ wakeups' = wakeups
      <4>1. nextTok' \in 0 .. MaxTok
        BY <2>5, FlowConstants DEF FlowInv, WorldTyped
      <4> QED
        BY <1>1, <4>1 DEF StartCheck, FlowInv, WorldTyped, worldVars, flowHistory
    <3> HIDE DEF r
    <3> QED
      BY <2>0, <3>3, <3>4, <3>5, <3>6, WorkerStep
  <2> QED
    BY <1>1, <2>0, <2>3, <2>4, <2>5 DEF StartCheck
<1>2. CASE StartCancelled(w)
  <2>1. Terminated(wk[w].d, "cancelled") \in RowData /\ Sound(Terminated(wk[w].d, "cancelled"))
    BY WorkerFacts, TerminatedType
  <2> QED
    BY <1>2, <2>1, RowSaved, WorldUnchanged, LeaveStep DEF StartCancelled
<1>3. CASE StartAcquire(w)
  <2>1. wk[w].pc = "startAcquire"
    BY <1>3 DEF StartAcquire
  <2>2. \A g : g # 0 => Sane([wk[w] EXCEPT !.pc = "startPersist"], g)
    BY <2>1, WorkerFacts DEF WorkerState, Sane, TokenPC, LoadedPC, FreshPC
  <2>3. "startPersist" \in PC \ {"wake"}
    BY DEF PC
  <2>4. CASE AcquireLease(w, "startPersist")
    BY <1>3, <2>2, <2>3, <2>4, AcquireStep DEF StartAcquire
  <2> QED
    BY <1>3, <2>1, <2>4, StoreUnchanged, WorldUnchanged, LeaseErrorStep DEF StartAcquire
<1>4. CASE StartPersist(w)
  <2>1. wk[w].pc = "startPersist" /\ wk[w].d \in RowData /\ Sound(wk[w].d)
    BY <1>4, WorkerFacts DEF StartPersist, Sane, LoadedPC, FreshPC
  <2>2. Sane([wk[w] EXCEPT !.pc = "run", !.d = wk[w].d, !.ack = TRUE], token[w])
    BY <2>1, WorkerFacts, FlowConstants DEF WorkerState, Sane, TokenPC, LoadedPC, FreshPC
  <2>3. "run" \in PC \ {"wake"}
    BY DEF PC
  <2> QED
    BY <1>4, <2>1, <2>2, <2>3, PersistStep, WorldUnchanged DEF StartPersist
<1>5. CASE StartFailed(w)
  <2> DEFINE cancelled == wk[w].pc = "startAborted" \/ cancelFlag
             d == IF cancelled THEN Terminated(wk[w].d, "cancelled") ELSE wk[w].d
  <2>1. wk[w].pc \in {"startFail", "startAborted"} /\ wk[w].d \in RowData /\ Sound(wk[w].d)
    BY <1>5, WorkerFacts DEF StartFailed, Sane, LoadedPC, FreshPC
  <2>2. d \in RowData /\ Sound(d) /\ cancelled \in BOOLEAN
    BY <2>1, TerminatedType
  <2>3. PlainSave(d) /\ Leave(w, cancelled)
    BY <1>5 DEF StartFailed
  <2> HIDE DEF d, cancelled
  <2> QED
    BY <1>5, <2>1, <2>2, <2>3, RowSaved, WorldUnchanged, LeaveStep DEF StartFailed
<1> QED
  BY <1>1, <1>2, <1>3, <1>4, <1>5 DEF StartStep

(* A message that the guard lets through meets a row with a node to run,   *)
(* and wakes an error row up only as a retry within the wake-up budget.    *)
LEMMA VerdictGo ==
    ASSUME FlowInv, NEW t \in MsgType, GuardVerdict(t) = "go"
    PROVE  /\ HasRow /\ ~tombstone /\ Sound(row.data) /\ row.data.ctx < LastNode
           /\ row.data.status \in {"running", "suspended", "error"}
           /\ row.data.status = "error" => t = "retry" /\ wakeups < MaxWakeups
<1>1. row.data.status \in Status /\ tombstone \in BOOLEAN
  BY FlowConstants DEF FlowInv, StoreInv, TypeOK, Row, RowData
<1>2. HasRow
  BY DEF GuardVerdict
<1>3. ~tombstone
  BY <1>2 DEF GuardVerdict
<1>4. ASSUME row.data.status \in TerminalStatus PROVE Wakeup(t) /\ wakeups < MaxWakeups
  <2>1. GuardVerdict(t) = IF Wakeup(t) /\ wakeups < MaxWakeups THEN "go" ELSE "drop"
    BY <1>2, <1>3, <1>4 DEF GuardVerdict, TerminalStatus
  <2> QED
    BY <2>1
<1>5. Sound(row.data)
  BY <1>2 DEF FlowInv, RowSound
<1> QED
  BY <1>1, <1>2, <1>3, <1>4, <1>5 DEF Wakeup, Status, TerminalStatus, Sound

(* The steps of resume_flow keep the invariant. *)
LEMMA ResumeStepKeeps ==
    ASSUME FlowInv, NEW w \in Worker, ResumeStep(w)
    PROVE  FlowInv' /\ OwnStep(w)
<1>1. CASE GuardResume(w)
  <2>0. /\ OwnStep(w) /\ UNCHANGED <<row, token>> /\ RowSound' /\ wk[w].pc = "guard"
        /\ WorldTyped' /\ wakeups' = wakeups
    BY <1>1, RowLoaded, WorldUnchanged DEF GuardResume
  <2>1. wk[w].msg \in Msg /\ wk[w].c < LastNode /\ wk[w].path = "resume"
    BY <2>0, WorkerFacts DEF Sane
  <2>2. CASE Leave(w, TRUE)
    BY <2>0, <2>2, LeaveStep
  <2>3. CASE Goto(w, "compAcquire")
    <3>1. Sane([wk[w] EXCEPT !.pc = "compAcquire"], token'[w])
      BY <2>1, WorkerFacts DEF WorkerState, Sane, TokenPC, LoadedPC, FreshPC
    <3>2. "compAcquire" \in PC \ {"wake"}
      BY DEF PC
    <3> QED
      BY <2>0, <2>3, <3>1, <3>2, GotoStep
  <2>4. ASSUME GuardVerdict(wk[w].type) = "go",
               wk' = [wk EXCEPT ![w].pc = "acquire", ![w].d = row.data]
        PROVE  FlowInv'
    <3> DEFINE r == [wk[w] EXCEPT !.pc = "acquire", !.d = row.data]
    <3>1. Sound(row.data)
      BY <2>4, WorkerFacts, VerdictGo
    <3>2. /\ r \in WorkerState /\ r.pc = "acquire" /\ r.msg = wk[w].msg
          /\ r.c = wk[w].c /\ r.d = row.data /\ r.path = wk[w].path
      BY WorkerFacts, Labels DEF WorkerState
    <3>3. wk' = [wk EXCEPT ![w] = r]
      BY <2>4 DEF FlowInv
    <3>4. Sane(r, token'[w])
      BY <2>1, <3>1, <3>2 DEF Sane, TokenPC, FreshPC
    <3> HIDE DEF r
    <3> QED
      BY <2>0, <3>2, <3>3, <3>4, WorkerStep
  <2> QED
    BY <1>1, <2>0, <2>2, <2>3, <2>4 DEF GuardResume
<1>2. CASE CompensateAcquire(w)
  <2>1. wk[w].pc = "compAcquire"
    BY <1>2 DEF CompensateAcquire
  <2>2. \A g : g # 0 => Sane([wk[w] EXCEPT !.pc = "compCheck"], g)
    BY <2>1, WorkerFacts DEF WorkerState, Sane, TokenPC, LoadedPC, FreshPC
  <2>3. "compCheck" \in PC \ {"wake"}
    BY DEF PC
  <2>4. CASE AcquireLease(w, "compCheck")
    BY <1>2, <2>2, <2>3, <2>4, AcquireStep DEF CompensateAcquire
  <2> QED
    BY <1>2, <2>1, <2>4, StoreUnchanged, WorldUnchanged, LeaveStep DEF CompensateAcquire
<1>3. CASE CompensateCheck(w)
  <2>0. /\ OwnStep(w) /\ UNCHANGED <<row, token>> /\ RowSound' /\ wk[w].pc = "compCheck"
        /\ WorldTyped' /\ wakeups' = wakeups
    BY <1>3, RowLoaded, WorldUnchanged DEF CompensateCheck
  <2>1. wk[w].msg \in Msg /\ wk[w].c < LastNode /\ token[w] # 0
    BY <2>0, WorkerFacts DEF Sane, TokenPC
  <2>2. ASSUME PendingDispatch, wk' = [wk EXCEPT ![w].pc = "push", ![w].d = row.data]
        PROVE  FlowInv'
    <3> DEFINE r == [wk[w] EXCEPT !.pc = "push", !.d = row.data]
    <3>1. Sound(row.data) /\ row.data.status = "suspended"
      BY <2>2 DEF PendingDispatch, FlowInv, RowSound
    <3>2. /\ r \in WorkerState /\ r.pc = "push" /\ r.msg = wk[w].msg
          /\ r.c = wk[w].c /\ r.d = row.data
      BY WorkerFacts, Labels DEF WorkerState
    <3>3. wk' = [wk EXCEPT ![w] = r]
      BY <2>2 DEF FlowInv
    <3>4. Sane(r, token'[w])
      BY <2>0, <2>1, <3>1, <3>2 DEF Sane, FreshPC
    <3> HIDE DEF r
    <3> QED
      BY <2>0, <3>2, <3>3, <3>4, WorkerStep
  <2> QED
    BY <1>3, <2>0, <2>2, LeaveStep DEF CompensateCheck
<1>4. CASE AcquireResume(w)
  <2>1. wk[w].pc = "acquire"
    BY <1>4 DEF AcquireResume
  <2>2. \A g : g # 0 => Sane([wk[w] EXCEPT !.pc = "recheck"], g)
    BY <2>1, WorkerFacts DEF WorkerState, Sane, TokenPC, LoadedPC, FreshPC
  <2>3. "recheck" \in PC \ {"wake"}
    BY DEF PC
  <2>4. CASE AcquireLease(w, "recheck")
    BY <1>4, <2>2, <2>3, <2>4, AcquireStep DEF AcquireResume
  <2> QED
    BY <1>4, <2>1, <2>4, StoreUnchanged, WorldUnchanged, LeaseErrorStep DEF AcquireResume
<1>5. CASE RecheckResume(w)
  <2> DEFINE t == EffectiveType(w)
             Loaded(p) == wk' = [wk EXCEPT ![w].pc = p, ![w].type = t, ![w].d = row.data,
                                           ![w].c = row.data.ctx,
                                           ![w].waits = (row.data.status = "suspended")]
  <2>0. /\ OwnStep(w) /\ UNCHANGED <<row, token>> /\ RowSound' /\ wk[w].pc = "recheck"
        /\ WorldTyped' /\ wakeups' = wakeups
    BY <1>5, RowLoaded, WorldUnchanged DEF RecheckResume
  <2>1. wk[w].msg \in Msg /\ wk[w].c < LastNode /\ token[w] # 0 /\ wk[w].path = "resume"
    BY <2>0, WorkerFacts DEF Sane, TokenPC
  <2>2. t \in MsgType /\ (t = "retry" => wk[w].type = "retry")
    BY WorkerFacts DEF EffectiveType, MsgType
  <2> HIDE DEF t
  <2>3. CASE Leave(w, TRUE)
    BY <2>0, <2>3, LeaveStep
  <2>4. CASE Goto(w, "compCheck")
    <3>1. Sane([wk[w] EXCEPT !.pc = "compCheck"], token'[w])
      BY <2>0, <2>1, WorkerFacts DEF WorkerState, Sane, TokenPC, LoadedPC, FreshPC
    <3>2. "compCheck" \in PC \ {"wake"}
      BY DEF PC
    <3> QED
      BY <2>0, <2>4, <3>1, <3>2, GotoStep
  <2>5. ASSUME NEW p \in {"cancel", "wake", "refused", "run"}, Loaded(p),
               GuardVerdict(wk[w].type) = "go", p = "wake" => Wakeup(t)
        PROVE  FlowInv'
    <3> DEFINE b == row.data.status = "suspended"
               r == [wk[w] EXCEPT !.pc = p, !.type = t, !.d = row.data, !.c = row.data.ctx,
                                  !.waits = b]
    <3>0. b \in BOOLEAN /\ p \in PC
      BY DEF PC
    <3>1. /\ Sound(row.data) /\ row.data.ctx < LastNode
          /\ row.data.status = "error" => wakeups < MaxWakeups
      BY <2>5, WorkerFacts, VerdictGo
    <3>2. row.data.ctx \in 0 .. LastNode /\ row.data \in RowData
      BY WorkerFacts DEF RowData
    <3>3. wk' = [wk EXCEPT ![w] = r]
      BY <2>5 DEF FlowInv
    <3> HIDE DEF b
    <3>4. /\ r \in WorkerState /\ r.pc = p /\ r.msg = wk[w].msg
          /\ r.c = row.data.ctx /\ r.d = row.data /\ r.path = wk[w].path
      BY <2>2, <3>0, <3>2, WorkerFacts DEF WorkerState
    <3>5. p = "wake" => row.data.status = "error"
      BY <2>5 DEF Wakeup
    <3>6. Sane(r, token'[w])
      BY <2>0, <2>1, <3>1, <3>4, <3>5 DEF Sane, FreshPC
    <3> HIDE DEF r
    <3> QED
      BY <2>0, <3>1, <3>3, <3>4, <3>5, <3>6, WorkerStep
  <2> QED
    BY <1>5, <2>0, <2>3, <2>4, <2>5 DEF RecheckResume, t
<1>6. CASE ResumeRefused(w)
  <2>0. /\ wk[w].pc = "refused" /\ wk[w].msg \in Msg /\ wk[w].c < LastNode
        /\ UNCHANGED <<cancelFlag, counterVars, ctl, worldVars, budget, flowHistory>>
    BY <1>6, WorkerFacts DEF ResumeRefused, Sane
  <2>1. budget' \in [Fault -> Nat] /\ msgs \in [Msg -> Message]
    BY <2>0 DEF FlowInv, WorldTyped
  <2>2. ASSUME Release(w), UNCHANGED queueVars PROVE FlowInv' /\ OwnStep(w)
    <3>1. wk' = [wk EXCEPT ![w] = wk[w]] /\ msgs' = msgs
      BY <2>2 DEF queueVars, FlowInv
    <3>2. Sane(wk[w], token'[w])
      BY <2>0 DEF Sane, TokenPC, LoadedPC, FreshPC
    <3> QED
      BY <2>0, <2>1, <2>2, <3>1, <3>2, SessionEnded, QueueChanged, WorkerStep, WorkerFacts
  <2>3. ASSUME LoadRow, Leave(w, TRUE), msgs' \in {msgs, Enqueued("continue", 0)}
        PROVE  FlowInv' /\ OwnStep(w)
    <3>1. msgs' \in [Msg -> Message]
      BY <2>1, <2>3, MessageTypes, Zeros DEF MsgType
    <3> QED
      BY <2>0, <2>1, <2>3, <3>1, RowLoaded, QueueChanged, LeaveStep
  <2> QED
    BY <1>6, <2>2, <2>3 DEF ResumeRefused
<1>7. CASE WakeUp(w)
  <2> DEFINE reuse == wk[w].d.tok # 0 /\ wk[w].d.node = wk[w].d.ctx
             tok == IF reuse THEN wk[w].d.tok ELSE nextTok + 1
             d == [wk[w].d EXCEPT !.status = "running", !.node = wk[w].d.ctx, !.tok = tok]
             r == [wk[w] EXCEPT !.pc = "run", !.d = d, !.ack = TRUE]
  <2>0. /\ wk[w].pc = "wake" /\ tok <= MaxTok /\ Persist(w, d, "run")
        /\ wakeups' = (IF FenceAccepts(w) THEN wakeups + 1 ELSE wakeups)
        /\ tries' = tries \/ tries' = [k \in Node |-> 0]
        /\ nextTok' = (IF reuse THEN nextTok ELSE nextTok + 1)
        /\ UNCHANGED <<msgs, cancelFlag, ctl, worldVars, budget, flowHistory>>
    BY <1>7 DEF WakeUp, CommitWakeup
  <2>1. /\ wk[w].msg \in Msg /\ wk[w].c < LastNode /\ token[w] # 0
        /\ wk[w].d.status = "error" /\ wk[w].d.ctx = wk[w].c /\ wk[w].path = "resume"
    BY <2>0, WorkerFacts DEF Sane, TokenPC
  <2>2. /\ nextTok \in 0 .. MaxTok /\ wk[w].d.tok \in 0 .. MaxTok
        /\ wakeups \in 0 .. MaxWakeups
    BY WorkerFacts DEF FlowInv, WorldTyped, RowData
  <2>3. tok \in 0 .. MaxTok /\ nextTok' \in 0 .. MaxTok
    BY <2>0, <2>2, FlowConstants
  <2>4. FenceAccepts(w) => wakeups < MaxWakeups
    BY <2>0 DEF FenceAccepts, FlowInv, WakeupsLeft
  <2>5. WorldTyped'
    <3>1. wakeups' \in 0 .. MaxWakeups
      <4>1. wakeups' = wakeups \/ (wakeups < MaxWakeups /\ wakeups' = wakeups + 1)
        BY <2>0, <2>4
      <4>2. MaxWakeups \in Nat
        BY FlowConstants
      <4> QED
        BY <2>2, <4>1, <4>2
    <3>2. tries' \in [Node -> Nat]
      <4>1. tries \in [Node -> Nat]
        BY DEF FlowInv, WorldTyped
      <4> QED
        BY <2>0, <4>1
    <3> QED
      BY <2>0, <2>3, <3>1, <3>2 DEF FlowInv, WorldTyped, worldVars, flowHistory
  <2> HIDE DEF tok, reuse
  <2>6. d \in RowData /\ d.status = "running" /\ d.ctx = wk[w].c /\ Sound(d)
    <3>1. d \in RowData /\ d.status = "running" /\ d.ctx = wk[w].c
      BY <2>1, <2>3, WorkerFacts DEF RowData, Status
    <3> QED
      BY <2>1, <3>1 DEF Sound
  <2> HIDE DEF d
  <2>7. ASSUME FencedSave(w, d), wk' = [wk EXCEPT ![w].pc = "run", ![w].d = d, ![w].ack = TRUE]
        PROVE  FlowInv' /\ OwnStep(w)
    <3>1. /\ r \in WorkerState /\ r.pc = "run" /\ r.msg = wk[w].msg
          /\ r.c = wk[w].c /\ r.d = d /\ r.path = wk[w].path
      BY <2>6, WorkerFacts, Labels DEF WorkerState
    <3>2. wk' = [wk EXCEPT ![w] = r]
      BY <2>7 DEF FlowInv
    <3>3. OwnStep(w) /\ RowSound' /\ UNCHANGED <<token, fencegen>>
      BY <2>6, <2>7, RowSaved
    <3>4. Sane(r, token[w])
      BY <2>1, <2>6, <3>1 DEF Sane, FreshPC
    <3> HIDE DEF r
    <3>5. wk' \in [Worker -> WorkerState] /\ \A v \in Worker : wk'[v] = IF v = w THEN r ELSE wk[v]
      BY <3>1, <3>2 DEF FlowInv
    <3>6. WorkersSane'
      BY <3>3, <3>4, <3>5 DEF FlowInv, WorkersSane
    <3>7. \A v \in Worker : token[v] = fencegen => v = w
      BY <2>1, <2>7 DEF FencedSave, FenceAccepts, FlowInv, StoreInv, GenerationsUnique, Worker
    <3>8. WakeupsLeft'
      BY <3>1, <3>3, <3>5, <3>7 DEF WakeupsLeft
    <3> QED
      BY <2>5, <3>3, <3>5, <3>6, <3>8, NextKeepsInv DEF FlowInv, OwnStep
  <2>8. ASSUME ~FenceAccepts(w), LeaseError(w), UNCHANGED storeVars
        PROVE  FlowInv' /\ OwnStep(w)
    BY <2>0, <2>5, <2>8, StoreUnchanged, LeaseErrorStep
  <2> QED
    BY <2>0, <2>7, <2>8 DEF Persist
<1> QED
  BY <1>1, <1>2, <1>3, <1>4, <1>5, <1>6, <1>7 DEF ResumeStep

(* Recording that a node ran keeps the types of the two histories. *)
LEMMA RunRecorded ==
    ASSUME FlowInv, NEW w \in Worker, wk[w].pc = "run", RecordRun(w)
    PROVE  ran' \subseteq Node \X (0 .. MaxTok) /\ late' \in [Worker -> Nat]
<1>1. wk[w].c + 1 \in Node /\ wk[w].d.tok \in 0 .. MaxTok
  <2>1. wk[w].c \in 0 .. LastNode /\ Sane(wk[w], token[w]) /\ wk[w].d \in RowData
    BY WorkerFacts
  <2>2. wk[w].c < LastNode
    BY <2>1 DEF Sane
  <2>3. wk[w].d.tok \in 0 .. MaxTok
    BY <2>1 DEF RowData
  <2>4. wk[w].c + 1 \in Node
    BY <2>1, <2>2, FlowConstants
  <2> QED
    BY <2>3, <2>4
<1>2. ran' \subseteq Node \X (0 .. MaxTok)
  BY <1>1 DEF RecordRun, Bound, FlowInv, WorldTyped
<1>3. late' \in [Worker -> Nat]
  BY DEF RecordRun, FlowInv, WorldTyped
<1> QED
  BY <1>2, <1>3

(* Moving on with the row in memory, from one place of the loop to         *)
(* another that demands no more.                                           *)
LEMMA LoopMove ==
    ASSUME FlowInv, NEW w \in Worker, wk[w].pc \in {"run", "top", "step", "failed"},
           NEW p \in {"run", "cancel", "failed", "error"}
    PROVE  p \in PC \ {"wake"} /\ Sane([wk[w] EXCEPT !.pc = p], token[w])
BY WorkerFacts DEF PC, WorkerState, Sane, TokenPC, LoadedPC, FreshPC

(* The verdict on the row in memory, with the context the loop got to. *)
LEMMA VerdictSound ==
    ASSUME NEW d \in RowData, NEW s \in {"completed", "error", "cancelled"},
           NEW c \in 0 .. LastNode, s = "error" => c < LastNode
    PROVE  /\ [Terminated(d, s) EXCEPT !.ctx = c] \in RowData
           /\ Sound([Terminated(d, s) EXCEPT !.ctx = c])
<1> DEFINE e == Terminated(d, s)
<1>1. e \in RowData /\ e.status = s
  BY TerminatedType
<1> HIDE DEF e
<1>2. [e EXCEPT !.ctx = c] \in RowData /\ [e EXCEPT !.ctx = c].status = s /\ [e EXCEPT !.ctx = c].ctx = c
  BY <1>1 DEF RowData
<1>3. Sound([e EXCEPT !.ctx = c])
  BY <1>2 DEF Sound
<1> QED
  BY <1>2, <1>3 DEF e

(* A write after which the worker is through with its message. *)
LEMMA LastPersist ==
    ASSUME FlowInv, NEW w \in Worker, NEW d \in RowData, Sound(d), Persist(w, d, "finish"),
           wk[w].pc # "idle",
           UNCHANGED <<msgs, cancelFlag, counterVars, ctl, worldVars, budget, flowHistory>>
    PROVE  FlowInv' /\ OwnStep(w)
<1>1. "finish" \in PC \ {"wake"}
  BY DEF PC
<1>2. Sane([wk[w] EXCEPT !.pc = "finish", !.d = d, !.ack = TRUE], token[w])
  BY WorkerFacts DEF WorkerState, Sane, TokenPC, LoadedPC, FreshPC
<1> QED
  BY <1>1, <1>2, PersistStep, WorldUnchanged

(* Running, resolving and failing nodes keep the invariant. *)
LEMMA NodeStepKeeps ==
    ASSUME FlowInv, NEW w \in Worker,
           RunNode(w) \/ ResolveNode(w) \/ NodeFails(w) \/ NodeAborted(w)
    PROVE  FlowInv' /\ OwnStep(w)
<1>0. /\ wk[w].pc = "run" /\ token[w] # 0 /\ wk[w].msg \in Msg /\ Sound(wk[w].d)
      /\ wk[w].c \in 0 .. LastNode /\ wk[w].c < LastNode
  <2>1. wk[w].pc = "run"
    BY DEF RunNode, ResolveNode, NodeFails, NodeAborted
  <2> QED
    BY <2>1, WorkerFacts DEF Sane, TokenPC, LoadedPC
<1>1. CASE RunNode(w)
  <2> DEFINE k == wk[w].c + 1
             s == Kind[k] # "task"
             p == IF k = LastNode THEN "end" ELSE IF s THEN "suspend" ELSE AfterRun(w)
             r == [wk[w] EXCEPT !.c = k, !.initial = FALSE, !.waits = s, !.pc = p]
  <2>1. k \in Node /\ k # 0 /\ k \in 0 .. LastNode /\ (k # LastNode => k < LastNode)
    BY <1>0, FlowConstants
  <2>2. s \in BOOLEAN /\ p \in PC /\ (p = "suspend" => s)
        /\ (p = "end" \/ k # LastNode) /\ p \in {"end", "suspend", "top", "cancel", "step"}
    BY DEF PC, AfterRun
  <2>3. wk' = [wk EXCEPT ![w].c = k, ![w].initial = FALSE, ![w].waits = s, ![w].pc = p]
    BY <1>1 DEF RunNode
  <2>4. subs' = IF s THEN subs \cup {<<token[w], k>>} ELSE subs
    BY <1>1 DEF RunNode
  <2>5. tries' = (IF wk[w].initial THEN tries ELSE [tries EXCEPT ![k] = 0])
        /\ UNCHANGED <<storeVars, msgs, cancelFlag, wakeups, nextTok, ctl, pushed, decided, budget>>
        /\ RecordRun(w)
    BY <1>1 DEF RunNode
  <2>6. s => Kind[k] # "task"
    OBVIOUS
  <2> HIDE DEF k, s, p
  <2>7. /\ r \in WorkerState /\ r.pc = p /\ r.c = k /\ r.msg = wk[w].msg /\ r.d = wk[w].d
        /\ ~r.initial
    BY <2>1, <2>2, WorkerFacts DEF WorkerState
  <2>8. wk' = [wk EXCEPT ![w] = r]
    BY <2>3 DEF FlowInv
  <2>9. OwnStep(w) /\ token' = token /\ RowSound'
    BY <2>5, StoreUnchanged
  <2>10. Sane(r, token'[w])
    BY <1>0, <2>1, <2>2, <2>6, <2>7, <2>9 DEF Sane, FreshPC
  <2>11. WorldTyped' /\ wakeups' = wakeups
    <3>1. subs' \subseteq (1 .. MaxGen) \X Node
      <4>1. token[w] \in 1 .. MaxGen
        BY <1>0, WorkerFacts, FlowConstants
      <4> QED
        BY <2>1, <2>4, <4>1 DEF FlowInv, WorldTyped
    <3>2. tries' \in [Node -> Nat]
      BY <2>1, <2>5 DEF FlowInv, WorldTyped
    <3> QED
      BY <1>0, <2>5, <3>1, <3>2, RunRecorded DEF FlowInv, WorldTyped
  <2> HIDE DEF r
  <2>12. r.pc # "wake"
    BY <2>2, <2>7
  <2> QED
    BY <2>7, <2>8, <2>9, <2>10, <2>11, <2>12, WorkerStep
<1>2. CASE ResolveNode(w)
  <2> DEFINE r == [wk[w] EXCEPT !.pc = "top", !.initial = FALSE, !.waits = FALSE]
  <2>1. wk' = [wk EXCEPT ![w] = r]
    BY <1>2 DEF ResolveNode, FlowInv
  <2>2. /\ r \in WorkerState /\ r.pc = "top" /\ r.c = wk[w].c
        /\ r.msg = wk[w].msg /\ r.d = wk[w].d /\ ~r.initial
    BY WorkerFacts, Labels DEF WorkerState
  <2>3. OwnStep(w) /\ token' = token /\ RowSound'
    BY <1>2, StoreUnchanged DEF ResolveNode
  <2>4. Sane(r, token'[w])
    BY <1>0, <2>2, <2>3 DEF Sane, FreshPC
  <2>5. WorldTyped' /\ wakeups' = wakeups
    BY <1>2 DEF ResolveNode, FlowInv, WorldTyped, counterVars, flowHistory
  <2> HIDE DEF r
  <2> QED
    BY <2>1, <2>2, <2>3, <2>4, <2>5, WorkerStep
<1>3. CASE NodeFails(w)
  <2>1. OwnStep(w) /\ token' = token /\ RowSound'
    BY <1>3, StoreUnchanged DEF NodeFails
  <2>2. budget' \in [Fault -> Nat]
    BY <1>3, SpendType DEF NodeFails, Fault
  <2>3. WorldTyped' /\ wakeups' = wakeups
    BY <1>0, <1>3, <2>2, RunRecorded DEF NodeFails, FlowInv, WorldTyped, counterVars, worldVars
  <2> QED
    BY <1>0, <1>3, <2>1, <2>3, LoopMove, GotoStep DEF NodeFails
<1>4. CASE NodeAborted(w)
  <2>0. WorldTyped' /\ wakeups' = wakeups
    BY <1>4, WorldUnchanged DEF NodeAborted
  <2>1. ASSUME Release(w), Goto(w, "startAborted"), wk[w].initial, wk[w].path = "start"
        PROVE  FlowInv' /\ OwnStep(w)
    <3>1. wk[w].d.status = "running" /\ wk[w].d.ctx = 0
      BY <1>0, <2>1, WorkerFacts DEF Sane
    <3>2. Sane([wk[w] EXCEPT !.pc = "startAborted"], token'[w])
      BY <1>0, <3>1, WorkerFacts DEF WorkerState, Sane, TokenPC, LoadedPC, FreshPC
    <3>3. "startAborted" \in PC \ {"wake"}
      BY DEF PC
    <3> QED
      BY <2>0, <2>1, <3>2, <3>3, SessionEnded, GotoStep
  <2>2. ASSUME Goto(w, "cancel"), UNCHANGED storeVars PROVE FlowInv' /\ OwnStep(w)
    BY <1>0, <2>0, <2>2, StoreUnchanged, LoopMove, GotoStep
  <2>3. ASSUME LeaseError(w), UNCHANGED storeVars PROVE FlowInv' /\ OwnStep(w)
    BY <1>0, <2>0, <2>3, StoreUnchanged, LeaseErrorStep
  <2> QED
    BY <1>4, <2>1, <2>2, <2>3 DEF NodeAborted
<1> QED
  BY <1>1, <1>2, <1>3, <1>4

(* The steps of the drive loop keep the invariant. *)
LEMMA LoopStepKeeps ==
    ASSUME FlowInv, NEW w \in Worker, LoopStep(w)
    PROVE  FlowInv' /\ OwnStep(w)
<1>1. CASE RunNode(w) \/ ResolveNode(w) \/ NodeFails(w) \/ NodeAborted(w)
  BY <1>1, NodeStepKeeps
<1>2. CASE LeaseLost(w)
  BY <1>2, StoreUnchanged, WorldUnchanged, LeaseErrorStep DEF LeaseLost
<1>3. CASE StepBoundary(w)
  BY <1>3, StoreUnchanged, WorldUnchanged, LoopMove, GotoStep, LeaseErrorStep DEF StepBoundary
<1>4. CASE StepPersist(w)
  <2>0. wk[w].pc = "step" /\ token[w] # 0 /\ wk[w].msg \in Msg /\ wk[w].c < LastNode /\ ~wk[w].initial
        /\ UNCHANGED <<msgs, cancelFlag, tries, wakeups, ctl, worldVars, budget, flowHistory>>
    BY <1>4, WorkerFacts DEF StepPersist, Sane, TokenPC
  <2>1. ASSUME Goto(w, "cancel"), UNCHANGED <<storeVars, nextTok>> PROVE FlowInv' /\ OwnStep(w)
    BY <2>0, <2>1, StoreUnchanged, WorldUnchanged, LoopMove, GotoStep DEF counterVars
  <2>2. ASSUME nextTok < MaxTok, nextTok' = nextTok + 1,
               Persist(w, NextStep(wk[w].c, nextTok + 1), "top")
        PROVE  FlowInv' /\ OwnStep(w)
    <3> DEFINE d == NextStep(wk[w].c, nextTok + 1)
    <3>1. nextTok' \in 0 .. MaxTok /\ wk[w].c + 1 \in 0 .. LastNode
      BY SMTT(30), <2>0, <2>2, WorkerFacts, FlowConstants DEF FlowInv, WorldTyped
    <3>2. d \in RowData /\ d.status = "running" /\ d.ctx = wk[w].c
      BY <2>2, <3>1, WorkerFacts, Zeros DEF NextStep, RowData, Status
    <3>3. Sound(d)
      BY <2>0, <3>2 DEF Sound
    <3> HIDE DEF d
    <3>4. Sane([wk[w] EXCEPT !.pc = "top", !.d = d, !.ack = TRUE], token[w])
      BY <2>0, <3>2, <3>3, WorkerFacts DEF WorkerState, Sane, FreshPC
    <3>5. WorldTyped'
      BY <2>0, <3>1 DEF FlowInv, WorldTyped, worldVars, flowHistory
    <3>6. "top" \in PC \ {"wake"}
      BY DEF PC
    <3> QED
      BY <2>0, <2>2, <3>2, <3>3, <3>4, <3>5, <3>6, PersistStep DEF d
  <2> QED
    BY <1>4, <2>1, <2>2 DEF StepPersist
<1>5. CASE SuspendPersist(w)
  <2> DEFINE d == PendingRef(wk[w].c, token[w])
             p == IF d.dp THEN "push" ELSE "finish"
  <2>0. /\ wk[w].pc = "suspend" /\ token[w] # 0 /\ wk[w].msg \in Msg /\ wk[w].c < LastNode
        /\ wk[w].c # 0 /\ Kind[wk[w].c] # "task"
        /\ Persist(w, d, p)
    BY <1>5, WorkerFacts DEF SuspendPersist, Sane, TokenPC
  <2>1. d \in RowData /\ d.status = "suspended" /\ d.ctx = wk[w].c /\ d.sub = token[w]
    BY WorkerFacts, Zeros DEF PendingRef, RowData, Status
  <2>2. p \in {"push", "finish"} /\ p \in PC \ {"wake"}
    BY DEF PC
  <2> HIDE DEF d, p
  <2>3. Sound(d)
    BY <2>0, <2>1 DEF Sound
  <2>4. Sane([wk[w] EXCEPT !.pc = p, !.d = d, !.ack = TRUE], token[w])
    BY <2>0, <2>1, <2>2, <2>3, WorkerFacts DEF WorkerState, Sane, TokenPC, LoadedPC, FreshPC
  <2> QED
    BY <1>5, <2>0, <2>1, <2>2, <2>3, <2>4, PersistStep, WorldUnchanged DEF SuspendPersist
<1>6. CASE PushTask(w)
  <2>0. /\ wk[w].pc = "push" /\ token[w] # 0 /\ wk[w].msg \in Msg /\ wk[w].c < LastNode
        /\ Sound(wk[w].d) /\ wk[w].d.status = "suspended" /\ wk[w].d.sub \in 1 .. MaxGen
        /\ UNCHANGED <<storeVars, msgs, cancelFlag, counterVars, ctl, subs, decided, flowHistory>>
    <3>1. wk[w].pc = "push"
          /\ UNCHANGED <<storeVars, msgs, cancelFlag, counterVars, ctl, subs, decided, flowHistory>>
      BY <1>6 DEF PushTask
    <3>2. Sound(wk[w].d) /\ wk[w].d.status = "suspended" /\ wk[w].d.sub \in 0 .. MaxGen
      BY <3>1, WorkerFacts DEF Sane, LoadedPC, RowData
    <3>3. wk[w].d.sub \in 1 .. MaxGen
      BY <3>2, FlowConstants DEF Sound
    <3> QED
      BY <3>1, <3>2, <3>3, WorkerFacts DEF Sane, TokenPC
  <2>1. OwnStep(w) /\ token' = token /\ RowSound'
    BY <2>0, StoreUnchanged
  <2>2. ASSUME pushed' = pushed \cup {wk[w].d.sub}, Goto(w, "clear"), UNCHANGED budget
        PROVE  FlowInv'
    <3>1. WorldTyped' /\ wakeups' = wakeups
      BY <2>0, <2>2 DEF FlowInv, WorldTyped, counterVars, flowHistory
    <3>2. Sane([wk[w] EXCEPT !.pc = "clear"], token'[w])
      BY <2>0, <2>1, WorkerFacts DEF WorkerState, Sane, FreshPC
    <3>3. "clear" \in PC \ {"wake"}
      BY DEF PC
    <3> QED
      BY <2>1, <2>2, <3>1, <3>2, <3>3, GotoStep
  <2>3. ASSUME Spend("push"), Leave(w, FALSE), UNCHANGED pushed PROVE FlowInv'
    <3>1. budget' \in [Fault -> Nat]
      BY <2>3, SpendType DEF Fault
    <3>2. WorldTyped' /\ wakeups' = wakeups
      BY <2>0, <2>3, <3>1 DEF FlowInv, WorldTyped, counterVars, flowHistory
    <3> QED
      BY <2>0, <2>1, <2>3, <3>2, LeaveStep
  <2> QED
    BY <1>6, <2>1, <2>2, <2>3 DEF PushTask
<1>7. CASE ClearPending(w)
  <2> DEFINE d == [wk[w].d EXCEPT !.dp = FALSE]
  <2>1. wk[w].pc = "clear" /\ Sound(wk[w].d) /\ Persist(w, d, "finish")
    BY <1>7, WorkerFacts DEF ClearPending, Sane, LoadedPC
  <2>2. d \in RowData /\ d.status = wk[w].d.status /\ d.ctx = wk[w].d.ctx /\ d.sub = wk[w].d.sub
    BY WorkerFacts DEF RowData
  <2> HIDE DEF d
  <2>3. Sound(d)
    BY <2>1, <2>2 DEF Sound
  <2> QED
    BY <1>7, <2>1, <2>2, <2>3, LastPersist DEF ClearPending
<1>8. CASE EndPersist(w)
  <2>1. wk[w].pc = "end"
    BY <1>8 DEF EndPersist
  <2> QED
    BY <1>8, <2>1, WorkerFacts, VerdictSound, LastPersist DEF EndPersist
<1>9. CASE CancelPersist(w)
  <2>1. wk[w].pc = "cancel"
    BY <1>9 DEF CancelPersist
  <2> QED
    BY <1>9, <2>1, WorkerFacts, VerdictSound, LastPersist DEF CancelPersist
<1>10. CASE HandleFailure(w)
  <2>0. /\ wk[w].pc = "failed" /\ wk[w].msg \in Msg /\ wk[w].c < LastNode /\ Sound(wk[w].d)
        /\ UNCHANGED <<msgs, cancelFlag, wakeups, nextTok, ctl, worldVars, budget, flowHistory>>
    BY <1>10, WorkerFacts DEF HandleFailure, Sane, LoadedPC
  <2>1. tries' \in [Node -> Nat]
    BY <1>10 DEF HandleFailure, FlowInv, WorldTyped
  <2>2. WorldTyped' /\ wakeups' = wakeups
    BY <2>0, <2>1 DEF FlowInv, WorldTyped, worldVars, flowHistory
  <2>3. ASSUME Release(w), Goto(w, "startFail"), wk[w].initial, wk[w].path = "start"
        PROVE  FlowInv' /\ OwnStep(w)
    <3>1. wk[w].d.status = "running" /\ wk[w].d.ctx = 0
      BY <2>0, <2>3, WorkerFacts DEF Sane
    <3>2. Sane([wk[w] EXCEPT !.pc = "startFail"], token'[w])
      BY <2>0, <3>1, WorkerFacts DEF WorkerState, Sane, TokenPC, LoadedPC, FreshPC
    <3>3. "startFail" \in PC \ {"wake"}
      BY DEF PC
    <3> QED
      BY <2>2, <2>3, <3>2, <3>3, SessionEnded, GotoStep
  <2>4. ASSUME Release(w), Goto(w, "requeue") PROVE FlowInv' /\ OwnStep(w)
    <3>1. Sane([wk[w] EXCEPT !.pc = "requeue"], token'[w])
      BY <2>0, WorkerFacts DEF WorkerState, Sane, TokenPC, LoadedPC, FreshPC
    <3>2. "requeue" \in PC \ {"wake"}
      BY DEF PC
    <3> QED
      BY <2>2, <2>4, <3>1, <3>2, SessionEnded, GotoStep
  <2>5. ASSUME NEW p \in {"cancel", "error"}, Goto(w, p), UNCHANGED storeVars
        PROVE  FlowInv' /\ OwnStep(w)
    BY <2>0, <2>2, <2>5, StoreUnchanged, LoopMove, GotoStep
  <2> QED
    BY <1>10, <2>3, <2>4, <2>5 DEF HandleFailure
<1>11. CASE ErrorPersist(w)
  <2>1. wk[w].pc = "error" /\ wk[w].c < LastNode
    BY <1>11, WorkerFacts DEF ErrorPersist, Sane
  <2> QED
    BY <1>11, <2>1, WorkerFacts, VerdictSound, LastPersist DEF ErrorPersist
<1>12. CASE Requeue(w)
  <2>0. /\ wk[w].pc = "requeue" /\ wk[w].msg \in Msg /\ OwnStep(w) /\ RowSound' /\ Leave(w, TRUE)
        /\ UNCHANGED <<cancelFlag, counterVars, ctl, worldVars, budget, flowHistory>>
    BY <1>12, WorkerFacts, RowLoaded DEF Requeue, Sane
  <2>1. RequeueType(wk[w].msg) \in MsgType
    BY <2>0, MessageTypes DEF RequeueType, MsgType
  <2>2. msgs' \in [Msg -> Message] /\ budget' \in [Fault -> Nat]
    BY <1>12, <2>0, <2>1, MessageTypes DEF Requeue, FlowInv, WorldTyped
  <2> QED
    BY <2>0, <2>2, QueueChanged, LeaveStep
<1> QED
  BY <1>1, <1>2, <1>3, <1>4, <1>5, <1>6, <1>7, <1>8, <1>9, <1>10, <1>11, <1>12 DEF LoopStep

(* The crash of a worker keeps the invariant. *)
LEMMA CrashKeeps ==
    ASSUME FlowInv, NEW w \in Worker, WorkerCrash(w)
    PROVE  FlowInv' /\ OwnStep(w)
<1>1. OwnStep(w) /\ RowSound'
  BY SessionEnded, StoreUnchanged DEF WorkerCrash
<1>2. budget' \in [Fault -> Nat] /\ msgs' \in [Msg -> Message]
  BY SpendType DEF WorkerCrash, Fault, FlowInv, WorldTyped
<1>3. WorldTyped' /\ wakeups' = wakeups
  BY <1>2, QueueChanged DEF WorkerCrash
<1>4. Idle.pc = "idle"
  BY DEF Idle
<1> QED
  BY <1>1, <1>3, <1>4, IdleType, WorkerStep DEF WorkerCrash

(* A step around the workers: none of them moves, no token changes hands   *)
(* and no wake-up is counted.                                              *)
LEMMA OutsideStep ==
    ASSUME FlowInv, [StoreNext]_storeVars, UNCHANGED <<wk, token, fencegen>>,
           wakeups' \in {wakeups, 0}, RowSound', WorldTyped'
    PROVE  FlowInv'
<1>1. WakeupsLeft'
  BY FlowConstants DEF FlowInv, WakeupsLeft, WorldTyped
<1>2. WorkersSane'
  BY DEF FlowInv, WorkersSane
<1> QED
  BY <1>1, <1>2, NextKeepsInv DEF FlowInv

(* The console, expiries and the events outside keep the invariant. *)
LEMMA OutsideKeeps ==
    ASSUME FlowInv, Outside
    PROVE  FlowInv' /\ [StoreNext]_storeVars
<1>0. /\ msgs \in [Msg -> Message] /\ budget \in [Fault -> Nat]
      /\ row.data \in RowData /\ ctl.d \in RowData /\ 0 \in 0 .. MaxGen
  BY FlowConstants DEF FlowInv, WorldTyped, StoreInv, TypeOK, Row
<1>1. ASSUME UNCHANGED storeVars
      PROVE  [StoreNext]_storeVars /\ UNCHANGED <<token, fencegen, row>> /\ RowSound'
  BY <1>1 DEF storeVars, redisVars, FlowInv, RowSound, HasRow
<1>2. CASE LeaseTTL
  <2>1. budget' \in [Fault -> Nat]
    BY <1>0, <1>2, SpendType DEF LeaseTTL, Fault
  <2>2. WorldTyped' /\ wakeups' = wakeups /\ wk' = wk
    BY <1>0, <1>2, <2>1, QueueChanged DEF LeaseTTL, queueVars
  <2>3. [StoreNext]_storeVars /\ UNCHANGED <<token, fencegen, row>>
    BY <1>2 DEF LeaseTTL, LeaseExpires, StoreNext
  <2>4. RowSound'
    BY <2>3 DEF FlowInv, RowSound, HasRow
  <2> QED
    BY <2>2, <2>3, <2>4, OutsideStep
<1>3. CASE Publish
  <2> PICK s \in subs : msgs' = Enqueued("event", s[1]) /\ decided' = decided \cup {s[1]}
    BY <1>3 DEF Publish
  <2>1. s[1] \in 1 .. MaxGen /\ s[1] \in 0 .. MaxGen
    BY FlowConstants DEF FlowInv, WorldTyped
  <2>2. msgs' \in [Msg -> Message]
    BY <2>1, MessageTypes DEF MsgType
  <2>3. WorldTyped' /\ wakeups' = wakeups /\ wk' = wk
    BY <1>3, <2>1, <2>2 DEF Publish, FlowInv, WorldTyped, counterVars, flowHistory
  <2>4. Load
    BY <1>3 DEF Publish, LoadRow
  <2>5. [StoreNext]_storeVars /\ UNCHANGED <<token, fencegen, row>>
    BY <2>4 DEF Load, StoreNext
  <2>6. RowSound'
    BY <2>5 DEF FlowInv, RowSound, HasRow
  <2> QED
    BY <2>3, <2>5, <2>6, OutsideStep
<1>4. CASE CancelRequest \/ DeleteRequest
  <2>1. budget' \in [Fault -> Nat]
    BY <1>4, SpendType DEF CancelRequest, DeleteRequest, Fault
  <2>2. msgs' \in [Msg -> Message]
    BY <1>0, <1>4, MessageTypes DEF CancelRequest, DeleteRequest, MsgType
  <2>3. ctl' \in [st : {"none", "cancel", "signal", "delete", "sweep"}, d : RowData]
    BY <1>0, <1>4 DEF CancelRequest, DeleteRequest
  <2>4. /\ UNCHANGED <<storeVars, wk, cancelFlag, counterVars, worldVars, flowHistory>>
    BY <1>4 DEF CancelRequest, DeleteRequest
  <2>5. WorldTyped' /\ wakeups' = wakeups
    BY <2>1, <2>2, <2>3, <2>4 DEF FlowInv, WorldTyped, counterVars, worldVars, flowHistory
  <2> QED
    BY <1>1, <2>4, <2>5, OutsideStep
<1>5. CASE CancelCommit
  <2> DEFINE d == [ctl.d EXCEPT !.status = "cancelled"]
  <2>1. d \in RowData /\ d.status = "cancelled"
    BY <1>0 DEF RowData, Status
  <2>2. Sound(d)
    BY <2>1 DEF Sound
  <2>3. NoRequest \in [st : {"none", "cancel", "signal", "delete", "sweep"}, d : RowData]
    BY SomeContentType DEF NoRequest
  <2>4. WorldTyped' /\ wakeups' = wakeups /\ wk' = wk
    BY <1>5, <2>3
       DEF CancelCommit, FlowInv, WorldTyped, queueVars, counterVars, worldVars, flowHistory
  <2>5. ConsoleSave(d) \/ UNCHANGED storeVars
    BY <1>5 DEF CancelCommit
  <2> HIDE DEF d
  <2>6. CASE ConsoleSave(d)
    <3>1. [StoreNext]_storeVars /\ UNCHANGED <<token, fencegen>> /\ row'.data = d
      BY <2>1, <2>6, FlowConstants DEF ConsoleSave, StoreNext
    <3>2. RowSound'
      BY <2>2, <3>1 DEF RowSound
    <3> QED
      BY <2>4, <3>1, <3>2, OutsideStep
  <2>7. CASE UNCHANGED storeVars
    BY <1>1, <2>4, <2>7, OutsideStep
  <2> QED
    BY <2>5, <2>6, <2>7
<1>6. CASE RetryRequest
  <2>1. budget' \in [Fault -> Nat]
    BY <1>6, SpendType DEF RetryRequest, Fault
  <2>2. msgs' \in [Msg -> Message]
    BY <1>0, <1>6, MessageTypes DEF RetryRequest, MsgType
  <2> QED
    BY <1>1, <1>6, <2>1, <2>2, QueueChanged, OutsideStep DEF RetryRequest
<1>7. CASE DeleteSignal
  <2>1. cancelFlag' \in BOOLEAN
    BY <1>7 DEF DeleteSignal
  <2>2. ctl' \in [st : {"none", "cancel", "signal", "delete", "sweep"}, d : RowData]
    BY <1>7 DEF DeleteSignal, FlowInv, WorldTyped
  <2>3. WorldTyped' /\ wakeups' = wakeups /\ UNCHANGED <<storeVars, wk>>
    BY <1>7, <2>1, <2>2
       DEF DeleteSignal, FlowInv, WorldTyped, queueVars, counterVars, worldVars, flowHistory
  <2> QED
    BY <1>1, <2>3, OutsideStep
<1>8. CASE DeleteCommit
  <2>1. tries' \in [Node -> Nat] /\ wakeups' = 0 /\ wakeups' \in 0 .. MaxWakeups
    BY <1>8, FlowConstants DEF DeleteCommit
  <2>2. ctl' \in [st : {"none", "cancel", "signal", "delete", "sweep"}, d : RowData]
    BY <1>8 DEF DeleteCommit, FlowInv, WorldTyped
  <2>3. WorldTyped' /\ wk' = wk
    BY <1>8, <2>1, <2>2
       DEF DeleteCommit, FlowInv, WorldTyped, queueVars, worldVars, flowHistory
  <2>4. [StoreNext]_storeVars
    BY <1>8 DEF DeleteCommit, StoreNext
  <2>5. UNCHANGED <<token, fencegen>> /\ row'.src = "none"
    BY <1>8 DEF DeleteCommit, ControlDelete, DropRow, NoRow
  <2>6. RowSound'
    BY <2>5 DEF RowSound, HasRow
  <2> QED
    BY <2>1, <2>3, <2>4, <2>5, <2>6, OutsideStep
<1>9. CASE DeleteSweep
  <2>1. NoRequest \in [st : {"none", "cancel", "signal", "delete", "sweep"}, d : RowData]
    BY SomeContentType DEF NoRequest
  <2>2. cancelFlag' \in BOOLEAN /\ late' \in [Worker -> Nat]
    BY <1>9 DEF DeleteSweep
  <2>3. WorldTyped' /\ wakeups' = wakeups /\ UNCHANGED <<storeVars, wk>>
    BY <1>9, <2>1, <2>2
       DEF DeleteSweep, FlowInv, WorldTyped, queueVars, counterVars, worldVars
  <2> QED
    BY <1>1, <2>3, OutsideStep
<1> QED
  BY <1>2, <1>3, <1>4, <1>5, <1>6, <1>7, <1>8, <1>9 DEF Outside

-----------------------------------------------------------------------------

(* The invariant holds at the start, where the store is at its own start. *)
LEMMA FlowInitKeeps == FlowInit => FlowInv /\ StoreInit
<1> SUFFICES ASSUME FlowInit PROVE FlowInv /\ StoreInit
  OBVIOUS
<1>1. StoreInit /\ StoreInv /\ fencegen <= MaxGen
  BY InitEstablishes, FlowConstants DEF FlowInit, StoreInit
<1>2. WorldTyped
  <2>1. FreeMsg \in Message /\ Queued("start", 0) \in Message
    <3>1. FreeMsg \in Message
      BY Zeros DEF FreeMsg, Message, MsgType
    <3>2. [FreeMsg EXCEPT !.type = "start", !.sub = 0] \in Message
      BY <3>1, Zeros DEF Message, MsgType
    <3> QED
      BY <3>1, <3>2 DEF Queued, Message
  <2>2. msgs \in [Msg -> Message]
    BY <2>1 DEF FlowInit
  <2>3. NoRequest \in [st : {"none", "cancel", "signal", "delete", "sweep"}, d : RowData]
    BY SomeContentType DEF NoRequest
  <2>4. budget \in [Fault -> Nat]
    BY FlowAssumption DEF FlowInit
  <2>5. wakeups \in 0 .. MaxWakeups /\ nextTok \in 0 .. MaxTok
    BY FlowConstants DEF FlowInit
  <2> QED
    BY <2>2, <2>3, <2>4, <2>5 DEF FlowInit, WorldTyped
<1>3. wk = [w \in Worker |-> Idle]
  BY DEF FlowInit
<1>4. WorkersSane
  BY <1>3, IdleType DEF WorkersSane
<1>5. WakeupsLeft
  BY <1>3 DEF WakeupsLeft, Idle
<1>6. RowSound
  BY <1>1 DEF StoreInit, RowSound, HasRow, NoRow
<1> QED
  BY <1>1, <1>2, <1>3, <1>4, <1>5, <1>6, IdleType DEF FlowInv

(* Every step keeps the invariant and is a step of the store or leaves it alone. *)
LEMMA FlowNextKeeps == FlowInv /\ [FlowNext]_vars => FlowInv' /\ [StoreNext]_storeVars
<1> SUFFICES ASSUME FlowInv, [FlowNext]_vars PROVE FlowInv' /\ [StoreNext]_storeVars
  OBVIOUS
<1>1. ASSUME NEW w \in Worker,
             QueueStep(w) \/ StartStep(w) \/ ResumeStep(w) \/ LoopStep(w) \/ WorkerCrash(w)
      PROVE  FlowInv' /\ [StoreNext]_storeVars
  BY <1>1, QueueStepKeeps, StartStepKeeps, ResumeStepKeeps, LoopStepKeeps, CrashKeeps DEF OwnStep
<1>2. CASE Outside
  BY <1>2, OutsideKeeps
<1>3. CASE UNCHANGED vars
  <2>1. UNCHANGED storeVars /\ UNCHANGED <<wk, token, fencegen, row, wakeups>>
    BY <1>3 DEF vars, flowVars, queueVars, counterVars, storeVars, redisVars
  <2>2. WorldTyped'
    BY <1>3 DEF vars, flowVars, queueVars, counterVars, worldVars, flowHistory, FlowInv, WorldTyped
  <2>3. RowSound'
    BY <2>1 DEF FlowInv, RowSound, HasRow
  <2> QED
    BY <2>1, <2>2, <2>3, OutsideStep
<1> QED
  BY <1>1, <1>2, <1>3 DEF FlowNext

(* Every reachable state of an execution satisfies the inductive invariant. *)
THEOREM FlowInvariant == FlowSpec => []FlowInv
BY FlowInitKeeps, FlowNextKeeps, PTL DEF FlowSpec

(* The type invariant: what the queue, the workers, the row and the        *)
(* requests can be, and no worker acts under a lease without its token.    *)
THEOREM FlowTypeCorrect == FlowSpec => []FlowTypeOK
<1>1. FlowInv => FlowTypeOK
  BY DEF FlowInv, WorldTyped, WorkersSane, Sane, TokenPC, FlowTypeOK
<1> QED
  BY <1>1, FlowInvariant, PTL

(* The workers and the control plane use the store only by its operations: *)
(* every step of the flow is a step of the store or leaves it alone.       *)
THEOREM FlowImplementsStore == FlowSpec => StoreSpec
BY FlowInitKeeps, FlowNextKeeps, FlowInvariant, PTL DEF FlowSpec, StoreSpec

(* So a deleted execution is not brought back by a session of before, by   *)
(* start_flow, resume_flow, the failure paths and the console together.    *)
THEOREM FlowNoResurrection == FlowSpec => NoResurrection
BY FlowImplementsStore, StoreNoResurrection, PTL

(* And an execution's row is an epoch register to its workers. *)
THEOREM FlowImplementsRegister == FlowSpec => ImplementsRegister
BY FlowImplementsStore, StoreImplementsRegister, PTL

-----------------------------------------------------------------------------
(* What a step of worker w leaves alone of the others. *)
OnlyWorker(w) ==
    /\ \A v \in Worker \ {w} : wk'[v] = wk[v] /\ late'[v] = late[v]
    /\ cancelFlag' = cancelFlag /\ pushed \subseteq pushed'

(* A step of the task queue disturbs no other worker. *)
LEMMA OnlyQueue ==
    ASSUME FlowInv, NEW w \in Worker, QueueStep(w)
    PROVE  OnlyWorker(w)
<1>1. ASSUME NEW m \in Msg, NEW n, Dispatch(w, m, n) PROVE \A v \in Worker \ {w} : wk'[v] = wk[v]
  BY <1>1 DEF Dispatch, FlowInv
<1>2. CASE Take(w)
  BY <1>1, <1>2 DEF Take, OnlyWorker, flowHistory, worldVars
<1>3. CASE Reclaim(w)
  BY <1>1, <1>3 DEF Reclaim, OnlyWorker, flowHistory, worldVars, FlowInv
<1>4. CASE DeadLetterGuard(w) \/ DeadLetterProbe(w) \/ DeadLetterVerdict(w)
  BY <1>4 DEF DeadLetterGuard, DeadLetterProbe, DeadLetterVerdict, OnlyWorker, flowHistory,
              worldVars, FlowInv, Leave
<1>5. CASE DeadLetterWrite(w)
  BY <1>5 DEF DeadLetterWrite, OnlyWorker, flowHistory, worldVars, FlowInv, Leave
<1>6. CASE Finish(w)
  BY <1>6 DEF Finish, OnlyWorker, flowHistory, worldVars, FlowInv, Leave
<1> QED
  BY <1>2, <1>3, <1>4, <1>5, <1>6 DEF QueueStep

(* A step of start_flow disturbs no other worker. *)
LEMMA OnlyStart ==
    ASSUME FlowInv, NEW w \in Worker, StartStep(w)
    PROVE  OnlyWorker(w)
<1> USE DEF OnlyWorker, flowHistory, worldVars, FlowInv, Leave, Goto, Persist, AcquireLease, LeaseError
<1>1. CASE StartCheck(w)
  BY <1>1 DEF StartCheck
<1>2. CASE StartCancelled(w)
  BY <1>2 DEF StartCancelled
<1>3. CASE StartAcquire(w)
  BY <1>3 DEF StartAcquire
<1>4. CASE StartPersist(w)
  BY <1>4 DEF StartPersist
<1>5. CASE StartFailed(w)
  BY <1>5 DEF StartFailed
<1> QED
  BY <1>1, <1>2, <1>3, <1>4, <1>5 DEF StartStep

(* A step of resume_flow disturbs no other worker. *)
LEMMA OnlyResume ==
    ASSUME FlowInv, NEW w \in Worker, ResumeStep(w)
    PROVE  OnlyWorker(w)
<1> USE DEF OnlyWorker, flowHistory, worldVars, FlowInv, Leave, Goto, Persist, AcquireLease, LeaseError, queueVars
<1>1. CASE GuardResume(w)
  BY <1>1 DEF GuardResume
<1>2. CASE CompensateAcquire(w)
  BY <1>2 DEF CompensateAcquire
<1>3. CASE CompensateCheck(w)
  BY <1>3 DEF CompensateCheck
<1>4. CASE AcquireResume(w)
  BY <1>4 DEF AcquireResume
<1>5. CASE RecheckResume(w)
  BY <1>5 DEF RecheckResume
<1>6. CASE ResumeRefused(w)
  BY <1>6 DEF ResumeRefused
<1>7. CASE WakeUp(w)
  BY <1>7 DEF WakeUp
<1> QED
  BY <1>1, <1>2, <1>3, <1>4, <1>5, <1>6, <1>7 DEF ResumeStep

(* A step of the drive loop disturbs no other worker. *)
LEMMA OnlyLoop ==
    ASSUME FlowInv, NEW w \in Worker, LoopStep(w)
    PROVE  OnlyWorker(w)
<1> USE DEF OnlyWorker, flowHistory, worldVars, FlowInv, Leave, Goto, Persist, LeaseError, WorldTyped, RecordRun
<1>1. CASE RunNode(w)
  BY <1>1 DEF RunNode
<1>2. CASE ResolveNode(w)
  BY <1>2 DEF ResolveNode
<1>3. CASE NodeFails(w)
  BY <1>3 DEF NodeFails
<1>4. CASE NodeAborted(w)
  BY <1>4 DEF NodeAborted
<1>5. CASE LeaseLost(w)
  BY <1>5 DEF LeaseLost
<1>6. CASE StepBoundary(w)
  BY <1>6 DEF StepBoundary
<1>7. CASE StepPersist(w)
  BY <1>7 DEF StepPersist
<1>8. CASE SuspendPersist(w)
  BY <1>8 DEF SuspendPersist
<1>9. CASE PushTask(w)
  BY <1>9 DEF PushTask
<1>10. CASE ClearPending(w)
  BY <1>10 DEF ClearPending
<1>11. CASE EndPersist(w) \/ CancelPersist(w) \/ ErrorPersist(w)
  BY <1>11 DEF EndPersist, CancelPersist, ErrorPersist
<1>12. CASE HandleFailure(w)
  BY <1>12 DEF HandleFailure
<1>13. CASE Requeue(w)
  BY <1>13 DEF Requeue
<1> QED
  BY <1>1, <1>2, <1>3, <1>4, <1>5, <1>6, <1>7, <1>8, <1>9, <1>10, <1>11, <1>12, <1>13 DEF LoopStep

(* Any step of worker w. *)
AnyStep(w) == QueueStep(w) \/ StartStep(w) \/ ResumeStep(w) \/ LoopStep(w) \/ WorkerCrash(w)

(* No step of a worker disturbs another one, sets the flag or forgets a dispatch. *)
LEMMA OnlyAny ==
    ASSUME FlowInv, NEW w \in Worker, AnyStep(w)
    PROVE  OnlyWorker(w)
<1>1. CASE WorkerCrash(w)
  BY <1>1 DEF WorkerCrash, OnlyWorker, flowHistory, worldVars, FlowInv
<1> QED
  BY <1>1, OnlyQueue, OnlyStart, OnlyResume, OnlyLoop DEF AnyStep

-----------------------------------------------------------------------------
(* Where a worker goes on to run a node without another look at the flag. *)
RunPC == {"startAcquire", "startPersist", "wake", "run"}

(* A worker that ran a node after the flag was set is not about to run     *)
(* another, and the count starts again only with the flag.                 *)
CancelInv ==
    \A w \in Worker :
       /\ late[w] \in {0, 1}
       /\ late[w] # 0 => cancelFlag /\ wk[w].pc \notin RunPC

(* A message just taken puts the worker at an entry of the loop. *)
LEMMA Dispatched ==
    ASSUME FlowInv, NEW w \in Worker, NEW m \in Msg, NEW n, Dispatch(w, m, n)
    PROVE  wk'[w] = wk[w] \/ wk'[w].pc \in {"start", "guard"}
<1>1. CASE tombstone
  BY <1>1 DEF Dispatch
<1>2. CASE ~tombstone
  <2> DEFINE r == [Idle EXCEPT !.pc = IF msgs[m].type = "start" THEN "start" ELSE "guard",
                               !.msg = m, !.type = msgs[m].type]
  <2>1. wk'[w] = r
    BY <1>2 DEF Dispatch, FlowInv
  <2>2. r.pc \in {"start", "guard"}
    BY DEF Idle
  <2> QED
    BY <2>1, <2>2
<1> QED
  BY <1>1, <1>2

(* Only a worker that found no flag comes where it will run a node. *)
LEMMA EntersRun ==
    ASSUME FlowInv, NEW w \in Worker, AnyStep(w), wk'[w].pc \in RunPC
    PROVE  (wk[w].pc \in RunPC \/ ~cancelFlag) /\ late' = late
<1> USE DEF FlowInv, WorkerState, RunPC, Leave, Goto, Persist, AcquireLease, LeaseError, flowHistory
<1>1. CASE QueueStep(w)
  <2>1. CASE Take(w)
    BY <2>1, Dispatched DEF Take
  <2>2. CASE Reclaim(w)
    <3>1. PICK m \in Msg : \/ wk' = [wk EXCEPT ![w] = [Idle EXCEPT !.pc = "dlq", !.msg = m]]
                           \/ Dispatch(w, m, msgs[m].n + 1)
      BY <2>2 DEF Reclaim
    <3>2. [Idle EXCEPT !.pc = "dlq", !.msg = m].pc = "dlq"
      BY DEF Idle
    <3> QED
      BY <2>2, <3>1, <3>2, Dispatched DEF Reclaim
  <2>3. CASE DeadLetterGuard(w) \/ DeadLetterProbe(w) \/ DeadLetterVerdict(w)
    BY <2>3 DEF DeadLetterGuard, DeadLetterProbe, DeadLetterVerdict
  <2>4. CASE DeadLetterWrite(w) \/ Finish(w)
    BY <2>4 DEF DeadLetterWrite, Finish, Idle
  <2> QED
    BY <1>1, <2>1, <2>2, <2>3, <2>4 DEF QueueStep
<1>2. CASE StartStep(w)
  BY <1>2 DEF StartStep, StartCheck, StartCancelled, StartAcquire, StartPersist, StartFailed
<1>3. CASE ResumeStep(w)
  <2>1. CASE GuardResume(w) \/ CompensateAcquire(w) \/ CompensateCheck(w) \/ AcquireResume(w)
    BY <2>1 DEF GuardResume, CompensateAcquire, CompensateCheck, AcquireResume
  <2>2. CASE RecheckResume(w)
    BY <2>2 DEF RecheckResume
  <2>3. CASE ResumeRefused(w)
    BY <2>3 DEF ResumeRefused, queueVars
  <2>4. CASE WakeUp(w)
    BY <2>4 DEF WakeUp
  <2> QED
    BY <1>3, <2>1, <2>2, <2>3, <2>4 DEF ResumeStep
<1>4. CASE LoopStep(w)
  <2>1. CASE RunNode(w)
    BY <2>1 DEF RunNode, AfterRun
  <2>2. CASE ResolveNode(w) \/ NodeFails(w) \/ NodeAborted(w) \/ LeaseLost(w)
    BY <2>2 DEF ResolveNode, NodeFails, NodeAborted, LeaseLost
  <2>3. CASE StepBoundary(w)
    BY <2>3 DEF StepBoundary
  <2>4. CASE StepPersist(w) \/ SuspendPersist(w) \/ PushTask(w) \/ ClearPending(w)
    BY <2>4 DEF StepPersist, SuspendPersist, PushTask, ClearPending
  <2>5. CASE EndPersist(w) \/ CancelPersist(w) \/ ErrorPersist(w)
    BY <2>5 DEF EndPersist, CancelPersist, ErrorPersist
  <2>6. CASE HandleFailure(w) \/ Requeue(w)
    BY <2>6 DEF HandleFailure, Requeue
  <2> QED
    BY <1>4, <2>1, <2>2, <2>3, <2>4, <2>5, <2>6 DEF LoopStep
<1>5. CASE WorkerCrash(w)
  BY <1>5 DEF WorkerCrash, Idle
<1> QED
  BY <1>1, <1>2, <1>3, <1>4, <1>5 DEF AnyStep

(* Only running a node counts as late. *)
LEMMA LateStep ==
    ASSUME FlowInv, NEW w \in Worker, AnyStep(w)
    PROVE  late' = late \/ (wk[w].pc = "run" /\ RecordRun(w))
<1> USE DEF flowHistory
<1>1. CASE QueueStep(w) \/ WorkerCrash(w)
  BY <1>1 DEF QueueStep, Take, Reclaim, DeadLetterGuard, DeadLetterProbe, DeadLetterVerdict,
              DeadLetterWrite, Finish, WorkerCrash
<1>2. CASE StartStep(w)
  BY <1>2 DEF StartStep, StartCheck, StartCancelled, StartAcquire, StartPersist, StartFailed
<1>3. CASE ResumeStep(w)
  BY <1>3 DEF ResumeStep, GuardResume, CompensateAcquire, CompensateCheck, AcquireResume,
              RecheckResume, ResumeRefused, WakeUp
<1>4. CASE LoopStep(w)
  BY <1>4 DEF LoopStep, RunNode, ResolveNode, NodeFails, NodeAborted, LeaseLost, StepBoundary,
              StepPersist, SuspendPersist, PushTask, ClearPending, EndPersist, CancelPersist,
              HandleFailure, ErrorPersist, Requeue
<1> QED
  BY <1>1, <1>2, <1>3, <1>4 DEF AnyStep

(* Every step keeps the bound on node runs after a cancel. *)
LEMMA CancelNext == FlowInv /\ CancelInv /\ [FlowNext]_vars => CancelInv'
<1> SUFFICES ASSUME FlowInv, CancelInv, [FlowNext]_vars PROVE CancelInv'
  OBVIOUS
<1>0. late \in [Worker -> Nat]
  BY DEF FlowInv, WorldTyped
<1>1. ASSUME NEW w \in Worker, AnyStep(w) PROVE CancelInv'
  <2>1. /\ \A v \in Worker \ {w} : wk'[v] = wk[v] /\ late'[v] = late[v]
        /\ cancelFlag' = cancelFlag
    BY <1>1, OnlyAny DEF OnlyWorker
  <2>2. CASE late' = late
    BY <1>1, <2>1, <2>2, EntersRun DEF CancelInv
  <2>3. CASE wk[w].pc = "run" /\ RecordRun(w)
    <3>1. late[w] = 0
      BY <2>3 DEF CancelInv, RunPC
    <3>2. late'[w] = IF cancelFlag THEN 1 ELSE 0
      BY <1>0, <2>3, <3>1 DEF RecordRun
    <3>3. wk'[w].pc \in RunPC => late'[w] = 0
      BY <1>1, <3>1, EntersRun
    <3> QED
      BY <2>1, <3>2, <3>3 DEF CancelInv
  <2> QED
    BY <1>1, <2>2, <2>3, LateStep
<1>2. CASE Outside
  <2>1. CASE LeaseTTL \/ Publish \/ CancelRequest \/ RetryRequest \/ DeleteRequest \/ DeleteCommit
    BY <2>1 DEF LeaseTTL, Publish, CancelRequest, RetryRequest, DeleteRequest, DeleteCommit,
                queueVars, flowHistory, CancelInv
  <2>2. CASE CancelCommit \/ DeleteSignal
    BY <2>2 DEF CancelCommit, DeleteSignal, queueVars, flowHistory, CancelInv
  <2>3. CASE DeleteSweep
    BY <2>3 DEF DeleteSweep, CancelInv
  <2> QED
    BY <1>2, <2>1, <2>2, <2>3 DEF Outside
<1>3. CASE UNCHANGED vars
  BY <1>3 DEF vars, flowVars, queueVars, flowHistory, CancelInv
<1> QED
  BY <1>1, <1>2, <1>3 DEF FlowNext, AnyStep

(* Once the cancel flag is set, every worker runs at most the node it was  *)
(* about to run.                                                           *)
THEOREM FlowCancelStops == FlowSpec => []CancelStopsEachWorker
<1>1. FlowInit => CancelInv
  BY DEF FlowInit, CancelInv
<1>2. CancelInv => CancelStopsEachWorker
  BY DEF CancelInv, CancelStopsEachWorker
<1> QED
  BY <1>1, <1>2, CancelNext, FlowInvariant, PTL DEF FlowSpec

-----------------------------------------------------------------------------
(* What each action that persists under the session's token writes. *)
Written(w, d) ==
    \/ StartPersist(w) /\ d.status = "running" /\ d.ctx = 0
    \/ (WakeUp(w) \/ StepPersist(w)) /\ d.status = "running" /\ d.ctx = wk[w].c
    \/ SuspendPersist(w) /\ d.status = "suspended" /\ d.dp = (Kind[d.ctx] = "service")
    \/ ClearPending(w) /\ d.status = "suspended" /\ d.sub = wk[w].d.sub
    \/ (EndPersist(w) \/ CancelPersist(w) \/ ErrorPersist(w)) /\ d.status \in TerminalStatus

(* Everything a step of worker w may do to the row, the lease and the      *)
(* generations.                                                            *)
WorkerStore(w) ==
    \/ UNCHANGED <<row, lease, fence, fencegen, token>>
    \/ TryAcquireFenced(w) /\ wk'[w].pc \in {"startPersist", "compCheck", "recheck"}
    \/ /\ Release(w) \/ Crash(w)
       /\ wk'[w].pc \in {"idle", "startFail", "startAborted", "requeue", "refused"}
    \/ \E d \in RowData : PlainSave(d) /\ d.status # "suspended" /\ wk'[w].pc = "finish"
    \/ \E d \in RowData : FencedSave(w, d) /\ Written(w, d)

(* Loading the row leaves the lease, the fence and the content alone. *)
LEMMA LoadStore ==
    ASSUME LoadRow PROVE UNCHANGED <<row, lease, fence, fencegen, token>>
BY DEF LoadRow, Load, storeVars, redisVars

(* What a step of the task queue does to the store. *)
LEMMA StoreQueue ==
    ASSUME FlowInv, NEW w \in Worker, QueueStep(w)
    PROVE  WorkerStore(w)
<1>1. CASE Take(w) \/ Reclaim(w)
  BY <1>1 DEF Take, Reclaim, WorkerStore, storeVars, redisVars
<1>2. CASE DeadLetterGuard(w) \/ DeadLetterProbe(w) \/ DeadLetterVerdict(w)
  BY <1>2, LoadStore DEF DeadLetterGuard, DeadLetterProbe, DeadLetterVerdict, WorkerStore,
                         storeVars, redisVars
<1>3. CASE DeadLetterWrite(w)
  <2>1. wk[w].d \in RowData /\ wk[w].d.status = "error" /\ wk[w] \in WorkerState
    BY <1>3 DEF DeadLetterWrite, FlowInv, WorkersSane, Sane, WorkerState
  <2>2. wk'[w].pc = "finish"
    BY <1>3, <2>1 DEF DeadLetterWrite, Leave, FlowInv, WorkerState
  <2> QED
    BY <1>3, <2>1, <2>2 DEF DeadLetterWrite, WorkerStore
<1>4. CASE Finish(w)
  <2>1. wk'[w].pc = "idle"
    BY <1>4 DEF Finish, Idle, FlowInv
  <2> QED
    BY <1>4, <2>1 DEF Finish, WorkerStore, storeVars, redisVars
<1> QED
  BY <1>1, <1>2, <1>3, <1>4 DEF QueueStep

(* What a step of start_flow does to the store. *)
LEMMA StoreStart ==
    ASSUME FlowInv, NEW w \in Worker, StartStep(w)
    PROVE  WorkerStore(w)
<1>0. wk[w] \in WorkerState /\ wk[w].d \in RowData
  BY DEF FlowInv, WorkerState
<1>1. CASE StartCheck(w)
  BY <1>1, LoadStore DEF StartCheck, WorkerStore
<1>2. CASE StartCancelled(w)
  <2>1. Terminated(wk[w].d, "cancelled") \in RowData
        /\ Terminated(wk[w].d, "cancelled").status = "cancelled"
    BY <1>0, TerminatedType DEF Status
  <2>2. wk'[w].pc = "finish"
    BY <1>0, <1>2 DEF StartCancelled, Leave, FlowInv, WorkerState
  <2> QED
    BY <1>2, <2>1, <2>2 DEF StartCancelled, WorkerStore
<1>3. CASE StartAcquire(w)
  <2>1. CASE AcquireLease(w, "startPersist")
    BY <1>0, <2>1 DEF AcquireLease, Goto, WorkerStore, FlowInv, WorkerState
  <2> QED
    BY <1>3, <2>1 DEF StartAcquire, WorkerStore, storeVars, redisVars
<1>4. CASE StartPersist(w)
  <2>1. wk[w].d.status = "running" /\ wk[w].d.ctx = 0
    BY <1>4 DEF StartPersist, FlowInv, WorkersSane, Sane, FreshPC
  <2>2. CASE FencedSave(w, wk[w].d)
    BY <1>0, <1>4, <2>1, <2>2 DEF WorkerStore, Written
  <2> QED
    BY <1>4, <2>2 DEF StartPersist, Persist, WorkerStore, storeVars, redisVars
<1>5. CASE StartFailed(w)
  <2>1. wk[w].d.status = "running"
    BY <1>5 DEF StartFailed, FlowInv, WorkersSane, Sane, FreshPC
  <2>2. Terminated(wk[w].d, "cancelled") \in RowData
        /\ Terminated(wk[w].d, "cancelled").status = "cancelled"
    BY <1>0, TerminatedType DEF Status
  <2>3. wk'[w].pc = "finish"
    BY <1>0, <1>5 DEF StartFailed, Leave, FlowInv, WorkerState
  <2>4. PICK d \in {wk[w].d, Terminated(wk[w].d, "cancelled")} : PlainSave(d)
    BY <1>5 DEF StartFailed
  <2> QED
    BY <1>0, <2>1, <2>2, <2>3, <2>4 DEF WorkerStore
<1> QED
  BY <1>1, <1>2, <1>3, <1>4, <1>5 DEF StartStep

(* What a step of resume_flow does to the store. *)
LEMMA StoreResume ==
    ASSUME FlowInv, NEW w \in Worker, ResumeStep(w)
    PROVE  WorkerStore(w)
<1>0. wk[w] \in WorkerState /\ wk[w].d \in RowData
  BY DEF FlowInv, WorkerState
<1>1. CASE GuardResume(w) \/ CompensateCheck(w) \/ RecheckResume(w)
  BY <1>1, LoadStore DEF GuardResume, CompensateCheck, RecheckResume, WorkerStore
<1>2. CASE CompensateAcquire(w) \/ AcquireResume(w)
  BY <1>0, <1>2 DEF CompensateAcquire, AcquireResume, AcquireLease, Goto, WorkerStore,
                    storeVars, redisVars, FlowInv, WorkerState
<1>3. CASE ResumeRefused(w)
  <2>1. CASE Release(w) /\ UNCHANGED queueVars
    BY <1>3, <2>1 DEF ResumeRefused, WorkerStore, queueVars
  <2> QED
    BY <1>3, <2>1, LoadStore DEF ResumeRefused, WorkerStore
<1>4. CASE WakeUp(w)
  <2> DEFINE tok == IF wk[w].d.tok # 0 /\ wk[w].d.node = wk[w].d.ctx THEN wk[w].d.tok ELSE nextTok + 1
             d == [wk[w].d EXCEPT !.status = "running", !.node = wk[w].d.ctx, !.tok = tok]
  <2>1. Persist(w, d, "run") /\ tok <= MaxTok /\ wk[w].pc = "wake"
    BY <1>4 DEF WakeUp
  <2>2. wk[w].d.ctx = wk[w].c
    BY <2>1 DEF FlowInv, WorkersSane, Sane
  <2>3. tok \in 0 .. MaxTok
    <3>1. wk[w].d.tok \in 0 .. MaxTok /\ nextTok \in 0 .. MaxTok /\ tok <= MaxTok
      BY <1>0, <2>1 DEF RowData, FlowInv, WorldTyped
    <3> QED
      BY <3>1, FlowConstants
  <2> HIDE DEF tok
  <2>4. d \in RowData /\ d.status = "running" /\ d.ctx = wk[w].c
    BY <1>0, <2>2, <2>3 DEF RowData, Status
  <2> HIDE DEF d
  <2>5. CASE FencedSave(w, d)
    BY <1>4, <2>4, <2>5 DEF WorkerStore, Written
  <2> QED
    BY <2>1, <2>5 DEF Persist, WorkerStore, storeVars, redisVars
<1> QED
  BY <1>1, <1>2, <1>3, <1>4 DEF ResumeStep

(* What a step of the drive loop does to the store. *)
LEMMA StoreLoop ==
    ASSUME FlowInv, NEW w \in Worker, LoopStep(w)
    PROVE  WorkerStore(w)
<1>0. wk[w] \in WorkerState /\ wk[w].d \in RowData /\ wk[w].c \in 0 .. LastNode
  BY DEF FlowInv, WorkerState
<1>a. ASSUME NEW d \in RowData, NEW p, Persist(w, d, p), Written(w, d) PROVE WorkerStore(w)
  BY <1>a DEF Persist, WorkerStore, storeVars, redisVars
<1>1. CASE RunNode(w) \/ ResolveNode(w) \/ NodeFails(w) \/ LeaseLost(w) \/ StepBoundary(w)
           \/ PushTask(w)
  BY <1>1 DEF RunNode, ResolveNode, NodeFails, LeaseLost, StepBoundary, PushTask,
              WorkerStore, storeVars, redisVars
<1>2. CASE NodeAborted(w)
  <2>1. CASE Release(w) /\ Goto(w, "startAborted")
    BY <1>0, <2>1 DEF Goto, FlowInv, WorkerStore, WorkerState
  <2> QED
    BY <1>2, <2>1 DEF NodeAborted, WorkerStore, storeVars, redisVars
<1>3. CASE StepPersist(w)
  <2>1. CASE Persist(w, NextStep(wk[w].c, nextTok + 1), "top") /\ nextTok < MaxTok
    <3>1. wk[w].c < LastNode /\ nextTok \in 0 .. MaxTok
      BY <1>3 DEF StepPersist, FlowInv, WorkersSane, Sane, WorldTyped
    <3>2. wk[w].c + 1 \in 0 .. LastNode /\ nextTok + 1 \in 0 .. MaxTok
      BY SMTT(30), <1>0, <2>1, <3>1, FlowConstants
    <3>3. NextStep(wk[w].c, nextTok + 1) \in RowData
      BY <1>0, <3>2, Zeros DEF NextStep, RowData, Status
    <3>4. Written(w, NextStep(wk[w].c, nextTok + 1))
      BY <1>3 DEF NextStep, Written
    <3> QED
      BY <1>a, <2>1, <3>3, <3>4
  <2> QED
    BY <1>3, <2>1 DEF StepPersist, WorkerStore, storeVars, redisVars
<1>4. CASE SuspendPersist(w)
  <2>1. token[w] \in 0 .. MaxGen
    BY FlowConstants DEF FlowInv, StoreInv, TypeOK, TokensGranted, Worker
  <2>2. PendingRef(wk[w].c, token[w]) \in RowData
    BY <1>0, <2>1, Zeros DEF PendingRef, RowData, Status
  <2>3. Written(w, PendingRef(wk[w].c, token[w]))
    BY <1>4 DEF PendingRef, Written
  <2> QED
    BY <1>4, <1>a, <2>2, <2>3 DEF SuspendPersist
<1>5. CASE ClearPending(w)
  <2> DEFINE d == [wk[w].d EXCEPT !.dp = FALSE]
  <2>1. wk[w].d.status = "suspended"
    BY <1>5 DEF ClearPending, FlowInv, WorkersSane, Sane
  <2>2. d \in RowData /\ d.status = "suspended" /\ d.sub = wk[w].d.sub
    BY <1>0, <2>1 DEF RowData
  <2>3. Persist(w, d, "finish")
    BY <1>5 DEF ClearPending
  <2> HIDE DEF d
  <2>4. Written(w, d)
    BY <1>5, <2>2 DEF Written
  <2> QED
    BY <1>a, <2>2, <2>3, <2>4
<1>6. CASE EndPersist(w) \/ CancelPersist(w) \/ ErrorPersist(w)
  <2>1. ASSUME NEW s \in {"completed", "error", "cancelled"},
               Persist(w, [Terminated(wk[w].d, s) EXCEPT !.ctx = wk[w].c], "finish")
        PROVE  WorkerStore(w)
    <3> DEFINE d == [Terminated(wk[w].d, s) EXCEPT !.ctx = wk[w].c]
    <3>1. d \in RowData /\ d.status \in TerminalStatus
      <4>1. Terminated(wk[w].d, s) \in RowData /\ Terminated(wk[w].d, s).status = s
        BY <1>0, <2>1, TerminatedType
      <4> QED
        BY <1>0, <2>1, <4>1 DEF RowData, TerminalStatus
    <3>2. Persist(w, d, "finish")
      BY <2>1
    <3> HIDE DEF d
    <3>3. Written(w, d)
      BY <1>6, <3>1 DEF Written
    <3> QED
      BY <1>a, <3>1, <3>2, <3>3
  <2> QED
    BY <1>6, <2>1 DEF EndPersist, CancelPersist, ErrorPersist
<1>7. CASE HandleFailure(w)
  <2>1. CASE Release(w) /\ (Goto(w, "startFail") \/ Goto(w, "requeue"))
    BY <1>0, <2>1 DEF Goto, FlowInv, WorkerStore, WorkerState
  <2> QED
    BY <1>7, <2>1 DEF HandleFailure, WorkerStore, storeVars, redisVars
<1>8. CASE Requeue(w)
  BY <1>8, LoadStore DEF Requeue, WorkerStore
<1> QED
  BY <1>1, <1>2, <1>3, <1>4, <1>5, <1>6, <1>7, <1>8 DEF LoopStep

(* Every step of a worker treats the store in one of these ways. *)
LEMMA StoreAny ==
    ASSUME FlowInv, NEW w \in Worker, AnyStep(w)
    PROVE  WorkerStore(w)
<1>1. CASE WorkerCrash(w)
  <2>1. wk'[w].pc = "idle"
    BY <1>1 DEF WorkerCrash, Idle, FlowInv
  <2> QED
    BY <1>1, <2>1 DEF WorkerCrash, WorkerStore, storeVars, redisVars
<1> QED
  BY <1>1, StoreQueue, StoreStart, StoreResume, StoreLoop DEF AnyStep

(* The control plane and the TTL write no row under a token, and none that *)
(* says suspended.                                                         *)
LEMMA StoreOutside ==
    ASSUME FlowInv, Outside
    PROVE  /\ UNCHANGED <<wk, token, fencegen>>
           /\ lease' \in {lease, Free} /\ fence' \in {fence, 0}
           /\ \/ UNCHANGED row \/ row'.src = "none"
              \/ row'.src = "console" /\ row'.data.status # "suspended"
<1> USE DEF storeVars, redisVars, queueVars
<1>1. CASE LeaseTTL
  BY <1>1 DEF LeaseTTL, LeaseExpires
<1>2. CASE Publish
  BY <1>2, LoadStore DEF Publish, LoadRow, Load
<1>3. CASE CancelRequest \/ RetryRequest \/ DeleteRequest \/ DeleteSignal \/ DeleteSweep
  BY <1>3 DEF CancelRequest, RetryRequest, DeleteRequest, DeleteSignal, DeleteSweep
<1>4. CASE CancelCommit
  <2> DEFINE d == [ctl.d EXCEPT !.status = "cancelled"]
  <2>1. ctl.d \in RowData
    BY DEF FlowInv, WorldTyped
  <2>2. d.status = "cancelled"
    BY <2>1 DEF RowData
  <2>3. (ConsoleSave(d) \/ UNCHANGED storeVars) /\ wk' = wk
    BY <1>4 DEF CancelCommit
  <2> HIDE DEF d
  <2> QED
    BY <2>2, <2>3 DEF ConsoleSave
<1>5. CASE DeleteCommit
  BY <1>5 DEF DeleteCommit, ControlDelete, DropRow, NoRow
<1> QED
  BY <1>1, <1>2, <1>3, <1>4, <1>5 DEF Outside

-----------------------------------------------------------------------------
(* A row that waits for a service and owes it nothing: the task was pushed. *)
Marked(d, p) == d.status = "suspended" /\ ~d.dp /\ Kind[d.ctx] = "service" => d.sub \in p

(* The marker of the row, and that of a worker about to clear it. *)
MarkInv ==
    /\ HasRow => Marked(row.data, pushed)
    /\ \A w \in Worker : wk[w].pc = "clear" => wk[w].d.sub \in pushed

(* Only a worker that pushed its subscription comes to clear the marker. *)
LEMMA EntersClear ==
    ASSUME FlowInv, NEW w \in Worker, AnyStep(w), wk'[w].pc = "clear"
    PROVE  wk'[w].d.sub \in pushed'
<1> USE DEF FlowInv, WorkerState, Leave, Goto, Persist, AcquireLease, LeaseError
<1>1. CASE QueueStep(w)
  <2>1. CASE Take(w)
    BY <2>1, Dispatched DEF Take
  <2>2. CASE Reclaim(w)
    <3>1. PICK m \in Msg : \/ wk' = [wk EXCEPT ![w] = [Idle EXCEPT !.pc = "dlq", !.msg = m]]
                           \/ Dispatch(w, m, msgs[m].n + 1)
      BY <2>2 DEF Reclaim
    <3>2. [Idle EXCEPT !.pc = "dlq", !.msg = m].pc = "dlq"
      BY DEF Idle
    <3> QED
      BY <2>2, <3>1, <3>2, Dispatched DEF Reclaim
  <2>3. CASE DeadLetterGuard(w) \/ DeadLetterProbe(w) \/ DeadLetterVerdict(w)
    BY <2>3 DEF DeadLetterGuard, DeadLetterProbe, DeadLetterVerdict
  <2>4. CASE DeadLetterWrite(w) \/ Finish(w)
    BY <2>4 DEF DeadLetterWrite, Finish, Idle
  <2> QED
    BY <1>1, <2>1, <2>2, <2>3, <2>4 DEF QueueStep
<1>2. CASE StartStep(w)
  BY <1>2 DEF StartStep, StartCheck, StartCancelled, StartAcquire, StartPersist, StartFailed
<1>3. CASE ResumeStep(w)
  <2>1. CASE GuardResume(w) \/ CompensateAcquire(w) \/ CompensateCheck(w) \/ AcquireResume(w)
    BY <2>1 DEF GuardResume, CompensateAcquire, CompensateCheck, AcquireResume
  <2>2. CASE RecheckResume(w)
    BY <2>2 DEF RecheckResume
  <2>3. CASE ResumeRefused(w) \/ WakeUp(w)
    BY <2>3 DEF ResumeRefused, queueVars, WakeUp
  <2> QED
    BY <1>3, <2>1, <2>2, <2>3 DEF ResumeStep
<1>4. CASE LoopStep(w)
  <2>1. CASE RunNode(w)
    BY <2>1 DEF RunNode, AfterRun
  <2>2. CASE ResolveNode(w) \/ NodeFails(w) \/ NodeAborted(w) \/ LeaseLost(w) \/ StepBoundary(w)
    BY <2>2 DEF ResolveNode, NodeFails, NodeAborted, LeaseLost, StepBoundary
  <2>3. CASE StepPersist(w) \/ SuspendPersist(w) \/ ClearPending(w)
    BY <2>3 DEF StepPersist, SuspendPersist, ClearPending
  <2>4. CASE PushTask(w)
    BY <2>4 DEF PushTask
  <2>5. CASE EndPersist(w) \/ CancelPersist(w) \/ ErrorPersist(w)
    BY <2>5 DEF EndPersist, CancelPersist, ErrorPersist
  <2>6. CASE HandleFailure(w) \/ Requeue(w)
    BY <2>6 DEF HandleFailure, Requeue
  <2> QED
    BY <1>4, <2>1, <2>2, <2>3, <2>4, <2>5, <2>6 DEF LoopStep
<1>5. CASE WorkerCrash(w)
  BY <1>5 DEF WorkerCrash, Idle
<1> QED
  BY <1>1, <1>2, <1>3, <1>4, <1>5 DEF AnyStep

(* Every step keeps the marker's invariant. *)
LEMMA MarkNext == FlowInv /\ MarkInv /\ [FlowNext]_vars => MarkInv'
<1> SUFFICES ASSUME FlowInv, MarkInv, [FlowNext]_vars PROVE MarkInv'
  OBVIOUS
<1>1. ASSUME NEW w \in Worker, AnyStep(w) PROVE MarkInv'
  <2>1. /\ \A v \in Worker \ {w} : wk'[v] = wk[v]
        /\ pushed \subseteq pushed'
    BY <1>1, OnlyAny DEF OnlyWorker
  <2>2. ASSUME NEW v \in Worker, wk'[v].pc = "clear" PROVE wk'[v].d.sub \in pushed'
    BY <1>1, <2>1, <2>2, EntersClear DEF MarkInv
  <2>3. HasRow' => Marked(row'.data, pushed')
    <3>1. CASE UNCHANGED row \/ TryAcquireFenced(w) \/ Release(w) \/ Crash(w)
      BY <2>1, <3>1 DEF MarkInv, Marked, HasRow, TryAcquireFenced, Release, Crash, redisVars
    <3>2. ASSUME NEW d \in RowData, PlainSave(d), d.status # "suspended"
          PROVE  Marked(row'.data, pushed')
      BY <3>2 DEF PlainSave, Marked
    <3>3. ASSUME NEW d \in RowData, FencedSave(w, d), Written(w, d)
          PROVE  Marked(row'.data, pushed')
      <4>1. row'.data = d
        BY <3>3 DEF FencedSave
      <4>2. CASE d.status # "suspended"
        BY <4>1, <4>2 DEF Marked
      <4>3. CASE d.dp = (Kind[d.ctx] = "service")
        BY <4>1, <4>3 DEF Marked
      <4>4. CASE ClearPending(w) /\ d.sub = wk[w].d.sub
        BY <2>1, <4>1, <4>4 DEF Marked, MarkInv, ClearPending
      <4> QED
        BY <3>3, <4>2, <4>3, <4>4 DEF Written, TerminalStatus
    <3> QED
      BY <1>1, <3>1, <3>2, <3>3, StoreAny DEF WorkerStore
  <2> QED
    BY <2>2, <2>3 DEF MarkInv
<1>2. CASE Outside
  <2>1. pushed' = pushed
    BY <1>2 DEF Outside, LeaseTTL, Publish, CancelRequest, CancelCommit, RetryRequest,
                DeleteRequest, DeleteSignal, DeleteCommit, DeleteSweep, worldVars
  <2> QED
    BY <1>2, <2>1, StoreOutside DEF MarkInv, Marked, HasRow
<1>3. CASE UNCHANGED vars
  BY <1>3 DEF vars, flowVars, queueVars, worldVars, storeVars, redisVars, MarkInv, Marked, HasRow
<1> QED
  BY <1>1, <1>2, <1>3 DEF FlowNext, AnyStep

(* A row suspended on a service whose marker is gone was pushed: the       *)
(* marker is cleared only after the RPUSH of the very subscription it      *)
(* waits for, by the worker that suspended or by one that compensates.     *)
THEOREM FlowMarkerCleared == FlowSpec => []MarkerClearedAfterPush
<1>1. FlowInit => MarkInv
  BY DEF FlowInit, StoreInit, NoRow, HasRow, Idle, MarkInv
<1>2. MarkInv => MarkerClearedAfterPush
  BY DEF MarkInv, Marked, MarkerClearedAfterPush
<1> QED
  BY <1>1, <1>2, MarkNext, FlowInvariant, PTL DEF FlowSpec

-----------------------------------------------------------------------------
(* Another worker's step neither gives v the lease or the fence nor        *)
(* writes a row under a token while v has them.                            *)
LEMMA OthersKeep ==
    ASSUME FlowInv, NEW w \in Worker, NEW v \in Worker \ {w}, AnyStep(w), token[v] # 0,
           FenceAccepts(v)' \/ HoldsLease(v)'
    PROVE  /\ UNCHANGED row \/ row'.src # "fenced"
           /\ HoldsLease(v)' => HoldsLease(v)
           /\ FenceAccepts(v)' => FenceAccepts(v)
<1>0. StoreInv /\ token'[v] = token[v] /\ token[v] \in Nat /\ token[w] \in Nat
  <2>1. StoreInv /\ token \in [Worker -> Nat]
    BY DEF FlowInv, StoreInv, TypeOK, Worker
  <2>2. token'[v] = token[v]
    BY <2>1, QueueStepKeeps, StartStepKeeps, ResumeStepKeeps, LoopStepKeeps, CrashKeeps
       DEF OwnStep, AnyStep
  <2> QED
    BY <2>1, <2>2
<1>1. CASE UNCHANGED <<row, lease, fence, fencegen, token>>
  BY <1>1 DEF FenceAccepts, HoldsLease, LeaseValue
<1>2. CASE TryAcquireFenced(w)
  <2>1. fencegen' > fencegen /\ fencegen \in Nat /\ fencegen' \in Nat /\ token[v] <= fencegen
    BY <1>0, <1>2, NextGenerationExceeds
       DEF TryAcquireFenced, StoreInv, TypeOK, TokensGranted, Worker
  <2>2. ~FenceAccepts(v)'
    BY <1>0, <2>1 DEF FenceAccepts
  <2>3. ~HoldsLease(v)'
    BY <1>2 DEF HoldsLease, LeaseValue, TryAcquireFenced
  <2> QED
    BY <2>2, <2>3
<1>3. CASE Release(w) \/ Crash(w)
  <2>1. lease' \in {lease, Free} /\ UNCHANGED <<row, fence, fencegen>>
    BY <1>3 DEF Release, Crash, redisVars, LeaseAfterRelease
  <2> QED
    BY <1>0, <2>1 DEF FenceAccepts, HoldsLease, LeaseValue, Free
<1>4. ASSUME NEW d \in RowData, PlainSave(d)
      PROVE  row'.src # "fenced" /\ UNCHANGED <<lease, fence, fencegen, token>>
  BY <1>4 DEF PlainSave
<1>5. ASSUME NEW d \in RowData, FencedSave(w, d) PROVE FALSE
  <2>1. UNCHANGED <<lease, fence, fencegen, token>> /\ token[w] # 0 /\ fencegen = token[w]
    BY <1>5 DEF FencedSave, FenceAccepts
  <2>2. fencegen = token[v]
    BY <1>0, <2>1 DEF FenceAccepts, HoldsLease, LeaseValue, StoreInv, LeaseNewest, Free
  <2> QED
    BY <1>0, <2>1, <2>2 DEF StoreInv, GenerationsUnique, Worker
<1> QED
  BY <1>1, <1>2, <1>3, <1>4, <1>5, StoreAny DEF WorkerStore, FenceAccepts, HoldsLease, LeaseValue

(* Where the next thing a worker does is to run, or to go on after, a node. *)
DrivePC == {"wake", "run", "top", "step"}

(* The row that the holder of the lease drives says no more than what the  *)
(* worker has in memory.                                                   *)
HolderInv ==
    \A w \in Worker : wk[w].pc \in DrivePC /\ HoldsLease(w) /\ row.src = "fenced"
                         => row.data.ctx <= wk[w].c

(* How a worker comes to drive the execution, and how it goes on. *)
LEMMA EntersDrive ==
    ASSUME FlowInv, NEW w \in Worker, AnyStep(w), wk'[w].pc \in DrivePC
    PROVE  /\ wk'[w].c \in Nat
           /\ \/ StartPersist(w) \/ WakeUp(w) \/ StepPersist(w)
              \/ UNCHANGED row /\ wk'[w].c = row.data.ctx
              \/ UNCHANGED <<row, lease, token>> /\ wk[w].pc \in DrivePC /\ wk'[w].c >= wk[w].c
<1>0. wk[w] \in WorkerState /\ wk[w].c \in 0 .. LastNode /\ LastNode \in Nat
  BY FlowConstants DEF FlowInv, WorkerState
<1>a. FlowInv'
  BY QueueStepKeeps, StartStepKeeps, ResumeStepKeeps, LoopStepKeeps, CrashKeeps DEF AnyStep
<1>b. wk'[w].c \in Nat
  BY <1>0, <1>a DEF FlowInv, WorkerState
<1> USE DEF FlowInv, WorkerState, DrivePC, Leave, Goto, AcquireLease, LeaseError
<1>1. CASE QueueStep(w)
  <2>1. CASE Take(w)
    BY <2>1, Dispatched DEF Take
  <2>2. CASE Reclaim(w)
    <3>1. PICK m \in Msg : \/ wk' = [wk EXCEPT ![w] = [Idle EXCEPT !.pc = "dlq", !.msg = m]]
                           \/ Dispatch(w, m, msgs[m].n + 1)
      BY <2>2 DEF Reclaim
    <3>2. [Idle EXCEPT !.pc = "dlq", !.msg = m].pc = "dlq"
      BY DEF Idle
    <3> QED
      BY <2>2, <3>1, <3>2, Dispatched DEF Reclaim
  <2>3. CASE DeadLetterGuard(w) \/ DeadLetterProbe(w) \/ DeadLetterVerdict(w)
    BY <2>3 DEF DeadLetterGuard, DeadLetterProbe, DeadLetterVerdict
  <2>4. CASE DeadLetterWrite(w) \/ Finish(w)
    BY <2>4 DEF DeadLetterWrite, Finish, Idle
  <2> QED
    BY <1>1, <2>1, <2>2, <2>3, <2>4 DEF QueueStep
<1>2. CASE StartStep(w)
  BY <1>2, <1>b DEF StartStep, StartCheck, StartCancelled, StartAcquire, StartFailed
<1>3. CASE ResumeStep(w)
  <2>1. CASE GuardResume(w) \/ CompensateAcquire(w) \/ CompensateCheck(w) \/ AcquireResume(w)
    BY <2>1 DEF GuardResume, CompensateAcquire, CompensateCheck, AcquireResume
  <2>2. CASE RecheckResume(w)
    BY <2>2, <1>b, LoadStore DEF RecheckResume
  <2>3. CASE ResumeRefused(w)
    BY <2>3 DEF ResumeRefused, queueVars
  <2> QED
    BY <1>3, <1>b, <2>1, <2>2, <2>3 DEF ResumeStep
<1>4. CASE LoopStep(w)
  <2>1. CASE RunNode(w)
    BY <1>0, <1>b, <2>1 DEF RunNode, AfterRun, storeVars, redisVars
  <2>2. CASE ResolveNode(w) \/ NodeFails(w) \/ LeaseLost(w) \/ StepBoundary(w)
    BY <1>0, <1>b, <2>2 DEF ResolveNode, NodeFails, LeaseLost, StepBoundary, storeVars, redisVars
  <2>3. CASE NodeAborted(w)
    BY <2>3 DEF NodeAborted
  <2>4. CASE SuspendPersist(w) \/ ClearPending(w) \/ PushTask(w)
    BY <2>4 DEF SuspendPersist, ClearPending, PushTask, Persist
  <2>5. CASE EndPersist(w) \/ CancelPersist(w) \/ ErrorPersist(w)
    BY <2>5 DEF EndPersist, CancelPersist, ErrorPersist, Persist
  <2>6. CASE HandleFailure(w) \/ Requeue(w)
    BY <2>6 DEF HandleFailure, Requeue
  <2> QED
    BY <1>4, <1>b, <2>1, <2>2, <2>3, <2>4, <2>5, <2>6 DEF LoopStep
<1>5. CASE WorkerCrash(w)
  BY <1>5 DEF WorkerCrash, Idle
<1> QED
  BY <1>1, <1>2, <1>3, <1>4, <1>5 DEF AnyStep

(* The three writes after which a worker drives on record its progress. *)
LEMMA DrivesOn ==
    ASSUME FlowInv, NEW w \in Worker, StartPersist(w) \/ WakeUp(w) \/ StepPersist(w),
           wk'[w].pc \in DrivePC
    PROVE  row'.src = "fenced" /\ row'.data.status = "running" /\ row'.data.ctx <= wk'[w].c
<1>0. wk[w] \in WorkerState /\ wk[w].c \in Nat
  BY FlowConstants DEF FlowInv, WorkerState
<1>1. ASSUME NEW d, NEW p, Persist(w, d, p)
      PROVE  /\ row'.src = "fenced" /\ row'.data = d
             /\ wk'[w].c = wk[w].c
  BY <1>0, <1>1 DEF Persist, FencedSave, LeaseError, Leave, DrivePC, FlowInv, WorkerState
<1>2. CASE StartPersist(w)
  <2>1. wk[w].d.status = "running" /\ wk[w].d.ctx = 0
    BY <1>2 DEF StartPersist, FlowInv, WorkersSane, Sane, FreshPC
  <2> QED
    BY <1>0, <1>1, <1>2, <2>1 DEF StartPersist
<1>3. CASE WakeUp(w)
  <2>1. wk[w].pc = "wake" /\ wk[w].d.ctx = wk[w].c /\ wk[w].d \in RowData
    BY <1>0, <1>3 DEF WakeUp, FlowInv, WorkersSane, Sane, WorkerState
  <2>2. PICK tok : Persist(w, [wk[w].d EXCEPT !.status = "running", !.node = wk[w].d.ctx,
                                             !.tok = tok], "run")
    BY <1>3 DEF WakeUp
  <2> DEFINE d == [wk[w].d EXCEPT !.status = "running", !.node = wk[w].d.ctx, !.tok = tok]
  <2>3. d.status = "running" /\ d.ctx = wk[w].c
    BY <2>1 DEF RowData
  <2>4. Persist(w, d, "run")
    BY <2>2
  <2> HIDE DEF d
  <2> QED
    BY <1>0, <1>1, <2>3, <2>4
<1>4. CASE StepPersist(w)
  <2>1. CASE Persist(w, NextStep(wk[w].c, nextTok + 1), "top")
    BY <1>0, <1>1, <2>1 DEF NextStep
  <2>2. CASE Goto(w, "cancel")
    BY <1>0, <2>2 DEF Goto, DrivePC, FlowInv, WorkerState
  <2> QED
    BY <1>4, <2>1, <2>2 DEF StepPersist
<1> QED
  BY <1>2, <1>3, <1>4

(* Every step keeps the holder's invariant. *)
LEMMA HolderNext == FlowInv /\ HolderInv /\ [FlowNext]_vars => HolderInv'
<1> SUFFICES ASSUME FlowInv, HolderInv, [FlowNext]_vars PROVE HolderInv'
  OBVIOUS
<1> SUFFICES ASSUME NEW v \in Worker,
                    wk'[v].pc \in DrivePC, HoldsLease(v)', row'.src = "fenced"
             PROVE  row'.data.ctx <= wk'[v].c
  BY DEF HolderInv
<1>1. ASSUME NEW w \in Worker, AnyStep(w) PROVE row'.data.ctx <= wk'[v].c
  <2>1. CASE v # w
    <3>1. wk'[v] = wk[v]
      BY <1>1, <2>1, OnlyAny DEF OnlyWorker
    <3>2. token[v] # 0
      BY <3>1 DEF FlowInv, WorkersSane, Sane, TokenPC, DrivePC
    <3> QED
      BY <1>1, <2>1, <3>1, <3>2, OthersKeep DEF HolderInv
  <2>2. CASE v = w
    <3>1. CASE StartPersist(w) \/ WakeUp(w) \/ StepPersist(w)
      BY <2>2, <3>1, DrivesOn
    <3>2. CASE UNCHANGED row /\ wk'[w].c = row.data.ctx
      <4>1. wk'[w].c \in Nat
        BY <1>1, <2>2, EntersDrive
      <4> QED
        BY <2>2, <3>2, <4>1
    <3>3. CASE UNCHANGED <<row, lease, token>> /\ wk[w].pc \in DrivePC /\ wk'[w].c >= wk[w].c
      <4>1. row.data.ctx <= wk[w].c
        BY <2>2, <3>3 DEF HolderInv, HoldsLease, LeaseValue
      <4>2. row.data.ctx \in Nat /\ wk[w].c \in Nat /\ wk'[w].c \in Nat
        <5>1. row \in Row /\ Row = [src : {"none", "fenced", "plain", "console", "restored"},
                                  gen : Nat, data : RowData]
          BY FlowConstants DEF FlowInv, StoreInv, TypeOK, Row
        <5>2. row.data.ctx \in 0 .. LastNode /\ wk[w].c \in 0 .. LastNode
          BY <5>1 DEF RowData, FlowInv, WorkerState
        <5>3. wk'[w].c \in Nat
          BY <1>1, <2>2, EntersDrive
        <5> QED
          BY <5>2, <5>3, FlowConstants
      <4> QED
        BY <2>2, <3>3, <4>1, <4>2
    <3> QED
      BY <1>1, <2>2, <3>1, <3>2, <3>3, EntersDrive
  <2> QED
    BY <2>1, <2>2
<1>2. CASE Outside
  <2>1. UNCHANGED <<wk, token, row>> /\ lease' \in {lease, Free} /\ token[v] # 0
    BY <1>2, StoreOutside DEF FlowInv, WorkersSane, Sane, TokenPC, DrivePC
  <2> QED
    BY <2>1 DEF HolderInv, HoldsLease, LeaseValue, Free
<1>3. CASE UNCHANGED vars
  BY <1>3 DEF vars, flowVars, queueVars, storeVars, redisVars, HolderInv, HoldsLease, LeaseValue
<1> QED
  BY <1>1, <1>2, <1>3 DEF FlowNext, AnyStep

(* A worker that is about to run a node under a lease it still holds has   *)
(* not been overtaken: no progress recorded under a lease is ahead of what *)
(* it has in memory, whatever expired and whoever else acquired before it. *)
THEOREM FlowHolderNeverReruns == FlowSpec => []HolderNeverReruns
<1>1. FlowInit => HolderInv
  BY DEF FlowInit, Idle, HolderInv, DrivePC
<1>2. HolderInv => HolderNeverReruns
  BY DEF HolderInv, HolderNeverReruns, DrivePC
<1> QED
  BY <1>1, <1>2, HolderNext, FlowInvariant, PTL DEF FlowSpec

-----------------------------------------------------------------------------
(* Where a worker may still write the row under its token. *)
WritePC ==
    {"push", "clear", "wake", "run", "top", "step", "suspend", "end", "cancel", "failed", "error"}

FinalRow == row.src = "fenced" /\ row.data.status \in TerminalStatus

(* A worker whose write the fence would accept does not have a finished    *)
(* row before it, unless it retries one that ended in error.               *)
FinalInv ==
    \A w \in Worker : wk[w].pc \in WritePC /\ FenceAccepts(w) /\ FinalRow
       => row.data.status = "error" /\ wk[w].type = "retry" /\ wk[w].pc \in {"wake", "cancel"}

(* How a worker comes where it may write. *)
LEMMA EntersWrite ==
    ASSUME FlowInv, NEW w \in Worker, AnyStep(w), wk'[w].pc \in WritePC
    PROVE  \/ row'.src = "fenced" /\ row'.data.status \notin TerminalStatus
           \/ UNCHANGED row /\ row.data.status \notin TerminalStatus
           \/ /\ UNCHANGED row
              /\ row.data.status = "error" /\ wk'[w].type = "retry" /\ wk'[w].pc \in {"wake", "cancel"}
           \/ UNCHANGED <<row, fence, fencegen, token>> /\ wk[w].pc \in WritePC \ {"wake", "cancel"}
<1>0. wk[w] \in WorkerState
  BY DEF FlowInv
<1> USE DEF FlowInv, WorkerState, WritePC, Leave, Goto, AcquireLease, LeaseError
<1>1. CASE QueueStep(w)
  <2>1. CASE Take(w)
    BY <2>1, Dispatched DEF Take
  <2>2. CASE Reclaim(w)
    <3>1. PICK m \in Msg : \/ wk' = [wk EXCEPT ![w] = [Idle EXCEPT !.pc = "dlq", !.msg = m]]
                           \/ Dispatch(w, m, msgs[m].n + 1)
      BY <2>2 DEF Reclaim
    <3>2. [Idle EXCEPT !.pc = "dlq", !.msg = m].pc = "dlq"
      BY DEF Idle
    <3> QED
      BY <2>2, <3>1, <3>2, Dispatched DEF Reclaim
  <2>3. CASE DeadLetterGuard(w) \/ DeadLetterProbe(w) \/ DeadLetterVerdict(w)
    BY <2>3 DEF DeadLetterGuard, DeadLetterProbe, DeadLetterVerdict
  <2>4. CASE DeadLetterWrite(w) \/ Finish(w)
    BY <2>4 DEF DeadLetterWrite, Finish, Idle
  <2> QED
    BY <1>1, <2>1, <2>2, <2>3, <2>4 DEF QueueStep
<1>2. CASE StartStep(w)
  <2>1. CASE StartPersist(w)
    <3>1. wk'[w].pc \in DrivePC
      BY <2>1 DEF StartPersist, Persist, DrivePC
    <3> QED
      BY <2>1, <3>1, DrivesOn DEF TerminalStatus
  <2> QED
    BY <1>2, <2>1 DEF StartStep, StartCheck, StartCancelled, StartAcquire, StartFailed
<1>3. CASE ResumeStep(w)
  <2>1. CASE GuardResume(w) \/ CompensateAcquire(w) \/ AcquireResume(w)
    BY <2>1 DEF GuardResume, CompensateAcquire, AcquireResume
  <2>2. CASE CompensateCheck(w)
    BY <2>2, LoadStore DEF CompensateCheck, PendingDispatch, TerminalStatus
  <2>3. CASE RecheckResume(w)
    <3>1. UNCHANGED row
      BY <2>3, LoadStore DEF RecheckResume
    <3>2. GuardVerdict(wk[w].type) = "go" /\ wk'[w].type = EffectiveType(w)
          /\ (wk'[w].pc \in {"wake", "cancel"} \/ ~Wakeup(EffectiveType(w)))
      BY <2>3 DEF RecheckResume
    <3>3. CASE row.data.status \in TerminalStatus
      <4>1. row.data.status = "error" /\ wk[w].type = "retry"
        <5>1. wk[w].type \in MsgType
          BY <1>0
        <5> QED
          BY <3>2, <3>3, <5>1, VerdictGo DEF TerminalStatus
      <4>2. EffectiveType(w) = "retry"
        BY <4>1 DEF EffectiveType
      <4> QED
        BY <3>1, <3>2, <4>1, <4>2 DEF Wakeup
    <3> QED
      BY <3>1, <3>3
  <2>4. CASE ResumeRefused(w)
    BY <2>4 DEF ResumeRefused, queueVars
  <2>5. CASE WakeUp(w)
    <3>1. wk'[w].pc \in DrivePC
      BY <2>5 DEF WakeUp, Persist, DrivePC
    <3> QED
      BY <2>5, <3>1, DrivesOn DEF TerminalStatus
  <2> QED
    BY <1>3, <2>1, <2>2, <2>3, <2>4, <2>5 DEF ResumeStep
<1>4. CASE LoopStep(w)
  <2>1. CASE RunNode(w) \/ ResolveNode(w) \/ NodeFails(w)
    BY <2>1 DEF RunNode, AfterRun, ResolveNode, NodeFails, storeVars, redisVars
  <2>2. CASE LeaseLost(w) \/ StepBoundary(w) \/ PushTask(w)
    BY <2>2 DEF LeaseLost, StepBoundary, PushTask, storeVars, redisVars
  <2>3. CASE NodeAborted(w)
    BY <2>3 DEF NodeAborted, storeVars, redisVars
  <2>4. CASE StepPersist(w)
    <3>1. CASE wk'[w].pc \in DrivePC
      BY <2>4, <3>1, DrivesOn DEF TerminalStatus
    <3> QED
      BY <2>4, <3>1 DEF StepPersist, Persist, DrivePC, storeVars, redisVars
  <2>5. CASE SuspendPersist(w)
    BY <2>5 DEF SuspendPersist, Persist, FencedSave, PendingRef, TerminalStatus
  <2>6. CASE ClearPending(w)
    BY <2>6 DEF ClearPending, Persist
  <2>7. CASE EndPersist(w) \/ CancelPersist(w) \/ ErrorPersist(w)
    BY <2>7 DEF EndPersist, CancelPersist, ErrorPersist, Persist
  <2>8. CASE HandleFailure(w) \/ Requeue(w)
    BY <2>8 DEF HandleFailure, Requeue, storeVars, redisVars
  <2> QED
    BY <1>4, <2>1, <2>2, <2>3, <2>4, <2>5, <2>6, <2>7, <2>8 DEF LoopStep
<1>5. CASE WorkerCrash(w)
  BY <1>5 DEF WorkerCrash, Idle
<1> QED
  BY <1>1, <1>2, <1>3, <1>4, <1>5 DEF AnyStep

(* Every step keeps the invariant on final rows. *)
LEMMA FinalNext == FlowInv /\ FinalInv /\ [FlowNext]_vars => FinalInv'
<1> SUFFICES ASSUME FlowInv, FinalInv, [FlowNext]_vars PROVE FinalInv'
  OBVIOUS
<1> SUFFICES ASSUME NEW v \in Worker, wk'[v].pc \in WritePC, FenceAccepts(v)', FinalRow'
             PROVE  /\ row'.data.status = "error" /\ wk'[v].type = "retry"
                    /\ wk'[v].pc \in {"wake", "cancel"}
  BY DEF FinalInv
<1>1. ASSUME NEW w \in Worker, AnyStep(w)
      PROVE  /\ row'.data.status = "error" /\ wk'[v].type = "retry"
             /\ wk'[v].pc \in {"wake", "cancel"}
  <2>1. CASE v # w
    <3>1. wk'[v] = wk[v]
      BY <1>1, <2>1, OnlyAny DEF OnlyWorker
    <3>2. token[v] # 0
      BY <3>1 DEF FlowInv, WorkersSane, Sane, TokenPC, WritePC
    <3>3. UNCHANGED row /\ FenceAccepts(v)
      BY <1>1, <2>1, <3>2, OthersKeep DEF FinalRow
    <3> QED
      BY <3>1, <3>3 DEF FinalInv, FinalRow
  <2>2. CASE v = w
    <3>1. CASE UNCHANGED <<row, fence, fencegen, token>> /\ wk[w].pc \in WritePC \ {"wake", "cancel"}
      BY <2>2, <3>1 DEF FinalInv, FinalRow, FenceAccepts
    <3> QED
      BY <1>1, <2>2, <3>1, EntersWrite DEF FinalRow
  <2> QED
    BY <2>1, <2>2
<1>2. CASE Outside
  <2>1. UNCHANGED <<wk, token, fencegen, row>> /\ fence' \in {fence, 0} /\ token[v] # 0
    BY <1>2, StoreOutside DEF FlowInv, WorkersSane, Sane, TokenPC, WritePC, FinalRow
  <2> QED
    BY <2>1 DEF FinalInv, FinalRow, FenceAccepts
<1>3. CASE UNCHANGED vars
  BY <1>3 DEF vars, flowVars, queueVars, storeVars, redisVars, FinalInv, FinalRow, FenceAccepts
<1> QED
  BY <1>1, <1>2, <1>3 DEF FlowNext, AnyStep

(* A terminal status written under a lease is final: only the retry of an  *)
(* error row, and a first start that overwrites (StartKeepsCheckpoint),    *)
(* replace it under a token.                                               *)
THEOREM FlowTerminalIsFinal == FlowSpec => TerminalIsFinal
<1>1. FlowInit => FinalInv
  BY DEF FlowInit, Idle, FinalInv, WritePC
<1>2. ASSUME FlowInv, FinalInv, [FlowNext]_vars,
             FinalRow, row' # row, row'.src = "fenced"
      PROVE  \/ /\ row.data.status = "error"
                /\ \E w \in Worker : wk[w].type = "retry" /\ (WakeUp(w) \/ CancelPersist(w))
             \/ \E w \in Worker : wk[w].pc = "startPersist" /\ StartPersist(w)
  <2>1. PICK w \in Worker : AnyStep(w)
    BY <1>2, StoreOutside DEF FlowNext, AnyStep, vars, storeVars, redisVars
  <2>2. PICK d \in RowData : FencedSave(w, d) /\ Written(w, d)
    <3>1. TryAcquireFenced(w) \/ Release(w) \/ Crash(w) => row' = row
      BY DEF TryAcquireFenced, Release, Crash, redisVars
    <3>2. \A d \in RowData : PlainSave(d) => row'.src = "plain"
      BY DEF PlainSave
    <3>3. WorkerStore(w)
      BY <1>2, <2>1, StoreAny
    <3> QED
      BY <1>2, <3>1, <3>2, <3>3 DEF WorkerStore
  <2>3. FenceAccepts(w)
    BY <2>2 DEF FencedSave
  <2>4. CASE StartPersist(w)
    BY <2>4 DEF StartPersist
  <2>5. CASE ~StartPersist(w)
    <3>1. /\ WakeUp(w) => wk[w].pc = "wake"
          /\ StepPersist(w) => wk[w].pc = "step"
          /\ SuspendPersist(w) => wk[w].pc = "suspend"
          /\ ClearPending(w) => wk[w].pc = "clear"
          /\ EndPersist(w) => wk[w].pc = "end"
          /\ CancelPersist(w) => wk[w].pc = "cancel"
          /\ ErrorPersist(w) => wk[w].pc = "error"
      BY DEF WakeUp, StepPersist, SuspendPersist, ClearPending, EndPersist, CancelPersist,
             ErrorPersist
    <3>2. row.data.status = "error" /\ wk[w].type = "retry" /\ wk[w].pc \in {"wake", "cancel"}
      BY <1>2, <2>2, <2>3, <2>5, <3>1 DEF Written, FinalInv, WritePC
    <3> QED
      BY <2>2, <2>5, <3>1, <3>2 DEF Written
  <2> QED
    BY <2>4, <2>5
<1>3. FlowInv /\ FinalInv /\ [FlowNext]_vars
        => [FinalRow /\ row' # row /\ row'.src = "fenced"
              => \/ /\ row.data.status = "error"
                    /\ \E w \in Worker : wk[w].type = "retry" /\ (WakeUp(w) \/ CancelPersist(w))
                 \/ \E w \in Worker : wk[w].pc = "startPersist" /\ StartPersist(w)]_vars
  BY <1>2
<1>4. FlowSpec => []FinalInv
  BY <1>1, FinalNext, FlowInvariant, PTL DEF FlowSpec
<1> QED
  BY <1>3, <1>4, FlowInvariant, PTL DEF FlowSpec, TerminalIsFinal, FinalRow
=============================================================================
