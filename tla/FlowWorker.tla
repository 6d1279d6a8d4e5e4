----------------------------- MODULE FlowWorker -----------------------------
(***************************************************************************)
(* One execution driven by the workers of a cluster                        *)
(* (plaita/server/flow_worker.py): the messages that carry it in the Redis *)
(* stream (plaita/server/task_queue.py), start_flow and resume_flow with   *)
(* the step loop they share, the failure paths, and the control plane that *)
(* cancels, retries and deletes it (plaita-console, api/executions.py).    *)
(*                                                                         *)
(* The lease, the generations and the row are those of FencedStore; a      *)
(* session there is a worker thread here, and no worker lists executions   *)
(* or rebuilds their index.  An action ends where the code reads or writes *)
(* a shared key, or where a node's side effect happens, so two workers     *)
(* interleave everywhere they can in the code.                             *)
(*                                                                         *)
(* The flow is a chain of nodes 1 .. LastNode behind the Start node; node  *)
(* LastNode is the End node.  $LAST_NODE of a context is modelled by the   *)
(* number of the last node completed, and 0 stands for the empty context.  *)
(***************************************************************************)
EXTENDS FencedStore, Sequences, FiniteSets

CONSTANTS
    Kind,                   \* Kind[k]: "task", "service" or "event"
    MaxDeliveries,          \* deliveries before a message is dead-lettered
    RetryBudget,            \* attempts of a node before its failure is final
    MaxWakeups,             \* G1_MAX_WAKEUPS: error rows a retry may wake up
    ClaimIdleExceedsLease,  \* is claim_min_idle_ms set above the lease TTL
    Budgets,                \* how often each thing in Fault may happen: the choices
    MaxMsg,                 \* bound on the messages of a behaviour
    MaxTok                  \* bound on the step tokens minted

LastNode == Len(Kind)
Node == 1 .. LastNode
Msg == 1 .. MaxMsg
Worker == Session

(* Faults, and requests from outside, that each have a budget. *)
Fault == {"crash", "stall", "fail", "push", "retry", "request"}

Status == {"running", "suspended", "completed", "error", "cancelled"}
TerminalStatus == {"completed", "error", "cancelled"}

(* The part of ExecutionState that control depends on: node and tok are    *)
(* next_step, or on an error row the failed_step evidence kept from it;    *)
(* dp is a pending reference of kind "service" (the task is still to be    *)
(* pushed); sub is the subscription the suspended node waits for.          *)
RowData == [status : Status, ctx : 0 .. LastNode, node : 0 .. LastNode,
            tok : 0 .. MaxTok, dp : BOOLEAN, sub : 0 .. MaxGen]

ASSUME FlowAssumption ==
    /\ Kind \in Seq({"task", "service", "event"}) /\ LastNode > 0
    /\ Kind[LastNode] = "task"
    /\ MaxDeliveries \in Nat \ {0, 1} /\ RetryBudget \in Nat /\ MaxWakeups \in Nat
    /\ ClaimIdleExceedsLease \in BOOLEAN
    /\ Budgets \subseteq [Fault -> Nat]
    /\ MaxMsg \in Nat \ {0} /\ MaxTok \in Nat
    /\ Content = RowData
    /\ Terminal = {d \in RowData : d.status \in TerminalStatus}

VARIABLES
    msgs,       \* the stream with its pending list
    wk,         \* each worker thread: where it is and what it has in memory
    cancelFlag, \* does execution:cancel:{id} exist
    tries,      \* node retry counters
    wakeups,    \* G1 wake-up counter
    ctl,        \* the control plane's request in flight, with the row it read
    subs,       \* event subscriptions <<id, node>>
    pushed,     \* subscriptions whose service task was pushed
    decided,    \* subscriptions whose decision was published
    nextTok,    \* step tokens minted
    budget,     \* what is left of each fault
    ran,        \* history: <<node, token>> of every node run
    late        \* history: nodes each worker ran after the cancel flag was set

queueVars == <<msgs, wk>>
counterVars == <<tries, wakeups, nextTok>>
worldVars == <<subs, pushed, decided>>
flowHistory == <<ran, late>>
flowVars == <<queueVars, cancelFlag, counterVars, ctl, worldVars, budget, flowHistory>>
vars == <<storeVars, flowVars>>

-----------------------------------------------------------------------------
(* The queue. *)

MsgType == {"start", "continue", "retry", "event", "cancel"}
NoMsg == 0

Message == [type : MsgType, sub : 0 .. MaxGen,
            st : {"free", "queued", "pending", "gone"},
            by : Worker \cup {NoSession}, n : 0 .. MaxDeliveries]

FreeMsg == [type |-> "start", sub |-> 0, st |-> "free", by |-> NoSession, n |-> 0]

(* A worker that reads the queue and processes nothing. *)
Idle == [pc |-> "idle", msg |-> NoMsg, type |-> "start", path |-> "resume",
         initial |-> TRUE, c |-> 0, waits |-> FALSE, ack |-> TRUE, d |-> SomeContent]

PC == {"idle", "start", "startCancel", "startAcquire", "startPersist", "guard",
       "compAcquire", "compCheck", "push", "clear", "acquire", "recheck", "wake",
       "run", "top", "step", "suspend", "end", "cancel", "failed", "error",
       "startFail", "startAborted", "requeue", "refused", "finish", "dlq", "dlqLease",
       "dlqTomb", "dlqWrite"}

WorkerState == [pc : PC, msg : Msg \cup {NoMsg}, type : MsgType,
                path : {"start", "resume"}, initial : BOOLEAN, c : 0 .. LastNode,
                waits : BOOLEAN, ack : BOOLEAN, d : RowData]

Live(m) == msgs[m].st \in {"queued", "pending"}
Attended(m) == \E w \in Worker : wk[w].msg = m
HasSlot == \E m \in Msg : msgs[m].st = "free"
Slot == CHOOSE m \in Msg : msgs[m].st = "free" /\ \A k \in Msg : k < m => msgs[k].st # "free"
Queued(t, sub) == [FreeMsg EXCEPT !.type = t, !.sub = sub, !.st = "queued"]

(* enqueue_task: XADD. *)
Enqueued(t, sub) == [msgs EXCEPT ![Slot] = Queued(t, sub)]

(* RedisStreamTaskQueue.ack: XACK then XDEL, whoever the owner is by now. *)
Acked(ms, m) == [ms EXCEPT ![m].st = "gone", ![m].by = NoSession, ![m].n = 0]

HasRow == row.src # "none"
Spend(f) == /\ budget[f] > 0
            /\ budget' = [budget EXCEPT ![f] = @ - 1]

Goto(w, p) == wk' = [wk EXCEPT ![w].pc = p]

NoRequest == [st |-> "none", d |-> SomeContent]

(* The worker is through with its message; ack says what becomes of it. *)
Leave(w, ack) == wk' = [wk EXCEPT ![w].pc = "finish", ![w].ack = ack]

FlowInit ==
    /\ StoreInit /\ fence = 0
    /\ msgs = [m \in Msg |-> IF m = 1 THEN Queued("start", 0) ELSE FreeMsg]
    /\ wk = [w \in Worker |-> Idle]
    /\ cancelFlag = FALSE
    /\ tries = [k \in Node |-> 0] /\ wakeups = 0 /\ nextTok = 0
    /\ ctl = NoRequest
    /\ subs = {} /\ pushed = {} /\ decided = {}
    /\ budget \in Budgets
    /\ ran = {} /\ late = [w \in Worker |-> 0]

-----------------------------------------------------------------------------
(* Reading the row: load_execution_state. *)
LoadRow == IF HasRow THEN Load ELSE UNCHANGED storeVars

\* Mutant: every lease conflict is acknowledged.
AckEveryConflict(m) == m = m

(* A lease conflict or a lease lost is acknowledged, unless the message    *)
(* carries a decision that nothing else remembers.                         *)
LeaseConflictAckSafe(m) == msgs[m].type \notin {"event", "cancel"}

LeaseError(w) == Leave(w, LeaseConflictAckSafe(wk[w].msg))

(* The state handed to the storage: a terminal row declares no step, but   *)
(* an error row keeps the declaration as evidence.                         *)
Terminated(d, status) ==
    [d EXCEPT !.status = status, !.dp = FALSE,
              !.node = IF status = "error" THEN @ ELSE 0,
              !.tok = IF status = "error" THEN @ ELSE 0]

\* Mutant: the row is written whatever the fence says.
PersistUnfenced(w, d, next) ==
    /\ token[w] # 0
    /\ row' = [src |-> "fenced", gen |-> token[w], data |-> d]
    /\ AddMember
    /\ UNCHANGED <<lease, fence, fencegen, tombstone, token, backup, historyVars>>
    /\ wk' = [wk EXCEPT ![w].pc = next, ![w].d = d, ![w].ack = TRUE]

(* _persist_state_or_raise under the session's token: refused by the fence *)
(* the worker leaves with ExecutionLeaseError.                             *)
Persist(w, d, next) ==
    \/ /\ FencedSave(w, d)
       /\ wk' = [wk EXCEPT ![w].pc = next, ![w].d = d, ![w].ack = TRUE]
    \/ /\ ~FenceAccepts(w)
       /\ LeaseError(w)
       /\ UNCHANGED storeVars

AcquireLease(w, next) ==
    /\ TryAcquireFenced(w)
    /\ Goto(w, next)

-----------------------------------------------------------------------------
(* Taking a message. *)

\* Mutant: a message is acknowledged when it is taken.
DispatchAcksFirst(w, m, n) ==
    /\ msgs' = [msgs EXCEPT ![m].st = "gone"]
    /\ wk' = [wk EXCEPT ![w] =
            [Idle EXCEPT !.pc = IF n = n /\ msgs[m].type = "start" THEN "start" ELSE "guard",
                         !.msg = m, !.type = msgs[m].type]]

(* _dispatch_task: the carrier of a deleted execution is dropped. *)
Dispatch(w, m, n) ==
    IF tombstone
      THEN /\ msgs' = Acked(msgs, m)
           /\ UNCHANGED wk
      ELSE /\ msgs' = [msgs EXCEPT ![m].st = "pending", ![m].by = w, ![m].n = n]
           /\ wk' = [wk EXCEPT ![w] =
                [Idle EXCEPT !.pc = IF msgs[m].type = "start" THEN "start" ELSE "guard",
                             !.msg = m, !.type = msgs[m].type]]

(* XREADGROUP: the oldest message never delivered. *)
Take(w) ==
    /\ wk[w].pc = "idle"
    /\ \E m \in Msg :
          /\ msgs[m].st = "queued"
          /\ \A k \in Msg : k < m => msgs[k].st # "queued"
          /\ Dispatch(w, m, 1)
    /\ UNCHANGED <<storeVars, cancelFlag, counterVars, ctl, worldVars, budget, flowHistory>>

(* The lease of the worker that took m and died has not expired yet. *)
LeaseOfDeadOwner(m) ==
    lease # Free /\ lease.holder = msgs[m].by /\ ~HoldsLease(lease.holder)

(* _reclaim_one: a message idle for claim_min_idle_ms, whoever has it, and *)
(* whatever the lease says.  One that a worker is at work on gets there    *)
(* when a node takes longer than that, which the stall budget counts.      *)
Reclaim(w) ==
    /\ wk[w].pc = "idle"
    /\ \E m \in Msg :
          /\ msgs[m].st = "pending"
          /\ ClaimIdleExceedsLease => ~LeaseOfDeadOwner(m)
          /\ IF Attended(m) THEN Spend("stall") ELSE UNCHANGED budget
          /\ IF msgs[m].n >= MaxDeliveries
               THEN /\ wk' = [wk EXCEPT ![w] = [Idle EXCEPT !.pc = "dlq", !.msg = m]]
                    /\ msgs' = [msgs EXCEPT ![m].by = w]
               ELSE Dispatch(w, m, msgs[m].n + 1)
    /\ UNCHANGED <<storeVars, cancelFlag, counterVars, ctl, worldVars, flowHistory>>

(* _max_node_retry_counter has reached the budget of a node. *)
RetriesExhausted == \E k \in Node : tries[k] >= RetryBudget

(* _dead_letter_guard for a message over its delivery budget, in the order *)
(* of its reads: first the row and the counters of the retries.            *)
DeadLetterGuard(w) ==
    /\ wk[w].pc = "dlq"
    /\ LoadRow
    /\ \/ /\ ~HasRow \/ row.data.status \in TerminalStatus
          /\ Leave(w, TRUE)
       \/ /\ HasRow /\ row.data.status \notin TerminalStatus
          /\ wk' = [wk EXCEPT ![w].pc = "dlqLease",
                             ![w].d = IF row.data.status = "running" /\ RetriesExhausted
                                        THEN Terminated(row.data, "error") ELSE row.data]
    /\ UNCHANGED <<msgs, cancelFlag, counterVars, ctl, worldVars, budget, flowHistory>>

(* Then the lease: one that is held keeps the message where it is. *)
DeadLetterProbe(w) ==
    /\ wk[w].pc = "dlqLease"
    /\ \/ lease # Free /\ Leave(w, FALSE)
       \/ lease = Free /\ wk' = [wk EXCEPT ![w].pc = "dlqTomb"]
    /\ UNCHANGED <<storeVars, msgs, cancelFlag, counterVars, ctl, worldVars, budget, flowHistory>>

(* Then the tombstone.  An execution that had used its retries up when the *)
(* row was read ends in error, any other that is not deleted gets a clone. *)
DeadLetterVerdict(w) ==
    LET m == wk[w].msg
        exhausted == wk[w].d.status = "error"
    IN  /\ wk[w].pc = "dlqTomb"
        /\ \/ /\ tombstone
              /\ Leave(w, TRUE)
              /\ UNCHANGED msgs
           \/ /\ ~tombstone /\ exhausted
              /\ wk' = [wk EXCEPT ![w].pc = "dlqWrite"]
              /\ UNCHANGED msgs
           \/ /\ ~tombstone /\ ~exhausted
              /\ HasSlot
              /\ msgs' = Enqueued(msgs[m].type, msgs[m].sub)
              /\ Leave(w, TRUE)
        /\ UNCHANGED <<storeVars, cancelFlag, counterVars, ctl, worldVars, budget, flowHistory>>

(* The guard's own verdict on the execution, written without a token. *)
DeadLetterWrite(w) ==
    /\ wk[w].pc = "dlqWrite"
    /\ PlainSave(wk[w].d)
    /\ Leave(w, TRUE)
    /\ UNCHANGED <<msgs, cancelFlag, counterVars, ctl, worldVars, budget, flowHistory>>

(* The end of _consume_loop's iteration: the finally blocks have reset the *)
(* token and released the lease, and the message is acknowledged or not.   *)
Finish(w) ==
    /\ wk[w].pc = "finish"
    /\ IF token[w] # 0 THEN Release(w) ELSE UNCHANGED storeVars
    /\ msgs' = IF wk[w].ack THEN Acked(msgs, wk[w].msg) ELSE msgs
    /\ wk' = [wk EXCEPT ![w] = Idle]
    /\ UNCHANGED <<cancelFlag, counterVars, ctl, worldVars, budget, flowHistory>>

-----------------------------------------------------------------------------
(* start_flow. *)

\* The row of a first start: Start is declared, with a new step token.
FreshState(tok) ==
    [status |-> "running", ctx |-> 0, node |-> 1, tok |-> tok, dp |-> FALSE, sub |-> 0]

(* _existing_start_checkpoint: a row that is not a bare first start. *)
HasCheckpoint == HasRow /\ (row.data.status # "running" \/ row.data.ctx # 0)

(* The tombstone is looked for, the checkpoint, then the cancel flag. *)
StartCheck(w) ==
    /\ wk[w].pc = "start"
    /\ LoadRow
    /\ \/ /\ tombstone
          /\ Leave(w, TRUE)
          /\ UNCHANGED nextTok
       \/ /\ ~tombstone /\ HasCheckpoint
          /\ wk' = [wk EXCEPT ![w].pc = "guard", ![w].type = "continue"]
          /\ UNCHANGED nextTok
       \/ /\ ~tombstone /\ ~HasCheckpoint
          /\ nextTok < MaxTok
          /\ nextTok' = nextTok + 1
          /\ wk' = [wk EXCEPT ![w].pc = IF cancelFlag THEN "startCancel" ELSE "startAcquire",
                             ![w].path = "start", ![w].d = FreshState(nextTok + 1)]
    /\ UNCHANGED <<msgs, cancelFlag, tries, wakeups, ctl, worldVars, budget, flowHistory>>

(* Cancelled before it began: the row is written before any lease. *)
StartCancelled(w) ==
    /\ wk[w].pc = "startCancel" \/ (wk[w].pc = "startAcquire" /\ cancelFlag)
    /\ PlainSave(Terminated(wk[w].d, "cancelled"))
    /\ Leave(w, TRUE)
    /\ UNCHANGED <<msgs, cancelFlag, counterVars, ctl, worldVars, budget, flowHistory>>

StartAcquire(w) ==
    /\ wk[w].pc = "startAcquire"
    /\ \/ AcquireLease(w, "startPersist")
       \/ /\ lease # Free
          /\ LeaseError(w)
          /\ UNCHANGED storeVars
    /\ UNCHANGED <<msgs, cancelFlag, counterVars, ctl, worldVars, budget, flowHistory>>

StartPersist(w) ==
    /\ wk[w].pc = "startPersist"
    /\ Persist(w, wk[w].d, "run")
    /\ UNCHANGED <<msgs, cancelFlag, counterVars, ctl, worldVars, budget, flowHistory>>

(* The first run failed and the finally block has given the lease back:    *)
(* the attempt is recorded, or the cancellation, without a token.          *)
StartFailed(w) ==
    LET cancelled == wk[w].pc = "startAborted" \/ cancelFlag
    IN  /\ wk[w].pc \in {"startFail", "startAborted"}
        /\ PlainSave(IF cancelled THEN Terminated(wk[w].d, "cancelled") ELSE wk[w].d)
        /\ Leave(w, cancelled)
        /\ UNCHANGED <<msgs, cancelFlag, counterVars, ctl, worldVars, budget, flowHistory>>

-----------------------------------------------------------------------------
(* resume_flow. *)

\* Mutant: any resume wakes an error row up.
WakeupByAnyResume(t) == t = t /\ row.data.status = "error"

Wakeup(t) == row.data.status = "error" /\ t = "retry"

\* Mutant: a continue for a suspended row never looks at the marker.
GuardWithoutCompensation(t) ==
    IF ~HasRow \/ tombstone THEN "drop"
    ELSE IF row.data.status \in TerminalStatus
           THEN IF Wakeup(t) /\ wakeups < MaxWakeups THEN "go" ELSE "drop"
         ELSE IF row.data.status = "suspended" /\ t \in {"continue", "retry"} /\ ~cancelFlag
           THEN "drop" ELSE "go"

(* _load_and_guard_resume_state: "drop" is a message with nothing to do. *)
GuardVerdict(t) ==
    CASE ~HasRow -> "drop"
      [] HasRow /\ tombstone -> "drop"
      [] HasRow /\ ~tombstone /\ row.data.status \in TerminalStatus ->
           IF Wakeup(t) /\ wakeups < MaxWakeups THEN "go" ELSE "drop"
      [] HasRow /\ ~tombstone /\ row.data.status = "suspended" ->
           IF t \notin {"continue", "retry"} \/ cancelFlag THEN "go"
           ELSE IF row.data.dp THEN "compensate" ELSE "drop"
      [] HasRow /\ ~tombstone /\ row.data.status = "running" -> "go"

(* The guard before the lease; the row it read is kept. *)
GuardResume(w) ==
    /\ wk[w].pc = "guard"
    /\ LoadRow
    /\ LET v == GuardVerdict(wk[w].type)
       IN  \/ v = "drop" /\ Leave(w, TRUE)
           \/ v = "compensate" /\ Goto(w, "compAcquire")
           \/ v = "go" /\ wk' = [wk EXCEPT ![w].pc = "acquire", ![w].d = row.data]
    /\ UNCHANGED <<msgs, cancelFlag, counterVars, ctl, worldVars, budget, flowHistory>>

(* _compensate_suspend_dispatch takes a lease of its own; if it is taken   *)
(* the message is done with.                                               *)
CompensateAcquire(w) ==
    /\ wk[w].pc = "compAcquire"
    /\ \/ AcquireLease(w, "compCheck")
       \/ /\ lease # Free
          /\ Leave(w, TRUE)
          /\ UNCHANGED storeVars
    /\ UNCHANGED <<msgs, cancelFlag, counterVars, ctl, worldVars, budget, flowHistory>>

(* _pending_suspend_dispatch: the row owes a service its task. *)
PendingDispatch == HasRow /\ row.data.status = "suspended" /\ row.data.dp

(* _dispatch_suspend_pending reads the marker again under the lease. *)
CompensateCheck(w) ==
    /\ wk[w].pc = "compCheck"
    /\ LoadRow
    /\ \/ /\ PendingDispatch
          /\ wk' = [wk EXCEPT ![w].pc = "push", ![w].d = row.data]
       \/ /\ ~PendingDispatch
          /\ Leave(w, TRUE)
    /\ UNCHANGED <<msgs, cancelFlag, counterVars, ctl, worldVars, budget, flowHistory>>

\* Mutant: a refused lease is not raised.
AcquireRefusalIgnored(w) ==
    /\ wk[w].pc = "acquire"
    /\ \/ AcquireLease(w, "recheck")
       \/ /\ lease # Free
          /\ Goto(w, "recheck")
          /\ UNCHANGED storeVars
    /\ UNCHANGED <<msgs, cancelFlag, counterVars, ctl, worldVars, budget, flowHistory>>

AcquireResume(w) ==
    /\ wk[w].pc = "acquire"
    /\ \/ AcquireLease(w, "recheck")
       \/ /\ lease # Free
          /\ LeaseError(w)
          /\ UNCHANGED storeVars
    /\ UNCHANGED <<msgs, cancelFlag, counterVars, ctl, worldVars, budget, flowHistory>>

(* An event for a row that already runs past its suspension means continue. *)
EffectiveType(w) ==
    IF wk[w].type = "event" /\ row.data.status = "running" /\ row.data.ctx # 0
      THEN "continue" ELSE wk[w].type

(* DistributedStrategy.execute refuses to resume this row in this way. *)
EngineRefuses(t, m) ==
    \/ t # "continue" /\ row.data.ctx = 0
    \/ t = "cancel" /\ row.data.status = "running"
    \/ t = "event" /\ row.data.status = "suspended" /\ msgs[m].sub # row.data.sub

\* Mutant: the row read before the lease is trusted under the lease.
RecheckWithoutReading(w) ==
    LET d == wk[w].d
    IN  /\ wk[w].pc = "recheck"
        /\ IF EngineRefuses(wk[w].type, wk[w].msg) \/ d.status \in TerminalStatus
             THEN Leave(w, TRUE)
             ELSE wk' = [wk EXCEPT ![w].pc = "run", ![w].c = d.ctx,
                                   ![w].waits = (d.status = "suspended")]
        /\ UNCHANGED <<storeVars, msgs, cancelFlag, counterVars, ctl, worldVars, budget, flowHistory>>

(* Everything resume_flow decides on the row it reads under the lease. *)
RecheckResume(w) ==
    LET v == GuardVerdict(wk[w].type)
        t == EffectiveType(w)
        loaded(p) == wk' = [wk EXCEPT ![w].pc = p, ![w].type = t, ![w].d = row.data,
                                      ![w].c = row.data.ctx,
                                      ![w].waits = (row.data.status = "suspended")]
    IN  /\ wk[w].pc = "recheck"
        /\ LoadRow
        /\ \/ v = "drop" /\ Leave(w, TRUE)
           \/ v = "compensate" /\ Goto(w, "compCheck")
           \/ /\ v = "go"
              /\ \/ cancelFlag /\ loaded("cancel")
                 \/ /\ ~cancelFlag /\ Wakeup(t)
                    /\ IF row.data.ctx = 0 THEN Leave(w, TRUE) ELSE loaded("wake")
                 \/ /\ ~cancelFlag /\ ~Wakeup(t)
                    /\ IF EngineRefuses(t, wk[w].msg) THEN loaded("refused") ELSE loaded("run")
        /\ UNCHANGED <<msgs, cancelFlag, counterVars, ctl, worldVars, budget, flowHistory>>

(* ResumeProtocolError, after the finally block: the row is looked at once *)
(* more, and a decision that arrived too late becomes a continue message.  *)
ResumeRefused(w) ==
    /\ wk[w].pc = "refused"
    /\ \/ /\ token[w] # 0
          /\ Release(w)
          /\ UNCHANGED queueVars
       \/ /\ token[w] = 0
          /\ LoadRow
          /\ IF msgs[wk[w].msg].type = "event" /\ HasRow
                  /\ row.data.status = "running" /\ row.data.ctx # 0
                THEN HasSlot /\ msgs' = Enqueued("continue", 0)
                ELSE UNCHANGED msgs
          /\ Leave(w, TRUE)
    /\ UNCHANGED <<cancelFlag, counterVars, ctl, worldVars, budget, flowHistory>>

(* _commit_g1_wakeup: every node's retry counter is cleared and the        *)
(* wake-up counted, in one script.                                         *)
CommitWakeup ==
    /\ tries' = [k \in Node |-> 0]
    /\ wakeups' = wakeups + 1

(* An error row is woken up: $LAST_NODE is declared again, with the token  *)
(* of the evidence if that is about the same node.                         *)
WakeUp(w) ==
    LET d == wk[w].d
        reuse == d.tok # 0 /\ d.node = d.ctx
        tok == IF reuse THEN d.tok ELSE nextTok + 1
    IN  /\ wk[w].pc = "wake"
        /\ tok <= MaxTok
        /\ Persist(w, [d EXCEPT !.status = "running", !.node = d.ctx, !.tok = tok], "run")
        /\ IF FenceAccepts(w) THEN CommitWakeup ELSE UNCHANGED <<tries, wakeups>>
        /\ nextTok' = IF reuse THEN nextTok ELSE nextTok + 1
        /\ UNCHANGED <<msgs, cancelFlag, ctl, worldVars, budget, flowHistory>>

-----------------------------------------------------------------------------
(* _process_execution_result: the step loop. *)

\* Where the loop goes on after a run that neither ended nor suspended: the
\* result of the first run is not persisted before the next node runs.
AfterRun(w) ==
    IF wk[w].initial THEN "top" ELSE IF cancelFlag THEN "cancel" ELSE "step"

Bound(w) == <<wk[w].c + 1, wk[w].d.tok>>

RecordRun(w) ==
    /\ ran' = ran \cup {Bound(w)}
    /\ late' = IF cancelFlag THEN [late EXCEPT ![w] = @ + 1] ELSE late

(* run_distributed runs the node after $LAST_NODE under the token that the *)
(* row declares.  A suspending node has subscribed when the run returns.   *)
RunNode(w) ==
    LET k == wk[w].c + 1
        suspends == Kind[k] # "task"
    IN  /\ wk[w].pc = "run" /\ ~wk[w].waits
        /\ RecordRun(w)
        /\ wk' = [wk EXCEPT ![w].c = k, ![w].initial = FALSE, ![w].waits = suspends,
                           ![w].pc = IF k = LastNode THEN "end"
                                     ELSE IF suspends THEN "suspend" ELSE AfterRun(w)]
        /\ subs' = IF suspends THEN subs \cup {<<token[w], k>>} ELSE subs
        /\ tries' = IF wk[w].initial THEN tries ELSE [tries EXCEPT ![k] = 0]
        /\ UNCHANGED <<storeVars, msgs, cancelFlag, wakeups, nextTok, ctl, pushed, decided, budget>>

(* The decision for a suspended node: EventNode.resume, no node runs. *)
ResolveNode(w) ==
    /\ wk[w].pc = "run" /\ wk[w].waits
    /\ wk' = [wk EXCEPT ![w].pc = "top", ![w].initial = FALSE, ![w].waits = FALSE]
    /\ subs' = {s \in subs : s[1] # wk[w].d.sub}
    /\ UNCHANGED <<storeVars, msgs, cancelFlag, counterVars, ctl, pushed, decided, budget, flowHistory>>

(* The node raises; its side effect may have happened. *)
NodeFails(w) ==
    /\ wk[w].pc = "run" /\ ~wk[w].waits
    /\ Spend("fail")
    /\ RecordRun(w)
    /\ Goto(w, "failed")
    /\ UNCHANGED <<storeVars, msgs, cancelFlag, counterVars, ctl, worldVars>>

(* FlowCancelledException: FlowExecution.cancel() was called, by the       *)
(* cancel watch or by the lease watchdog that could not renew.             *)
NodeAborted(w) ==
    /\ wk[w].pc = "run" /\ ~wk[w].waits
    /\ cancelFlag \/ ~HoldsLease(w)
    /\ \/ /\ wk[w].initial /\ wk[w].path = "start"
          /\ Release(w)
          /\ Goto(w, "startAborted")
       \/ /\ wk[w].initial /\ wk[w].path = "resume"
          /\ Goto(w, "cancel")
          /\ UNCHANGED storeVars
       \/ /\ ~wk[w].initial
          /\ IF HoldsLease(w) THEN Goto(w, "cancel") ELSE LeaseError(w)
          /\ UNCHANGED storeVars
    /\ UNCHANGED <<msgs, cancelFlag, counterVars, ctl, worldVars, budget, flowHistory>>

(* The watchdog has flagged the lease as lost: seen before every write of  *)
(* the loop, though not by the failure path of a first run.                *)
LeaseLost(w) ==
    /\ wk[w].pc \in {"step", "suspend", "end"} \/ (wk[w].pc = "cancel" /\ ~wk[w].initial)
    /\ ~HoldsLease(w)
    /\ LeaseError(w)
    /\ UNCHANGED <<storeVars, msgs, cancelFlag, counterVars, ctl, worldVars, budget, flowHistory>>

\* Mutant: the step boundary does not look at the cancel flag.
TopIgnoringCancel(w) ==
    /\ wk[w].pc = "top"
    /\ Goto(w, "run")
    /\ UNCHANGED <<storeVars, msgs, cancelFlag, counterVars, ctl, worldVars, budget, flowHistory>>

(* The step boundary: the cancel flag, then the renewal, which only the    *)
(* resume path asks for.                                                   *)
StepBoundary(w) ==
    /\ wk[w].pc = "top"
    /\ \/ cancelFlag /\ Goto(w, "cancel")
       \/ ~cancelFlag /\ (wk[w].path = "start" \/ HoldsLease(w)) /\ Goto(w, "run")
       \/ wk[w].path = "resume" /\ ~HoldsLease(w) /\ LeaseError(w)
    /\ UNCHANGED <<storeVars, msgs, cancelFlag, counterVars, ctl, worldVars, budget, flowHistory>>

(* The row after node c: the next node is declared with a new token. *)
NextStep(c, tok) ==
    [status |-> "running", ctx |-> c, node |-> c + 1, tok |-> tok, dp |-> FALSE, sub |-> 0]

(* step_persist: the node just run is recorded and the next one declared. *)
StepPersist(w) ==
    /\ wk[w].pc = "step"
    /\ \/ /\ cancelFlag
          /\ Goto(w, "cancel")
          /\ UNCHANGED <<storeVars, nextTok>>
       \/ /\ nextTok < MaxTok
          /\ nextTok' = nextTok + 1
          /\ Persist(w, NextStep(wk[w].c, nextTok + 1), "top")
    /\ UNCHANGED <<msgs, cancelFlag, tries, wakeups, ctl, worldVars, budget, flowHistory>>

(* The row of the suspended node c: it waits for subscription sub, and a   *)
(* service is still to be given its task.                                  *)
PendingRef(c, sub) ==
    [status |-> "suspended", ctx |-> c, node |-> 0, tok |-> 0,
     dp |-> (Kind[c] = "service"), sub |-> sub]

(* The row says suspended before the service is told. *)
SuspendPersist(w) ==
    LET d == PendingRef(wk[w].c, token[w])
    IN  /\ wk[w].pc = "suspend"
        /\ Persist(w, d, IF d.dp THEN "push" ELSE "finish")
        /\ UNCHANGED <<msgs, cancelFlag, counterVars, ctl, worldVars, budget, flowHistory>>

\* Mutant: a failed push is logged and the marker cleared all the same.
PushErrorSwallowed(w) ==
    /\ wk[w].pc = "push"
    /\ \/ pushed' = pushed \cup {wk[w].d.sub} /\ UNCHANGED budget
       \/ Spend("push") /\ UNCHANGED pushed
    /\ Goto(w, "clear")
    /\ UNCHANGED <<storeVars, msgs, cancelFlag, counterVars, ctl, subs, decided, flowHistory>>

(* _dispatch_service_task: RPUSH, or ServiceDispatchError. *)
PushTask(w) ==
    /\ wk[w].pc = "push"
    /\ \/ /\ pushed' = pushed \cup {wk[w].d.sub}
          /\ Goto(w, "clear")
          /\ UNCHANGED budget
       \/ /\ Spend("push")
          /\ Leave(w, FALSE)
          /\ UNCHANGED pushed
    /\ UNCHANGED <<storeVars, msgs, cancelFlag, counterVars, ctl, subs, decided, flowHistory>>

(* _clear_suspend_dispatch_pending *)
ClearPending(w) ==
    /\ wk[w].pc = "clear"
    /\ Persist(w, [wk[w].d EXCEPT !.dp = FALSE], "finish")
    /\ UNCHANGED <<msgs, cancelFlag, counterVars, ctl, worldVars, budget, flowHistory>>

EndPersist(w) ==
    /\ wk[w].pc = "end"
    /\ Persist(w, [Terminated(wk[w].d, "completed") EXCEPT !.ctx = wk[w].c], "finish")
    /\ UNCHANGED <<msgs, cancelFlag, counterVars, ctl, worldVars, budget, flowHistory>>

CancelPersist(w) ==
    /\ wk[w].pc = "cancel"
    /\ Persist(w, [Terminated(wk[w].d, "cancelled") EXCEPT !.ctx = wk[w].c], "finish")
    /\ UNCHANGED <<msgs, cancelFlag, counterVars, ctl, worldVars, budget, flowHistory>>

(* A failed node: the first run of a start leaves through the finally      *)
(* block; any other is cancelled, retried through the queue or final.      *)
HandleFailure(w) ==
    LET k == wk[w].c + 1
    IN  /\ wk[w].pc = "failed"
        /\ \/ /\ wk[w].initial /\ wk[w].path = "start"
              /\ Release(w)
              /\ Goto(w, "startFail")
              /\ UNCHANGED tries
           \/ /\ ~(wk[w].initial /\ wk[w].path = "start")
              /\ \/ /\ cancelFlag
                    /\ Goto(w, "cancel")
                    /\ UNCHANGED <<storeVars, tries>>
                 \/ /\ ~cancelFlag /\ tries[k] + 1 < RetryBudget
                    /\ tries' = [tries EXCEPT ![k] = @ + 1]
                    /\ Release(w)
                    /\ Goto(w, "requeue")
                 \/ /\ ~cancelFlag /\ tries[k] + 1 >= RetryBudget
                    /\ tries' = [tries EXCEPT ![k] = @ + 1]
                    /\ Goto(w, "error")
                    /\ UNCHANGED storeVars
                 \/ /\ ~cancelFlag     \* a failure that is not retryable
                    /\ Goto(w, "error")
                    /\ UNCHANGED <<storeVars, tries>>
        /\ UNCHANGED <<msgs, cancelFlag, wakeups, nextTok, ctl, worldVars, budget, flowHistory>>

ErrorPersist(w) ==
    /\ wk[w].pc = "error"
    /\ Persist(w, [Terminated(wk[w].d, "error") EXCEPT !.ctx = wk[w].c], "finish")
    /\ UNCHANGED <<msgs, cancelFlag, counterVars, ctl, worldVars, budget, flowHistory>>

(* _requeue_body_for_retry: a start that has a row goes on as continue. *)
RequeueType(m) ==
    IF msgs[m].type = "start" /\ HasRow THEN "continue" ELSE msgs[m].type

\* Mutant: the copy of a start is dropped once the start has a row.
RequeueDropsStarted(w) ==
    LET m == wk[w].msg
    IN  /\ wk[w].pc = "requeue"
        /\ LoadRow
        /\ IF msgs[m].type = "start" /\ HasRow
             THEN UNCHANGED msgs
             ELSE HasSlot /\ msgs' = Enqueued(msgs[m].type, msgs[m].sub)
        /\ Leave(w, TRUE)
        /\ UNCHANGED <<cancelFlag, counterVars, ctl, worldVars, budget, flowHistory>>

(* _requeue_retryable_failure: a copy is enqueued, then the message is     *)
(* acknowledged; the start of a deleted execution is not copied.           *)
Requeue(w) ==
    LET m == wk[w].msg
    IN  /\ wk[w].pc = "requeue"
        /\ LoadRow
        /\ IF msgs[m].type = "start" /\ tombstone
             THEN UNCHANGED msgs
             ELSE HasSlot /\ msgs' = Enqueued(RequeueType(m), msgs[m].sub)
        /\ Leave(w, TRUE)
        /\ UNCHANGED <<cancelFlag, counterVars, ctl, worldVars, budget, flowHistory>>

-----------------------------------------------------------------------------
(* Around the workers. *)

(* The process dies; what it had in memory is gone, its message stays in   *)
(* the pending list and its lease lives on until the TTL.                  *)
WorkerCrash(w) ==
    /\ wk[w].pc # "idle"
    /\ Spend("crash")
    /\ IF token[w] # 0 THEN Crash(w) ELSE UNCHANGED storeVars
    /\ wk' = [wk EXCEPT ![w] = Idle]
    /\ UNCHANGED <<msgs, cancelFlag, counterVars, ctl, worldVars, flowHistory>>

(* A dead holder's lease expires; a live one's only if renewals stall. *)
LeaseTTL ==
    /\ LeaseExpires
    /\ IF HoldsLease(lease.holder) THEN Spend("stall") ELSE UNCHANGED budget
    /\ UNCHANGED <<queueVars, cancelFlag, counterVars, ctl, worldVars, flowHistory>>

(* An event is published, or a service answers the task it was given.  The *)
(* event filter looks the row up and enqueues a resume message if          *)
(* $LAST_NODE is the node that subscribed, or is not set.  For every other *)
(* row, and for one that is over, the event has no effect: the removal of  *)
(* the subscription of a finished execution calls a method that            *)
(* RedisEventSubscriptionStorage does not have.                            *)
Publish ==
    /\ HasRow /\ row.data.status \notin TerminalStatus
    /\ LoadRow
    /\ \E s \in subs :
          /\ row.data.ctx \in {0, s[2]}
          /\ s[1] \notin decided
          /\ Kind[s[2]] = "service" => s[1] \in pushed
          /\ HasSlot
          /\ msgs' = Enqueued("event", s[1])
          /\ decided' = decided \cup {s[1]}
    /\ UNCHANGED <<wk, cancelFlag, counterVars, ctl, subs, pushed, budget, flowHistory>>

(* cancel_execution reads the row and enqueues a cancel message... *)
CancelRequest ==
    /\ ctl = NoRequest
    /\ HasRow /\ row.data.status \notin TerminalStatus
    /\ Spend("request")
    /\ HasSlot
    /\ msgs' = Enqueued("cancel", 0)
    /\ ctl' = [st |-> "cancel", d |-> row.data]
    /\ UNCHANGED <<storeVars, wk, cancelFlag, counterVars, worldVars, flowHistory>>

(* ...and then overwrites the row it had read, if that was suspended, or   *)
(* sets the flag for the worker that drives it.                            *)
CancelCommit ==
    /\ ctl.st = "cancel"
    /\ IF ctl.d.status = "suspended"
         THEN /\ ConsoleSave([ctl.d EXCEPT !.status = "cancelled"])
              /\ UNCHANGED cancelFlag
         ELSE /\ cancelFlag' = TRUE
              /\ UNCHANGED storeVars
    /\ ctl' = NoRequest
    /\ UNCHANGED <<queueVars, counterVars, worldVars, budget, flowHistory>>

(* A user retries an execution that ended in error. *)
RetryRequest ==
    /\ HasRow /\ row.data.status = "error"
    /\ Spend("retry")
    /\ HasSlot
    /\ msgs' = Enqueued("retry", 0)
    /\ UNCHANGED <<storeVars, wk, cancelFlag, counterVars, ctl, worldVars, flowHistory>>

(* delete_execution with force: a live execution is sent a cancel message, *)
(* then the flag is set unless it is suspended...                          *)
DeleteRequest ==
    /\ ctl = NoRequest
    /\ HasRow
    /\ Spend("request")
    /\ IF row.data.status \in TerminalStatus
         THEN UNCHANGED msgs
         ELSE HasSlot /\ msgs' = Enqueued("cancel", 0)
    /\ ctl' = [st |-> "signal", d |-> row.data]
    /\ UNCHANGED <<storeVars, wk, cancelFlag, counterVars, worldVars, flowHistory>>

DeleteSignal ==
    /\ ctl.st = "signal"
    /\ cancelFlag' = (cancelFlag \/ ctl.d.status = "running")
    /\ ctl' = [ctl EXCEPT !.st = "delete"]
    /\ UNCHANGED <<storeVars, queueVars, counterVars, worldVars, budget, flowHistory>>

(* ...its keys are removed, the counters among them, and the flag last. *)
DeleteCommit ==
    /\ ctl.st = "delete"
    /\ ControlDelete
    /\ tries' = [k \in Node |-> 0] /\ wakeups' = 0
    /\ ctl' = [ctl EXCEPT !.st = "sweep"]
    /\ UNCHANGED <<queueVars, cancelFlag, nextTok, worldVars, budget, flowHistory>>

DeleteSweep ==
    /\ ctl.st = "sweep"
    /\ cancelFlag' = FALSE
    /\ late' = [w \in Worker |-> 0]
    /\ ctl' = NoRequest
    /\ UNCHANGED <<storeVars, queueVars, counterVars, worldVars, budget, ran>>

-----------------------------------------------------------------------------
StartStep(w) ==
    StartCheck(w) \/ StartCancelled(w) \/ StartAcquire(w) \/ StartPersist(w) \/ StartFailed(w)

ResumeStep(w) ==
    \/ GuardResume(w) \/ CompensateAcquire(w) \/ CompensateCheck(w) \/ AcquireResume(w)
    \/ RecheckResume(w) \/ ResumeRefused(w) \/ WakeUp(w)

LoopStep(w) ==
    \/ RunNode(w) \/ ResolveNode(w) \/ NodeFails(w) \/ NodeAborted(w) \/ LeaseLost(w)
    \/ StepBoundary(w) \/ StepPersist(w) \/ SuspendPersist(w) \/ PushTask(w) \/ ClearPending(w)
    \/ EndPersist(w) \/ CancelPersist(w) \/ HandleFailure(w) \/ ErrorPersist(w) \/ Requeue(w)

QueueStep(w) == \/ Take(w) \/ Reclaim(w) \/ Finish(w)
                \/ DeadLetterGuard(w) \/ DeadLetterProbe(w) \/ DeadLetterVerdict(w) \/ DeadLetterWrite(w)

Outside ==
    \/ LeaseTTL \/ Publish \/ CancelRequest \/ CancelCommit \/ RetryRequest
    \/ DeleteRequest \/ DeleteSignal \/ DeleteCommit \/ DeleteSweep

FlowNext ==
    \/ \E w \in Worker : QueueStep(w) \/ StartStep(w) \/ ResumeStep(w) \/ LoopStep(w) \/ WorkerCrash(w)
    \/ Outside

FlowSpec == FlowInit /\ [][FlowNext]_vars

(* Worker threads run, idle ones read the queue, a dead worker's lease     *)
(* expires and a request under way is completed.                           *)
Fairness ==
    /\ \A w \in Worker : /\ WF_vars(StartStep(w) \/ ResumeStep(w) \/ LoopStep(w))
                         /\ WF_vars(QueueStep(w))
    /\ WF_vars(LeaseTTL /\ UNCHANGED budget)
    /\ WF_vars(CancelCommit \/ DeleteSignal \/ DeleteCommit \/ DeleteSweep)

FairFlowSpec == FlowSpec /\ Fairness

-----------------------------------------------------------------------------
(* What each part of the state can be, and that no worker is anywhere      *)
(* under a lease it does not know the generation of.                       *)
FlowTypeOK ==
    /\ msgs \in [Msg -> Message]
    /\ wk \in [Worker -> WorkerState]
    /\ cancelFlag \in BOOLEAN
    /\ tries \in [Node -> Nat] /\ wakeups \in 0 .. MaxWakeups /\ nextTok \in 0 .. MaxTok
    /\ ctl \in [st : {"none", "cancel", "signal", "delete", "sweep"}, d : RowData]
    /\ subs \subseteq (1 .. MaxGen) \X Node
    /\ pushed \subseteq 1 .. MaxGen /\ decided \subseteq 1 .. MaxGen
    /\ budget \in [Fault -> Nat]
    /\ ran \subseteq Node \X (0 .. MaxTok) /\ late \in [Worker -> Nat]
    /\ \A w \in Worker : wk[w].pc \in {"recheck", "wake", "run", "top", "step", "suspend", "end"}
                           => token[w] # 0

(***************************************************************************)
(* Properties that hold.                                                   *)
(***************************************************************************)
Quiet == (\A w \in Worker : wk[w].pc = "idle") /\ \A m \in Msg : ~Live(m)

(* An execution that is under way has a carrier: when no message is left   *)
(* and no worker is busy, the row is not running (ack and requeue paths of *)
(* _consume_loop, start_flow's failure path, the dead-letter guard).  It   *)
(* needs claims that wait for leases, and holds if no node fails and the   *)
(* start is not lost as often as it may be delivered, unless the execution *)
(* waits for an event in its first session (FlowDelivery_proofs).          *)
RunningHasCarrier == Quiet /\ HasRow => row.data.status # "running"

(* No suspended row still owes its service the task when everything has    *)
(* come to rest (#233, suspend dispatch): a crash or a failed push before  *)
(* the marker is cleared leaves the message that compensates for it.  A    *)
(* session that a decision began leaves none for its next service          *)
(* (ServiceFirst of FlowDelivery_proofs).                                  *)
NoForgottenDispatch == Quiet /\ HasRow => ~row.data.dp

(* A worker about to run a node under a lease it still holds has not been  *)
(* overtaken: no progress recorded under a lease says that this node was   *)
(* completed (the re-read of #241 under the lease, and the fence).         *)
HolderNeverReruns ==
    \A w \in Worker : wk[w].pc = "run" /\ ~wk[w].waits /\ HoldsLease(w) /\ row.src = "fenced"
                         => row.data.ctx <= wk[w].c

(* A terminal status that was written under a lease is final: no other     *)
(* session's fenced write replaces it, except that of a worker with the    *)
(* retry of an error row, which wakes it up or finds it cancelled.  A      *)
(* first start is not held to this (see StartKeepsCheckpoint), nor is a    *)
(* verdict written without a token.                                        *)
TerminalIsFinal ==
    [][row.src = "fenced" /\ row.data.status \in TerminalStatus /\ row' # row /\ row'.src = "fenced"
         => \/ row.data.status = "error" /\ \E w \in Worker : wk[w].type = "retry" /\ (WakeUp(w) \/ CancelPersist(w))
            \/ \E w \in Worker : wk[w].pc = "startPersist" /\ StartPersist(w)]_vars

(* A row that says suspended on a service with no marker left was pushed:  *)
(* the marker is cleared only after the RPUSH of the very subscription.    *)
MarkerClearedAfterPush ==
    HasRow /\ row.data.status = "suspended" /\ ~row.data.dp /\ Kind[row.data.ctx] = "service"
      => row.data.sub \in pushed

(* A decision that was published for the suspension the row waits for is   *)
(* still on its way: a live message carries it, whatever lease conflicts,  *)
(* crashes and dead-letterings happen to it, as long as nobody stalls,     *)
(* cancels or deletes and nodes fail less often than they are tried.       *)
(* Otherwise a verdict written without a token (by an overtaken start, by  *)
(* the console's cancel, by the dead-letter guard) makes the guard of      *)
(* resume_flow drop the decision, and the holder of the lease then writes  *)
(* a row that waits for it.                                                *)
DecisionNotLost ==
    HasRow /\ ~tombstone /\ row.data.status = "suspended" /\ row.data.sub \in decided
      => \E m \in Msg : Live(m) /\ msgs[m].type = "event" /\ msgs[m].sub = row.data.sub

(* Once the cancel flag is set, a worker finishes at most the node it is   *)
(* in: the step boundary and every entry look at the flag.                 *)
CancelStopsEachWorker == \A w \in Worker : late[w] <= 1

(* A running execution comes to rest: it completes, fails, is cancelled    *)
(* or suspends, whatever crash hits the worker that drives it.             *)
RunningSettles == (HasRow /\ row.data.status = "running") ~> ~(HasRow /\ row.data.status = "running")

(***************************************************************************)
(* What comments and docs of the repository say, and the code does not     *)
(* keep to.                                                                *)
(***************************************************************************)
(* A start that meets a row with a checkpoint never overwrites it: "绝不   *)
(* 整条重放/覆写 checkpoint" (start_flow).                                 *)
StartKeepsCheckpoint ==
    [][HasCheckpoint => \A w \in Worker :
         StartPersist(w) /\ row' # row => row'.data.ctx >= row.data.ctx]_vars

(* A running execution is not left without a carrier, with the default     *)
(* idle time for claims, which is below the lease's TTL.                   *)
CarrierSurvivesConflict == RunningHasCarrier

(* A deleted execution does not come back. *)
DeletedStaysDeleted == tombstone => ~HasRow
=============================================================================
