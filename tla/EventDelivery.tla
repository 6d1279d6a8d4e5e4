----------------------------- MODULE EventDelivery -----------------------------
(***************************************************************************)
(* How an event reaches the execution that waits for it.  A publisher      *)
(* stores the event and notifies the event filters over Pub/Sub, which     *)
(* keeps nothing for a filter that is down (plaita/event/redis.py).  Each  *)
(* filter process (plaita/server/event_filter.py) handles the              *)
(* notifications it receives, and in the same event loop runs a reconciler *)
(* (event_reconcile.py) that re-reads the stored events from a shared      *)
(* cursor on, and a checker of subscription timeouts (event/timeout.py).   *)
(* All three enqueue resume messages, which a worker consumes.             *)
(*                                                                         *)
(* One execution waits, at a node that has a predecessor, through one or,  *)
(* after a crash of its worker, several subscriptions.  All events match   *)
(* them by type and correlation id.  A step ends where the code talks to   *)
(* Redis, except that reads are taken together with the next write where   *)
(* nothing that happens between them changes more than the order of the    *)
(* steps: the row with the subscriptions, the cursor with the page.        *)
(* Outages are shorter than the reconciler's backfill window, which is     *)
(* also the TTL of the dedup keys of events: inside the window they do not *)
(* expire.  Subscriptions do: nothing renews their TTL of 7 days while the *)
(* execution waits.                                                        *)
(***************************************************************************)
EXTENDS Naturals, FiniteSets

CONSTANTS
    Filter,         \* event filter processes
    MaxEvent,       \* bound on the events published
    MaxSub,         \* bound on the subscriptions of the execution
    MaxTime,        \* bound on the clock
    Timeout,        \* the timeout of a subscription that has one
    Batch,          \* batch_size of the reconciler
    SkipFactor,     \* CURSOR_SKIP_MAX_FACTOR
    Scenarios       \* who runs, how long, and how often each thing in Trouble happens

Event == 1 .. MaxEvent      \* in the order of their ids
Sub == 1 .. MaxSub
Time == 0 .. MaxTime

(* What has a budget: a notification is lost; a filter or the worker dies; *)
(* a filter dies between taking a dedup key and the end of the enqueue; a  *)
(* read or a best-effort write fails; an enqueue fails, or its answer is   *)
(* lost; the same, and the dedup key cannot be given back; an event is     *)
(* stored after later ones; the execution is cancelled; the TTL of a       *)
(* subscription runs out.  "subscribe" bounds how often the worker runs    *)
(* the node.                                                               *)
Trouble == {"lost", "crash", "window", "redis", "enqueue", "release",
            "late", "subscribe", "cancel", "expire"}

ASSUME EventAssumption ==
    /\ MaxEvent \in Nat \ {0} /\ MaxSub \in Nat \ {0} /\ MaxTime \in Nat
    /\ Timeout \in Nat /\ Batch \in Nat \ {0} /\ SkipFactor \in Nat \ {0}
    /\ Scenarios \subseteq [filters : SUBSET Filter, events : SUBSET Event,
                            timed : BOOLEAN, time : Time, budget : [Trouble -> Nat]]

VARIABLES
    now,        \* the clock
    ev,         \* events: how far published, and their timestamp
    sub,        \* subscriptions: data key (with its TTL, without one after it was
                \* deleted or had expired, or missing), membership in the
                \* indexes, creation time
    row,        \* the execution: where its row is, the subscription it waits on
    keys,       \* dedup keys <<event, subscription>>
    timeoutKeys, \* dedup keys of subscription timeouts
    cursor,     \* the reconcilers' cursor <<timestamp, event id>>
    msgs,       \* resume messages; ev = NoEvent for a timeout
    up,         \* filters that run
    task,       \* handle_event in each filter: one per notification, one of the reconciler
    scan,       \* the reconciler of each filter
    timer,      \* the timeout checker of each filter
    seen,       \* history: events some handle_event has returned from
    fresh,      \* history: events created while the execution was suspended
    sent,       \* history: resume messages enqueued for an event and a subscription
    left        \* the scenario, and what remains (now) of its budget

redis == <<ev, sub, row, keys, timeoutKeys, cursor, msgs>>
filter == <<up, task, scan, timer>>
history == <<seen, fresh, sent>>
vars == <<now, redis, filter, history, left>>

-----------------------------------------------------------------------------
NoEvent == 0
NoSub == 0
Scan == 0                   \* the reconciler's task
Timer == MaxEvent + 1       \* the timeout checker's task
Task == Event \cup {Scan}
Message == [sub : Sub, ev : Event \cup {NoEvent}]

Spend(t) == /\ left.now[t] > 0
            /\ left' = [left EXCEPT !.now[t] = @ - 1]
Happened(t) == left.now[t] # left.budget[t]

(* Cursors and the order (timestamp, event_id) of the events.  A cursor    *)
(* that is a bare timestamp stands before every event of that time; so     *)
(* does the missing cursor, before every event there is.                   *)
NoCursor == <<0, 0>>
At(t) == <<t, 0>>
Key(e) == <<ev[e].ts, e>>
Before(c, d) == c[1] < d[1] \/ (c[1] = d[1] /\ c[2] < d[2])

Stored == {e \in Event : ev[e].st = "stored"}

Idle == [pc |-> "idle", ev |-> NoEvent, subs |-> {}, sub |-> NoSub]
Handling(e) == [Idle EXCEPT !.pc = "list", !.ev = e]
NoScan == [pc |-> "idle", todo |-> {}, new |-> NoCursor]
NoTimer == [pc |-> "idle", todo |-> {}, sub |-> NoSub]

(* From the dedup key to the end of the enqueue, and while it saves the    *)
(* cursor, a process uses a synchronous client: its other tasks wait.      *)
Claiming(f, t) == task[f][t].pc = "enqueue"
Runs(f, t) ==
    /\ up[f]
    /\ \A u \in Task : Claiming(f, u) => u = t
    /\ scan[f].pc \in {"set", "refuse"} => t = Scan
    /\ timer[f].pc = "enqueue" => t = Timer

EventInit ==
    /\ now = 0
    /\ ev = [e \in Event |-> [st |-> "none", ts |-> 0]]
    /\ sub = [s \in Sub |-> [data |-> "unborn", idx |-> FALSE, at |-> 0]]
    /\ row = [st |-> "before", sub |-> NoSub]
    /\ keys = {} /\ timeoutKeys = {} /\ cursor = NoCursor /\ msgs = {}
    /\ \E s \in Scenarios :
          /\ left = [filters |-> s.filters, events |-> s.events, timed |-> s.timed,
                     time |-> s.time, budget |-> s.budget, now |-> s.budget]
          /\ up = [f \in Filter |-> f \in s.filters]
    /\ task = [f \in Filter |-> [t \in Task |-> Idle]]
    /\ scan = [f \in Filter |-> NoScan]
    /\ timer = [f \in Filter |-> NoTimer]
    /\ seen = {} /\ fresh = {} /\ sent = [e \in Event |-> [s \in Sub |-> 0]]

-----------------------------------------------------------------------------
(* Publishers.  publish creates the event, stores it and notifies.  That   *)
(* takes no time unless the publisher is late: then time passes or later   *)
(* events are stored first.  PUBLISH reaches the filters that listen, and  *)
(* each starts a task; or the publisher dies before it, or nobody hears it.*)

Notify(e) ==
    \/ /\ task' = [f \in Filter |-> IF up[f] THEN [task[f] EXCEPT ![e] = Handling(e)]
                                             ELSE task[f]]
       /\ UNCHANGED left
    \/ Spend("lost") /\ UNCHANGED task

Create(e, st) ==
    /\ e \in left.events /\ ev[e].st = "none"
    /\ ev' = [ev EXCEPT ![e] = [st |-> st, ts |-> now]]
    /\ fresh' = IF row.st = "suspended" THEN fresh \cup {e} ELSE fresh
    /\ UNCHANGED <<now, sub, row, keys, timeoutKeys, cursor, msgs, up, scan, timer, seen, sent>>

Publish(e) ==
    /\ \A x \in Stored : Before(Key(x), <<now, e>>)
    /\ Create(e, "stored") /\ Notify(e)
\* Mutant: the filters are notified before the event is stored.
CreateLateNotified(e) ==
    /\ Create(e, "made") /\ Spend("late")
    /\ task' = [f \in Filter |-> IF up[f] THEN [task[f] EXCEPT ![e] = Handling(e)]
                                          ELSE task[f]]
CreateLate(e) ==
    /\ Create(e, "made") /\ Spend("late") /\ UNCHANGED task
StoreLate(e) ==
    /\ ev[e].st = "made"
    /\ ev' = [ev EXCEPT ![e].st = "stored"]
    /\ Notify(e)
    /\ UNCHANGED <<now, sub, row, keys, timeoutKeys, cursor, msgs, up, scan, timer, history>>

Tick ==
    /\ now < left.time
    /\ now' = now + 1
    /\ UNCHANGED <<redis, filter, history, left>>

-----------------------------------------------------------------------------
(* The worker of the execution. *)

Born == {s \in Sub : sub[s].data # "unborn"}
HasKey(s) == sub[s].data \in {"ttl", "forever", "revived"}
(* The TTL has run out; a write that was under way may have brought the    *)
(* key back since.                                                         *)
Lapsed(s) == sub[s].data \in {"expired", "revived"}

(* _subscribe_event, when the node has run; again if the worker died       *)
(* before the row was saved as suspended.  Bound: the timeout is over      *)
(* before the clock stops.                                                 *)
Subscribe(s) ==
    /\ row.st = "before" /\ s = Cardinality(Born) + 1
    /\ left.timed => now + Timeout < left.time
    /\ Spend("subscribe")
    /\ sub' = [sub EXCEPT ![s] = [data |-> "ttl", idx |-> TRUE, at |-> now]]
    /\ UNCHANGED <<now, ev, row, keys, timeoutKeys, cursor, msgs, filter, history>>

Suspend ==
    /\ row.st = "before" /\ Born # {}
    /\ row' = [st |-> "suspended", sub |-> Cardinality(Born)]
    /\ UNCHANGED <<now, ev, sub, keys, timeoutKeys, cursor, msgs, filter, history, left>>

(* delete_subscription: nothing, when the data key is missing. *)
Deleted(s) == IF HasKey(s) THEN [sub EXCEPT ![s].data = "none", ![s].idx = FALSE] ELSE sub

(* The data key runs out, its members in the indexes stay behind.  An      *)
(* index lets go of a member without a data key (the janitor of the        *)
(* filters, prune_indexes), and runs out itself when the TTL of its last   *)
(* subscription has.                                                       *)
SubExpires(s) ==
    /\ sub[s].data = "ttl" /\ Spend("expire")
    /\ sub' = [sub EXCEPT ![s].data = "expired"]
    /\ UNCHANGED <<now, ev, row, keys, timeoutKeys, cursor, msgs, filter, history>>
IndexFades(s) ==
    /\ sub[s].idx /\ Lapsed(s)
    /\ sub' = [sub EXCEPT ![s].idx = FALSE]
    /\ UNCHANGED <<now, ev, row, keys, timeoutKeys, cursor, msgs, filter, history, left>>

\* Mutant: the message is acknowledged before the row is saved.
LostOnCrash(m) == msgs \ {m}
Redelivered(m) == msgs

(* A message bound to the subscription the row waits on resolves the node, *)
(* which unregisters the subscription, best effort; then the row is saved  *)
(* and the message acknowledged, unless the worker dies in between: then   *)
(* the message is delivered again.                                         *)
Resume(m) ==
    /\ m \in msgs /\ row.st = "suspended" /\ m.sub = row.sub
    /\ \/ /\ row' = [row EXCEPT !.st = "resumed"]
          /\ msgs' = msgs \ {m}
          /\ \/ sub' = Deleted(m.sub) /\ UNCHANGED left
             \/ sub' = sub /\ Spend("redis")
       \/ sub' = Deleted(m.sub) /\ msgs' = Redelivered(m) /\ Spend("crash") /\ UNCHANGED row
    /\ UNCHANGED <<now, ev, keys, timeoutKeys, cursor, filter, history>>

(* A message for an execution that no longer waits, or waits on another    *)
(* subscription, is acknowledged without effect.  While the row is not yet *)
(* suspended its lease is held, and the message stays pending.             *)
Drop(m) ==
    /\ m \in msgs
    /\ row.st # "before"
    /\ row.st = "suspended" => m.sub # row.sub
    /\ msgs' = msgs \ {m}
    /\ UNCHANGED <<now, ev, sub, row, keys, timeoutKeys, cursor, filter, history, left>>

(* The execution is cancelled while it waits. *)
Cancel ==
    /\ row.st = "suspended" /\ Spend("cancel")
    /\ row' = [row EXCEPT !.st = "over"]
    /\ UNCHANGED <<now, ev, sub, keys, timeoutKeys, cursor, msgs, filter, history>>

-----------------------------------------------------------------------------
(* EventFilter.handle_event for the event of task t in filter f.           *)

TaskAt(f, t, pc) == Runs(f, t) /\ task[f][t].pc = pc

First(es) == CHOOSE e \in es : \A x \in es \ {e} : Before(Key(e), Key(x))
Last(es) == CHOOSE e \in es : \A x \in es \ {e} : Before(Key(x), Key(e))

(* The reconciler goes on to the first event of its page; after the last   *)
(* one it reads the cursor, and refuses to move it back.                   *)
Proceed(f, todo, new) ==
    /\ task' = [task EXCEPT ![f][Scan] = IF todo = {} THEN Idle ELSE Handling(First(todo))]
    /\ scan' = [scan EXCEPT ![f] =
          [pc |-> IF todo # {} THEN "event" ELSE IF Before(new, cursor) THEN "refuse" ELSE "set",
           todo |-> todo, new |-> new]]

Consume(f, t) ==
    IF t = Scan THEN Proceed(f, scan[f].todo \ {task[f][t].ev}, scan[f].new)
                ELSE task' = [task EXCEPT ![f][t] = Idle] /\ UNCHANGED scan

(* handle_event returns: the reconciler has consumed the event. *)
Return(f, t) == Consume(f, t) /\ seen' = seen \cup {task[f][t].ev}

\* Mutant: a failed event counts as consumed.
RaiseConsumed(f, t) == Consume(f, t) /\ UNCHANGED seen
(* handle_event raises: the reconciler gives the whole round up, and the   *)
(* task of a notification ends (_process_event swallows the exception).    *)
Raise(f, t) ==
    /\ task' = [task EXCEPT ![f][t] = Idle]
    /\ scan' = IF t = Scan THEN [scan EXCEPT ![f] = NoScan] ELSE scan
    /\ UNCHANGED seen

(* Take the next matching subscription, or return after the last one. *)
NextSub(f, t, rest) ==
    IF rest = {} THEN Return(f, t)
    ELSE /\ task' = [task EXCEPT ![f][t].pc = "claim", ![f][t].subs = rest, ![f][t].sub = NoSub]
         /\ UNCHANGED <<scan, seen>>

(* find_matching_subscriptions goes through the index, and matches_event   *)
(* compares the node with $LAST_NODE of the row.  For a row that is over   *)
(* nothing is enqueued; the subscriptions stay, because the method called  *)
(* to remove them does not exist on this storage.                          *)
Matching ==
    IF row.st \in {"before", "over"} THEN {}
    ELSE {s \in Sub : sub[s].idx /\ HasKey(s)}

(* list_subscriptions also drops the members without a data key, best      *)
(* effort.                                                                 *)
Pruned == [s \in Sub |-> [sub[s] EXCEPT !.idx = @ /\ HasKey(s)]]

HandleList(f, t) ==
    /\ TaskAt(f, t, "list")
    /\ \/ /\ NextSub(f, t, Matching)
          /\ \/ sub' = Pruned /\ UNCHANGED left
             \/ sub # Pruned /\ sub' = sub /\ Spend("redis")
       \/ Spend("redis") /\ Raise(f, t) /\ UNCHANGED sub
    /\ UNCHANGED <<now, ev, row, keys, timeoutKeys, cursor, msgs, up, timer, fresh, sent>>

\* Mutant: the key is written whether it exists or not.
NotTakenUnchecked(k) == k = k
NotTaken(k) == k \notin keys

(* SET NX on the dedup key of the event and the subscription. *)
HandleClaim(f, t) ==
    /\ TaskAt(f, t, "claim")
    /\ \E s \in task[f][t].subs :
          LET k == <<task[f][t].ev, s>>
          IN  IF NotTaken(k)
                THEN /\ keys' = keys \cup {k}
                     /\ task' = [task EXCEPT ![f][t].pc = "enqueue", ![f][t].sub = s]
                     /\ UNCHANGED <<scan, seen>>
                ELSE NextSub(f, t, task[f][t].subs \ {s}) /\ UNCHANGED keys
    /\ UNCHANGED <<now, ev, sub, row, timeoutKeys, cursor, msgs, up, timer, fresh, sent, left>>

Added(e, s) ==
    /\ msgs' = msgs \cup {[sub |-> s, ev |-> e]}
    /\ sent' = IF e = NoEvent THEN sent
               ELSE [sent EXCEPT ![e][s] = IF @ < 2 THEN @ + 1 ELSE @]

\* Mutant: a failed enqueue keeps the dedup key.
KeepKey(k) == keys
ReleaseKey(k) == keys \ {k}

(* enqueue_task; when it raises it may still have added the message, and   *)
(* the dedup key is given back, best effort.  mark_event_processed reads   *)
(* the subscription afterwards.                                            *)
HandleEnqueue(f, t) ==
    LET e == task[f][t].ev  s == task[f][t].sub
    IN  /\ TaskAt(f, t, "enqueue")
        /\ \/ /\ Added(e, s)
              /\ IF ~HasKey(s) THEN NextSub(f, t, task[f][t].subs \ {s})
                 ELSE /\ task' = [task EXCEPT ![f][t].pc = "mark"]
                      /\ UNCHANGED <<scan, seen>>
              /\ UNCHANGED <<keys, left>>
           \/ /\ Added(e, s) \/ UNCHANGED <<msgs, sent>>
              /\ \/ Spend("enqueue") /\ keys' = ReleaseKey(<<e, s>>)
                 \/ Spend("release") /\ keys' = keys
              /\ Raise(f, t)
        /\ UNCHANGED <<now, ev, sub, row, timeoutKeys, cursor, up, timer, fresh>>

(* mark_event_processed writes back what it read, with KEEPTTL.  If the    *)
(* key was deleted or has expired after the read it comes back, without a  *)
(* TTL, and outside the indexes once they have let go of it; if it was     *)
(* gone before, nothing is written.                                        *)
HandleMark(f, t) ==
    LET s == task[f][t].sub
    IN  /\ TaskAt(f, t, "mark")
        /\ \/ /\ \/ /\ sub[s].data \in {"none", "expired"}
                    /\ sub' = [sub EXCEPT ![s].data = IF @ = "none" THEN "forever" ELSE "revived"]
                 \/ UNCHANGED sub
              /\ NextSub(f, t, task[f][t].subs \ {s})
              /\ UNCHANGED left
           \/ Spend("redis") /\ Raise(f, t) /\ UNCHANGED sub
        /\ UNCHANGED <<now, ev, row, keys, timeoutKeys, cursor, msgs, up, timer, fresh, sent>>

Handle(f, t) == HandleList(f, t) \/ HandleClaim(f, t) \/ HandleEnqueue(f, t) \/ HandleMark(f, t)

-----------------------------------------------------------------------------
(* EventReconciler.scan_once. *)

ScanAt(f, pc) == Runs(f, Scan) /\ scan[f].pc = pc

Window(c, end) == {e \in Stored : c[1] <= ev[e].ts /\ ev[e].ts <= end}

Pending(es, c) == {e \in es : Before(c, Key(e))}

(* The first n of some events. *)
Earliest(es, n) == {e \in es : Cardinality({x \in es : Before(Key(x), Key(e))}) < n}

(* _next_page doubles the limit of list_events while a full page holds     *)
(* nothing but events the cursor has passed, until it has reached          *)
(* Batch * SkipFactor.  A page gets past them if it is longer than they    *)
(* are many.                                                               *)
Limits ==
    {l \in Batch .. 2 * Batch * SkipFactor :
        l = Batch \/ (l < 2 * Batch * SkipFactor /\ \E i \in 1 .. SkipFactor : l = Batch * 2^i)}

\* Mutant: the cursor remembers the time of the last event and not its id.
NewCursorTime(drained, end, batch) == IF drained THEN At(end) ELSE At(ev[Last(batch)].ts)
NewCursor(drained, end, batch) == IF drained THEN At(end) ELSE Key(Last(batch))

(* The reconciler reads the cursor, the clock and a page.  A cursor that   *)
(* cannot be read counts as missing; a page that cannot be read, or holds  *)
(* nothing new at the largest limit, ends the round.                       *)
ScanPage(f) ==
    /\ ScanAt(f, "idle")
    /\ \E c \in {cursor, NoCursor} :
        LET es == Window(c, now)
            pending == Pending(es, c)
            passed == Cardinality(es \ pending)
            limits == {l \in Limits : l > passed}
            limit == CHOOSE l \in limits : \A k \in limits : l <= k
            batch == Earliest(pending, IF limit - passed < Batch THEN limit - passed ELSE Batch)
            drained == Cardinality(es) < limit /\ batch = pending
        IN  /\ IF c = cursor THEN UNCHANGED left ELSE Spend("redis")
            /\ limits # {}
            /\ Proceed(f, batch, NewCursor(drained, now, batch))
    /\ UNCHANGED <<now, redis, up, timer, history>>

(* The cursor is written by another command than the one that read it.  A  *)
(* read that failed refuses nothing, and a write that fails is ignored.    *)
ScanSave(f) ==
    /\ ScanAt(f, "set") \/ ScanAt(f, "refuse")
    /\ \/ /\ cursor' = IF scan[f].pc = "set" THEN scan[f].new ELSE cursor
          /\ UNCHANGED left
       \/ /\ cursor' = IF scan[f].pc = "set" THEN cursor ELSE scan[f].new
          /\ Spend("redis")
    /\ scan' = [scan EXCEPT ![f] = NoScan]
    /\ UNCHANGED <<now, ev, sub, row, keys, timeoutKeys, msgs, up, task, timer, history>>

ScanStep(f) == ScanPage(f) \/ ScanSave(f) \/ Handle(f, Scan)

-----------------------------------------------------------------------------
(* SubscriptionTimeoutChecker and EventFilter._on_subscription_timeout. *)

TimerAt(f, pc) == Runs(f, Timer) /\ timer[f].pc = pc
TimerNext(f, rest) ==
    timer' = [timer EXCEPT ![f] = IF rest = {} THEN NoTimer
                                  ELSE [pc |-> "call", todo |-> rest, sub |-> NoSub]]

(* list_subscriptions without a filter scans the data keys. *)
Due == {s \in Sub : HasKey(s) /\ now > sub[s].at + Timeout}
TimerList(f) ==
    /\ left.timed /\ TimerAt(f, "idle") /\ Due # {}
    /\ TimerNext(f, Due)
    /\ UNCHANGED <<now, redis, up, task, scan, history, left>>

(* The row is read; then the subscription of an execution that is over is  *)
(* deleted, and for any other the timeout key is taken.  A failure ends    *)
(* this callback only.                                                     *)
TimerCall(f) ==
    /\ TimerAt(f, "call")
    /\ \E s \in timer[f].todo :
          \/ /\ row.st = "over"
             /\ sub' = Deleted(s) /\ TimerNext(f, timer[f].todo \ {s})
             /\ UNCHANGED <<timeoutKeys, left>>
          \/ /\ row.st # "over" /\ s \notin timeoutKeys
             /\ timeoutKeys' = timeoutKeys \cup {s}
             /\ timer' = [timer EXCEPT ![f].pc = "enqueue", ![f].sub = s]
             /\ UNCHANGED <<sub, left>>
          \/ /\ row.st # "over" /\ s \in timeoutKeys
             /\ TimerNext(f, timer[f].todo \ {s})
             /\ UNCHANGED <<sub, timeoutKeys, left>>
          \/ /\ Spend("redis") /\ TimerNext(f, timer[f].todo \ {s})
             /\ UNCHANGED <<sub, timeoutKeys>>
    /\ UNCHANGED <<now, ev, row, keys, cursor, msgs, up, task, scan, history>>

TimerEnqueue(f) ==
    LET s == timer[f].sub
    IN  /\ TimerAt(f, "enqueue")
        /\ \/ Added(NoEvent, s) /\ UNCHANGED <<timeoutKeys, left>>
           \/ /\ Added(NoEvent, s) \/ UNCHANGED <<msgs, sent>>
              /\ \/ Spend("enqueue") /\ timeoutKeys' = timeoutKeys \ {s}
                 \/ Spend("release") /\ UNCHANGED timeoutKeys
        /\ TimerNext(f, timer[f].todo \ {s})
        /\ UNCHANGED <<now, ev, sub, row, keys, cursor, up, task, scan, seen, fresh>>

TimerStep(f) == TimerList(f) \/ TimerCall(f) \/ TimerEnqueue(f)

\* Mutant: the timeout key has no TTL.
TimeoutKeyStays(s) == s \in timeoutKeys /\ UNCHANGED vars
TimeoutKeyExpires(s) ==
    /\ s \in timeoutKeys
    /\ timeoutKeys' = timeoutKeys \ {s}
    /\ UNCHANGED <<now, ev, sub, row, keys, cursor, msgs, filter, history, left>>

-----------------------------------------------------------------------------
(* A filter process dies and is started again. *)

CrashFilter(f) ==
    /\ up[f]
    /\ Spend(IF \E t \in Task : Claiming(f, t) THEN "window" ELSE "crash")
    /\ up' = [up EXCEPT ![f] = FALSE]
    /\ task' = [task EXCEPT ![f] = [t \in Task |-> Idle]]
    /\ scan' = [scan EXCEPT ![f] = NoScan]
    /\ timer' = [timer EXCEPT ![f] = NoTimer]
    /\ UNCHANGED <<now, redis, history>>

Restart(f) ==
    /\ f \in left.filters /\ ~up[f]
    /\ up' = [up EXCEPT ![f] = TRUE]
    /\ UNCHANGED <<now, redis, task, scan, timer, history, left>>

EventNext ==
    \/ \E e \in Event : Publish(e) \/ CreateLate(e) \/ StoreLate(e)
    \/ Tick
    \/ \E s \in Sub : Subscribe(s) \/ SubExpires(s) \/ IndexFades(s) \/ TimeoutKeyExpires(s)
    \/ Suspend \/ Cancel
    \/ \E m \in msgs : Resume(m) \/ Drop(m)
    \/ \E f \in Filter : \/ \E e \in Event : Handle(f, e)
                         \/ ScanStep(f) \/ TimerStep(f) \/ CrashFilter(f) \/ Restart(f)

EventSpec == EventInit /\ [][EventNext]_vars

(* Filters are restarted, their event loops let every task run again and   *)
(* again, workers consume the queue, keys expire and time passes.  Nobody  *)
(* has to publish anything.                                                *)
EventFairness ==
    /\ \A f \in Filter :
          /\ SF_vars(ScanStep(f)) /\ SF_vars(TimerStep(f))
          /\ WF_vars(\E e \in Event : Handle(f, e))
    /\ \A s \in Sub : WF_vars(TimeoutKeyExpires(s))
    /\ WF_vars(\E m \in msgs : Resume(m))
    /\ WF_vars(Tick \/ \E f \in Filter : Restart(f))
EventFairSpec == EventSpec /\ EventFairness

-----------------------------------------------------------------------------
Cursor == Time \X (Event \cup {0})
RowStatus == {"before", "suspended", "resumed", "over"}
SubData == [Sub -> [data : {"unborn", "ttl", "forever", "none", "expired", "revived"},
                    idx : BOOLEAN, at : Time]]

(* The state is well formed, and dedup keys, resume messages and handled   *)
(* events are of stored events.                                            *)
EventTypeOK ==
    /\ now \in Time
    /\ ev \in [Event -> [st : {"none", "made", "stored"}, ts : Time]]
    /\ sub \in SubData
    /\ row \in [st : RowStatus, sub : Sub \cup {NoSub}]
    /\ keys \subseteq Stored \X Sub /\ timeoutKeys \subseteq Sub
    /\ cursor \in Cursor
    /\ msgs \subseteq Message /\ \A m \in msgs : m.ev \in Stored \cup {NoEvent}
    /\ up \in [Filter -> BOOLEAN]
    /\ task \in [Filter -> [Task ->
         [pc : {"idle", "list", "claim", "enqueue", "mark"}, ev : Event \cup {NoEvent},
          subs : SUBSET Sub, sub : Sub \cup {NoSub}]]]
    /\ scan \in [Filter -> [pc : {"idle", "event", "set", "refuse"}, todo : SUBSET Event, new : Cursor]]
    /\ timer \in [Filter -> [pc : {"idle", "call", "enqueue"}, todo : SUBSET Sub,
                              sub : Sub \cup {NoSub}]]
    /\ seen \subseteq Stored /\ fresh \subseteq Event
    /\ sent \in [Event -> [Sub -> 0 .. 2]]

(* The reconciler does not skip: when the cursor has passed a stored       *)
(* event, some handle_event has returned from it, whatever failed on the   *)
(* way, unless events were stored out of order.  (scan_once: only a window *)
(* known to be drained moves the cursor to its end.)                       *)
CursorCovers ==
    Happened("late") \/ \A e \in Stored : Before(Key(e), cursor) => e \in seen

(* The filters, their reconcilers and their notifications together enqueue *)
(* at most one resume message for an event and a subscription, unless an   *)
(* enqueue failed.  (handle_event: SET NX on the dedup key.)               *)
OneResumePerEvent ==
    Happened("enqueue") \/ \A e \in Event : \A s \in Sub : sent[e][s] <= 1

(* While the execution waits, the subscription it waits on can be found    *)
(* by the filters: nothing removes it but the resume itself, whose message *)
(* is still there, or the TTL of its data key, which nothing renews.       *)
(* Neither the clean-up of the indexes nor another execution's, or an      *)
(* older subscription's, end takes it away before.                         *)
WaitIsSubscribed ==
    row.st = "suspended" => \/ sub[row.sub].data = "ttl" /\ sub[row.sub].idx
                            \/ \E m \in msgs : m.sub = row.sub
                            \/ Lapsed(row.sub)

(* Every stored event is read by some handle_event, whatever is lost,      *)
(* fails or crashes, unless events were stored out of order.  (#85: events *)
(* of one timestamp do not hold the cursor up.)                            *)
EveryEventSeen ==
    []<>(Stored \subseteq seen \/ Happened("late"))

(* The troubles after which an event may be counted as processed although  *)
(* nothing was enqueued for it.                                            *)
Swallows ==
    \/ Happened("late") \/ Happened("window") \/ Happened("release")
    \/ Happened("enqueue") /\ Cardinality(left.filters) > 1

(* An event published while the execution is suspended ends the wait,      *)
(* although notifications are lost, filters and the worker crash and the   *)
(* enqueue fails, unless the subscription's TTL runs out first.            *)
(* (event_reconcile.py: at-least-once.)                                    *)
EventEndsWait ==
    fresh \cap Stored # {} ~> row.st # "suspended" \/ Swallows \/ Lapsed(row.sub)

(* A wait with a timeout ends, whatever else goes wrong, unless the        *)
(* subscription's TTL runs out before the checker has fired: a timeout     *)
(* must be shorter than that.  (The timeout key expires, and the checker   *)
(* fires again while the subscription exists.)                             *)
TimedWaitEnds ==
    left.timed /\ row.st = "suspended" ~> row.st # "suspended" \/ Lapsed(row.sub)

-----------------------------------------------------------------------------
(* What the code claims and does not keep. *)

InHand(e) == \E f \in Filter : \E t \in Task : task[f][t].pc # "idle" /\ task[f][t].ev = e

(* An event whose enqueue failed stays for the next round of the           *)
(* reconciler: while the execution still waits, an event behind the cursor *)
(* has a resume message or is being handled.                               *)
ScannedNotSwallowed ==
    \A e \in fresh \cap Stored :
       row.st = "suspended" /\ Before(Key(e), cursor)
         => InHand(e) \/ \E m \in msgs : m.ev = e /\ m.sub = row.sub
=============================================================================
