--------------------------- MODULE EventDelivery_proofs ---------------------------
(***************************************************************************)
(* What holds of the delivery of events for any number of filters, events, *)
(* subscriptions and troubles of every kind, any clock and any page size.  *)
(***************************************************************************)
EXTENDS EventDelivery, Extrema, FiniteSetTheorems

TaskRecord ==
    [pc : {"idle", "list", "claim", "enqueue", "mark"}, ev : Event \cup {NoEvent},
     subs : SUBSET Sub, sub : Sub \cup {NoSub}]
ScanRecord == [pc : {"idle", "event", "set", "refuse"}, todo : SUBSET Event, new : Cursor]
TimerRecord == [pc : {"idle", "call", "enqueue"}, todo : SUBSET Sub, sub : Sub \cup {NoSub}]

(* A task is about a stored event, and about a subscription once it has    *)
(* taken a key.                                                            *)
TaskSane(x) ==
    /\ x.pc # "idle" => x.ev \in Stored
    /\ x.pc \in {"enqueue", "mark"} => x.sub \in Sub

TasksOK ==
    /\ task \in [Filter -> [Task -> TaskRecord]]
    /\ \A f \in Filter : \A t \in Task : TaskSane(task[f][t])

(* The events of a page are stored, and there are none between two pages. *)
ScansOK ==
    /\ scan \in [Filter -> ScanRecord]
    /\ \A f \in Filter : scan[f].todo \subseteq Stored /\ (scan[f].pc # "event" => scan[f].todo = {})

TimersOK ==
    /\ timer \in [Filter -> TimerRecord]
    /\ \A f \in Filter : timer[f].pc = "enqueue" => timer[f].sub \in Sub

(* A budget never grows, so that what has happened stays so. *)
LeftOK ==
    /\ left \in [filters : SUBSET Filter, events : SUBSET Event, timed : BOOLEAN, time : Time,
                 budget : [Trouble -> Nat], now : [Trouble -> Nat]]
    /\ \A t \in Trouble : left.now[t] <= left.budget[t]

(* Redis, the clock and the histories; no event is from the future. *)
WorldOK ==
    /\ now \in Time /\ up \in [Filter -> BOOLEAN]
    /\ ev \in [Event -> [st : {"none", "made", "stored"}, ts : Time]]
    /\ \A e \in Event : ev[e].ts <= now
    /\ sub \in SubData
    /\ row \in [st : RowStatus, sub : Sub \cup {NoSub}]
    /\ keys \subseteq Stored \X Sub /\ timeoutKeys \subseteq Sub
    /\ cursor \in Cursor
    /\ msgs \subseteq Message /\ \A m \in msgs : m.ev \in Stored \cup {NoEvent}
    /\ seen \subseteq Stored /\ fresh \subseteq Event
    /\ sent \in [Event -> [Sub -> 0 .. 2]]

(* The inductive type invariant. *)
EventInv == WorldOK /\ LeftOK /\ TasksOK /\ ScansOK /\ TimersOK

-----------------------------------------------------------------------------

(* What the assumptions say of the constants, spelled out. *)
LEMMA EventConstants ==
    /\ MaxEvent \in Nat \ {0} /\ MaxSub \in Nat \ {0} /\ MaxTime \in Nat /\ Timeout \in Nat
    /\ Batch \in Nat \ {0} /\ SkipFactor \in Nat \ {0}
    /\ Event = 1 .. MaxEvent /\ Sub = 1 .. MaxSub /\ Time = 0 .. MaxTime
    /\ 0 \in Time /\ 0 \notin Event /\ Scan \in Task /\ Event \subseteq Task
    /\ NoCursor \in Cursor
BY EventAssumption DEF Event, Sub, Time, Scan, Task, NoCursor, Cursor

(* The idle task, scan and timer are of their types. *)
LEMMA IdleRecords ==
    /\ Idle \in TaskRecord /\ TaskSane(Idle)
    /\ NoScan \in ScanRecord /\ NoScan.todo = {} /\ NoScan.pc = "idle"
    /\ NoTimer \in TimerRecord /\ NoTimer.pc = "idle"
BY EventConstants DEF Idle, TaskRecord, TaskSane, NoScan, ScanRecord, NoTimer, TimerRecord

(* The task of a stored event is a sane task. *)
LEMMA HandlingType ==
    ASSUME NEW e \in Stored
    PROVE  Handling(e) \in TaskRecord /\ TaskSane(Handling(e)) /\ Handling(e).pc = "list"
<1>1. e \in Event
  BY DEF Stored
<1>2. Handling(e) \in TaskRecord /\ Handling(e).pc = "list" /\ Handling(e).ev = e
  BY <1>1, IdleRecords DEF Handling, TaskRecord
<1> QED
  BY <1>2 DEF TaskSane

(* Spending from a budget leaves the rest of the scenario alone. *)
LEMMA Spent ==
    ASSUME EventInv, NEW t \in Trouble, Spend(t)
    PROVE  /\ LeftOK'
           /\ left'.now[t] < left'.budget[t]
           /\ \A u \in Trouble : left'.now[u] <= left.now[u] /\ left'.budget[u] = left.budget[u]
           /\ \A u \in Trouble \ {t} : left'.now[u] = left.now[u]
           /\ left'.time = left.time /\ left'.events = left.events
<1>1. left' = [left EXCEPT !.now = [left.now EXCEPT ![t] = @ - 1]] /\ left.now[t] > 0
  BY DEF Spend, EventInv, LeftOK
<1>2. left.now \in [Trouble -> Nat] /\ left.budget \in [Trouble -> Nat] /\ left.now[t] <= left.budget[t]
  BY DEF EventInv, LeftOK
<1>3. /\ left'.now = [left.now EXCEPT ![t] = @ - 1] /\ left'.budget = left.budget
      /\ left'.time = left.time /\ left'.events = left.events
      /\ left'.filters = left.filters /\ left'.timed = left.timed
  BY <1>1 DEF EventInv, LeftOK
<1>4. /\ left'.now \in [Trouble -> Nat]
      /\ \A u \in Trouble : left'.now[u] <= left.now[u]
      /\ \A u \in Trouble \ {t} : left'.now[u] = left.now[u]
      /\ left'.now[t] < left.now[t]
  BY <1>1, <1>2, <1>3
<1>5. LeftOK'
  <2>1. left' \in [filters : SUBSET Filter, events : SUBSET Event, timed : BOOLEAN, time : Time,
                   budget : [Trouble -> Nat], now : [Trouble -> Nat]]
    BY <1>1, <1>2, <1>3, <1>4 DEF EventInv, LeftOK
  <2>2. \A u \in Trouble : left'.now[u] <= left'.budget[u]
    BY <1>2, <1>3, <1>4 DEF EventInv, LeftOK
  <2> QED
    BY <2>1, <2>2 DEF LeftOK
<1> QED
  BY <1>2, <1>3, <1>4, <1>5

-----------------------------------------------------------------------------
(* The order of events. *)

(* The keys of the events are ordered by time, then id, after the empty cursor. *)
LEMMA KeyOrder ==
    ASSUME EventInv
    PROVE  /\ \A e \in Event : Key(e) = <<ev[e].ts, e>> /\ Key(e) \in Cursor
           /\ \A c \in Cursor : ~Before(c, c)
           /\ \A c, d, e \in Cursor : Before(c, d) /\ Before(d, e) => Before(c, e)
           /\ \A c, d \in Cursor : Before(c, d) \/ Before(d, c) \/ c = d
           /\ \A e \in Event : Before(NoCursor, Key(e))
<1>1. \A e \in Event : Key(e) = <<ev[e].ts, e>> /\ Key(e) \in Cursor
  BY DEF Key, Cursor, EventInv, WorldOK
<1>2. \A c \in Cursor : c[1] \in Nat /\ c[2] \in Nat /\ c = <<c[1], c[2]>>
  BY EventConstants DEF Cursor
<1>3. \A c \in Cursor : ~Before(c, c)
  BY <1>2 DEF Before
<1>4. \A c, d, e \in Cursor : Before(c, d) /\ Before(d, e) => Before(c, e)
  BY <1>2 DEF Before
<1>5. \A c, d \in Cursor : Before(c, d) \/ Before(d, c) \/ c = d
  BY <1>2 DEF Before
<1>6. \A e \in Event : Before(NoCursor, Key(e))
  <2> SUFFICES ASSUME NEW e \in Event PROVE Before(NoCursor, Key(e))
    OBVIOUS
  <2>1. Key(e)[1] \in Nat /\ Key(e)[2] = e /\ e \in Nat \ {0}
    BY <1>1, <1>2, EventConstants
  <2> QED
    BY <2>1 DEF Before, NoCursor
<1> QED
  BY <1>1, <1>3, <1>4, <1>5, <1>6

(* The first and the last of some events exist. *)
LEMMA FirstIsMember ==
    ASSUME EventInv, NEW es \in SUBSET Event, es # {}
    PROVE  First(es) \in es /\ \A x \in es \ {First(es)} : Before(Key(First(es)), Key(x))
<1>0. \A e \in Event : ev[e].ts \in Nat /\ e \in Nat
  BY EventConstants DEF EventInv, WorldOK
<1> DEFINE T == {ev[e].ts : e \in es}
<1>1. PICK t \in T : \A u \in T : t <= u
  <2>1. T \in SUBSET Nat /\ T # {}
    BY <1>0
  <2> QED
    BY <2>1, LeastElement
<1> DEFINE S == {e \in es : ev[e].ts = t}
<1>2. PICK e \in S : \A x \in S : e <= x
  <2>1. S \in SUBSET Nat /\ S # {}
    BY <1>0
  <2> QED
    BY <2>1, LeastElement
<1>3. ASSUME NEW x \in es \ {e} PROVE Before(Key(e), Key(x))
  <2>1. ev[e].ts = t /\ t <= ev[x].ts /\ x \in Event /\ e \in Event
    BY <1>1, <1>2
  <2>2. ev[x].ts = t => e < x
    BY <1>0, <1>2, <2>1
  <2>3. Key(e) = <<ev[e].ts, e>> /\ Key(x) = <<ev[x].ts, x>>
    BY DEF Key
  <2> QED
    BY <1>0, <2>1, <2>2, <2>3 DEF Before
<1>4. \E y \in es : \A x \in es \ {y} : Before(Key(y), Key(x))
  BY <1>2, <1>3
<1> QED
  BY <1>4 DEF First

(* The last event of a page belongs to it and comes after the others. *)
LEMMA LastIsMember ==
    ASSUME EventInv, NEW es \in SUBSET Event, es # {}
    PROVE  Last(es) \in es /\ \A x \in es \ {Last(es)} : Before(Key(x), Key(Last(es)))
<1>0. \A e \in Event : ev[e].ts \in Nat /\ ev[e].ts <= MaxTime /\ e \in Nat /\ e <= MaxEvent
  BY EventConstants DEF EventInv, WorldOK
<1> DEFINE T == {ev[e].ts : e \in es}
<1>1. PICK t \in T : \A u \in T : u <= t
  <2>1. T \in SUBSET Nat /\ T # {} /\ \A u \in T : u <= MaxTime
    BY <1>0
  <2> QED
    BY <2>1, GreatestElement, EventConstants
<1> DEFINE S == {e \in es : ev[e].ts = t}
<1>2. PICK e \in S : \A x \in S : x <= e
  <2>1. S \in SUBSET Nat /\ S # {} /\ \A x \in S : x <= MaxEvent
    BY <1>0
  <2> QED
    BY <2>1, GreatestElement, EventConstants
<1>3. ASSUME NEW x \in es \ {e} PROVE Before(Key(x), Key(e))
  <2>1. ev[e].ts = t /\ ev[x].ts <= t /\ x \in Event /\ e \in Event
    BY <1>1, <1>2
  <2>2. ev[x].ts = t => x < e
    BY <1>0, <1>2, <2>1
  <2>3. Key(e) = <<ev[e].ts, e>> /\ Key(x) = <<ev[x].ts, x>>
    BY DEF Key
  <2> QED
    BY <1>0, <2>1, <2>2, <2>3 DEF Before
<1>4. \E y \in es : \A x \in es \ {y} : Before(Key(x), Key(y))
  BY <1>2, <1>3
<1> QED
  BY <1>4 DEF Last

-----------------------------------------------------------------------------
(* What a step of handle_event does to its task and to the reconciler it   *)
(* may be called by: no event leaves the page unless it was handled.       *)
Moved(f, t) ==
    /\ TasksOK' /\ ScansOK' /\ seen \subseteq seen' /\ seen' \subseteq Stored
    /\ \A g \in Filter : \A u \in Task : g # f \/ u # t => task'[g][u] = task[g][u]
    /\ \A g \in Filter : \/ scan'[g] = NoScan
                         \/ /\ scan'[g].new = scan[g].new
                            /\ scan[g].todo \subseteq scan'[g].todo \cup seen'

SetTask(f, t, r) == task' = [task EXCEPT ![f][t] = r]

(* Replacing one task by a sane one keeps the others. *)
LEMMA TaskSet ==
    ASSUME EventInv, ev' = ev, NEW f \in Filter, NEW t \in Task,
           NEW r \in TaskRecord, TaskSane(r), SetTask(f, t, r)
    PROVE  /\ TasksOK' /\ task'[f][t] = r
           /\ \A g \in Filter : \A u \in Task : g # f \/ u # t => task'[g][u] = task[g][u]
<1>1. task' = [task EXCEPT ![f] = [task[f] EXCEPT ![t] = r]]
  BY DEF EventInv, TasksOK, SetTask
<1>2. task[f] \in [Task -> TaskRecord]
  BY DEF EventInv, TasksOK
<1>3. task' \in [Filter -> [Task -> TaskRecord]] /\ task'[f][t] = r
  BY <1>1, <1>2 DEF EventInv, TasksOK
<1>4. \A g \in Filter : \A u \in Task : g # f \/ u # t => task'[g][u] = task[g][u]
  BY <1>1, <1>2 DEF EventInv, TasksOK
<1>5. Stored' = Stored
  BY DEF Stored
<1>6. ASSUME NEW g \in Filter, NEW u \in Task PROVE TaskSane(task[g][u])'
  BY <1>3, <1>4, <1>5 DEF EventInv, TasksOK, TaskSane
<1> QED
  BY <1>3, <1>4, <1>6 DEF TasksOK

(* Replacing one scan by a sane one keeps the others. *)
LEMMA ScanSet ==
    ASSUME EventInv, ev' = ev, NEW f \in Filter, NEW r \in ScanRecord,
           r.todo \subseteq Stored, r.pc # "event" => r.todo = {},
           scan' = [scan EXCEPT ![f] = r]
    PROVE  ScansOK' /\ scan'[f] = r /\ \A g \in Filter \ {f} : scan'[g] = scan[g]
<1>1. Stored' = Stored
  BY DEF Stored
<1> QED
  BY <1>1 DEF EventInv, ScansOK

(* Scans that do not change keep their type. *)
LEMMA ScanSame ==
    ASSUME EventInv, ev' = ev, scan' = scan
    PROVE  ScansOK'
BY DEF EventInv, ScansOK, Stored

(* The reconciler turns to what is left of its page. *)
LEMMA ProceedMoves ==
    ASSUME EventInv, ev' = ev, NEW f \in Filter, NEW todo \in SUBSET Stored, NEW new \in Cursor,
           Proceed(f, todo, new)
    PROVE  /\ TasksOK' /\ ScansOK'
           /\ task'[f][Scan].pc \in {"idle", "list"}
           /\ \A g \in Filter : \A u \in Task : g # f \/ u # Scan => task'[g][u] = task[g][u]
           /\ scan'[f].new = new /\ scan'[f].todo = todo
           /\ \A g \in Filter \ {f} : scan'[g] = scan[g]
<1> DEFINE r == IF todo = {} THEN Idle ELSE Handling(First(todo))
           p == IF todo # {} THEN "event" ELSE IF Before(new, cursor) THEN "refuse" ELSE "set"
           q == [pc |-> p, todo |-> todo, new |-> new]
<1>0. todo \subseteq Event
  BY DEF Stored
<1>1. r \in TaskRecord /\ TaskSane(r) /\ r.pc \in {"idle", "list"}
  <2>1. CASE todo = {}
    BY <2>1, IdleRecords DEF Idle
  <2>2. CASE todo # {}
    <3>1. First(todo) \in Stored
      BY <1>0, <2>2, FirstIsMember
    <3> QED
      BY <2>2, <3>1, HandlingType
  <2> QED
    BY <2>1, <2>2
<1>2. SetTask(f, Scan, r) /\ scan' = [scan EXCEPT ![f] = q]
  BY DEF Proceed, SetTask
<1>3. q \in ScanRecord /\ q.todo = todo /\ q.new = new /\ (q.pc # "event" => q.todo = {})
  BY <1>0 DEF ScanRecord
<1> HIDE DEF r, q
<1>4. /\ TasksOK' /\ task'[f][Scan] = r
      /\ \A g \in Filter : \A u \in Task : g # f \/ u # Scan => task'[g][u] = task[g][u]
  BY <1>1, <1>2, TaskSet, EventConstants
<1>5. ScansOK' /\ scan'[f] = q /\ \A g \in Filter \ {f} : scan'[g] = scan[g]
  BY <1>2, <1>3, ScanSet
<1> QED
  BY <1>1, <1>3, <1>4, <1>5

(* A task replaced by a sane one moves, and nothing else does. *)
LEMMA TaskMoves ==
    ASSUME EventInv, ev' = ev, NEW f \in Filter, NEW t \in Task, NEW r \in TaskRecord, TaskSane(r),
           SetTask(f, t, r), UNCHANGED <<scan, seen>>
    PROVE  Moved(f, t) /\ task'[f][t] = r
<1>1. /\ TasksOK' /\ task'[f][t] = r
      /\ \A g \in Filter : \A u \in Task : g # f \/ u # t => task'[g][u] = task[g][u]
  BY TaskSet
<1> QED
  BY <1>1, ScanSame DEF Moved, EventInv, WorldOK

(* A task that returns is idle or handles the event again. *)
LEMMA ReturnMoves ==
    ASSUME EventInv, ev' = ev, NEW f \in Filter, NEW t \in Task, task[f][t].pc # "idle",
           Return(f, t)
    PROVE  Moved(f, t) /\ task'[f][t].pc \in {"idle", "list"}
<1>1. task[f][t].ev \in Stored /\ seen' = seen \cup {task[f][t].ev}
  BY DEF EventInv, TasksOK, TaskSane, Return
<1>2. CASE t = Scan
  <2>1. Proceed(f, scan[f].todo \ {task[f][t].ev}, scan[f].new)
    BY <1>2 DEF Return, Consume
  <2>2. scan[f].todo \ {task[f][t].ev} \in SUBSET Stored /\ scan[f].new \in Cursor
    BY DEF EventInv, ScansOK, ScanRecord
  <2>3. /\ TasksOK' /\ ScansOK' /\ task'[f][Scan].pc \in {"idle", "list"}
        /\ \A g \in Filter : \A u \in Task : g # f \/ u # Scan => task'[g][u] = task[g][u]
        /\ scan'[f].new = scan[f].new /\ scan'[f].todo = scan[f].todo \ {task[f][t].ev}
        /\ \A g \in Filter \ {f} : scan'[g] = scan[g]
    BY <2>1, <2>2, ProceedMoves
  <2> QED
    BY <1>1, <1>2, <2>3 DEF Moved, EventInv, WorldOK
<1>3. CASE t # Scan
  <2>1. SetTask(f, t, Idle) /\ scan' = scan
    BY <1>3 DEF Return, Consume, SetTask
  <2>2. /\ TasksOK' /\ task'[f][t] = Idle
        /\ \A g \in Filter : \A u \in Task : g # f \/ u # t => task'[g][u] = task[g][u]
    BY <2>1, TaskSet, IdleRecords
  <2> QED
    BY <1>1, <2>1, <2>2, ScanSame DEF Moved, EventInv, WorldOK, Idle
<1> QED
  BY <1>2, <1>3

(* A task that raises is idle. *)
LEMMA RaiseMoves ==
    ASSUME EventInv, ev' = ev, NEW f \in Filter, NEW t \in Task, Raise(f, t)
    PROVE  Moved(f, t) /\ task'[f][t].pc = "idle"
<1>1. SetTask(f, t, Idle) /\ seen' = seen
  BY DEF Raise, SetTask
<1>2. /\ TasksOK' /\ task'[f][t] = Idle
      /\ \A g \in Filter : \A u \in Task : g # f \/ u # t => task'[g][u] = task[g][u]
  BY <1>1, TaskSet, IdleRecords
<1>3. CASE t = Scan
  <2>1. ScansOK' /\ scan'[f] = NoScan /\ \A g \in Filter \ {f} : scan'[g] = scan[g]
    BY <1>3, ScanSet, IdleRecords DEF Raise
  <2> QED
    BY <1>1, <1>2, <2>1 DEF Moved, EventInv, WorldOK, Idle
<1>4. CASE t # Scan
  BY <1>1, <1>2, <1>4, ScanSame DEF Raise, Moved, EventInv, WorldOK, Idle
<1> QED
  BY <1>3, <1>4

(* A task that takes its next subscription moves, and nothing else does. *)
LEMMA NextSubMoves ==
    ASSUME EventInv, ev' = ev, NEW f \in Filter, NEW t \in Task, task[f][t].pc # "idle",
           NEW rest \in SUBSET Sub, NextSub(f, t, rest)
    PROVE  Moved(f, t) /\ task'[f][t].pc \in {"idle", "list", "claim"}
<1>1. CASE rest = {}
  BY <1>1, ReturnMoves DEF NextSub
<1>2. CASE rest # {}
  <2> DEFINE r == [task[f][t] EXCEPT !.pc = "claim", !.subs = rest, !.sub = NoSub]
  <2>0. task[f][t] \in TaskRecord /\ task[f][t].ev \in Stored
    BY DEF EventInv, TasksOK, TaskSane
  <2>1. r \in TaskRecord /\ r.pc = "claim" /\ r.ev = task[f][t].ev
    BY <2>0 DEF TaskRecord
  <2>2. SetTask(f, t, r) /\ UNCHANGED <<scan, seen>>
    <3>1. /\ task' = [task EXCEPT ![f][t].pc = "claim", ![f][t].subs = rest, ![f][t].sub = NoSub]
          /\ UNCHANGED <<scan, seen>>
      BY <1>2 DEF NextSub
    <3>2. task \in [Filter -> [Task -> TaskRecord]]
      BY DEF EventInv, TasksOK
    <3>3. task' = [task EXCEPT ![f] = [task[f] EXCEPT ![t].pc = "claim", ![t].subs = rest, ![t].sub = NoSub]]
      BY <3>1, <3>2
    <3>4. [task[f] EXCEPT ![t].pc = "claim", ![t].subs = rest, ![t].sub = NoSub]
             = [task[f] EXCEPT ![t] = r]
      BY <3>2
    <3> QED
      BY <3>1, <3>2, <3>3, <3>4 DEF SetTask
  <2> HIDE DEF r
  <2>3. TaskSane(r)
    BY <2>0, <2>1 DEF TaskSane
  <2> QED
    BY <2>1, <2>2, <2>3, TaskMoves
<1> QED
  BY <1>1, <1>2

(* A task that won a claim keeps its event and remembers the subscription. *)
LEMMA ClaimMoves ==
    ASSUME EventInv, ev' = ev, NEW f \in Filter, NEW t \in Task, task[f][t].pc # "idle",
           NEW s \in Sub, task' = [task EXCEPT ![f][t].pc = "enqueue", ![f][t].sub = s],
           UNCHANGED <<scan, seen>>
    PROVE  /\ Moved(f, t) /\ task'[f][t].pc = "enqueue"
           /\ task'[f][t].ev = task[f][t].ev /\ task'[f][t].sub = s
<1> DEFINE r == [task[f][t] EXCEPT !.pc = "enqueue", !.sub = s]
<1>0. task \in [Filter -> [Task -> TaskRecord]] /\ task[f][t] \in TaskRecord /\ task[f][t].ev \in Stored
  BY DEF EventInv, TasksOK, TaskSane
<1>1. r \in TaskRecord /\ r.pc = "enqueue" /\ r.ev = task[f][t].ev /\ r.sub = s
  BY <1>0 DEF TaskRecord
<1>2. task' = [task EXCEPT ![f] = [task[f] EXCEPT ![t].pc = "enqueue", ![t].sub = s]]
  BY <1>0
<1>3. [task[f] EXCEPT ![t].pc = "enqueue", ![t].sub = s] = [task[f] EXCEPT ![t] = r]
  BY <1>0
<1>4. SetTask(f, t, r)
  BY <1>0, <1>2, <1>3 DEF SetTask
<1> HIDE DEF r
<1>5. TaskSane(r)
  BY <1>0, <1>1 DEF TaskSane
<1> QED
  BY <1>1, <1>4, <1>5, TaskMoves

(* A task that enqueued goes on to mark. *)
LEMMA MarkMoves ==
    ASSUME EventInv, ev' = ev, NEW f \in Filter, NEW t \in Task, task[f][t].pc # "idle",
           task[f][t].sub \in Sub, task' = [task EXCEPT ![f][t].pc = "mark"],
           UNCHANGED <<scan, seen>>
    PROVE  Moved(f, t) /\ task'[f][t].pc = "mark"
<1> DEFINE r == [task[f][t] EXCEPT !.pc = "mark"]
<1>0. task \in [Filter -> [Task -> TaskRecord]] /\ task[f][t] \in TaskRecord /\ task[f][t].ev \in Stored
  BY DEF EventInv, TasksOK, TaskSane
<1>1. r \in TaskRecord /\ r.pc = "mark" /\ r.ev = task[f][t].ev /\ r.sub = task[f][t].sub
  BY <1>0 DEF TaskRecord
<1>4. SetTask(f, t, r)
  BY <1>0 DEF SetTask
<1> HIDE DEF r
<1>5. TaskSane(r)
  BY <1>0, <1>1 DEF TaskSane
<1> QED
  BY <1>1, <1>4, <1>5, TaskMoves

-----------------------------------------------------------------------------
(* The page the reconciler reads from the cursor c on. *)

(* The limits of the event index's pages are naturals. *)
LEMMA LimitsAreNaturals == Limits \in SUBSET Nat
<1>1. Limits \subseteq Batch .. 2 * Batch * SkipFactor
  BY Zenon DEF Limits
<1>2. Batch .. 2 * Batch * SkipFactor \subseteq Nat
  BY EventConstants
<1> QED
  BY <1>1, <1>2

(* The earliest n of some events: at least one, and none is left out that  *)
(* is before one of them.                                                  *)
LEMMA EarliestIsPrefix ==
    ASSUME EventInv, NEW es \in SUBSET Event, NEW n \in Nat \ {0}
    PROVE  /\ Earliest(es, n) \subseteq es
           /\ es # {} => Earliest(es, n) # {}
           /\ \A l \in Earliest(es, n), e \in es : Before(Key(e), Key(l)) => e \in Earliest(es, n)
<1> DEFINE Ahead(e) == {x \in es : Before(Key(x), Key(e))}
<1>0. IsFiniteSet(es) /\ \A e \in es : IsFiniteSet(Ahead(e)) /\ Cardinality(Ahead(e)) \in Nat
  <2>1. IsFiniteSet(Event)
    BY FS_Interval, EventConstants
  <2>2. IsFiniteSet(es)
    BY <2>1, FS_Subset
  <2>3. \A e \in es : Ahead(e) \in SUBSET es
    OBVIOUS
  <2> HIDE DEF Ahead
  <2> QED
    BY <2>2, <2>3, FS_Subset, FS_CardinalityType
<1>1. Earliest(es, n) = {e \in es : Cardinality(Ahead(e)) < n}
  BY DEF Earliest
<1>2. ASSUME es # {} PROVE Earliest(es, n) # {}
  <2>1. First(es) \in es /\ \A x \in es \ {First(es)} : Before(Key(First(es)), Key(x))
    BY <1>2, FirstIsMember
  <2>2. \A x \in es : ~Before(Key(x), Key(First(es)))
    BY <2>1, KeyOrder
  <2>3. Ahead(First(es)) = {}
    BY <2>2
  <2>4. Cardinality(Ahead(First(es))) = 0
    BY <2>3, FS_EmptySet
  <2> QED
    BY <1>1, <2>1, <2>4
<1>3. ASSUME NEW l \in Earliest(es, n), NEW e \in es, Before(Key(e), Key(l))
      PROVE  e \in Earliest(es, n)
  <2>1. l \in es /\ Cardinality(Ahead(l)) < n
    BY <1>1
  <2>2. Ahead(e) \in SUBSET Ahead(l)
    BY <1>3, <2>1, KeyOrder
  <2>3. Cardinality(Ahead(e)) <= Cardinality(Ahead(l))
    BY <1>0, <2>1, <2>2, FS_Subset
  <2> HIDE DEF Ahead
  <2>4. Cardinality(Ahead(e)) < n
    BY <1>0, <2>1, <2>3
  <2> QED
    BY <1>1, <2>4
<1> QED
  BY <1>1, <1>2, <1>3

(* A cursor the reconciler may hold: a time that has come, or an event     *)
(* that is stored.                                                         *)
Passed(c) == (c[2] = 0 /\ c[1] <= now) \/ \E e \in Stored : c = Key(e)

(* The reconciler's new cursor skips nothing but what is in its page.      *)
LEMMA PageMoves ==
    ASSUME EventInv, NEW f \in Filter, ScanPage(f)
    PROVE  /\ left' = left \/ Spend("redis")
           /\ \E c \in {cursor, NoCursor}, batch \in SUBSET Stored, new \in Cursor :
                 /\ Proceed(f, batch, new) /\ Passed(new)
                 /\ \A e \in Stored : Before(new, Key(e)) \/ ~Before(c, Key(e)) \/ e \in batch
<1>1. PICK c \in {cursor, NoCursor} :
        LET es == Window(c, now)
            pending == Pending(es, c)
            passed == Cardinality(es \ pending)
            limits == {l \in Limits : l > passed}
            limit == CHOOSE l \in limits : \A k \in limits : l <= k
            batch == Earliest(pending, IF limit - passed < Batch THEN limit - passed ELSE Batch)
            drained == Cardinality(es) < limit /\ batch = pending
        IN  /\ IF c = cursor THEN UNCHANGED left ELSE Spend("redis")
            /\ limits # {}
            /\ Proceed(f, batch, NewCursor(drained, now, batch))
  BY DEF ScanPage
<1> DEFINE es == Window(c, now)
           pending == Pending(es, c)
           passed == Cardinality(es \ pending)
           limits == {l \in Limits : l > passed}
           limit == CHOOSE l \in limits : \A k \in limits : l <= k
           n == IF limit - passed < Batch THEN limit - passed ELSE Batch
           batch == Earliest(pending, n)
           drained == Cardinality(es) < limit /\ batch = pending
           new == NewCursor(drained, now, batch)
<1>2. Proceed(f, batch, new) /\ limits # {} /\ (left' = left \/ Spend("redis"))
  BY <1>1
<1>3. c \in Cursor /\ now \in Nat /\ Stored \subseteq Event
  BY EventConstants DEF EventInv, WorldOK, Stored
<1>4. es \in SUBSET Event /\ pending \in SUBSET es
  BY DEF Window, Pending, Stored
<1>5. pending = {e \in Stored : Before(c, Key(e))}
  <2> SUFFICES ASSUME NEW e \in Stored, Before(c, Key(e)) PROVE e \in es
    BY DEF Window, Pending
  <2>1. Key(e) = <<ev[e].ts, e>> /\ ev[e].ts <= now /\ ev[e].ts \in Nat /\ c[1] \in Nat
    <3>1. e \in Event /\ c[1] \in Time
      BY <1>3 DEF Cursor
    <3>2. ev[e].ts \in Time /\ ev[e].ts <= now
      BY <3>1 DEF EventInv, WorldOK
    <3> QED
      BY <3>1, <3>2, EventConstants DEF Key
  <2>2. c[1] <= ev[e].ts
    BY <2>1 DEF Before
  <2> QED
    BY <2>1, <2>2 DEF Window
<1>6. IsFiniteSet(es) /\ passed \in Nat /\ Cardinality(es) \in Nat
  <2>1. IsFiniteSet(Event)
    BY FS_Interval, EventConstants
  <2>2. IsFiniteSet(es) /\ es \ pending \in SUBSET es
    BY <1>4, <2>1, FS_Subset
  <2>3. IsFiniteSet(es \ pending)
    BY <2>2, FS_Subset
  <2> QED
    BY <2>2, <2>3, FS_CardinalityType
<1>7. limit \in Nat /\ limit > passed
  <2>1. limits \in SUBSET Nat
    BY LimitsAreNaturals
  <2>2. \E l \in limits : \A k \in limits : l <= k
    BY <1>2, <2>1, LeastElement
  <2>3. limit \in limits
    BY <2>2
  <2> QED
    BY <2>1, <2>3
<1> HIDE DEF limit
<1>8. n \in Nat \ {0}
  BY <1>6, <1>7, EventConstants
<1> HIDE DEF n
<1>9. /\ batch \subseteq pending
      /\ pending # {} => batch # {}
      /\ \A l \in batch, e \in pending : Before(Key(e), Key(l)) => e \in batch
  BY <1>4, <1>8, EarliestIsPrefix
<1>10. batch \in SUBSET Stored
  BY <1>5, <1>9
<1>11. CASE drained
  <2>1. new = <<now, 0>> /\ batch = pending
    BY <1>11 DEF NewCursor, At
  <2>2. new \in Cursor /\ Passed(new)
    BY <1>3, <2>1 DEF Cursor, Passed, EventInv, WorldOK
  <2> HIDE DEF new, batch, pending
  <2>3. \A e \in Stored : ~Before(c, Key(e)) \/ e \in batch
    BY <1>5, <2>1
  <2> QED
    BY <1>2, <1>10, <2>2, <2>3
<1>12. CASE ~drained
  <2>1. pending # {}
    <3> SUFFICES ASSUME pending = {} PROVE FALSE
      OBVIOUS
    <3>1. batch = pending
      BY <1>9
    <3>2. es \ pending = es
      OBVIOUS
    <3> QED
      BY <1>7, <1>12, <3>1, <3>2
  <2>2. new = Key(Last(batch))
    BY <1>12 DEF NewCursor
  <2>3. Last(batch) \in batch /\ batch \in SUBSET Event
    BY <1>3, <1>9, <1>10, <2>1, LastIsMember
  <2>4. new \in Cursor /\ Passed(new)
    BY <1>10, <2>2, <2>3, KeyOrder DEF Passed
  <2>5. ASSUME NEW e \in Stored, Before(c, Key(e)), ~Before(new, Key(e)) PROVE e \in batch
    <3>1. e \in pending
      BY <1>5, <2>5
    <3>2. e \in Event /\ Last(batch) \in Event
      BY <1>3, <2>3
    <3>3. Before(Key(e), new) \/ Key(e) = new
      BY <2>2, <2>5, <3>2, KeyOrder
    <3>4. Key(e) = new => e = Last(batch)
      BY <2>2 DEF Key
    <3> QED
      BY <1>9, <2>2, <2>3, <3>1, <3>3, <3>4
  <2> HIDE DEF new, batch
  <2> QED
    BY <1>2, <1>10, <2>4, <2>5
<1> QED
  BY <1>11, <1>12

-----------------------------------------------------------------------------
(* Each action keeps the type invariant. *)

(* A notification starts tasks, or is lost at the cost of its budget. *)
LEMMA NotifyMoves ==
    ASSUME EventInv, NEW e \in Event, Notify(e), e \in Stored', Stored \subseteq Stored'
    PROVE  /\ TasksOK' /\ (LeftOK' /\ (left' = left \/ Spend("lost")))
           /\ \A f \in Filter, t \in Task : task'[f][t] = task[f][t] \/ task'[f][t].pc = "list"
<1>1. CASE UNCHANGED left /\ task' = [f \in Filter |-> IF up[f] THEN [task[f] EXCEPT ![e] = Handling(e)]
                                                                 ELSE task[f]]
  <2>1. Handling(e) \in TaskRecord /\ Handling(e).pc = "list" /\ Handling(e).ev = e
    BY IdleRecords DEF Handling, TaskRecord
  <2>2. \A f \in Filter : task[f] \in [Task -> TaskRecord]
    BY DEF EventInv, TasksOK
  <2>3. \A f \in Filter, t \in Task : task'[f][t] = task[f][t] \/ task'[f][t] = Handling(e)
    BY <1>1, <2>2
  <2>4. task' \in [Filter -> [Task -> TaskRecord]]
    BY <1>1, <2>1, <2>2
  <2>5. ASSUME NEW f \in Filter, NEW t \in Task PROVE TaskSane(task[f][t])'
    BY <2>1, <2>3 DEF EventInv, TasksOK, TaskSane
  <2> QED
    BY <1>1, <2>1, <2>3, <2>4, <2>5 DEF EventInv, TasksOK, LeftOK
<1>2. CASE Spend("lost") /\ UNCHANGED task
  BY <1>2, Spent DEF EventInv, TasksOK, TaskSane, Trouble
<1> QED
  BY <1>1, <1>2 DEF Notify

(* When an event is created or stored, what is about stored events stays   *)
(* so.                                                                     *)
LEMMA EventStored ==
    ASSUME EventInv, NEW e \in Event, NEW r \in [st : {"made", "stored"}, ts : Time],
           ev[e].st # "stored", r.ts <= now, ev' = [ev EXCEPT ![e] = r],
           fresh' \subseteq fresh \cup {e},
           UNCHANGED <<now, sub, row, keys, timeoutKeys, cursor, msgs, up, scan, timer, seen, sent>>
    PROVE  /\ WorldOK' /\ ScansOK' /\ TimersOK' /\ Stored \subseteq Stored'
           /\ Stored' = IF r.st = "stored" THEN Stored \cup {e} ELSE Stored
<1>1. \A x \in Event : ev'[x] = IF x = e THEN r ELSE ev[x]
  BY DEF EventInv, WorldOK
<1>2. Stored' = IF r.st = "stored" THEN Stored \cup {e} ELSE Stored
  BY <1>1 DEF Stored
<1>3. Stored \subseteq Stored'
  BY <1>2
<1>4. ev' \in [Event -> [st : {"none", "made", "stored"}, ts : Time]]
  BY DEF EventInv, WorldOK
<1>5. WorldOK'
  BY <1>1, <1>3, <1>4 DEF EventInv, WorldOK
<1>6. ScansOK' /\ TimersOK'
  BY <1>3 DEF EventInv, ScansOK, TimersOK
<1> QED
  BY <1>2, <1>3, <1>5, <1>6

(* The steps of publishers keep the invariant. *)
LEMMA PublisherKeeps ==
    ASSUME EventInv, NEW e \in Event, Publish(e) \/ CreateLate(e) \/ StoreLate(e)
    PROVE  EventInv'
<1>0. now \in Time /\ now <= now /\ fresh \subseteq Event /\ ev[e].ts \in Time /\ ev[e].ts <= now
  BY EventConstants DEF EventInv, WorldOK
<1>1. CASE Publish(e)
  <2> DEFINE r == [st |-> "stored", ts |-> now]
  <2>1. r \in [st : {"made", "stored"}, ts : Time] /\ r.ts <= now /\ r.st = "stored"
    BY <1>0
  <2>2. /\ ev' = [ev EXCEPT ![e] = r] /\ ev[e].st # "stored" /\ fresh' \subseteq fresh \cup {e}
        /\ UNCHANGED <<now, sub, row, keys, timeoutKeys, cursor, msgs, up, scan, timer, seen, sent>>
    BY <1>1 DEF Publish, Create
  <2> HIDE DEF r
  <2>3. WorldOK' /\ ScansOK' /\ TimersOK' /\ Stored \subseteq Stored' /\ e \in Stored'
    BY <2>1, <2>2, EventStored
  <2> QED
    BY <1>1, <2>3, NotifyMoves DEF Publish, EventInv
<1>2. CASE CreateLate(e)
  <2> DEFINE r == [st |-> "made", ts |-> now]
  <2>1. r \in [st : {"made", "stored"}, ts : Time] /\ r.ts <= now /\ r.st = "made"
    BY <1>0
  <2>2. /\ ev' = [ev EXCEPT ![e] = r] /\ ev[e].st # "stored" /\ fresh' \subseteq fresh \cup {e}
        /\ UNCHANGED <<now, sub, row, keys, timeoutKeys, cursor, msgs, up, scan, timer, seen, sent>>
    BY <1>2 DEF CreateLate, Create
  <2> HIDE DEF r
  <2>3. WorldOK' /\ ScansOK' /\ TimersOK' /\ Stored' = Stored
    BY <2>1, <2>2, EventStored
  <2>4. LeftOK'
    BY <1>2, Spent DEF CreateLate, Trouble
  <2>5. TasksOK'
    <3>1. task' = task
      BY <1>2 DEF CreateLate
    <3> QED
      BY <2>3, <3>1 DEF EventInv, TasksOK, TaskSane
  <2> QED
    BY <2>3, <2>4, <2>5 DEF EventInv
<1>3. CASE StoreLate(e)
  <2> DEFINE r == [st |-> "stored", ts |-> ev[e].ts]
  <2>1. r \in [st : {"made", "stored"}, ts : Time] /\ r.ts <= now /\ r.st = "stored"
    BY <1>0
  <2>2. /\ ev' = [ev EXCEPT ![e] = r] /\ ev[e].st # "stored" /\ fresh' \subseteq fresh \cup {e}
        /\ UNCHANGED <<now, sub, row, keys, timeoutKeys, cursor, msgs, up, scan, timer, seen, sent>>
    <3>1. ev \in [Event -> [st : {"none", "made", "stored"}, ts : Time]]
      BY DEF EventInv, WorldOK
    <3>2. ev' = [ev EXCEPT ![e].st = "stored"] /\ ev[e].st = "made"
      BY <1>3 DEF StoreLate
    <3>3. [ev[e] EXCEPT !.st = "stored"] = r
      BY <3>1
    <3>4. ev' = [ev EXCEPT ![e] = r]
      BY <3>1, <3>2, <3>3
    <3> QED
      BY <1>3, <3>2, <3>4 DEF StoreLate, history
  <2> HIDE DEF r
  <2>3. WorldOK' /\ ScansOK' /\ TimersOK' /\ Stored \subseteq Stored' /\ e \in Stored'
    BY <2>1, <2>2, EventStored
  <2> QED
    BY <1>3, <2>3, NotifyMoves DEF StoreLate, EventInv
<1> QED
  BY <1>1, <1>2, <1>3

(* A step that leaves the filters alone. *)
LEMMA FiltersSame ==
    ASSUME EventInv, UNCHANGED <<ev, filter>>
    PROVE  TasksOK' /\ ScansOK' /\ TimersOK'
BY DEF EventInv, TasksOK, ScansOK, TimersOK, TaskSane, Stored, filter

(* The subscriptions born so far are counted. *)
LEMMA BornCount ==
    ASSUME EventInv
    PROVE  /\ IsFiniteSet(Born) /\ Cardinality(Born) \in 0 .. MaxSub
           /\ Born # {} => Cardinality(Born) \in Sub
<1>1. IsFiniteSet(Sub) /\ Cardinality(Sub) = MaxSub /\ Born \in SUBSET Sub
  BY FS_Interval, EventConstants DEF Born
<1>2. IsFiniteSet(Born) /\ Cardinality(Born) <= MaxSub
  BY <1>1, FS_Subset
<1>3. Cardinality(Born) \in Nat /\ (Cardinality(Born) = 0 <=> Born = {})
  BY <1>2, FS_CardinalityType, FS_EmptySet
<1> QED
  BY <1>2, <1>3, EventConstants

(* What the deletion of a subscription leaves is well formed. *)
LEMMA DeletedType ==
    ASSUME EventInv, NEW s \in Sub
    PROVE  Deleted(s) \in SubData
BY DEF Deleted, EventInv, WorldOK, SubData

(* The clock and the steps of the flow's side keep the invariant. *)
LEMMA WorkerKeeps ==
    ASSUME EventInv,
           \/ Tick \/ Suspend \/ Cancel
           \/ \E s \in Sub : Subscribe(s) \/ SubExpires(s) \/ IndexFades(s) \/ TimeoutKeyExpires(s)
           \/ \E m \in msgs : Resume(m) \/ Drop(m)
    PROVE  EventInv'
<1>1. CASE Tick
  <2>1. now' \in Time /\ now' >= now
    <3>1. left.time \in 0 .. MaxTime /\ now \in 0 .. MaxTime /\ now < left.time /\ now' = now + 1
      BY <1>1, EventConstants DEF Tick, EventInv, LeftOK, WorldOK
    <3> QED
      BY <3>1, EventConstants
  <2>2. \A e \in Event : ev[e].ts <= now'
    <3>1. \A e \in Event : ev[e].ts \in Nat /\ ev[e].ts <= now /\ now \in Nat /\ now' \in Nat
      BY <2>1, EventConstants DEF EventInv, WorldOK
    <3> QED
      BY <2>1, <3>1
  <2>3. TasksOK' /\ ScansOK' /\ TimersOK'
    BY <1>1, FiltersSame DEF Tick, redis
  <2>4. UNCHANGED <<ev, sub, row, keys, timeoutKeys, cursor, msgs, up, seen, fresh, sent, left>>
    BY <1>1 DEF Tick, redis, filter, history
  <2>5. WorldOK' /\ LeftOK'
    BY <2>1, <2>2, <2>4 DEF EventInv, WorldOK, Stored, LeftOK
  <2> QED
    BY <2>3, <2>5 DEF EventInv
<1>2. CASE Suspend
  <2>1. row' \in [st : RowStatus, sub : Sub \cup {NoSub}]
    BY <1>2, BornCount DEF Suspend, RowStatus
  <2>2. TasksOK' /\ ScansOK' /\ TimersOK'
    BY <1>2, FiltersSame DEF Suspend
  <2> QED
    BY <1>2, <2>1, <2>2 DEF Suspend, EventInv, WorldOK, LeftOK, Stored, filter, history
<1>3. CASE Cancel
  <2>1. row' \in [st : RowStatus, sub : Sub \cup {NoSub}]
    BY <1>3 DEF Cancel, EventInv, WorldOK, RowStatus
  <2>2. TasksOK' /\ ScansOK' /\ TimersOK' /\ LeftOK'
    BY <1>3, FiltersSame, Spent DEF Cancel, Trouble
  <2> QED
    BY <1>3, <2>1, <2>2 DEF Cancel, EventInv, WorldOK, Stored, filter, history
<1>4. ASSUME NEW s \in Sub, Subscribe(s) PROVE EventInv'
  <2>1. sub' \in SubData
    BY <1>4 DEF Subscribe, EventInv, WorldOK, SubData
  <2>2. TasksOK' /\ ScansOK' /\ TimersOK' /\ LeftOK'
    BY <1>4, FiltersSame, Spent DEF Subscribe, Trouble
  <2> QED
    BY <1>4, <2>1, <2>2 DEF Subscribe, EventInv, WorldOK, Stored, filter, history
<1>8. ASSUME NEW s \in Sub, SubExpires(s) \/ IndexFades(s) PROVE EventInv'
  <2>1. sub' \in SubData
    <3>1. CASE sub' = [sub EXCEPT ![s].data = "expired"]
      BY <3>1 DEF EventInv, WorldOK, SubData
    <3>2. CASE sub' = [sub EXCEPT ![s].idx = FALSE]
      BY <3>2 DEF EventInv, WorldOK, SubData
    <3> QED
      BY <1>8, <3>1, <3>2 DEF SubExpires, IndexFades
  <2>2. TasksOK' /\ ScansOK' /\ TimersOK' /\ LeftOK'
    BY <1>8, FiltersSame, Spent DEF SubExpires, IndexFades, Trouble, EventInv, LeftOK
  <2> QED
    BY <1>8, <2>1, <2>2 DEF SubExpires, IndexFades, EventInv, WorldOK, Stored, filter, history
<1>5. ASSUME NEW s \in Sub, TimeoutKeyExpires(s) PROVE EventInv'
  <2>1. TasksOK' /\ ScansOK' /\ TimersOK'
    BY <1>5, FiltersSame DEF TimeoutKeyExpires
  <2> QED
    BY <1>5, <2>1 DEF TimeoutKeyExpires, EventInv, WorldOK, LeftOK, Stored, filter, history
<1>6. ASSUME NEW m \in msgs, Resume(m) PROVE EventInv'
  <2>1. m.sub \in Sub
    BY <1>6 DEF EventInv, WorldOK, Message
  <2>2. sub' \in SubData
    <3>1. sub' = Deleted(m.sub) \/ sub' = sub
      BY <1>6 DEF Resume
    <3> QED
      BY <2>1, <3>1, DeletedType DEF EventInv, WorldOK
  <2>3. row' \in [st : RowStatus, sub : Sub \cup {NoSub}]
    BY <1>6 DEF Resume, EventInv, WorldOK, RowStatus
  <2>4. TasksOK' /\ ScansOK' /\ TimersOK'
    BY <1>6, FiltersSame DEF Resume
  <2>5. LeftOK'
    <3>1. left' = left \/ Spend("redis") \/ Spend("crash")
      BY <1>6 DEF Resume
    <3> QED
      BY <3>1, Spent DEF Trouble, EventInv, LeftOK
  <2>6. msgs' \subseteq msgs
    BY <1>6 DEF Resume, Redelivered
  <2> QED
    BY <1>6, <2>2, <2>3, <2>4, <2>5, <2>6 DEF Resume, EventInv, WorldOK, Stored, filter, history
<1>7. ASSUME NEW m \in msgs, Drop(m) PROVE EventInv'
  <2>1. TasksOK' /\ ScansOK' /\ TimersOK'
    BY <1>7, FiltersSame DEF Drop
  <2> QED
    BY <1>7, <2>1 DEF Drop, EventInv, WorldOK, LeftOK, Stored, filter, history
<1> QED
  BY <1>1, <1>2, <1>3, <1>4, <1>5, <1>6, <1>7, <1>8

(* Enqueueing adds a message of a stored event and counts it once. *)
LEMMA AddedType ==
    ASSUME EventInv, ev' = ev, NEW e \in Stored \cup {NoEvent}, NEW s \in Sub,
           Added(e, s) \/ UNCHANGED <<msgs, sent>>
    PROVE  /\ msgs \subseteq msgs' /\ msgs' \subseteq Message
           /\ \A m \in msgs' : m.ev \in Stored \cup {NoEvent}
           /\ sent' \in [Event -> [Sub -> 0 .. 2]]
           /\ \A x \in Event, y \in Sub : x # e \/ y # s => sent'[x][y] = sent[x][y]
           /\ e \in Event => sent'[e][s] <= sent[e][s] + 1
<1>0. e \in Event \cup {NoEvent} /\ (e = NoEvent => e \notin Event)
  BY EventConstants DEF Stored, NoEvent
<1>1. CASE Added(e, s)
  <2> DEFINE m == [sub |-> s, ev |-> e]
  <2>1. m \in Message /\ m.ev = e /\ msgs' = msgs \cup {m}
    BY <1>0, <1>1 DEF Message, Added
  <2>2. /\ msgs \subseteq msgs' /\ msgs' \subseteq Message
        /\ \A x \in msgs' : x.ev \in Stored \cup {NoEvent}
    <3> HIDE DEF m
    <3> QED
      BY <2>1 DEF EventInv, WorldOK
  <2>3. CASE e = NoEvent
    BY <1>0, <1>1, <2>2, <2>3 DEF Added, EventInv, WorldOK
  <2>4. CASE e # NoEvent
    <3> DEFINE n == IF sent[e][s] < 2 THEN sent[e][s] + 1 ELSE sent[e][s]
    <3>1. e \in Event /\ sent \in [Event -> [Sub -> 0 .. 2]]
      BY <1>0, <2>4 DEF EventInv, WorldOK
    <3>2. sent' = [sent EXCEPT ![e] = [sent[e] EXCEPT ![s] = n]]
      BY <1>1, <2>4, <3>1 DEF Added
    <3>3. sent[e] \in [Sub -> 0 .. 2] /\ sent[e][s] \in 0 .. 2
      BY <3>1
    <3>4. n \in 0 .. 2 /\ n <= sent[e][s] + 1
      BY <3>3
    <3> HIDE DEF n
    <3>5. sent' \in [Event -> [Sub -> 0 .. 2]] /\ sent'[e][s] = n
      BY <3>1, <3>2, <3>3, <3>4
    <3>6. \A x \in Event, y \in Sub : x # e \/ y # s => sent'[x][y] = sent[x][y]
      BY <3>1, <3>2, <3>3
    <3> QED
      BY <2>2, <3>4, <3>5, <3>6
  <2> QED
    BY <2>3, <2>4
<1>2. CASE UNCHANGED <<msgs, sent>>
  <2>1. e \in Event => sent[e][s] \in 0 .. 2
    BY DEF EventInv, WorldOK
  <2> QED
    BY <1>2, <2>1 DEF EventInv, WorldOK
<1> QED
  BY <1>1, <1>2

(* A subscription the filters can still find, or whose TTL has run out. *)
Standing(s) == (sub[s].data = "ttl" /\ sub[s].idx) \/ Lapsed(s)
Stands ==
    \A s \in Sub : /\ Standing(s) => Standing(s)'
                   /\ sub[s].data = "unborn" <=> sub'[s].data = "unborn"

(* Subscriptions that are as they were stand as they did. *)
LEMMA SubsStand == ASSUME sub' = sub PROVE Stands
BY DEF Stands, Standing, Lapsed

(* A step of handle_event: besides what Moved says, it adds messages and   *)
(* keys of stored events.  It may bring the data of a subscription back,   *)
(* or its membership in the indexes to an end, once the data key is gone.  *)
LEMMA HandleMoves ==
    ASSUME EventInv, NEW f \in Filter, NEW t \in Task, Handle(f, t)
    PROVE  /\ EventInv' /\ Moved(f, t)
           /\ task[f][t].pc # "idle"
           /\ UNCHANGED <<now, ev, row, timeoutKeys, cursor, up, timer, fresh>>
           /\ msgs \subseteq msgs'
           /\ Stands
           /\ \/ left' = left
              \/ \E k \in {"redis", "enqueue", "release"} : Spend(k)
<1>0. /\ task[f][t] \in TaskRecord /\ TaskSane(task[f][t])
      /\ task[f][t].subs \in SUBSET Sub /\ task[f][t].pc # "idle" /\ task[f][t].ev \in Stored
  <2>1. task[f][t] \in TaskRecord /\ TaskSane(task[f][t])
    BY DEF EventInv, TasksOK
  <2>2. task[f][t].pc # "idle"
    BY DEF Handle, HandleList, HandleClaim, HandleEnqueue, HandleMark, TaskAt
  <2> QED
    BY <2>1, <2>2 DEF TaskRecord, TaskSane
<1>1. UNCHANGED <<now, ev, row, timeoutKeys, cursor, up, timer, fresh>>
  BY DEF Handle, HandleList, HandleClaim, HandleEnqueue, HandleMark, redis
<1>2. Stored' = Stored
  BY <1>1 DEF Stored
<1>3. ASSUME Moved(f, t),
             left' = left \/ \E k \in {"redis", "enqueue", "release"} : Spend(k),
             sub' \in SubData, keys' \subseteq Stored \X Sub,
             msgs' \subseteq Message, \A m \in msgs' : m.ev \in Stored \cup {NoEvent},
             sent' \in [Event -> [Sub -> 0 .. 2]]
      PROVE  EventInv'
  <2>1. LeftOK'
    BY <1>3, Spent DEF Trouble, EventInv, LeftOK
  <2>2. TasksOK' /\ ScansOK' /\ TimersOK'
    BY <1>1, <1>3 DEF Moved, EventInv, TimersOK
  <2>3. WorldOK'
    BY <1>1, <1>2, <1>3 DEF Moved, EventInv, WorldOK, SubData
  <2> QED
    BY <2>1, <2>2, <2>3 DEF EventInv
<1>4. sub \in SubData /\ (sub' = sub => Stands)
  BY SubsStand DEF EventInv, WorldOK
<1>5. CASE HandleList(f, t)
  <2>0. Pruned \in SubData /\ (sub' = Pruned => Stands)
    <3>1. \A x \in Sub : /\ Pruned[x] = [sub[x] EXCEPT !.idx = @ /\ HasKey(x)]
                         /\ HasKey(x) \in BOOLEAN
      BY DEF Pruned, HasKey
    <3>2. \A x \in Sub : /\ Pruned[x].data = sub[x].data /\ Pruned[x].at = sub[x].at
                         /\ Pruned[x].idx = (sub[x].idx /\ HasKey(x))
      BY <1>4, <3>1 DEF SubData
    <3>3. Pruned \in SubData
      BY <1>4, <3>1 DEF SubData, Pruned
    <3>4. ASSUME sub' = Pruned PROVE Stands
      BY <3>2, <3>4 DEF HasKey, Stands, Standing, Lapsed
    <3> QED
      BY <3>3, <3>4
  <2>1. /\ UNCHANGED <<keys, msgs, sent>> /\ (left' = left \/ Spend("redis"))
        /\ sub' \in SubData /\ Stands
    <3>1. /\ UNCHANGED <<keys, msgs, sent>> /\ (left' = left \/ Spend("redis"))
          /\ sub' = Pruned \/ sub' = sub
      BY <1>5 DEF HandleList
    <3> QED
      BY <1>4, <2>0, <3>1
  <2>2. Moved(f, t)
    <3>1. Matching \in SUBSET Sub
      BY DEF Matching
    <3>2. NextSub(f, t, Matching) \/ Raise(f, t)
      BY <1>5 DEF HandleList
    <3> QED
      BY <1>0, <1>1, <3>1, <3>2, NextSubMoves, RaiseMoves
  <2>3. EventInv'
    BY <1>3, <2>1, <2>2 DEF EventInv, WorldOK
  <2> QED
    BY <1>0, <1>1, <2>1, <2>2, <2>3
<1>6. CASE HandleClaim(f, t)
  <2>1. UNCHANGED <<sub, msgs, sent, left>>
    BY <1>6 DEF HandleClaim
  <2>2. PICK s \in task[f][t].subs :
          \/ /\ keys' = keys \cup {<<task[f][t].ev, s>>}
             /\ task' = [task EXCEPT ![f][t].pc = "enqueue", ![f][t].sub = s]
             /\ UNCHANGED <<scan, seen>>
          \/ NextSub(f, t, task[f][t].subs \ {s}) /\ keys' = keys
    BY <1>6 DEF HandleClaim
  <2>3. keys' \subseteq Stored \X Sub
    BY <1>0, <2>2 DEF EventInv, WorldOK
  <2>4. Moved(f, t)
    <3>1. CASE NextSub(f, t, task[f][t].subs \ {s})
      BY <1>0, <1>1, <3>1, NextSubMoves
    <3>2. CASE /\ task' = [task EXCEPT ![f][t].pc = "enqueue", ![f][t].sub = s]
               /\ UNCHANGED <<scan, seen>>
      BY <1>0, <1>1, <3>2, ClaimMoves
    <3> QED
      BY <2>2, <3>1, <3>2
  <2>5. EventInv'
    BY <1>3, <1>4, <2>1, <2>3, <2>4 DEF EventInv, WorldOK
  <2> QED
    BY <1>0, <1>1, <1>4, <2>1, <2>4, <2>5
<1>7. CASE HandleEnqueue(f, t)
  <2> DEFINE e == task[f][t].ev
             s == task[f][t].sub
  <2>0. s \in Sub /\ e \in Stored
    BY <1>0, <1>7 DEF HandleEnqueue, TaskAt, TaskSane
  <2>1. /\ sub' = sub /\ keys' \subseteq keys
        /\ Added(e, s) \/ UNCHANGED <<msgs, sent>>
        /\ left' = left \/ Spend("enqueue") \/ Spend("release")
    BY <1>7 DEF HandleEnqueue, ReleaseKey
  <2>2. /\ msgs \subseteq msgs' /\ msgs' \subseteq Message
        /\ \A m \in msgs' : m.ev \in Stored \cup {NoEvent}
        /\ sent' \in [Event -> [Sub -> 0 .. 2]]
    BY <1>1, <2>0, <2>1, AddedType
  <2>3. Moved(f, t)
    <3>1. \/ NextSub(f, t, task[f][t].subs \ {s})
          \/ task' = [task EXCEPT ![f][t].pc = "mark"] /\ UNCHANGED <<scan, seen>>
          \/ Raise(f, t)
      BY <1>7 DEF HandleEnqueue
    <3>2. CASE NextSub(f, t, task[f][t].subs \ {s})
      BY <1>0, <1>1, <3>2, NextSubMoves
    <3>3. CASE task' = [task EXCEPT ![f][t].pc = "mark"] /\ UNCHANGED <<scan, seen>>
      BY <1>0, <1>1, <2>0, <3>3, MarkMoves
    <3>4. CASE Raise(f, t)
      BY <1>1, <3>4, RaiseMoves
    <3> QED
      BY <3>1, <3>2, <3>3, <3>4
  <2>4. EventInv'
    BY <1>3, <1>4, <2>1, <2>2, <2>3 DEF EventInv, WorldOK
  <2> QED
    BY <1>0, <1>1, <1>4, <2>1, <2>2, <2>3, <2>4
<1>8. CASE HandleMark(f, t)
  <2> DEFINE s == task[f][t].sub
  <2>0. s \in Sub
    BY <1>0, <1>8 DEF HandleMark, TaskAt, TaskSane
  <2>1. /\ UNCHANGED <<keys, msgs, sent>> /\ (left' = left \/ Spend("redis"))
        /\ \/ sub' = sub
           \/ sub[s].data = "none" /\ sub' = [sub EXCEPT ![s].data = "forever"]
           \/ sub[s].data = "expired" /\ sub' = [sub EXCEPT ![s].data = "revived"]
    BY <1>4, <1>8, <2>0 DEF HandleMark, SubData
  <2>2. sub' \in SubData /\ Stands
    BY <1>4, <2>0, <2>1 DEF SubData, Stands, Standing, Lapsed
  <2>3. Moved(f, t)
    <3>1. NextSub(f, t, task[f][t].subs \ {s}) \/ Raise(f, t)
      BY <1>8 DEF HandleMark
    <3> QED
      BY <1>0, <1>1, <3>1, NextSubMoves, RaiseMoves
  <2>4. EventInv'
    BY <1>3, <2>1, <2>2, <2>3 DEF EventInv, WorldOK
  <2> QED
    BY <1>0, <1>1, <2>1, <2>2, <2>3, <2>4
<1> QED
  BY <1>5, <1>6, <1>7, <1>8 DEF Handle

(* The two steps of the reconciler around its page. *)
LEMMA PageKeeps ==
    ASSUME EventInv, NEW f \in Filter, ScanPage(f)
    PROVE  EventInv'
<1>1. UNCHANGED <<now, redis, up, timer, history>>
  BY DEF ScanPage
<1>2. PICK batch \in SUBSET Stored, new \in Cursor : Proceed(f, batch, new)
  BY PageMoves
<1>3. TasksOK' /\ ScansOK'
  BY <1>1, <1>2, ProceedMoves DEF redis
<1>4. LeftOK'
  BY PageMoves, Spent DEF Trouble, EventInv, LeftOK
<1>5. WorldOK' /\ TimersOK'
  BY <1>1 DEF redis, history, EventInv, WorldOK, Stored, TimersOK
<1> QED
  BY <1>3, <1>4, <1>5 DEF EventInv

(* Saving the cursor ends the scan and leaves the rest alone. *)
LEMMA SaveKeeps ==
    ASSUME EventInv, NEW f \in Filter, ScanSave(f)
    PROVE  /\ EventInv'
           /\ cursor' = cursor \/ cursor' = scan[f].new
           /\ scan[f].todo = {} /\ scan'[f] = NoScan /\ \A g \in Filter \ {f} : scan'[g] = scan[g]
           /\ UNCHANGED <<now, ev, sub, row, keys, timeoutKeys, msgs, up, task, timer, history>>
           /\ left' = left \/ Spend("redis")
<1>1. /\ UNCHANGED <<now, ev, sub, row, keys, timeoutKeys, msgs, up, task, timer, history>>
      /\ left' = left \/ Spend("redis")
      /\ cursor' = cursor \/ cursor' = scan[f].new
      /\ scan' = [scan EXCEPT ![f] = NoScan]
      /\ scan[f].pc # "event"
  BY DEF ScanSave, ScanAt
<1>2. LeftOK'
  BY <1>1, Spent DEF Trouble, EventInv, LeftOK
<1>3. ScansOK' /\ scan'[f] = NoScan /\ \A g \in Filter \ {f} : scan'[g] = scan[g]
  BY <1>1, ScanSet, IdleRecords
<1>4. scan[f].new \in Cursor /\ scan[f].todo = {}
  BY <1>1 DEF EventInv, ScansOK, ScanRecord
<1>5. WorldOK'
  BY <1>1, <1>4 DEF history, EventInv, WorldOK, Stored
<1>6. TasksOK' /\ TimersOK'
  BY <1>1 DEF EventInv, TasksOK, TaskSane, Stored, TimersOK
<1> QED
  BY <1>1, <1>2, <1>3, <1>4, <1>5, <1>6 DEF EventInv

-----------------------------------------------------------------------------
(* The timeout checker. *)

(* A timer that takes its next subscription keeps its type. *)
LEMMA TimerNextMoves ==
    ASSUME EventInv, NEW f \in Filter, NEW rest \in SUBSET Sub, TimerNext(f, rest)
    PROVE  TimersOK'
<1> DEFINE r == IF rest = {} THEN NoTimer ELSE [pc |-> "call", todo |-> rest, sub |-> NoSub]
<1>1. r \in TimerRecord /\ r.pc # "enqueue"
  BY IdleRecords DEF TimerRecord
<1>2. timer' = [timer EXCEPT ![f] = r]
  BY DEF TimerNext
<1> HIDE DEF r
<1> QED
  BY <1>1, <1>2 DEF EventInv, TimersOK

(* A step of the checker touches no key, task or page; it adds messages    *)
(* without an event, and deletes subscriptions once the execution is over. *)
LEMMA TimerMoves ==
    ASSUME EventInv, NEW f \in Filter, TimerStep(f)
    PROVE  /\ EventInv'
           /\ UNCHANGED <<now, ev, row, keys, cursor, up, task, scan, history>>
           /\ msgs \subseteq msgs'
           /\ sub' = sub \/ (row.st = "over" /\ \E s \in Sub : sub' = Deleted(s))
           /\ \/ left' = left
              \/ \E k \in {"redis", "enqueue", "release"} : Spend(k)
<1>0. UNCHANGED <<now, ev, row, keys, cursor, up, task, scan, seen, fresh>>
  BY DEF TimerStep, TimerList, TimerCall, TimerEnqueue, redis, history
<1>1. TasksOK' /\ ScansOK' /\ Stored' = Stored
  BY <1>0 DEF EventInv, TasksOK, ScansOK, TaskSane, Stored
<1>2. timer[f] \in TimerRecord /\ timer[f].todo \in SUBSET Sub /\ sub \in SubData
  BY DEF EventInv, TimersOK, TimerRecord, WorldOK, SubData
<1>3. ASSUME TimersOK', sub' \in SubData, timeoutKeys' \subseteq Sub,
             msgs' \subseteq Message, \A m \in msgs' : m.ev \in Stored \cup {NoEvent}, sent' = sent,
             left' = left \/ \E k \in {"redis", "enqueue", "release"} : Spend(k)
      PROVE  EventInv'
  <2>1. LeftOK'
    BY <1>3, Spent DEF Trouble, EventInv, LeftOK
  <2>2. WorldOK'
    BY <1>0, <1>1, <1>3 DEF EventInv, WorldOK, SubData
  <2> QED
    BY <1>1, <1>3, <2>1, <2>2 DEF EventInv
<1>4. CASE TimerList(f)
  <2>1. UNCHANGED <<sub, timeoutKeys, msgs, sent, left>> /\ TimerNext(f, Due) /\ Due \in SUBSET Sub
    BY <1>4 DEF TimerList, redis, history, Due
  <2>2. TimersOK'
    BY <2>1, TimerNextMoves
  <2>3. EventInv'
    BY <1>2, <1>3, <2>1, <2>2 DEF EventInv, WorldOK
  <2> QED
    BY <1>0, <2>1, <2>3 DEF history
<1>5. CASE TimerCall(f)
  <2>1. PICK s \in timer[f].todo :
          \/ /\ row.st = "over" /\ sub' = Deleted(s) /\ TimerNext(f, timer[f].todo \ {s})
             /\ UNCHANGED <<timeoutKeys, left>>
          \/ /\ timeoutKeys' = timeoutKeys \cup {s}
             /\ timer' = [timer EXCEPT ![f].pc = "enqueue", ![f].sub = s]
             /\ UNCHANGED <<sub, left>>
          \/ /\ TimerNext(f, timer[f].todo \ {s})
             /\ UNCHANGED <<sub, timeoutKeys>> /\ (left' = left \/ Spend("redis"))
    BY <1>5 DEF TimerCall
  <2>2. UNCHANGED <<msgs, sent>> /\ s \in Sub
    BY <1>2, <1>5 DEF TimerCall, history
  <2>3. /\ sub' = sub \/ (row.st = "over" /\ sub' = Deleted(s))
        /\ left' = left \/ Spend("redis")
        /\ timeoutKeys' \subseteq timeoutKeys \cup {s}
    BY <2>1
  <2>4. sub' \in SubData /\ timeoutKeys' \subseteq Sub
    BY <1>2, <2>2, <2>3, DeletedType DEF SubData, EventInv, WorldOK
  <2>5. TimersOK'
    <3>1. CASE TimerNext(f, timer[f].todo \ {s})
      BY <1>2, <3>1, TimerNextMoves
    <3>2. CASE timer' = [timer EXCEPT ![f].pc = "enqueue", ![f].sub = s]
      <4> DEFINE r == [timer[f] EXCEPT !.pc = "enqueue", !.sub = s]
      <4>1. r \in TimerRecord /\ r.sub \in Sub
        BY <1>2, <2>2 DEF TimerRecord
      <4>2. timer' = [timer EXCEPT ![f] = r]
        BY <3>2 DEF EventInv, TimersOK
      <4> HIDE DEF r
      <4> QED
        BY <4>1, <4>2 DEF EventInv, TimersOK
    <3> QED
      BY <2>1, <3>1, <3>2
  <2>6. EventInv'
    BY <1>3, <2>2, <2>3, <2>4, <2>5 DEF EventInv, WorldOK
  <2> QED
    BY <1>0, <2>2, <2>3, <2>6 DEF history
<1>6. CASE TimerEnqueue(f)
  <2> DEFINE s == timer[f].sub
  <2>1. s \in Sub
    BY <1>6 DEF TimerEnqueue, TimerAt, EventInv, TimersOK
  <2>2. /\ Added(NoEvent, s) \/ UNCHANGED <<msgs, sent>>
        /\ sub' = sub /\ timeoutKeys' \subseteq timeoutKeys
        /\ TimerNext(f, timer[f].todo \ {s})
        /\ left' = left \/ Spend("enqueue") \/ Spend("release")
    BY <1>6 DEF TimerEnqueue
  <2>3. TimersOK'
    BY <1>2, <2>2, TimerNextMoves
  <2>4. /\ msgs \subseteq msgs' /\ msgs' \subseteq Message
        /\ \A m \in msgs' : m.ev \in Stored \cup {NoEvent}
    BY <1>0, <2>1, <2>2, AddedType
  <2>5. sent' = sent
    BY <2>2 DEF Added
  <2>6. EventInv'
    BY <1>2, <1>3, <2>2, <2>3, <2>4, <2>5 DEF EventInv, WorldOK
  <2> QED
    BY <1>0, <2>2, <2>4, <2>5, <2>6 DEF history
<1> QED
  BY <1>4, <1>5, <1>6 DEF TimerStep

-----------------------------------------------------------------------------
(* A filter dies, and is started again. *)

(* The crash of a filter forgets its tasks and its scan, and costs its budget. *)
LEMMA CrashMoves ==
    ASSUME EventInv, NEW f \in Filter, CrashFilter(f)
    PROVE  /\ EventInv' /\ UNCHANGED <<now, redis, history>>
           /\ Spend("window") \/ Spend("crash")
           /\ \A g \in Filter, t \in Task : task'[g][t] = Idle \/ task'[g][t] = task[g][t]
           /\ \A g \in Filter : scan'[g] = NoScan \/ scan'[g] = scan[g]
<1>1. /\ UNCHANGED <<now, redis, history>> /\ (Spend("window") \/ Spend("crash"))
      /\ up' = [up EXCEPT ![f] = FALSE]
      /\ task' = [task EXCEPT ![f] = [t \in Task |-> Idle]]
      /\ scan' = [scan EXCEPT ![f] = NoScan]
      /\ timer' = [timer EXCEPT ![f] = NoTimer]
  BY DEF CrashFilter
<1>2. LeftOK'
  BY <1>1, Spent DEF Trouble
<1>3. UNCHANGED <<ev, sub, row, keys, timeoutKeys, cursor, msgs, seen, fresh, sent>> /\ Stored' = Stored
  BY <1>1 DEF redis, history, Stored
<1>4. WorldOK'
  BY <1>1, <1>3 DEF EventInv, WorldOK
<1>5. /\ \A g \in Filter, t \in Task : task'[g][t] = Idle \/ task'[g][t] = task[g][t]
      /\ task' \in [Filter -> [Task -> TaskRecord]]
  BY <1>1, IdleRecords DEF EventInv, TasksOK
<1>6. TasksOK'
  <2>1. \A g \in Filter, t \in Task : TaskSane(task[g][t])'
    BY <1>3, <1>5, IdleRecords DEF EventInv, TasksOK, TaskSane
  <2> QED
    BY <1>5, <2>1 DEF TasksOK
<1>7. ScansOK' /\ scan'[f] = NoScan /\ \A g \in Filter \ {f} : scan'[g] = scan[g]
  BY <1>1, <1>3, ScanSet, IdleRecords
<1>8. TimersOK'
  BY <1>1, IdleRecords DEF EventInv, TimersOK
<1> QED
  BY <1>1, <1>2, <1>4, <1>5, <1>6, <1>7, <1>8 DEF EventInv

(* The restart of a filter keeps the invariant. *)
LEMMA RestartKeeps ==
    ASSUME EventInv, NEW f \in Filter, Restart(f)
    PROVE  EventInv'
<1>1. UNCHANGED <<now, redis, task, scan, timer, history, left>> /\ up' = [up EXCEPT ![f] = TRUE]
  BY DEF Restart
<1>2. TasksOK' /\ ScansOK' /\ TimersOK' /\ LeftOK'
  BY <1>1 DEF redis, EventInv, TasksOK, TaskSane, ScansOK, TimersOK, LeftOK, Stored
<1>3. WorldOK'
  BY <1>1 DEF redis, history, EventInv, WorldOK, Stored
<1> QED
  BY <1>2, <1>3 DEF EventInv

-----------------------------------------------------------------------------
(* Every step keeps the type invariant. *)
LEMMA EventInvNext == EventInv /\ [EventNext]_vars => EventInv'
<1> SUFFICES ASSUME EventInv, [EventNext]_vars PROVE EventInv'
  OBVIOUS
<1>1. CASE UNCHANGED vars
  <2>1. UNCHANGED <<now, ev, sub, row, keys, timeoutKeys, cursor, msgs, up, task, scan, timer,
                    seen, fresh, sent, left>>
    BY <1>1 DEF vars, redis, filter, history
  <2> QED
    BY <2>1 DEF EventInv, WorldOK, LeftOK, TasksOK, TaskSane, ScansOK, TimersOK, Stored
<1>2. ASSUME NEW e \in Event, Publish(e) \/ CreateLate(e) \/ StoreLate(e) PROVE EventInv'
  BY <1>2, PublisherKeeps
<1>3. CASE \/ Tick \/ Suspend \/ Cancel
           \/ \E s \in Sub : Subscribe(s) \/ SubExpires(s) \/ IndexFades(s) \/ TimeoutKeyExpires(s)
           \/ \E m \in msgs : Resume(m) \/ Drop(m)
  BY <1>3, WorkerKeeps
<1>4. ASSUME NEW f \in Filter, NEW t \in Task, Handle(f, t) PROVE EventInv'
  BY <1>4, HandleMoves
<1>5. ASSUME NEW f \in Filter, ScanPage(f) \/ ScanSave(f) PROVE EventInv'
  BY <1>5, PageKeeps, SaveKeeps
<1>6. ASSUME NEW f \in Filter, TimerStep(f) \/ CrashFilter(f) \/ Restart(f) PROVE EventInv'
  BY <1>6, TimerMoves, CrashMoves, RestartKeeps
<1> QED
  BY <1>1, <1>2, <1>3, <1>4, <1>5, <1>6, EventConstants DEF EventNext, ScanStep

(* The invariant holds at the start. *)
LEMMA EventInvInit == EventInit => EventInv
<1> SUFFICES ASSUME EventInit PROVE EventInv
  OBVIOUS
<1>1. PICK s \in Scenarios :
        /\ left = [filters |-> s.filters, events |-> s.events, timed |-> s.timed,
                   time |-> s.time, budget |-> s.budget, now |-> s.budget]
        /\ up = [f \in Filter |-> f \in s.filters]
  BY DEF EventInit
<1>2. s \in [filters : SUBSET Filter, events : SUBSET Event, timed : BOOLEAN, time : Time,
             budget : [Trouble -> Nat]]
  BY EventAssumption
<1>3. LeftOK
  <2>1. left \in [filters : SUBSET Filter, events : SUBSET Event, timed : BOOLEAN, time : Time,
                  budget : [Trouble -> Nat], now : [Trouble -> Nat]]
    BY <1>1, <1>2
  <2>2. left.now = left.budget /\ left.now \in [Trouble -> Nat]
    BY <1>1, <1>2
  <2> QED
    BY <2>1, <2>2 DEF LeftOK
<1>4. up \in [Filter -> BOOLEAN]
  BY <1>1
<1>5. Stored = {} /\ \A e \in Event : ev[e].ts = 0
  BY DEF EventInit, Stored
<1>6. /\ now = 0 /\ 0 \in Time /\ row \in [st : RowStatus, sub : Sub \cup {NoSub}]
      /\ ev \in [Event -> [st : {"none", "made", "stored"}, ts : Time]]
      /\ sub \in SubData
  BY EventConstants DEF EventInit, RowStatus, SubData
<1>7. sent \in [Event -> [Sub -> 0 .. 2]]
  BY DEF EventInit
<1>8. WorldOK
  BY <1>4, <1>5, <1>6, <1>7, EventConstants DEF EventInit, WorldOK
<1>9. TasksOK
  BY IdleRecords DEF EventInit, TasksOK
<1>10. ScansOK /\ TimersOK
  BY IdleRecords DEF EventInit, ScansOK, TimersOK
<1> QED
  BY <1>3, <1>8, <1>9, <1>10 DEF EventInv

(* The type invariant is inductive. *)
THEOREM EventInvariant == EventSpec => []EventInv
BY EventInvInit, EventInvNext, PTL DEF EventSpec

(* Every reachable state is well formed, and dedup keys, resume messages   *)
(* and handled events are of stored events, whatever the publishers, the   *)
(* filters and the worker do (event_filter.py, event_reconcile.py).        *)
THEOREM EventTypeCorrect == EventSpec => []EventTypeOK
<1>1. EventInv => EventTypeOK
  BY DEF EventInv, WorldOK, TasksOK, ScansOK, TimersOK, EventTypeOK, TaskRecord, ScanRecord, TimerRecord
<1> QED
  BY <1>1, EventInvariant, PTL

-----------------------------------------------------------------------------
(* The subscription the execution waits on.  Before the row is saved as    *)
(* suspended nothing but its TTL removes a subscription, and the row then  *)
(* waits on the latest; from then on a resume message may remove it, too.  *)
WaitInv ==
    /\ row.st = "before" =>
          \E n \in 0 .. MaxSub : Born = 1 .. n /\ \A s \in 1 .. n : Standing(s)
    /\ row.st = "suspended" => row.sub \in Sub
    /\ WaitIsSubscribed

(* A step that leaves the row alone, and every subscription standing that  *)
(* stands, keeps the wait's invariant.                                     *)
LEMMA WaitSame ==
    ASSUME EventInv, WaitInv, row' = row, msgs \subseteq msgs',
           Stands
    PROVE  WaitInv'
<1>1. Born' = Born
  BY DEF Born, Stands
<1>2. CASE row.st = "before"
  <2>1. PICK n \in 0 .. MaxSub : Born = 1 .. n /\ \A s \in 1 .. n : Standing(s)
    BY <1>2 DEF WaitInv
  <2>2. 1 .. n \subseteq Sub
    BY <2>1 DEF Born
  <2>3. \A s \in 1 .. n : Standing(s)'
    BY <2>1, <2>2 DEF Stands
  <2>4. Born' = 1 .. n
    BY <1>1, <2>1
  <2> QED
    BY <1>2, <2>3, <2>4 DEF WaitInv, WaitIsSubscribed
<1>3. CASE row.st = "suspended"
  <2>1. row.sub \in Sub /\ (Standing(row.sub) \/ \E m \in msgs : m.sub = row.sub)
    BY <1>3 DEF WaitInv, WaitIsSubscribed, Standing
  <2>2. Standing(row.sub)' \/ \E m \in msgs' : m.sub = row.sub
    BY <2>1 DEF Stands, Standing, Lapsed
  <2> QED
    BY <1>3, <2>1, <2>2 DEF WaitInv, WaitIsSubscribed, Standing
<1>4. CASE row.st \notin {"before", "suspended"}
  BY <1>4 DEF WaitInv, WaitIsSubscribed
<1> QED
  BY <1>2, <1>3, <1>4

(* Subscribing keeps the wait's invariant. *)
LEMMA SubscribeWaits ==
    ASSUME EventInv, WaitInv, NEW s \in Sub, Subscribe(s)
    PROVE  WaitInv'
<1>1. row.st = "before" /\ row' = row /\ s = Cardinality(Born) + 1
  BY DEF Subscribe
<1>2. PICK n \in 0 .. MaxSub : Born = 1 .. n /\ \A x \in 1 .. n : Standing(x)
  BY <1>1 DEF WaitInv
<1>3. s = n + 1 /\ n + 1 \in 0 .. MaxSub
  <2>1. Cardinality(1 .. n) = n
    BY <1>2, FS_Interval
  <2> QED
    BY <1>1, <1>2, <2>1, EventConstants
<1>4. \A x \in Sub : sub'[x] = IF x = s THEN [data |-> "ttl", idx |-> TRUE, at |-> now] ELSE sub[x]
  BY DEF Subscribe, EventInv, WorldOK, SubData
<1>5. sub'[s].data = "ttl" /\ sub'[s].idx
  BY <1>4
<1>6. Born' = Born \cup {s}
  BY <1>4, <1>5 DEF Born
<1>7. Born' = 1 .. n + 1
  BY <1>2, <1>3, <1>6
<1>8. \A x \in 1 .. n + 1 : Standing(x)'
  <2> SUFFICES ASSUME NEW x \in 1 .. n + 1 PROVE Standing(x)'
    OBVIOUS
  <2>1. CASE x = s
    BY <1>5, <2>1 DEF Standing
  <2>2. CASE x # s
    <3>1. x \in 1 .. n
      BY <1>2, <1>3, <2>2
    <3>2. x \in Sub
      BY <1>2, <3>1 DEF Born
    <3> QED
      BY <1>2, <1>4, <2>2, <3>1, <3>2 DEF Standing, Lapsed
  <2> QED
    BY <2>1, <2>2
<1> QED
  BY <1>1, <1>3, <1>7, <1>8 DEF WaitInv, WaitIsSubscribed

(* Suspending keeps the wait's invariant: the subscription was written before. *)
LEMMA SuspendWaits ==
    ASSUME EventInv, WaitInv, Suspend
    PROVE  WaitInv'
<1>1. /\ row.st = "before" /\ row'.st = "suspended" /\ row'.sub = Cardinality(Born)
      /\ Born # {} /\ sub' = sub
  BY DEF Suspend
<1>2. PICK n \in 0 .. MaxSub : Born = 1 .. n /\ \A x \in 1 .. n : Standing(x)
  BY <1>1 DEF WaitInv
<1>3. Cardinality(1 .. n) = n /\ n \in 1 .. n
  <2>1. n # 0
    BY <1>1, <1>2
  <2> QED
    BY <1>2, <2>1, FS_Interval
<1>4. row'.sub = n /\ n \in Sub
  BY <1>1, <1>2, <1>3 DEF Born
<1> QED
  BY <1>1, <1>2, <1>3, <1>4 DEF WaitInv, WaitIsSubscribed, Standing, Lapsed

(* Resuming and dropping a message keep the wait's invariant. *)
LEMMA ResumeWaits ==
    ASSUME EventInv, WaitInv, NEW m \in msgs, Resume(m) \/ Drop(m)
    PROVE  WaitInv'
<1>1. CASE Resume(m)
  <2>1. CASE row' = [row EXCEPT !.st = "resumed"]
    <3>1. row'.st = "resumed"
      BY <2>1 DEF EventInv, WorldOK
    <3> QED
      BY <3>1 DEF WaitInv, WaitIsSubscribed
  <2>2. CASE row' = row /\ msgs' = msgs
    BY <1>1, <2>2 DEF Resume, WaitInv, WaitIsSubscribed
  <2> QED
    BY <1>1, <2>1, <2>2 DEF Resume, Redelivered
<1>2. CASE Drop(m)
  <2>1. row' = row /\ sub' = sub /\ msgs' = msgs \ {m} /\ row.st # "before"
    BY <1>2 DEF Drop
  <2>2. row.st = "suspended" => m.sub # row.sub
    BY <1>2 DEF Drop
  <2> QED
    BY <2>1, <2>2 DEF WaitInv, WaitIsSubscribed, Lapsed
<1> QED
  BY <1>1, <1>2

(* Every step keeps the wait's invariant. *)
LEMMA WaitInvNext == EventInv /\ WaitInv /\ [EventNext]_vars => WaitInv'
<1> SUFFICES ASSUME EventInv, WaitInv, [EventNext]_vars PROVE WaitInv'
  OBVIOUS
<1>1. CASE UNCHANGED vars
  BY <1>1, WaitSame, SubsStand DEF vars, redis
<1>2. ASSUME NEW e \in Event, Publish(e) \/ CreateLate(e) \/ StoreLate(e) PROVE WaitInv'
  BY <1>2, WaitSame, SubsStand DEF Publish, CreateLate, StoreLate, Create
<1>3. CASE Tick
  BY <1>3, WaitSame, SubsStand DEF Tick, redis
<1>4. CASE Suspend
  BY <1>4, SuspendWaits
<1>5. CASE Cancel
  <2>1. row'.st = "over"
    BY <1>5 DEF Cancel, EventInv, WorldOK
  <2> QED
    BY <2>1 DEF WaitInv, WaitIsSubscribed
<1>6. ASSUME NEW s \in Sub, Subscribe(s) PROVE WaitInv'
  BY <1>6, SubscribeWaits
<1>7. ASSUME NEW s \in Sub, TimeoutKeyExpires(s) PROVE WaitInv'
  BY <1>7, WaitSame, SubsStand DEF TimeoutKeyExpires
<1>13. ASSUME NEW s \in Sub, SubExpires(s) \/ IndexFades(s) PROVE WaitInv'
  <2>1. row' = row /\ msgs' = msgs
    BY <1>13 DEF SubExpires, IndexFades
  <2>2. Stands
    BY <1>13 DEF SubExpires, IndexFades, Stands, Standing, Lapsed, EventInv, WorldOK, SubData
  <2> QED
    BY <2>1, <2>2, WaitSame
<1>8. ASSUME NEW m \in msgs, Resume(m) \/ Drop(m) PROVE WaitInv'
  BY <1>8, ResumeWaits
<1>9. ASSUME NEW f \in Filter, NEW t \in Task, Handle(f, t) PROVE WaitInv'
  BY <1>9, HandleMoves, WaitSame
<1>10. ASSUME NEW f \in Filter, ScanPage(f) \/ ScanSave(f) PROVE WaitInv'
  BY <1>10, WaitSame, SubsStand DEF ScanPage, ScanSave, redis
<1>11. ASSUME NEW f \in Filter, TimerStep(f) PROVE WaitInv'
  <2>1. /\ row' = row /\ msgs \subseteq msgs'
        /\ sub' = sub \/ row.st = "over"
    BY <1>11, TimerMoves
  <2>2. CASE sub' = sub
    BY <2>1, <2>2, WaitSame, SubsStand
  <2>3. CASE row.st = "over"
    BY <2>1, <2>3 DEF WaitInv, WaitIsSubscribed
  <2> QED
    BY <2>1, <2>2, <2>3
<1>12. ASSUME NEW f \in Filter, CrashFilter(f) \/ Restart(f) PROVE WaitInv'
  BY <1>12, WaitSame, SubsStand DEF CrashFilter, Restart, redis
<1> QED
  BY <1>1, <1>2, <1>3, <1>4, <1>5, <1>6, <1>7, <1>8, <1>9, <1>10, <1>11, <1>12, <1>13, EventConstants
     DEF EventNext, ScanStep

(* While the execution waits, the subscription it waits on can be found by *)
(* the filters, or a resume message for it is already queued, or its TTL   *)
(* has run out: timeouts, late events, crashes of the worker between       *)
(* unregistering and saving, the clean-up of the indexes and the           *)
(* write-back of mark_event_processed never take it away.                  *)
THEOREM EventWaitIsSubscribed == EventSpec => []WaitIsSubscribed
<1>1. EventInit => WaitInv
  <2> SUFFICES ASSUME EventInit PROVE WaitInv
    OBVIOUS
  <2>1. row.st = "before" /\ Born = {}
    BY DEF EventInit, Born
  <2>2. 0 \in 0 .. MaxSub /\ 1 .. 0 = {}
    BY EventConstants
  <2> QED
    BY <2>1, <2>2 DEF WaitInv, WaitIsSubscribed
<1>2. WaitInv => WaitIsSubscribed
  BY DEF WaitInv
<1> QED
  BY <1>1, <1>2, WaitInvNext, EventInvariant, PTL DEF EventSpec

-----------------------------------------------------------------------------
(* What has happened stays so. *)

(* What has happened stays so. *)
LEMMA HappenedStays ==
    ASSUME EventInv, [EventNext]_vars, NEW u \in Trouble, Happened(u)
    PROVE  Happened(u)'
<1>1. left' = left \/ \E k \in Trouble : Spend(k)
  <2>1. CASE UNCHANGED vars
    BY <2>1 DEF vars
  <2>2. ASSUME NEW e \in Event, Publish(e) \/ CreateLate(e) \/ StoreLate(e)
        PROVE  left' = left \/ \E k \in Trouble : Spend(k)
    BY <2>2 DEF Publish, CreateLate, StoreLate, Notify, Trouble
  <2>3. CASE Tick \/ Suspend \/ Cancel
    BY <2>3 DEF Tick, Suspend, Cancel, Trouble
  <2>4. ASSUME NEW s \in Sub,
               Subscribe(s) \/ SubExpires(s) \/ IndexFades(s) \/ TimeoutKeyExpires(s)
        PROVE  left' = left \/ \E k \in Trouble : Spend(k)
    BY <2>4 DEF Subscribe, SubExpires, IndexFades, TimeoutKeyExpires, Trouble
  <2>5. ASSUME NEW m \in msgs, Resume(m) \/ Drop(m)
        PROVE  left' = left \/ \E k \in Trouble : Spend(k)
    BY <2>5 DEF Resume, Drop, Trouble
  <2>6. ASSUME NEW f \in Filter, NEW t \in Task, Handle(f, t)
        PROVE  left' = left \/ \E k \in Trouble : Spend(k)
    BY <2>6, HandleMoves DEF Trouble
  <2>7. ASSUME NEW f \in Filter, ScanPage(f) \/ ScanSave(f) \/ TimerStep(f) \/ CrashFilter(f) \/ Restart(f)
        PROVE  left' = left \/ \E k \in Trouble : Spend(k)
    <3>1. CASE ScanPage(f) \/ ScanSave(f)
      BY <3>1, PageMoves, SaveKeeps DEF Trouble
    <3>2. CASE TimerStep(f)
      BY <3>2, TimerMoves DEF Trouble
    <3>3. CASE CrashFilter(f) \/ Restart(f)
      BY <3>3, CrashMoves DEF Restart, Trouble
    <3> QED
      BY <2>7, <3>1, <3>2, <3>3
  <2> QED
    BY <2>1, <2>2, <2>3, <2>4, <2>5, <2>6, <2>7, EventConstants DEF EventNext, ScanStep
<1>2. ASSUME NEW k \in Trouble, Spend(k) PROVE Happened(u)'
  <2>1. /\ left'.now[u] <= left.now[u] /\ left'.budget[u] = left.budget[u]
    BY <1>2, Spent
  <2>2. LeftOK'
    BY <1>2, Spent
  <2>3. /\ left.now[u] \in Nat /\ left.budget[u] \in Nat /\ left.now[u] <= left.budget[u]
        /\ left'.now[u] \in Nat
    BY <2>2 DEF EventInv, LeftOK
  <2> QED
    BY <2>1, <2>3 DEF Happened
<1> QED
  BY <1>1, <1>2 DEF Happened

(* A trouble whose budget is spent has happened. *)
LEMMA SpendingHappens ==
    ASSUME EventInv, NEW k \in Trouble, Spend(k)
    PROVE  Happened(k)'
<1>1. left'.now[k] < left'.budget[k] /\ LeftOK'
  BY Spent
<1>2. left'.now[k] \in Nat /\ left'.budget[k] \in Nat
  BY <1>1 DEF LeftOK
<1> QED
  BY <1>1, <1>2 DEF Happened

-----------------------------------------------------------------------------
(* Who has taken a dedup key and not yet enqueued is alone with it, and    *)
(* nothing was enqueued under it; without a failed enqueue, keys stay.     *)
SentOnce ==
    \A e \in Event, s \in Sub : sent[e][s] <= 1 /\ (<<e, s>> \notin keys => sent[e][s] = 0)
Claims(x, e, s) == x.pc = "enqueue" /\ x.ev = e /\ x.sub = s
ClaimsAlone ==
    \A f \in Filter, t \in Task, e \in Event, s \in Sub : Claims(task[f][t], e, s) =>
       /\ <<e, s>> \in keys /\ sent[e][s] = 0
       /\ \A g \in Filter, u \in Task : Claims(task[g][u], e, s) => f = g /\ t = u
ResumeInv == Happened("enqueue") \/ (SentOnce /\ ClaimsAlone)

(* A step that claims nothing and sends nothing keeps the claim's invariant. *)
LEMMA ResumeSame ==
    ASSUME EventInv, ResumeInv, [EventNext]_vars, UNCHANGED <<keys, sent>>,
           \A f \in Filter, t \in Task : task'[f][t] = task[f][t] \/ task'[f][t].pc # "enqueue"
    PROVE  ResumeInv'
<1>1. CASE Happened("enqueue")
  BY <1>1, HappenedStays DEF Trouble, ResumeInv
<1>2. CASE SentOnce /\ ClaimsAlone
  <2>1. \A f \in Filter, t \in Task, e \in Event, s \in Sub :
           Claims(task'[f][t], e, s) => Claims(task[f][t], e, s)
    BY DEF Claims
  <2> QED
    BY <1>2, <2>1 DEF ResumeInv, SentOnce, ClaimsAlone, Claims
<1> QED
  BY <1>1, <1>2 DEF ResumeInv

(* Claiming keeps the claim's invariant: the key is set for one task only. *)
LEMMA ClaimResumes ==
    ASSUME EventInv, SentOnce, ClaimsAlone, NEW f \in Filter, NEW t \in Task, HandleClaim(f, t)
    PROVE  SentOnce' /\ ClaimsAlone'
<1>0. /\ task[f][t].pc = "claim" /\ task[f][t].subs \in SUBSET Sub
      /\ task[f][t].ev \in Event /\ UNCHANGED <<ev, sent>>
  <2>1. task[f][t] \in TaskRecord /\ TaskSane(task[f][t]) /\ task[f][t].pc = "claim" /\ UNCHANGED <<ev, sent>>
    BY DEF EventInv, TasksOK, HandleClaim, TaskAt
  <2> QED
    BY <2>1 DEF TaskRecord, TaskSane, Stored
<1>1. PICK s \in task[f][t].subs :
         \/ /\ <<task[f][t].ev, s>> \notin keys
            /\ keys' = keys \cup {<<task[f][t].ev, s>>}
            /\ task' = [task EXCEPT ![f][t].pc = "enqueue", ![f][t].sub = s]
            /\ UNCHANGED <<scan, seen>>
         \/ NextSub(f, t, task[f][t].subs \ {s}) /\ keys' = keys
  BY DEF HandleClaim, NotTaken
<1>2. CASE NextSub(f, t, task[f][t].subs \ {s}) /\ keys' = keys
  <2>1. Moved(f, t) /\ task'[f][t].pc # "enqueue"
    BY <1>0, <1>2, NextSubMoves
  <2>2. \A g \in Filter, u \in Task, e \in Event, x \in Sub :
           Claims(task'[g][u], e, x) => Claims(task[g][u], e, x)
    BY <2>1 DEF Moved, Claims
  <2>3. SentOnce'
    BY <1>0, <1>2 DEF SentOnce
  <2>4. UNCHANGED <<keys, sent>>
    BY <1>0, <1>2
  <2>5. ClaimsAlone'
    BY SMTT(30), <2>2, <2>4 DEF ClaimsAlone, Claims
  <2> QED
    BY <2>3, <2>5
<1>3. CASE /\ <<task[f][t].ev, s>> \notin keys
           /\ keys' = keys \cup {<<task[f][t].ev, s>>}
           /\ task' = [task EXCEPT ![f][t].pc = "enqueue", ![f][t].sub = s]
           /\ UNCHANGED <<scan, seen>>
  <2> DEFINE d == task[f][t].ev
  <2>1. Moved(f, t) /\ task'[f][t].ev = d /\ task'[f][t].sub = s
    BY ZenonT(60), <1>0, <1>3, ClaimMoves
  <2>2. s \in Sub /\ d \in Event /\ sent[d][s] = 0
    BY <1>0, <1>1, <1>3 DEF SentOnce
  <2>3. \A g \in Filter, u \in Task : ~Claims(task[g][u], d, s)
    BY <1>3, <2>2 DEF ClaimsAlone
  <2>4. SentOnce'
    BY <1>0, <1>3 DEF SentOnce
  <2>5. \A g \in Filter, u \in Task, e \in Event, x \in Sub :
           Claims(task'[g][u], e, x) => \/ Claims(task[g][u], e, x) /\ (e # d \/ x # s)
                                        \/ e = d /\ x = s /\ g = f /\ u = t
    BY <2>1, <2>3 DEF Moved, Claims
  <2>6. <<d, s>> \in keys' /\ keys \subseteq keys' /\ sent' = sent
    BY <1>0, <1>3
  <2> HIDE DEF d
  <2>7. ClaimsAlone'
    <3> SUFFICES ASSUME NEW g \in Filter, NEW u \in Task, NEW e \in Event, NEW x \in Sub,
                        Claims(task'[g][u], e, x)
                 PROVE  /\ <<e, x>> \in keys' /\ sent'[e][x] = 0
                        /\ \A h \in Filter, v \in Task : Claims(task'[h][v], e, x) => g = h /\ u = v
      BY DEF ClaimsAlone, Claims
    <3>1. CASE e = d /\ x = s
      BY <2>2, <2>5, <2>6, <3>1
    <3>2. CASE Claims(task[g][u], e, x) /\ (e # d \/ x # s)
      <4>1. /\ <<e, x>> \in keys /\ sent[e][x] = 0
            /\ \A h \in Filter, v \in Task : Claims(task[h][v], e, x) => g = h /\ u = v
        BY <3>2 DEF ClaimsAlone
      <4> QED
        BY <2>5, <2>6, <3>2, <4>1
    <3> QED
      BY <2>5, <3>1, <3>2
  <2> QED
    BY <2>4, <2>7
<1> QED
  BY <1>1, <1>2, <1>3

(* Enqueueing sends one message, unless its answer is lost. *)
LEMMA EnqueueResumes ==
    ASSUME EventInv, SentOnce, ClaimsAlone, NEW f \in Filter, NEW t \in Task, HandleEnqueue(f, t)
    PROVE  Happened("enqueue")' \/ (SentOnce' /\ ClaimsAlone')
<1> DEFINE d == task[f][t].ev
           s == task[f][t].sub
<1>0. s \in Sub /\ d \in Stored /\ d \in Event /\ task[f][t].pc = "enqueue" /\ task[f][t].subs \in SUBSET Sub
  <2>1. task[f][t] \in TaskRecord /\ TaskSane(task[f][t]) /\ task[f][t].pc = "enqueue"
    BY DEF EventInv, TasksOK, HandleEnqueue, TaskAt
  <2> QED
    BY <2>1 DEF TaskRecord, TaskSane, Stored
<1>1. /\ ev' = ev
      /\ Added(d, s) \/ UNCHANGED <<msgs, sent>>
      /\ keys' = keys \/ Spend("enqueue")
      /\ \/ NextSub(f, t, task[f][t].subs \ {s})
         \/ task' = [task EXCEPT ![f][t].pc = "mark"] /\ UNCHANGED <<scan, seen>>
         \/ Raise(f, t)
  BY DEF HandleEnqueue
<1>2. CASE Spend("enqueue")
  BY <1>2, SpendingHappens DEF Trouble
<1>3. CASE keys' = keys
  <2>1. Moved(f, t) /\ task'[f][t].pc # "enqueue"
    <3>1. CASE NextSub(f, t, task[f][t].subs \ {s})
      BY <1>0, <1>1, <3>1, NextSubMoves
    <3>2. CASE task' = [task EXCEPT ![f][t].pc = "mark"] /\ UNCHANGED <<scan, seen>>
      BY <1>0, <1>1, <3>2, MarkMoves
    <3>3. CASE Raise(f, t)
      BY <1>1, <3>3, RaiseMoves
    <3> QED
      BY <1>1, <3>1, <3>2, <3>3
  <2>2. /\ \A x \in Event, y \in Sub : x # d \/ y # s => sent'[x][y] = sent[x][y]
        /\ sent'[d][s] <= sent[d][s] + 1 /\ sent' \in [Event -> [Sub -> 0 .. 2]]
    BY <1>0, <1>1, AddedType
  <2>3. Claims(task[f][t], d, s)
    BY <1>0 DEF Claims
  <2>4. /\ <<d, s>> \in keys /\ sent[d][s] = 0
        /\ \A g \in Filter, u \in Task : Claims(task[g][u], d, s) => f = g /\ t = u
    BY <1>0, <2>3 DEF ClaimsAlone
  <2> HIDE DEF d, s
  <2>5. SentOnce'
    <3> SUFFICES ASSUME NEW x \in Event, NEW y \in Sub
                 PROVE  sent'[x][y] <= 1 /\ (<<x, y>> \notin keys => sent'[x][y] = 0)
      BY <1>3 DEF SentOnce
    <3>1. CASE x = d /\ y = s
      <4>1. sent'[d][s] \in 0 .. 2
        BY <1>0, <2>2
      <4> QED
        BY <2>2, <2>4, <3>1, <4>1
    <3>2. CASE x # d \/ y # s
      BY <2>2, <3>2 DEF SentOnce
    <3> QED
      BY <3>1, <3>2
  <2>6. \A g \in Filter, u \in Task, x \in Event, y \in Sub :
           Claims(task'[g][u], x, y) => Claims(task[g][u], x, y) /\ (x # d \/ y # s)
    <3>1. \A g \in Filter, u \in Task, x \in Event, y \in Sub :
             Claims(task'[g][u], x, y) => Claims(task[g][u], x, y) /\ (g # f \/ u # t)
      BY <2>1 DEF Moved, Claims
    <3> QED
      BY <2>4, <3>1
  <2>7. ClaimsAlone'
    <3> SUFFICES ASSUME NEW g \in Filter, NEW u \in Task, NEW x \in Event, NEW y \in Sub,
                        Claims(task'[g][u], x, y)
                 PROVE  /\ <<x, y>> \in keys' /\ sent'[x][y] = 0
                        /\ \A h \in Filter, v \in Task : Claims(task'[h][v], x, y) => g = h /\ u = v
      BY DEF ClaimsAlone, Claims
    <3> QED
      BY <1>3, <2>2, <2>6 DEF ClaimsAlone
  <2> QED
    BY <2>5, <2>7
<1> QED
  BY <1>1, <1>2, <1>3

(* Every step keeps the claim's invariant. *)
LEMMA ResumeInvNext == EventInv /\ ResumeInv /\ [EventNext]_vars => ResumeInv'
<1> SUFFICES ASSUME EventInv, ResumeInv, [EventNext]_vars PROVE ResumeInv'
  OBVIOUS
<1>1. CASE UNCHANGED vars
  BY <1>1, ResumeSame DEF vars, redis, filter, history
<1>2. ASSUME NEW e \in Event, Publish(e) \/ CreateLate(e) \/ StoreLate(e) PROVE ResumeInv'
  <2>1. UNCHANGED <<keys, sent>> /\ (Notify(e) \/ task' = task)
    BY <1>2 DEF Publish, CreateLate, StoreLate, Create, history
  <2>2. \A f \in Filter, t \in Task : task'[f][t] = task[f][t] \/ task'[f][t].pc # "enqueue"
    <3>1. Handling(e).pc = "list"
      BY DEF Handling, Idle
    <3>2. CASE task' = [f \in Filter |-> IF up[f] THEN [task[f] EXCEPT ![e] = Handling(e)] ELSE task[f]]
      <4>1. \A f \in Filter : task[f] \in [Task -> TaskRecord]
        BY DEF EventInv, TasksOK
      <4>2. \A f \in Filter, t \in Task : task'[f][t] = task[f][t] \/ task'[f][t] = Handling(e)
        BY <3>2, <4>1
      <4> QED
        BY <3>1, <4>2
    <3> QED
      BY <2>1, <3>2 DEF Notify
  <2> QED
    BY <2>1, <2>2, ResumeSame
<1>3. CASE Tick \/ Suspend \/ Cancel
  BY <1>3, ResumeSame DEF Tick, Suspend, Cancel, redis, filter, history
<1>4. ASSUME NEW s \in Sub, Subscribe(s) \/ SubExpires(s) \/ IndexFades(s) \/ TimeoutKeyExpires(s)
      PROVE  ResumeInv'
  BY <1>4, ResumeSame DEF Subscribe, SubExpires, IndexFades, TimeoutKeyExpires, filter, history
<1>5. ASSUME NEW m \in msgs, Resume(m) \/ Drop(m) PROVE ResumeInv'
  BY <1>5, ResumeSame DEF Resume, Drop, filter, history
<1>6. ASSUME NEW f \in Filter, NEW t \in Task, HandleList(f, t) \/ HandleMark(f, t) PROVE ResumeInv'
  <2>1. Handle(f, t) /\ UNCHANGED <<ev, keys, sent>>
    BY <1>6 DEF Handle, HandleList, HandleMark, redis
  <2>2. Moved(f, t) /\ task[f][t].pc # "idle"
    BY <2>1, HandleMoves
  <2>3. task'[f][t].pc # "enqueue"
    <3>1. task[f][t].subs \in SUBSET Sub /\ Matching \in SUBSET Sub
      BY DEF EventInv, TasksOK, TaskRecord, Matching
    <3>2. (\E rest \in SUBSET Sub : NextSub(f, t, rest)) \/ Raise(f, t)
      BY <1>6, <3>1 DEF HandleList, HandleMark
    <3> QED
      BY <2>1, <2>2, <3>2, NextSubMoves, RaiseMoves
  <2> QED
    BY <2>1, <2>2, <2>3, ResumeSame DEF Moved
<1>7. ASSUME NEW f \in Filter, NEW t \in Task, HandleClaim(f, t) \/ HandleEnqueue(f, t) PROVE ResumeInv'
  <2>1. CASE Happened("enqueue")
    BY <2>1, HappenedStays DEF Trouble, ResumeInv
  <2>2. CASE SentOnce /\ ClaimsAlone
    BY <1>7, <2>2, ClaimResumes, EnqueueResumes DEF ResumeInv
  <2> QED
    BY <2>1, <2>2 DEF ResumeInv
<1>8. ASSUME NEW f \in Filter, ScanPage(f) PROVE ResumeInv'
  <2>1. UNCHANGED <<ev, keys, sent>>
    BY <1>8 DEF ScanPage, redis, history
  <2>2. PICK batch \in SUBSET Stored, new \in Cursor : Proceed(f, batch, new)
    BY <1>8, PageMoves
  <2>3. \A g \in Filter, u \in Task : task'[g][u] = task[g][u] \/ task'[g][u].pc # "enqueue"
    BY ZenonT(60), <2>1, <2>2, ProceedMoves
  <2> QED
    BY <2>1, <2>3, ResumeSame
<1>9. ASSUME NEW f \in Filter, ScanSave(f) \/ TimerStep(f) \/ Restart(f) PROVE ResumeInv'
  <2>1. UNCHANGED <<keys, sent, task>>
    BY <1>9, SaveKeeps, TimerMoves DEF Restart, redis, history
  <2> QED
    BY <2>1, ResumeSame
<1>10. ASSUME NEW f \in Filter, CrashFilter(f) PROVE ResumeInv'
  <2>1. UNCHANGED <<keys, sent>> /\ Idle.pc # "enqueue"
    BY <1>10 DEF CrashFilter, redis, history, Idle
  <2> QED
    BY <1>10, <2>1, CrashMoves, ResumeSame
<1> QED
  BY <1>1, <1>2, <1>3, <1>4, <1>5, <1>6, <1>7, <1>8, <1>9, <1>10, EventConstants
     DEF EventNext, ScanStep, Handle

(* However many filters handle an event, from its notification and from    *)
(* their reconcilers, in any interleaving and with any crashes, at most    *)
(* one resume message is enqueued for the event and a subscription, unless *)
(* an enqueue failed and its key was given back (handle_event, SET NX).    *)
THEOREM EventOneResume == EventSpec => []OneResumePerEvent
<1>1. EventInit => ResumeInv
  <2> SUFFICES ASSUME EventInit PROVE SentOnce /\ ClaimsAlone
    BY DEF ResumeInv
  <2>1. SentOnce
    BY DEF EventInit, SentOnce
  <2>2. ClaimsAlone
    BY DEF EventInit, ClaimsAlone, Claims, Idle
  <2> QED
    BY <2>1, <2>2
<1>2. ResumeInv => OneResumePerEvent
  BY DEF ResumeInv, SentOnce, OneResumePerEvent
<1> QED
  BY <1>1, <1>2, ResumeInvNext, EventInvariant, PTL DEF EventSpec

-----------------------------------------------------------------------------
(* The cursor, and the cursor each reconciler is about to write, have      *)
(* passed no stored event but those that were handled or are still in the  *)
(* reconciler's page.  Both are keys of stored events or times that have   *)
(* come, so that an event published in order is after both.                *)
Covers(c, page) == \A e \in Stored : Before(c, Key(e)) \/ e \in seen \cup page
CoverInv ==
    /\ \A e \in Event : ev[e].st = "made" => Happened("late")
    /\ \/ Happened("late")
       \/ /\ Passed(cursor) /\ Covers(cursor, {})
          /\ \A f \in Filter : Passed(scan[f].new) /\ Covers(scan[f].new, scan[f].todo)

(* The scan of a filter that does none covers its cursor. *)
LEMMA NoScanCovers ==
    ASSUME EventInv
    PROVE  Passed(NoScan.new) /\ Covers(NoScan.new, {})
<1>1. NoScan.new = NoCursor /\ NoCursor[1] = 0 /\ NoCursor[2] = 0 /\ now \in Nat
  BY EventConstants DEF NoScan, NoCursor, EventInv, WorldOK
<1> QED
  BY <1>1, KeyOrder DEF Passed, Covers, Stored

(* A step that stores no event. *)
LEMMA CoverSame ==
    ASSUME EventInv, EventInv', CoverInv, [EventNext]_vars, ev' = ev, now <= now', seen \subseteq seen',
           \/ cursor' = cursor
           \/ \E f \in Filter : cursor' = scan[f].new /\ scan[f].todo = {},
           \A f \in Filter : \/ scan'[f] = NoScan
                             \/ /\ scan'[f].new = scan[f].new
                                /\ scan[f].todo \subseteq scan'[f].todo \cup seen'
                             \/ ~Happened("late") =>
                                  Passed(scan'[f].new) /\ Covers(scan'[f].new, scan'[f].todo)
    PROVE  CoverInv'
<1>1. Stored' = Stored /\ \A e \in Event : Key(e)' = Key(e)
  BY DEF Stored, Key
<1>2. now \in Nat /\ now' \in Nat
  BY EventConstants DEF EventInv, WorldOK
<1>3. Happened("late") => Happened("late")'
  BY HappenedStays DEF Trouble
<1>4. \A e \in Event : ev'[e].st = "made" => Happened("late")'
  BY <1>3 DEF CoverInv
<1>5. \A c \in Cursor : Passed(c) => Passed(c)'
  <2> SUFFICES ASSUME NEW c \in Cursor, Passed(c) PROVE Passed(c)'
    OBVIOUS
  <2>1. c[1] \in Nat
    BY EventConstants DEF Cursor
  <2>2. CASE c[2] = 0 /\ c[1] <= now
    BY <1>2, <2>1, <2>2 DEF Passed
  <2>3. ASSUME NEW e \in Stored, c = Key(e) PROVE Passed(c)'
    <3>1. e \in Event
      BY DEF Stored
    <3> QED
      BY <1>1, <2>3, <3>1 DEF Passed
  <2> QED
    BY <2>2, <2>3 DEF Passed
<1>6. \A c \in Cursor, p, q \in SUBSET Event : Covers(c, p) /\ p \subseteq q \cup seen' => Covers(c, q)'
  <2> SUFFICES ASSUME NEW c \in Cursor, NEW p \in SUBSET Event, NEW q \in SUBSET Event,
                      Covers(c, p), p \subseteq q \cup seen', NEW e \in Stored
               PROVE  Before(c, Key(e)) \/ e \in seen' \cup q
    BY <1>1 DEF Covers, Stored
  <2> QED
    BY DEF Covers
<1>7. CASE ~Happened("late")
  <2>1. /\ Passed(cursor) /\ Covers(cursor, {})
        /\ \A f \in Filter : Passed(scan[f].new) /\ Covers(scan[f].new, scan[f].todo)
    BY <1>7 DEF CoverInv
  <2>2. /\ cursor \in Cursor
        /\ \A f \in Filter : scan[f].new \in Cursor /\ scan[f].todo \in SUBSET Event
        /\ \A f \in Filter : scan'[f].new \in Cursor /\ scan'[f].todo \in SUBSET Event
        /\ NoScan.new \in Cursor /\ NoScan.todo = {}
    <3>1. \A f \in Filter : scan[f] \in ScanRecord /\ scan'[f] \in ScanRecord
      BY DEF EventInv, ScansOK
    <3> QED
      BY <3>1, IdleRecords DEF EventInv, WorldOK, ScanRecord
  <2>3. Passed(cursor)' /\ Covers(cursor, {})'
    <3>1. \E c \in Cursor : cursor' = c /\ Passed(c) /\ Covers(c, {})
      BY <2>1, <2>2
    <3>2. PICK c \in Cursor : cursor' = c /\ Passed(c) /\ Covers(c, {})
      BY <3>1
    <3>3. Passed(c)' /\ Covers(c, {})'
      BY <1>5, <1>6, <3>2
    <3> QED
      BY <3>2, <3>3 DEF Passed, Covers
  <2>4. ASSUME NEW f \in Filter PROVE Passed(scan[f].new)' /\ Covers(scan[f].new, scan[f].todo)'
    <3>1. \E c \in Cursor, p, q \in SUBSET Event :
             /\ scan'[f].new = c /\ scan'[f].todo = q
             /\ Passed(c) /\ Covers(c, p) /\ p \subseteq q \cup seen'
      <4>1. CASE scan'[f] = NoScan
        BY <2>2, <4>1, NoScanCovers
      <4>2. CASE scan'[f].new = scan[f].new /\ scan[f].todo \subseteq scan'[f].todo \cup seen'
        BY <2>1, <2>2, <4>2
      <4>3. CASE Passed(scan'[f].new) /\ Covers(scan'[f].new, scan'[f].todo)
        BY <2>2, <4>3
      <4> QED
        BY <1>7, <4>1, <4>2, <4>3
    <3>2. PICK c \in Cursor, p \in SUBSET Event, q \in SUBSET Event :
             /\ scan'[f].new = c /\ scan'[f].todo = q
             /\ Passed(c) /\ Covers(c, p) /\ p \subseteq q \cup seen'
      BY <3>1
    <3>3. Passed(c)' /\ Covers(c, q)'
      BY <1>5, <1>6, <3>2
    <3> QED
      BY <3>2, <3>3 DEF Passed, Covers
  <2> QED
    BY <1>4, <2>3, <2>4 DEF CoverInv
<1>8. CASE Happened("late")
  BY <1>3, <1>4, <1>8 DEF CoverInv
<1> QED
  BY <1>7, <1>8

(* An event published in order is after the cursor. *)
LEMMA PublishCovers ==
    ASSUME EventInv, CoverInv, [EventNext]_vars, NEW e \in Event, Publish(e)
    PROVE  CoverInv'
<1>1. /\ \A x \in Stored : Before(Key(x), <<now, e>>)
      /\ ev[e].st = "none" /\ ev' = [ev EXCEPT ![e] = [st |-> "stored", ts |-> now]]
      /\ UNCHANGED <<now, cursor, scan, seen>>
  BY DEF Publish, Create
<1>2. /\ e \notin Stored /\ \A x \in Event \ {e} : ev'[x] = ev[x]
      /\ ev'[e].st = "stored" /\ ev'[e].ts = now
  BY <1>1 DEF Stored, EventInv, WorldOK
<1>3. Stored' = Stored \cup {e}
  BY <1>2 DEF Stored
<1>4. Key(e)' = <<now, e>> /\ \A x \in Stored : Key(x)' = Key(x) /\ x \in Event
  BY <1>2 DEF Key, Stored
<1>5. Happened("late") => Happened("late")'
  BY HappenedStays DEF Trouble
<1>6. \A x \in Event : ev'[x].st = "made" => Happened("late")'
  BY <1>2, <1>5 DEF CoverInv
<1>7. \A c \in Cursor : Passed(c) => Passed(c)' /\ Before(c, <<now, e>>)
  <2> SUFFICES ASSUME NEW c \in Cursor, Passed(c) PROVE Passed(c)' /\ Before(c, <<now, e>>)
    OBVIOUS
  <2>1. c[1] \in Nat /\ now \in Nat /\ e \in Nat \ {0}
    BY EventConstants DEF Cursor, EventInv, WorldOK
  <2>2. CASE c[2] = 0 /\ c[1] <= now
    BY <1>1, <2>1, <2>2 DEF Passed, Before
  <2>3. ASSUME NEW x \in Stored, c = Key(x) PROVE Passed(c)' /\ Before(c, <<now, e>>)
    BY <1>1, <1>3, <1>4, <2>3 DEF Passed
  <2> QED
    BY <2>2, <2>3 DEF Passed
<1>8. \A c \in Cursor, p \in SUBSET Event : Passed(c) /\ Covers(c, p) => Covers(c, p)'
  <2> SUFFICES ASSUME NEW c \in Cursor, NEW p \in SUBSET Event, Passed(c), Covers(c, p),
                      NEW x \in Stored'
               PROVE  Before(c, Key(x)') \/ x \in seen \cup p
    BY <1>1 DEF Covers
  <2>1. CASE x = e
    BY <1>4, <1>7, <2>1
  <2>2. CASE x \in Stored
    BY <1>4, <2>2 DEF Covers
  <2> QED
    BY <1>3, <2>1, <2>2
<1>9. CASE ~Happened("late")
  <2>1. /\ Passed(cursor) /\ Covers(cursor, {})
        /\ \A f \in Filter : Passed(scan[f].new) /\ Covers(scan[f].new, scan[f].todo)
    BY <1>9 DEF CoverInv
  <2>2. cursor \in Cursor /\ \A f \in Filter : scan[f].new \in Cursor /\ scan[f].todo \in SUBSET Event
    BY DEF EventInv, WorldOK, ScansOK, ScanRecord
  <2>3. Passed(cursor)' /\ Covers(cursor, {})'
    BY <1>1, <1>7, <1>8, <2>1, <2>2 DEF Passed, Covers
  <2>4. ASSUME NEW f \in Filter PROVE Passed(scan[f].new)' /\ Covers(scan[f].new, scan[f].todo)'
    <3> DEFINE c == scan[f].new
               p == scan[f].todo
    <3>1. c \in Cursor /\ p \in SUBSET Event /\ Passed(c) /\ Covers(c, p)
      BY <2>1, <2>2
    <3> HIDE DEF c, p
    <3>2. PICK d \in Cursor, q \in SUBSET Event : c = d /\ p = q
      BY <3>1
    <3>3. Passed(d)' /\ Covers(d, q)'
      BY <1>7, <1>8, <3>1, <3>2
    <3>4. scan'[f].new = d /\ scan'[f].todo = q
      BY <1>1, <3>2 DEF c, p
    <3> QED
      BY <3>3, <3>4 DEF Passed, Covers
  <2> QED
    BY <1>6, <2>3, <2>4 DEF CoverInv
<1>10. CASE Happened("late")
  BY <1>5, <1>6, <1>10 DEF CoverInv
<1> QED
  BY <1>9, <1>10

(* An event that arrives late keeps the cursor's invariant. *)
LEMMA LateCovers ==
    ASSUME EventInv, CoverInv, [EventNext]_vars, NEW e \in Event, CreateLate(e) \/ StoreLate(e)
    PROVE  CoverInv'
<1>1. Happened("late")'
  <2>1. CASE CreateLate(e)
    BY <2>1, SpendingHappens DEF CreateLate, Trouble
  <2>2. CASE StoreLate(e)
    BY <2>2, HappenedStays DEF StoreLate, Trouble, CoverInv
  <2> QED
    BY <2>1, <2>2
<1> QED
  BY <1>1 DEF CoverInv

(* Every step keeps the cursor's invariant. *)
LEMMA CoverInvNext == EventInv /\ EventInv' /\ CoverInv /\ [EventNext]_vars => CoverInv'
<1> SUFFICES ASSUME EventInv, EventInv', CoverInv, [EventNext]_vars PROVE CoverInv'
  OBVIOUS
<1>0. now <= now
  BY EventConstants DEF EventInv, WorldOK
<1>1. CASE UNCHANGED <<now, ev, cursor, scan, seen>>
  BY <1>0, <1>1, CoverSame
<1>2. CASE UNCHANGED vars
  BY <1>1, <1>2 DEF vars, redis, filter, history
<1>3. ASSUME NEW e \in Event, Publish(e) \/ CreateLate(e) \/ StoreLate(e) PROVE CoverInv'
  BY <1>3, PublishCovers, LateCovers
<1>4. CASE Tick
  <2>1. UNCHANGED <<ev, cursor, scan, seen>> /\ now' = now + 1
    BY <1>4 DEF Tick, redis, filter, history
  <2>2. now <= now'
    BY <2>1, EventConstants DEF EventInv, WorldOK
  <2> QED
    BY <2>1, <2>2, CoverSame
<1>5. CASE Suspend \/ Cancel
  BY <1>1, <1>5 DEF Suspend, Cancel, filter, history
<1>6. ASSUME NEW s \in Sub, Subscribe(s) \/ SubExpires(s) \/ IndexFades(s) \/ TimeoutKeyExpires(s)
      PROVE  CoverInv'
  BY <1>1, <1>6 DEF Subscribe, SubExpires, IndexFades, TimeoutKeyExpires, filter, history
<1>7. ASSUME NEW m \in msgs, Resume(m) \/ Drop(m) PROVE CoverInv'
  BY <1>1, <1>7 DEF Resume, Drop, filter, history
<1>8. ASSUME NEW f \in Filter, NEW t \in Task, Handle(f, t) PROVE CoverInv'
  <2>1. UNCHANGED <<now, ev, cursor>> /\ Moved(f, t)
    BY <1>8, HandleMoves
  <2> QED
    BY <1>0, <2>1, CoverSame DEF Moved
<1>9. ASSUME NEW f \in Filter, ScanPage(f) PROVE CoverInv'
  <2>1. UNCHANGED <<now, ev, cursor, seen>>
    BY <1>9 DEF ScanPage, redis, history
  <2>2. PICK c \in {cursor, NoCursor}, batch \in SUBSET Stored, new \in Cursor :
          /\ Proceed(f, batch, new) /\ Passed(new)
          /\ \A e \in Stored : Before(new, Key(e)) \/ ~Before(c, Key(e)) \/ e \in batch
    BY <1>9, PageMoves
  <2>3. /\ scan'[f].new = new /\ scan'[f].todo = batch
        /\ \A g \in Filter \ {f} : scan'[g] = scan[g]
    BY ZenonT(60), <2>1, <2>2, ProceedMoves
  <2>4. ASSUME ~Happened("late") PROVE Covers(new, batch)
    <3> SUFFICES ASSUME NEW e \in Stored, ~Before(c, Key(e)) PROVE e \in seen
      BY <2>2 DEF Covers
    <3>1. Before(NoCursor, Key(e))
      BY KeyOrder DEF Stored
    <3>2. Before(cursor, Key(e)) \/ e \in seen
      BY <2>4 DEF CoverInv, Covers
    <3> QED
      BY <2>2, <3>1, <3>2
  <2> QED
    BY <1>0, <2>1, <2>2, <2>3, <2>4, CoverSame
<1>10. ASSUME NEW f \in Filter, ScanSave(f) PROVE CoverInv'
  <2>1. UNCHANGED <<now, ev, seen>>
    BY <1>10 DEF ScanSave, history
  <2> QED
    BY <1>0, <1>10, <2>1, SaveKeeps, CoverSame
<1>11. ASSUME NEW f \in Filter, TimerStep(f) \/ Restart(f) PROVE CoverInv'
  BY <1>1, <1>11, TimerMoves DEF Restart, redis, history
<1>12. ASSUME NEW f \in Filter, CrashFilter(f) PROVE CoverInv'
  <2>1. UNCHANGED <<now, ev, cursor, seen>>
    BY <1>12 DEF CrashFilter, redis, history
  <2> QED
    BY <1>0, <1>12, <2>1, CrashMoves, CoverSame
<1> QED
  BY <1>2, <1>3, <1>4, <1>5, <1>6, <1>7, <1>8, <1>9, <1>10, <1>11, <1>12, EventConstants
     DEF EventNext, ScanStep

(* The reconciler does not skip: whatever fails, and with any number of    *)
(* reconcilers that read, move back and overwrite the one cursor, an event *)
(* the cursor has passed was handled, as long as events are stored in the  *)
(* order of their timestamps (scan_once, _next_page).                      *)
THEOREM EventCursorCovers == EventSpec => []CursorCovers
<1>1. EventInit => CoverInv
  <2> SUFFICES ASSUME EventInit PROVE CoverInv
    OBVIOUS
  <2>1. EventInv
    BY EventInvInit
  <2>2. cursor = NoScan.new /\ \A f \in Filter : scan[f] = NoScan
    BY DEF EventInit, NoScan
  <2>3. \A e \in Event : ev[e].st # "made"
    BY DEF EventInit
  <2> QED
    BY <2>1, <2>2, <2>3, NoScanCovers, IdleRecords DEF CoverInv
<1>2. EventInv /\ CoverInv => CursorCovers
  <2> SUFFICES ASSUME EventInv, CoverInv, ~Happened("late"), NEW e \in Stored, Before(Key(e), cursor)
               PROVE  e \in seen
    BY DEF CursorCovers
  <2>1. Before(cursor, Key(e)) \/ e \in seen
    BY DEF CoverInv, Covers
  <2>2. ~Before(cursor, Key(e))
    <3>1. e \in Event /\ cursor \in Cursor
      BY DEF Stored, EventInv, WorldOK
    <3>2. Key(e) \in Cursor
      BY <3>1, KeyOrder
    <3> QED
      BY <3>1, <3>2, KeyOrder
  <2> QED
    BY <2>1, <2>2
<1> QED
  BY <1>1, <1>2, CoverInvNext, EventInvariant, PTL DEF EventSpec
=============================================================================
