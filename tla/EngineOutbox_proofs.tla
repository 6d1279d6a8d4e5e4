-------------------------- MODULE EngineOutbox_proofs --------------------------
(***************************************************************************)
(* What holds of the publish outbox for any number of consoles, rows,      *)
(* definitions and attempts, and any troubles.                             *)
(***************************************************************************)
EXTENDS EngineOutbox, Extrema, FiniteSetTheorems

RowRecord == [st : Statuses, c : Content \cup {NoContent}, tries : 0 .. MaxAttempts, wait : BOOLEAN]
ThreadPc == Acting \cup {"rest", "next", "reload", "release"}
ThreadRecord ==
    [pc : ThreadPc, job : {"none", "deliver", "reconcile"}, todo : SUBSET Row, held : BOOLEAN,
     row : RowRecord, ok : BOOLEAN]
DeleteRecord ==
    [pc : {"none", "mark", "purge", "commit", "restore"}, prior : {"none", "draft", "published"},
     snap : [Row -> Statuses]]

(* The two tables: a row has a definition as long as it exists, and no two *)
(* rows have the same; ids are not used again.                             *)
TablesOK ==
    /\ src \in [st : {"draft", "published"}, c : Content] \cup {NoSource}
    /\ rows \in [Row -> RowRecord] /\ born \in 0 .. MaxRow
    /\ \A r \in Row : (rows[r].c = NoContent) <=> (rows[r].st = "none")
    /\ \A r, q \in Alive : rows[r].c = rows[q].c => r = q
    /\ closed \subseteq Row
    /\ \A r \in Row : r > born => rows[r].st = "none" /\ r \notin closed

TargetOK ==
    /\ key \in Content \cup {NoContent} /\ listed \in BOOLEAN
    /\ lease \in [Row -> Console \cup {Nobody}] /\ down \in BOOLEAN
    /\ Calm({"down"}) => ~down

(* A thread that delivers has read a row that was to be delivered. *)
ThreadOK(x) ==
    /\ x.pc = "rest" <=> x.todo = {}
    /\ x.pc \in Acting => x.row.c \in Content
    /\ x.pc \in Acting /\ x.job = "deliver" => x.row.st \in {"pending", "failed"}
ThreadsOK ==
    /\ thr \in [Console -> ThreadRecord]
    /\ \A k \in Console : ThreadOK(thr[k])

(* A process that is dead does nothing, and does not come back unless the  *)
(* scenario has it; the lock of a process excludes its thread and its      *)
(* deletion.                                                               *)
ProcessesOK ==
    /\ up \in [Console -> {"dead", "run", "idle"}]
    /\ del \in [Console -> DeleteRecord]
    /\ \A k \in Console :
          /\ up[k] = "dead" => thr[k].pc = "rest" /\ del[k].pc = "none"
          /\ up[k] # "dead" => k \in left.consoles
          /\ Calm({"crash"}) /\ k \in left.consoles => up[k] # "dead"
          /\ DeleteHasLock(k) => thr[k].pc \notin Acting
          /\ Calm({"delete"}) => del[k].pc = "none"

LeftOK ==
    /\ left \in [consoles : SUBSET Console, batch : Nat \ {0}, ahead : Nat,
                 budget : [Trouble -> Nat], now : [Trouble -> Nat]]
    /\ \A t \in Trouble : left.now[t] <= left.budget[t]

(* The inductive type invariant. *)
OutboxInv == TablesOK /\ TargetOK /\ ThreadsOK /\ ProcessesOK /\ LeftOK

-----------------------------------------------------------------------------

(* What the assumptions say of the constants, spelled out. *)
LEMMA OutboxConstants ==
    /\ NoContent \notin Content /\ Nobody \notin Console /\ IsFiniteSet(Console)
    /\ MaxRow \in Nat \ {0} /\ MaxAttempts \in Nat \ {0}
    /\ Row = 1 .. MaxRow /\ Row \in SUBSET Nat
BY OutboxAssumption DEF Row

(* The absent row, the resting thread and no deletion are of their types. *)
LEMMA EmptyRecords ==
    /\ NoRow \in RowRecord /\ NoRow.st = "none" /\ NoRow.c = NoContent
    /\ Resting \in ThreadRecord /\ Resting.pc = "rest" /\ Resting.todo = {} /\ Resting.job = "none"
    /\ NoDelete \in DeleteRecord /\ NoDelete.pc = "none"
<1>1. NoRow \in RowRecord /\ NoRow.st = "none" /\ NoRow.c = NoContent
  BY OutboxConstants DEF NoRow, RowRecord, Statuses
<1>2. Resting \in ThreadRecord /\ Resting.pc = "rest" /\ Resting.todo = {} /\ Resting.job = "none"
  BY <1>1 DEF Resting, ThreadRecord, ThreadPc
<1>3. NoDelete \in DeleteRecord /\ NoDelete.pc = "none"
  BY DEF NoDelete, DeleteRecord, Statuses
<1> QED
  BY <1>1, <1>2, <1>3

(* A new row is a pending row. *)
LEMMA PendingType ==
    ASSUME NEW c \in Content
    PROVE  /\ Pending(c) \in RowRecord /\ Pending(c).st = "pending" /\ Pending(c).c = c
BY OutboxConstants DEF Pending, RowRecord, Statuses

(* The row a thread is at. *)
LEMMA CurIsNext ==
    ASSUME OutboxInv, NEW k \in Console, thr[k].pc # "rest"
    PROVE  Cur(k) \in thr[k].todo /\ Cur(k) \in Row
<1>1. thr[k].todo \in SUBSET Row /\ thr[k].todo # {}
  BY DEF OutboxInv, ThreadsOK, ThreadOK, ThreadRecord
<1>2. \E r \in thr[k].todo : \A q \in thr[k].todo : r <= q
  BY <1>1, LeastElement, OutboxConstants
<1> QED
  BY <1>1, <1>2 DEF Cur

Least(S) == CHOOSE r \in S : \A q \in S : r <= q

(* A thread works on the first of its rows. *)
LEMMA CurIsLeast == \A k \in Console : Cur(k) = Least(thr[k].todo) /\ Cur(k)' = Least(thr'[k].todo)
BY DEF Cur, Least

(* The first of one row is that row. *)
LEMMA LeastOfOne == \A r \in Row : Least({r}) = r
BY DEF Least

(* With one console, whoever acts is that console. *)
LEMMA OnlyConsole ==
    ASSUME OutboxInv, OneConsole, NEW j \in left.consoles, NEW k \in left.consoles
    PROVE  j = k
<1>1. IsFiniteSet(left.consoles)
  BY OutboxConstants, FS_Subset DEF OutboxInv, LeftOK
<1>2. PICK x : left.consoles = {x}
  BY <1>1, FS_Singleton DEF OneConsole
<1> QED
  BY <1>2

-----------------------------------------------------------------------------
(* Budgets. *)

(* A trouble whose budget is spent has happened, and what had happened has. *)
LEMMA Spent ==
    ASSUME OutboxInv, NEW t \in Trouble, Spend(t)
    PROVE  /\ LeftOK' /\ Happened(t)' /\ left'.consoles = left.consoles
           /\ \A u \in Trouble : Happened(u) => Happened(u)'
<1>1. left' = [left EXCEPT !.now = [left.now EXCEPT ![t] = @ - 1]] /\ left.now[t] > 0
  BY DEF Spend, OutboxInv, LeftOK
<1>2. /\ left.now \in [Trouble -> Nat] /\ left.budget \in [Trouble -> Nat]
      /\ \A u \in Trouble : left.now[u] <= left.budget[u]
  BY DEF OutboxInv, LeftOK
<1>3. /\ left'.now = [left.now EXCEPT ![t] = @ - 1] /\ left'.budget = left.budget
      /\ left'.consoles = left.consoles
  BY <1>1 DEF OutboxInv, LeftOK
<1>4. /\ left'.now \in [Trouble -> Nat]
      /\ \A u \in Trouble : left'.now[u] <= left.now[u]
      /\ left'.now[t] < left.now[t]
  BY <1>1, <1>2, <1>3
<1>5. \A u \in Trouble : left'.now[u] <= left'.budget[u]
  BY <1>2, <1>3, <1>4
<1>6. left' \in [consoles : SUBSET Console, batch : Nat \ {0}, ahead : Nat,
                  budget : [Trouble -> Nat], now : [Trouble -> Nat]]
  BY <1>1, <1>3, <1>4 DEF OutboxInv, LeftOK
<1>7. Happened(t)' /\ \A u \in Trouble : Happened(u) => Happened(u)'
  BY <1>2, <1>3, <1>4 DEF Happened
<1> QED
  BY <1>3, <1>5, <1>6, <1>7 DEF LeftOK

(* What every step does to the budgets. *)
Budgets ==
    /\ LeftOK' /\ left'.consoles = left.consoles
    /\ \A u \in Trouble : Happened(u) => Happened(u)'

(* Budgets that stay or are spent from stay budgets. *)
LEMMA BudgetsKept ==
    ASSUME OutboxInv, left' = left \/ \E t \in Trouble : Spend(t)
    PROVE  Budgets
<1>1. CASE left' = left
  BY <1>1 DEF Budgets, OutboxInv, LeftOK, Happened
<1>2. CASE \E t \in Trouble : Spend(t)
  BY <1>2, Spent DEF Budgets
<1> QED
  BY <1>1, <1>2

(* What was promised after a step was promised before it. *)
LEMMA CalmBefore ==
    ASSUME Budgets, NEW ts \in SUBSET Trouble, Calm(ts)'
    PROVE  Calm(ts)
BY DEF Budgets, Calm

(* There is one console after a step exactly when there was one before. *)
LEMMA OneConsoleBefore ==
    ASSUME Budgets
    PROVE  OneConsole' <=> OneConsole
BY DEF Budgets, OneConsole

-----------------------------------------------------------------------------
(* What a step leaves alone stays well formed. *)

(* Tables that do not change keep their type. *)
LEMMA TablesSame ==
    ASSUME OutboxInv, UNCHANGED <<db, closed>>
    PROVE  TablesOK'
BY DEF OutboxInv, TablesOK, db, Alive

(* A target that does not change keeps its type. *)
LEMMA TargetSame ==
    ASSUME OutboxInv, Budgets, UNCHANGED target
    PROVE  TargetOK'
<1>1. Calm({"down"})' => Calm({"down"})
  BY CalmBefore DEF Trouble
<1> QED
  BY <1>1 DEF OutboxInv, TargetOK, target

(* Threads that do not change keep their type. *)
LEMMA ThreadsSame ==
    ASSUME OutboxInv, thr' = thr
    PROVE  ThreadsOK'
BY DEF OutboxInv, ThreadsOK, ThreadOK

(* Processes that do not change keep their types. *)
LEMMA ProcessesSame ==
    ASSUME OutboxInv, Budgets, UNCHANGED <<up, thr, del>>
    PROVE  ProcessesOK'
<1>1. /\ Calm({"crash"})' => Calm({"crash"})
      /\ Calm({"delete"})' => Calm({"delete"})
  BY CalmBefore DEF Trouble
<1> QED
  BY <1>1 DEF OutboxInv, ProcessesOK, Budgets, DeleteHasLock

(* Rows whose definition stays. *)
LEMMA StatusesSet ==
    ASSUME OutboxInv, UNCHANGED born, rows' \in [Row -> RowRecord],
           src' \in [st : {"draft", "published"}, c : Content] \cup {NoSource},
           closed' \subseteq Row, \A r \in closed' : r \in closed \/ rows[r].st # "none",
           \A r \in Row : rows'[r].c = rows[r].c /\ (rows'[r].st = "none" <=> rows[r].st = "none")
    PROVE  TablesOK' /\ Alive' = Alive
<1>1. Alive' = Alive
  BY DEF Alive
<1>2. /\ \A r \in Row : (rows'[r].c = NoContent) <=> (rows'[r].st = "none")
      /\ \A r, q \in Alive' : rows'[r].c = rows'[q].c => r = q
  BY <1>1 DEF OutboxInv, TablesOK, Alive
<1>3. \A r \in Row : r > born' => rows'[r].st = "none" /\ r \notin closed'
  BY DEF OutboxInv, TablesOK
<1>4. born' \in 0 .. MaxRow
  BY DEF OutboxInv, TablesOK
<1> QED
  BY <1>1, <1>2, <1>3, <1>4 DEF TablesOK

(* One row is written: it is gone, or it existed and has a definition of   *)
(* its own.                                                                *)
LEMMA RowSet ==
    ASSUME OutboxInv, UNCHANGED <<src, born, closed>>, NEW r \in Row, NEW row \in RowRecord,
           rows' = [rows EXCEPT ![r] = row],
           \/ row = NoRow
           \/ /\ rows[r].st # "none" /\ row.st # "none" /\ row.c \in Content
              /\ \A q \in Alive \ {r} : rows[q].c # row.c
    PROVE  TablesOK'
<1>1. \A q \in Row : rows'[q] = IF q = r THEN row ELSE rows[q]
  BY DEF OutboxInv, TablesOK
<1>2. rows' \in [Row -> RowRecord]
  BY DEF OutboxInv, TablesOK
<1>3. \A q \in Row : (rows'[q].c = NoContent) <=> (rows'[q].st = "none")
  BY <1>1, EmptyRecords, OutboxConstants DEF OutboxInv, TablesOK
<1>4. ASSUME NEW p \in Alive', NEW q \in Alive', rows'[p].c = rows'[q].c PROVE p = q
  <2>1. p \in Row /\ q \in Row /\ rows'[p].st # "none" /\ rows'[q].st # "none"
    BY DEF Alive
  <2>2. (p # r => p \in Alive) /\ (q # r => q \in Alive)
    BY <1>1, <2>1 DEF Alive
  <2>3. p = r \/ q = r => row # NoRow
    BY <1>1, <2>1, EmptyRecords
  <2> QED
    BY <1>1, <1>4, <2>1, <2>2, <2>3 DEF OutboxInv, TablesOK
<1>5. \A q \in Row : q > born => rows'[q].st = "none"
  BY <1>1, EmptyRecords DEF OutboxInv, TablesOK
<1> QED
  BY <1>2, <1>3, <1>4, <1>5 DEF OutboxInv, TablesOK

-----------------------------------------------------------------------------
(* The thread of one console moves. *)
SetThread(k, x) == thr' = [thr EXCEPT ![k] = x]

(* Replacing one thread by a sane one keeps the others. *)
LEMMA ThreadSet ==
    ASSUME OutboxInv, Budgets, NEW k \in Console, NEW x \in ThreadRecord, ThreadOK(x),
           SetThread(k, x), up[k] = "run", UNCHANGED <<up, del>>,
           x.pc \in Acting => thr[k].pc \in Acting \/ LockFree(k)
    PROVE  /\ ThreadsOK' /\ ProcessesOK' /\ thr'[k] = x
           /\ \A j \in Console \ {k} : thr'[j] = thr[j]
<1>1. /\ thr' \in [Console -> ThreadRecord] /\ thr'[k] = x
      /\ \A j \in Console \ {k} : thr'[j] = thr[j]
  BY DEF SetThread, OutboxInv, ThreadsOK
<1>2. ThreadsOK'
  BY <1>1 DEF OutboxInv, ThreadsOK, ThreadOK
<1>3. /\ Calm({"crash"})' => Calm({"crash"})
      /\ Calm({"delete"})' => Calm({"delete"})
  BY CalmBefore DEF Trouble
<1>4. ASSUME NEW j \in Console
      PROVE  /\ up'[j] = "dead" => thr'[j].pc = "rest" /\ del'[j].pc = "none"
             /\ up'[j] # "dead" => j \in left'.consoles
             /\ Calm({"crash"})' /\ j \in left'.consoles => up'[j] # "dead"
             /\ DeleteHasLock(j)' => thr'[j].pc \notin Acting
             /\ Calm({"delete"})' => del'[j].pc = "none"
  <2>1. CASE j = k
    BY <1>1, <1>3, <2>1 DEF OutboxInv, ProcessesOK, Budgets, DeleteHasLock, LockFree
  <2>2. CASE j # k
    BY <1>1, <1>3, <2>2 DEF OutboxInv, ProcessesOK, Budgets, DeleteHasLock
  <2> QED
    BY <2>1, <2>2
<1>5. ProcessesOK'
  BY <1>4 DEF OutboxInv, ProcessesOK
<1> QED
  BY <1>1, <1>2, <1>5

(* A step of the thread of console k.  It writes a row only when it acts   *)
(* on it, and then it is done with the row; it begins to act on a row only *)
(* when the lock is free, with the row as it is; it sets the key only      *)
(* while it writes, and takes or gives back its lease between two rows.    *)
Worked(k) ==
    /\ OutboxInv' /\ Budgets /\ up[k] = "run" /\ UNCHANGED <<src, born, down, up, del, closed>>
    /\ \A j \in Console \ {k} : thr'[j] = thr[j]
    /\ \/ rows' = rows
       \/ /\ thr[k].pc \in Acting /\ thr'[k].pc = "release" /\ key' = key
          /\ \E row \in RowRecord : /\ rows' = [rows EXCEPT ![Cur(k)] = row]
                                    /\ row.st # "none" \/ key = NoContent
    /\ thr'[k].pc \in Acting =>
          /\ rows' = rows /\ thr'[k].todo = thr[k].todo /\ thr'[k].job = thr[k].job
          /\ \/ thr[k].pc \in Acting /\ thr'[k].row = thr[k].row
             \/ /\ LockFree(k) /\ thr'[k].row = rows[Cur(k)]
                /\ rows[Cur(k)].st \in {"pending", "failed", "delivered"}
    /\ key' \in {key, NoContent} \/ thr[k].pc = "write"
    /\ thr'[k].pc \notin {"rest", "next"} =>
          /\ Cur(k)' = Cur(k) /\ thr[k].pc # "rest"
          /\ thr[k].pc # "next" => thr'[k].held = thr[k].held
    /\ thr[k].pc \notin {"next", "release"} => lease' = lease

(* A thread at another label keeps its rows, its lease and its job. *)
LEMMA GotoType ==
    ASSUME OutboxInv, NEW k \in Console, NEW pc \in ThreadPc \ {"rest"}, thr[k].pc # "rest",
           pc \in Acting => thr[k].pc \in Acting
    PROVE  LET x == [thr[k] EXCEPT !.pc = pc] IN
             /\ x \in ThreadRecord /\ ThreadOK(x) /\ x.pc = pc
             /\ x.todo = thr[k].todo /\ x.job = thr[k].job /\ x.row = thr[k].row /\ x.held = thr[k].held
<1> DEFINE x == [thr[k] EXCEPT !.pc = pc]
<1>1. thr[k] \in ThreadRecord /\ ThreadOK(thr[k])
  BY DEF OutboxInv, ThreadsOK
<1>2. /\ x \in ThreadRecord /\ x.pc = pc
      /\ x.todo = thr[k].todo /\ x.job = thr[k].job /\ x.row = thr[k].row /\ x.held = thr[k].held
  BY <1>1 DEF ThreadRecord
<1> HIDE DEF x
<1>3. ThreadOK(x)
  BY <1>1, <1>2 DEF ThreadOK
<1> QED
  BY <1>2, <1>3 DEF x

(* The thread goes on, and no table changes. *)
LEMMA GotoWorked ==
    ASSUME OutboxInv, Budgets, NEW k \in Console, NEW pc \in ThreadPc \ {"rest"}, up[k] = "run",
           thr[k].pc # "rest", pc \in Acting => thr[k].pc \in Acting, Goto(k, pc),
           UNCHANGED <<db, down, up, del, closed>>, TargetOK',
           key' \in {key, NoContent} \/ thr[k].pc = "write",
           thr[k].pc \notin {"next", "release"} => lease' = lease
    PROVE  Worked(k) /\ thr'[k].pc = pc /\ thr'[k].todo = thr[k].todo /\ thr'[k].held = thr[k].held
<1> DEFINE x == [thr[k] EXCEPT !.pc = pc]
<1>1. /\ x \in ThreadRecord /\ ThreadOK(x) /\ x.pc = pc
      /\ x.todo = thr[k].todo /\ x.job = thr[k].job /\ x.row = thr[k].row /\ x.held = thr[k].held
  BY GotoType
<1>2. SetThread(k, x)
  BY DEF Goto, SetThread, OutboxInv, ThreadsOK
<1> HIDE DEF x
<1>3. /\ ThreadsOK' /\ ProcessesOK' /\ thr'[k] = x
      /\ \A j \in Console \ {k} : thr'[j] = thr[j]
  BY <1>1, <1>2, ThreadSet
<1>4. OutboxInv'
  BY <1>3, TablesSame DEF OutboxInv, Budgets
<1> QED
  BY <1>1, <1>3, <1>4, CurIsLeast DEF Worked, db

(* The same with more than the place changed. *)
LEMMA SetWorked ==
    ASSUME OutboxInv, Budgets, NEW k \in Console, NEW x \in ThreadRecord, ThreadOK(x),
           SetThread(k, x), up[k] = "run", x.pc # "rest",
           x.todo # {} /\ Least(x.todo) = Cur(k), thr[k].pc # "rest",
           thr[k].pc # "next" => x.held = thr[k].held,
           x.pc \in Acting =>
              /\ x.todo = thr[k].todo /\ x.job = thr[k].job
              /\ \/ thr[k].pc \in Acting /\ x.row = thr[k].row
                 \/ /\ LockFree(k) /\ x.row = rows[Cur(k)]
                    /\ rows[Cur(k)].st \in {"pending", "failed", "delivered"},
           UNCHANGED <<db, key, listed, down, up, del, closed>>, TargetOK',
           thr[k].pc \notin {"next", "release"} => lease' = lease
    PROVE  Worked(k) /\ thr'[k] = x
<1>1. /\ ThreadsOK' /\ ProcessesOK' /\ thr'[k] = x
      /\ \A j \in Console \ {k} : thr'[j] = thr[j]
  BY ThreadSet
<1>2. OutboxInv'
  BY <1>1, TablesSame DEF OutboxInv, Budgets
<1>3. Cur(k)' = Cur(k)
  BY <1>1, CurIsLeast
<1> QED
  BY <1>1, <1>2, <1>3 DEF Worked, db

(* The thread turns to its next row, or has none. *)
LEMMA DoneWorked ==
    ASSUME OutboxInv, Budgets, NEW k \in Console, NEW todo \in SUBSET Row, Done(k, todo),
           up[k] = "run", thr[k].pc \in {"next", "release"},
           UNCHANGED <<db, key, listed, down, up, del, closed>>, TargetOK'
    PROVE  Worked(k) /\ thr'[k].pc \in {"rest", "next"}
<1> DEFINE y == [Resting EXCEPT !.pc = "next", !.job = thr[k].job, !.todo = todo]
           x == IF todo = {} THEN Resting ELSE y
<1>1. thr[k].job \in {"none", "deliver", "reconcile"}
  BY DEF OutboxInv, ThreadsOK, ThreadRecord
<1>2. y \in ThreadRecord /\ y.pc = "next" /\ y.todo = todo
  BY <1>1, EmptyRecords DEF ThreadRecord, ThreadPc
<1>3. SetThread(k, x)
  BY DEF Done, SetThread
<1> HIDE DEF y
<1>4. x \in ThreadRecord /\ x.pc \in {"rest", "next"} /\ (x.pc = "rest" <=> x.todo = {})
  BY <1>2, EmptyRecords
<1> HIDE DEF x
<1>5. ThreadOK(x) /\ x.pc \notin Acting
  BY <1>4 DEF ThreadOK, Acting
<1>6. /\ ThreadsOK' /\ ProcessesOK' /\ thr'[k] = x
      /\ \A j \in Console \ {k} : thr'[j] = thr[j]
  BY <1>3, <1>4, <1>5, ThreadSet
<1>7. OutboxInv'
  BY <1>6, TablesSame DEF OutboxInv, Budgets
<1> QED
  BY <1>4, <1>5, <1>6, <1>7 DEF Worked, db

(* A row is written back, unless it is gone. *)
LEMMA UpdateWorked ==
    ASSUME OutboxInv, NEW k \in Console, up[k] = "run", thr[k].pc \in Acting,
           UNCHANGED <<src, born, target, up, del, closed, left>>, NEW row, Update(k, row),
           rows[Cur(k)].st # "none" =>
              /\ row \in RowRecord /\ row.st # "none" /\ row.c \in Content
              /\ \A q \in Alive \ {Cur(k)} : rows[q].c # row.c
    PROVE  Worked(k)
<1>0. Budgets /\ thr[k].pc # "rest"
  BY BudgetsKept DEF Acting
<1>1. Cur(k) \in Row /\ Cur(k) \in thr[k].todo
  BY <1>0, CurIsNext
<1>2. CASE rows[Cur(k)].st = "none"
  <2> DEFINE x == [thr[k] EXCEPT !.pc = "release", !.todo = {Cur(k)}]
  <2>1. thr[k] \in ThreadRecord /\ thr' = [thr EXCEPT ![k].pc = "release", ![k].todo = {Cur(k)}] /\ rows' = rows
    BY <1>2 DEF Update, OutboxInv, ThreadsOK
  <2>2. SetThread(k, x)
    BY <2>1 DEF SetThread, OutboxInv, ThreadsOK
  <2>3. x \in ThreadRecord /\ x.pc = "release" /\ x.todo = {Cur(k)} /\ x.held = thr[k].held
    BY <1>1, <2>1 DEF ThreadRecord, ThreadPc
  <2> HIDE DEF x
  <2>4. ThreadOK(x) /\ x.pc \notin Acting /\ Least(x.todo) = Cur(k)
    BY <1>1, <2>3, LeastOfOne DEF ThreadOK, Acting
  <2>5. TargetOK'
    BY <1>0, TargetSame
  <2> QED
    BY <1>0, <2>1, <2>2, <2>3, <2>4, <2>5, SetWorked DEF db, target
<1>3. CASE rows[Cur(k)].st # "none"
  <2>1. rows' = [rows EXCEPT ![Cur(k)] = row] /\ Goto(k, "release")
    BY <1>3 DEF Update
  <2> DEFINE x == [thr[k] EXCEPT !.pc = "release"]
  <2>2. /\ x \in ThreadRecord /\ ThreadOK(x) /\ x.pc = "release"
        /\ x.todo = thr[k].todo /\ x.held = thr[k].held
    BY <1>0, GotoType DEF ThreadPc, Acting
  <2>3. SetThread(k, x)
    BY <2>1 DEF Goto, SetThread, OutboxInv, ThreadsOK
  <2> HIDE DEF x
  <2>4. /\ ThreadsOK' /\ ProcessesOK' /\ thr'[k] = x
        /\ \A j \in Console \ {k} : thr'[j] = thr[j]
    BY <1>0, <2>2, <2>3, ThreadSet DEF Acting
  <2>5. TablesOK'
    BY <1>1, <1>3, <2>1, RowSet
  <2>6. OutboxInv'
    BY <1>0, <2>4, <2>5, TargetSame DEF OutboxInv, Budgets
  <2>7. Cur(k)' = Cur(k)
    BY <2>2, <2>4, CurIsLeast
  <2> QED
    BY <1>0, <1>3, <2>1, <2>2, <2>4, <2>6, <2>7 DEF Worked, target, Acting
<1> QED
  BY <1>2, <1>3

-----------------------------------------------------------------------------
(* Each step of the thread. *)

(* Beginning a cycle is work of one thread. *)
LEMMA BeginWorked ==
    ASSUME OutboxInv, NEW k \in Console, DeliveryCycle(k) \/ ReconcileCycle(k)
    PROVE  Worked(k)
<1>1. PICK job \in {"deliver", "reconcile"}, todo \in SUBSET Row : Begin(k, job, todo)
  BY DEF DeliveryCycle, ReconcileCycle, Due, Delivered, AllDelivered, FirstRows
<1>2. /\ up[k] = "run" /\ todo # {} /\ UNCHANGED <<db, target, up, del, closed, left>>
      /\ thr[k].pc = "rest"
      /\ thr' = [thr EXCEPT ![k].pc = "next", ![k].job = job, ![k].todo = todo]
  BY <1>1 DEF Begin, At
<1>3. Budgets
  BY <1>2, BudgetsKept
<1> DEFINE x == [thr[k] EXCEPT !.pc = "next", !.job = job, !.todo = todo]
<1>4. thr \in [Console -> ThreadRecord] /\ thr[k] \in ThreadRecord
  BY DEF OutboxInv, ThreadsOK
<1>5. SetThread(k, x)
  BY <1>2, <1>4 DEF SetThread
<1>6. x \in ThreadRecord /\ x.pc = "next" /\ x.todo = todo
  BY <1>4 DEF ThreadRecord, ThreadPc
<1> HIDE DEF x
<1>7. ThreadOK(x) /\ x.pc \notin Acting
  BY <1>2, <1>6 DEF ThreadOK, Acting
<1>8. /\ ThreadsOK' /\ ProcessesOK' /\ thr'[k] = x
      /\ \A j \in Console \ {k} : thr'[j] = thr[j]
  BY <1>2, <1>3, <1>5, <1>6, <1>7, ThreadSet
<1>9. OutboxInv'
  BY <1>2, <1>3, <1>8, TablesSame, TargetSame DEF OutboxInv, Budgets
<1> QED
  BY <1>2, <1>3, <1>6, <1>7, <1>8, <1>9 DEF Worked, db, target

(* Taking the lease is work of one thread, and sets a free lease only. *)
LEMMA TakeLeaseWorked ==
    ASSUME OutboxInv, NEW k \in Console, TakeLease(k)
    PROVE  /\ Worked(k) /\ thr[k].pc = "next"
           /\ \/ thr'[k].pc \in {"rest", "next"} /\ lease' = lease
              \/ down /\ lease' = lease
              \/ thr'[k].held /\ lease[Cur(k)] = Nobody /\ lease' = [lease EXCEPT ![Cur(k)] = k]
<1>1. up[k] = "run" /\ thr[k].pc = "next" /\ UNCHANGED <<db, key, listed, down, up, del, closed, left>>
  BY DEF TakeLease, At
<1>2. Budgets /\ Cur(k) \in thr[k].todo /\ Cur(k) \in Row
  BY <1>1, BudgetsKept, CurIsNext
<1>3. thr \in [Console -> ThreadRecord] /\ thr[k] \in ThreadRecord /\ ThreadOK(thr[k])
  BY DEF OutboxInv, ThreadsOK
<1>4. ASSUME lease' = lease \/ lease' = [lease EXCEPT ![Cur(k)] = k] PROVE TargetOK'
  <2>1. lease' \in [Row -> Console \cup {Nobody}]
    BY <1>4 DEF OutboxInv, TargetOK
  <2>2. Calm({"down"})' => Calm({"down"})
    BY <1>2, CalmBefore DEF Trouble
  <2> QED
    BY <1>1, <2>1, <2>2 DEF OutboxInv, TargetOK
<1>5. CASE down /\ Goto(k, "reload") /\ UNCHANGED lease
  <2>1. "reload" \in ThreadPc \ {"rest"} /\ "reload" \notin Acting
    BY DEF ThreadPc, Acting
  <2> QED
    BY <1>1, <1>2, <1>4, <1>5, <2>1, GotoWorked
<1>6. CASE /\ LeaseGranted(Cur(k)) /\ lease' = [lease EXCEPT ![Cur(k)] = k]
           /\ thr' = [thr EXCEPT ![k].pc = "reload", ![k].held = TRUE]
  <2> DEFINE x == [thr[k] EXCEPT !.pc = "reload", !.held = TRUE]
  <2>1. SetThread(k, x)
    BY <1>3, <1>6 DEF SetThread
  <2>2. x \in ThreadRecord /\ x.pc = "reload" /\ x.todo = thr[k].todo /\ x.held
    BY <1>3 DEF ThreadRecord, ThreadPc
  <2> HIDE DEF x
  <2>3. ThreadOK(x) /\ x.pc \notin Acting /\ x.todo # {} /\ Least(x.todo) = Cur(k)
    BY <1>2, <2>2, CurIsLeast DEF ThreadOK, Acting
  <2>4. Worked(k) /\ thr'[k] = x
    BY <1>1, <1>2, <1>4, <1>6, <2>1, <2>2, <2>3, SetWorked
  <2> QED
    BY <1>1, <1>6, <2>2, <2>4 DEF LeaseGranted
<1>7. CASE Done(k, thr[k].todo \ {Cur(k)}) /\ UNCHANGED lease
  <2>1. thr[k].todo \ {Cur(k)} \in SUBSET Row
    BY <1>3 DEF ThreadRecord
  <2> QED
    BY <1>1, <1>2, <1>4, <1>7, <2>1, DoneWorked
<1> QED
  BY <1>5, <1>6, <1>7 DEF TakeLease

(* Reloading the row is work of one thread. *)
LEMMA ReloadWorked ==
    ASSUME OutboxInv, NEW k \in Console, Reload(k)
    PROVE  Worked(k)
<1>1. up[k] = "run" /\ thr[k].pc = "reload" /\ LockFree(k) /\ UNCHANGED <<db, target, up, del, closed, left>>
  BY DEF Reload, At
<1>2. Budgets /\ Cur(k) \in thr[k].todo /\ Cur(k) \in Row /\ TargetOK'
  BY <1>1, BudgetsKept, CurIsNext, TargetSame
<1>3. /\ thr \in [Console -> ThreadRecord] /\ thr[k] \in ThreadRecord /\ ThreadOK(thr[k])
      /\ rows[Cur(k)] \in RowRecord
  BY <1>2 DEF OutboxInv, ThreadsOK, TablesOK
<1>4. ASSUME NEW pc \in {"write", "source"},
             \/ pc = "write" /\ rows[Cur(k)].st \in {"pending", "failed"}
             \/ pc = "source" /\ thr[k].job # "deliver" /\ rows[Cur(k)].st = "delivered",
             thr' = [thr EXCEPT ![k].pc = pc, ![k].row = rows[Cur(k)]]
      PROVE  Worked(k)
  <2> DEFINE x == [thr[k] EXCEPT !.pc = pc, !.row = rows[Cur(k)]]
  <2>1. SetThread(k, x)
    BY <1>3, <1>4 DEF SetThread
  <2>2. /\ x \in ThreadRecord /\ x.pc = pc /\ x.todo = thr[k].todo /\ x.held = thr[k].held
        /\ x.job = thr[k].job /\ x.row = rows[Cur(k)]
    BY <1>3, <1>4 DEF ThreadRecord, ThreadPc, Acting
  <2> HIDE DEF x
  <2>3. rows[Cur(k)].c \in Content
    BY <1>2, <1>3, <1>4 DEF OutboxInv, TablesOK, RowRecord
  <2>4. ThreadOK(x) /\ x.todo # {} /\ Least(x.todo) = Cur(k) /\ x.pc # "rest"
    BY <1>2, <1>4, <2>2, <2>3, CurIsLeast DEF ThreadOK
  <2> QED
    BY <1>1, <1>2, <1>4, <2>1, <2>2, <2>4, SetWorked DEF target
<1>5. CASE Goto(k, "release")
  <2>1. "release" \in ThreadPc \ {"rest"} /\ "release" \notin Acting
    BY DEF ThreadPc, Acting
  <2> QED
    BY <1>1, <1>2, <1>5, <2>1, GotoWorked DEF target
<1> QED
  BY <1>4, <1>5 DEF Reload

(* Writing the target is work of one thread. *)
LEMMA WriteWorked ==
    ASSUME OutboxInv, NEW k \in Console, Write(k)
    PROVE  Worked(k)
<1>1. /\ up[k] = "run" /\ thr[k].pc = "write" /\ UNCHANGED <<db, lease, down, up, del, closed>>
      /\ left' = left \/ Spend("partial")
      /\ key' = key \/ key' = thr[k].row.c
      /\ listed' = listed \/ listed' = TRUE
      /\ Goto(k, "book") \/ Goto(k, "verify")
  BY DEF Write, At
<1>2. Budgets
  BY <1>1, BudgetsKept DEF Trouble
<1>3. thr[k].row.c \in Content
  BY <1>1 DEF OutboxInv, ThreadsOK, ThreadOK, Acting
<1>4. TargetOK'
  <2>1. Calm({"down"})' => Calm({"down"})
    BY <1>2, CalmBefore DEF Trouble
  <2>2. key' \in Content \cup {NoContent}
    BY <1>1, <1>3 DEF OutboxInv, TargetOK
  <2>3. listed' \in BOOLEAN
    BY <1>1 DEF OutboxInv, TargetOK
  <2> QED
    BY <1>1, <2>1, <2>2, <2>3 DEF OutboxInv, TargetOK
<1>5. {"book", "verify"} \subseteq ThreadPc \ {"rest"} /\ "write" \in Acting
  BY DEF ThreadPc, Acting
<1> QED
  BY <1>1, <1>2, <1>4, <1>5, GotoWorked

(* Verifying and booking the outcome is work of one thread. *)
LEMMA VerifyWorked ==
    ASSUME OutboxInv, NEW k \in Console, Verify(k)
    PROVE  Worked(k)
<1>1. /\ up[k] = "run" /\ thr[k].pc = "verify" /\ UNCHANGED <<db, target, up, del, closed, left>>
      /\ thr' = [thr EXCEPT ![k].pc = "book", ![k].ok = Verified(k)]
  BY DEF Verify, At
<1>2. Budgets /\ Cur(k) \in thr[k].todo /\ Cur(k) \in Row /\ TargetOK'
  BY <1>1, BudgetsKept, CurIsNext, TargetSame
<1>3. thr \in [Console -> ThreadRecord] /\ thr[k] \in ThreadRecord /\ ThreadOK(thr[k])
  BY DEF OutboxInv, ThreadsOK
<1>4. PICK b \in BOOLEAN : b = Verified(k)
  BY DEF Verified
<1> DEFINE x == [thr[k] EXCEPT !.pc = "book", !.ok = b]
<1>5. SetThread(k, x)
  BY <1>1, <1>3, <1>4 DEF SetThread
<1>6. /\ x \in ThreadRecord /\ x.pc = "book" /\ x.todo = thr[k].todo /\ x.held = thr[k].held
      /\ x.job = thr[k].job /\ x.row = thr[k].row
  BY <1>3 DEF ThreadRecord, ThreadPc, Acting
<1> HIDE DEF x
<1>7. ThreadOK(x) /\ x.todo # {} /\ Least(x.todo) = Cur(k) /\ thr[k].pc \in Acting
  BY <1>1, <1>2, <1>3, <1>6, CurIsLeast DEF ThreadOK, Acting
<1> QED
  BY <1>1, <1>2, <1>5, <1>6, <1>7, SetWorked DEF target

(* A booked row keeps its content and its presence. *)
LEMMA BookedType ==
    ASSUME NEW row \in RowRecord, NEW mem \in RowRecord, NEW ok \in BOOLEAN, row.st # "none"
    PROVE  /\ Booked(row, mem, ok) \in RowRecord
           /\ Booked(row, mem, ok).st # "none" /\ Booked(row, mem, ok).c = row.c
<1> DEFINE tries == IF mem.tries < MaxAttempts THEN mem.tries + 1 ELSE mem.tries
           st == IF ok THEN "delivered"
                 ELSE IF tries = MaxAttempts /\ mem.st # "failed" THEN "failed" ELSE row.st
<1>1. tries \in 0 .. MaxAttempts
  BY OutboxConstants DEF RowRecord
<1>2. st \in Statuses /\ st # "none"
  BY DEF RowRecord, Statuses
<1>3. Booked(row, mem, ok) = [row EXCEPT !.tries = tries, !.wait = ~ok, !.st = st]
  BY DEF Booked
<1> HIDE DEF tries, st
<1> QED
  BY <1>1, <1>2, <1>3 DEF RowRecord

(* The commit of a delivery, and what the reconciliation finds. *)
LEMMA TableWorked ==
    ASSUME OutboxInv, NEW k \in Console, Book(k) \/ CheckSource(k) \/ CheckTarget(k)
    PROVE  Worked(k)
<1>1. /\ up[k] = "run" /\ thr[k].pc \in Acting
      /\ UNCHANGED <<src, born, target, up, del, closed, left>>
  BY DEF Book, CheckSource, CheckTarget, At, Acting
<1>2. Budgets /\ TargetOK' /\ thr[k].pc # "rest"
  BY <1>1, BudgetsKept, TargetSame DEF Acting
<1>3. Cur(k) \in Row /\ Cur(k) \in thr[k].todo
  BY <1>2, CurIsNext
<1>4. /\ rows[Cur(k)] \in RowRecord /\ thr[k].row \in RowRecord /\ thr[k].ok \in BOOLEAN
      /\ rows[Cur(k)].st # "none" => rows[Cur(k)].c \in Content /\ Cur(k) \in Alive
  <2>1. rows[Cur(k)] \in RowRecord /\ thr[k] \in ThreadRecord
    BY <1>3 DEF OutboxInv, TablesOK, ThreadsOK
  <2>2. thr[k].row \in RowRecord /\ thr[k].ok \in BOOLEAN
    BY <2>1 DEF ThreadRecord
  <2>3. rows[Cur(k)].st # "none" => rows[Cur(k)].c \in Content /\ Cur(k) \in Alive
    BY <1>3, <2>1 DEF OutboxInv, TablesOK, RowRecord, Alive
  <2> QED
    BY <2>1, <2>2, <2>3
<1>5. \A q \in Alive \ {Cur(k)} : rows[Cur(k)].st # "none" => rows[q].c # rows[Cur(k)].c
  BY <1>3, <1>4 DEF OutboxInv, TablesOK
<1>6. ASSUME NEW pc \in {"purge", "target", "release"}, Goto(k, pc), rows' = rows PROVE Worked(k)
  <2>1. pc \in ThreadPc \ {"rest"}
    BY DEF ThreadPc, Acting
  <2> QED
    BY <1>1, <1>2, <1>6, <2>1, GotoWorked DEF target, db
<1>7. CASE Book(k)
  <2> DEFINE b == Booked(rows[Cur(k)], thr[k].row, thr[k].ok)
  <2>1. rows[Cur(k)].st # "none" => b \in RowRecord /\ b.st # "none" /\ b.c = rows[Cur(k)].c
    BY <1>4, BookedType
  <2>2. Update(k, b)
    BY <1>7 DEF Book
  <2> HIDE DEF b
  <2> QED
    BY <1>1, <1>4, <1>5, <2>1, <2>2, UpdateWorked
<1>8. CASE CheckSource(k)
  <2>1. CASE src.st # "none" /\ Drift(k) /\ ~ \E q \in Alive \ {Cur(k)} : rows[q].c = src.c
    <3>1. src.c \in Content
      BY <2>1 DEF OutboxInv, TablesOK, NoSource
    <3>2. Pending(src.c) \in RowRecord /\ Pending(src.c).st = "pending" /\ Pending(src.c).c = src.c
      BY <3>1, PendingType
    <3>3. Update(k, Pending(src.c))
      BY <2>1 DEF Drift
    <3> QED
      BY <1>1, <2>1, <3>1, <3>2, <3>3, UpdateWorked
  <2> QED
    BY <1>6, <1>8, <2>1 DEF CheckSource, Drift
<1>9. CASE CheckTarget(k)
  <2>1. CASE Update(k, Pending(rows[Cur(k)].c))
    <3> DEFINE c == rows[Cur(k)].c
    <3>1. rows[Cur(k)].st # "none" => /\ Pending(c) \in RowRecord
                                     /\ Pending(c).st = "pending" /\ Pending(c).c = c
      BY <1>4, PendingType
    <3> QED
      BY <1>1, <1>4, <1>5, <2>1, <3>1, UpdateWorked
  <2>2. CASE thr' = [thr EXCEPT ![k].pc = "release", ![k].todo = {Cur(k)}] /\ rows' = rows
    <3> DEFINE x == [thr[k] EXCEPT !.pc = "release", !.todo = {Cur(k)}]
    <3>1. thr \in [Console -> ThreadRecord] /\ thr[k] \in ThreadRecord
      BY DEF OutboxInv, ThreadsOK
    <3>2. SetThread(k, x)
      BY <2>2, <3>1 DEF SetThread
    <3>3. x \in ThreadRecord /\ x.pc = "release" /\ x.todo = {Cur(k)} /\ x.held = thr[k].held
      BY <1>3, <3>1 DEF ThreadRecord, ThreadPc
    <3> HIDE DEF x
    <3>4. ThreadOK(x) /\ x.pc \notin Acting /\ Least(x.todo) = Cur(k)
      BY <1>3, <3>3, LeastOfOne DEF ThreadOK, Acting
    <3> QED
      BY <1>1, <1>2, <2>2, <3>2, <3>3, <3>4, SetWorked DEF db, target
  <2> QED
    BY <1>6, <1>9, <2>1, <2>2 DEF CheckTarget
<1> QED
  BY <1>7, <1>8, <1>9

(* Purging the target removes the key, and leaves the leases. *)
LEMMA PurgedTarget ==
    ASSUME OutboxInv, Budgets, PurgeTarget
    PROVE  TargetOK' /\ key' \in {key, NoContent} /\ UNCHANGED <<lease, down>>
<1>1. Calm({"down"})' => Calm({"down"})
  BY CalmBefore DEF Trouble
<1>2. key' \in {key, NoContent} /\ UNCHANGED <<lease, down>> /\ listed' \in BOOLEAN
  BY DEF PurgeTarget
<1> QED
  BY <1>1, <1>2 DEF OutboxInv, TargetOK

(* Purging and dropping an orphan is work of one thread. *)
LEMMA OrphanWorked ==
    ASSUME OutboxInv, NEW k \in Console, PurgeOrphan(k) \/ DropOrphan(k)
    PROVE  Worked(k)
<1>1. /\ up[k] = "run" /\ thr[k].pc \in Acting /\ UNCHANGED <<src, born, up, del, closed, left>>
  BY DEF PurgeOrphan, DropOrphan, At, Acting, db
<1>2. Budgets /\ thr[k].pc # "rest"
  BY <1>1, BudgetsKept DEF Acting
<1>3. Cur(k) \in Row
  BY <1>2, CurIsNext
<1>4. {"drop", "release"} \subseteq ThreadPc \ {"rest"} /\ "release" \notin Acting
  BY DEF ThreadPc, Acting
<1>5. CASE PurgeOrphan(k)
  BY <1>1, <1>2, <1>4, <1>5, PurgedTarget, GotoWorked DEF PurgeOrphan, db
<1>6. CASE DropOrphan(k)
  <2>1. TargetOK' /\ UNCHANGED target /\ Goto(k, "release")
    BY <1>2, <1>6, TargetSame DEF DropOrphan
  <2>2. CASE rows' = rows
    BY <1>1, <1>2, <1>4, <2>1, <2>2, GotoWorked DEF db, target
  <2>3. CASE key = NoContent /\ rows' = [rows EXCEPT ![Cur(k)] = NoRow]
    <3> DEFINE x == [thr[k] EXCEPT !.pc = "release"]
    <3>1. /\ x \in ThreadRecord /\ ThreadOK(x) /\ x.pc = "release"
          /\ x.todo = thr[k].todo /\ x.held = thr[k].held
      BY <1>2, <1>4, GotoType
    <3>2. SetThread(k, x)
      BY <2>1 DEF Goto, SetThread, OutboxInv, ThreadsOK
    <3> HIDE DEF x
    <3>3. /\ ThreadsOK' /\ ProcessesOK' /\ thr'[k] = x
          /\ \A j \in Console \ {k} : thr'[j] = thr[j]
      BY <1>1, <1>2, <1>4, <3>1, <3>2, ThreadSet
    <3>4. TablesOK'
      BY <1>1, <1>3, <2>3, RowSet, EmptyRecords
    <3>5. OutboxInv'
      BY <1>2, <2>1, <3>3, <3>4 DEF OutboxInv, Budgets
    <3>6. Cur(k)' = Cur(k)
      BY <3>1, <3>3, CurIsLeast
    <3> QED
      BY <1>1, <1>2, <1>4, <2>1, <2>3, <3>1, <3>3, <3>5, <3>6, EmptyRecords DEF Worked, target
  <2> QED
    BY <1>6, <2>2, <2>3 DEF DropOrphan
<1> QED
  BY <1>5, <1>6

(* Releasing the lease is work of one thread, and frees its own lease only. *)
LEMMA ReleaseWorked ==
    ASSUME OutboxInv, NEW k \in Console, ReleaseLease(k)
    PROVE  /\ Worked(k) /\ thr'[k].pc \in {"rest", "next"} /\ thr[k].pc = "release"
           /\ lease' = lease \/ (lease[Cur(k)] = k /\ lease' = [lease EXCEPT ![Cur(k)] = Nobody])
<1>1. /\ up[k] = "run" /\ thr[k].pc = "release" /\ UNCHANGED <<db, key, listed, down, up, del, closed, left>>
      /\ lease' = lease \/ (lease[Cur(k)] = k /\ lease' = [lease EXCEPT ![Cur(k)] = Nobody])
      /\ Done(k, thr[k].todo \ {Cur(k)})
  BY DEF ReleaseLease, At
<1>2. Budgets
  BY <1>1, BudgetsKept
<1>3. TargetOK'
  <2>1. lease' \in [Row -> Console \cup {Nobody}]
    BY <1>1 DEF OutboxInv, TargetOK
  <2>2. Calm({"down"})' => Calm({"down"})
    BY <1>2, CalmBefore DEF Trouble
  <2> QED
    BY <1>1, <2>1, <2>2 DEF OutboxInv, TargetOK
<1>4. thr[k].todo \ {Cur(k)} \in SUBSET Row
  BY DEF OutboxInv, ThreadsOK, ThreadRecord
<1> QED
  BY <1>1, <1>2, <1>3, <1>4, DoneWorked

(* Every step of a thread is work of one thread. *)
LEMMA ThreadWorks ==
    ASSUME OutboxInv, NEW k \in Console, RowStep(k) \/ DeliveryCycle(k) \/ ReconcileCycle(k)
    PROVE  Worked(k)
BY BeginWorked, TakeLeaseWorked, ReloadWorked, WriteWorked, VerifyWorked, TableWorked, OrphanWorked,
   ReleaseWorked DEF RowStep

-----------------------------------------------------------------------------
(* Users, operators and faults. *)

(* Changes of the definition outside the outbox keep the invariant. *)
LEMMA SourceKeeps ==
    ASSUME OutboxInv, \/ \E c \in Content : SaveDraft(c) \/ SourceEdited(c)
                      \/ SourceRemoved
    PROVE  OutboxInv' /\ Budgets /\ UNCHANGED <<rows, born, target, up, thr, del, closed>>
<1>1. /\ UNCHANGED <<rows, born, target, up, thr, del, closed>> /\ \E t \in Trouble : Spend(t)
      /\ src' = NoSource \/ \E c \in Content : src' = [st |-> "draft", c |-> c]
                         \/ (src.st = "published" /\ src' = [src EXCEPT !.c = c])
  BY DEF SaveDraft, SourceEdited, SourceRemoved, Trouble
<1>2. Budgets
  BY <1>1, BudgetsKept
<1>3. src' \in [st : {"draft", "published"}, c : Content] \cup {NoSource}
  BY <1>1 DEF OutboxInv, TablesOK, NoSource
<1>4. TablesOK'
  BY <1>1, <1>3 DEF OutboxInv, TablesOK, Alive
<1> QED
  BY <1>1, <1>2, <1>4, TargetSame, ThreadsSame, ProcessesSame DEF OutboxInv, Budgets

(* Publishing keeps the invariant, and writes pending rows only. *)
LEMMA PublishKeeps ==
    ASSUME OutboxInv, Publish
    PROVE  /\ OutboxInv' /\ Budgets /\ UNCHANGED <<target, up, thr, del, closed, left>>
           /\ \A r \in Row : rows'[r] = rows[r] \/ (rows[r].st = "none" /\ rows'[r].st = "pending" /\ r \notin closed)
<1>1. /\ UNCHANGED <<target, up, thr, del, closed, left>> /\ src.st = "draft"
      /\ src' = [src EXCEPT !.st = "published"] /\ Enqueue(src.c)
  BY DEF Publish
<1>2. Budgets
  BY <1>1, BudgetsKept
<1>3. src.c \in Content /\ src' \in [st : {"draft", "published"}, c : Content] \cup {NoSource}
  BY <1>1 DEF OutboxInv, TablesOK, NoSource
<1>4. CASE UNCHANGED <<rows, born>>
  BY <1>1, <1>2, <1>3, <1>4, TargetSame, ThreadsSame, ProcessesSame
     DEF OutboxInv, Budgets, TablesOK, Alive
<1>5. CASE /\ ~ \E r \in Alive : rows[r].c = src.c
           /\ born < MaxRow /\ born' = born + 1
           /\ rows' = [rows EXCEPT ![born + 1] = Pending(src.c)]
  <2> DEFINE n == born + 1
             p == Pending(src.c)
  <2>1. n \in Row /\ n \in 0 .. MaxRow /\ n > born /\ born \in 0 .. MaxRow
    BY <1>5, OutboxConstants DEF OutboxInv, TablesOK
  <2>2. p \in RowRecord /\ p.st = "pending" /\ p.c = src.c
    BY <1>3, PendingType
  <2>3. rows[n].st = "none" /\ n \notin closed
    BY <2>1 DEF OutboxInv, TablesOK
  <2> HIDE DEF p
  <2>4. rows' = [rows EXCEPT ![n] = p] /\ born' = n
    BY <1>5 DEF p
  <2> HIDE DEF n
  <2>5. \A r \in Row : rows'[r] = IF r = n THEN p ELSE rows[r]
    BY <2>4 DEF OutboxInv, TablesOK
  <2>6. rows' \in [Row -> RowRecord]
    BY <2>2, <2>4 DEF OutboxInv, TablesOK
  <2>7. Alive' = Alive \cup {n} /\ n \notin Alive
    BY <2>1, <2>2, <2>3, <2>5 DEF Alive
  <2>8. \A r, q \in Alive' : rows'[r].c = rows'[q].c => r = q
    BY <1>5, <2>2, <2>5, <2>7 DEF OutboxInv, TablesOK, Alive
  <2>9. \A r \in Row : (rows'[r].c = NoContent) <=> (rows'[r].st = "none")
    BY <1>3, <2>2, <2>5, OutboxConstants DEF OutboxInv, TablesOK
  <2>10. \A r \in Row : r > born' => rows'[r].st = "none" /\ r \notin closed'
    <3>1. \A r \in Row : r > n => r > born /\ r # n
      BY <2>1, OutboxConstants
    <3> QED
      BY <1>1, <2>4, <2>5, <3>1 DEF OutboxInv, TablesOK
  <2>11. TablesOK'
    BY <1>1, <1>3, <2>1, <2>4, <2>6, <2>8, <2>9, <2>10 DEF OutboxInv, TablesOK
  <2>12. OutboxInv'
    BY <1>1, <1>2, <2>11, TargetSame, ThreadsSame, ProcessesSame DEF OutboxInv, Budgets
  <2> QED
    BY <1>1, <1>2, <2>2, <2>3, <2>5, <2>12
<1> QED
  BY <1>1, <1>4, <1>5 DEF Enqueue

(* The target's troubles and expiring leases keep the invariant. *)
LEMMA FaultKeeps ==
    ASSUME OutboxInv, TargetDown \/ TargetUp \/ TargetLosesKeys \/ \E r \in Row : LeaseExpires(r)
    PROVE  /\ OutboxInv' /\ Budgets /\ UNCHANGED <<db, up, thr, del, closed>>
           /\ key' \in {key, NoContent}
<1>1. /\ UNCHANGED <<db, up, thr, del, closed>>
      /\ left' = left \/ \E t \in Trouble : Spend(t)
      /\ key' \in {key, NoContent}
  BY DEF TargetDown, TargetUp, TargetLosesKeys, LeaseExpires, Trouble
<1>2. Budgets
  BY <1>1, BudgetsKept
<1>3. TargetOK'
  <2>1. Calm({"down"})' => Calm({"down"})
    BY <1>2, CalmBefore DEF Trouble
  <2>2. CASE TargetDown
    <3>1. Happened("down")'
      BY <2>2, Spent DEF TargetDown, Trouble
    <3>2. ~Calm({"down"})'
      BY <3>1 DEF Calm
    <3> QED
      BY <2>2, <3>2 DEF TargetDown, OutboxInv, TargetOK
  <2>3. CASE TargetUp
    BY <2>3 DEF TargetUp, OutboxInv, TargetOK
  <2>4. CASE TargetLosesKeys
    BY <2>1, <2>4 DEF TargetLosesKeys, OutboxInv, TargetOK
  <2>5. ASSUME NEW r \in Row, LeaseExpires(r) PROVE TargetOK'
    BY <2>1, <2>5 DEF LeaseExpires, OutboxInv, TargetOK
  <2> QED
    BY <2>2, <2>3, <2>4, <2>5
<1> QED
  BY <1>1, <1>2, <1>3, TablesSame, ThreadsSame, ProcessesSame DEF OutboxInv, Budgets

(* The end of a backoff keeps the invariant and the row's status. *)
LEMMA BackoffKeeps ==
    ASSUME OutboxInv, NEW r \in Row, BackoffEnds(r)
    PROVE  /\ OutboxInv' /\ Budgets /\ UNCHANGED <<src, born, target, up, thr, del, closed, left>>
           /\ \A q \in Row : rows'[q].st = rows[q].st /\ rows'[q].tries = rows[q].tries
<1>1. /\ UNCHANGED <<src, born, target, up, thr, del, closed, left>>
      /\ rows' = [rows EXCEPT ![r].wait = FALSE]
  BY DEF BackoffEnds
<1>2. Budgets
  BY <1>1, BudgetsKept
<1>3. /\ rows' \in [Row -> RowRecord]
      /\ \A q \in Row : rows'[q].st = rows[q].st /\ rows'[q].tries = rows[q].tries /\ rows'[q].c = rows[q].c
  BY <1>1 DEF OutboxInv, TablesOK, RowRecord
<1>4. TablesOK'
  BY <1>1, <1>3, StatusesSet DEF OutboxInv, TablesOK
<1> QED
  BY <1>1, <1>2, <1>3, <1>4, TargetSame, ThreadsSame, ProcessesSame DEF OutboxInv, Budgets

(* The operator's resolve and discard keep the invariant and take one row. *)
LEMMA OperatorKeeps ==
    ASSUME OutboxInv, NEW k \in Console, NEW r \in Row, Resolve(k, r) \/ Discard(k, r)
    PROVE  /\ OutboxInv' /\ Budgets /\ Happened("exit")' /\ UNCHANGED <<src, born, target, up, thr, del>>
           /\ up[k] # "dead" /\ LockFree(k)
           /\ \A q \in Row \ {r} : rows'[q] = rows[q]
           /\ rows'[r].st \in {"resolved", "none"}
           /\ closed' \subseteq closed \cup {r}
<1>1. /\ UNCHANGED <<src, born, target, up, thr, del>> /\ Spend("exit")
      /\ up[k] # "dead" /\ LockFree(k) /\ rows[r].st # "none"
      /\ closed' \subseteq closed \cup {r}
  BY DEF Resolve, Discard
<1>2. Budgets /\ Happened("exit")'
  BY <1>1, BudgetsKept, Spent DEF Trouble
<1>3. CASE Resolve(k, r)
  <2>1. /\ rows' \in [Row -> RowRecord] /\ \A q \in Row : rows'[q].c = rows[q].c
        /\ \A q \in Row \ {r} : rows'[q] = rows[q]
        /\ rows'[r].st = "resolved"
    <3>1. rows \in [Row -> RowRecord]
      BY DEF OutboxInv, TablesOK
    <3> DEFINE x == [rows[r] EXCEPT !.st = "resolved", !.wait = FALSE]
    <3>2. rows' = [rows EXCEPT ![r] = x]
      BY <1>3, <3>1 DEF Resolve
    <3>3. x \in RowRecord /\ x.c = rows[r].c /\ x.st = "resolved"
      BY <3>1 DEF RowRecord, Statuses
    <3> HIDE DEF x
    <3> QED
      BY <3>1, <3>2, <3>3
  <2>2. TablesOK'
    <3>1. \A q \in Row : rows'[q].st = "none" <=> rows[q].st = "none"
      BY <1>1, <2>1
    <3>2. /\ src' \in [st : {"draft", "published"}, c : Content] \cup {NoSource}
          /\ closed' \subseteq Row
      BY <1>1 DEF OutboxInv, TablesOK
    <3>3. \A q \in closed' : q \in closed \/ rows[q].st # "none"
      BY <1>1
    <3> QED
      BY <1>1, <2>1, <3>1, <3>2, <3>3, StatusesSet
  <2> QED
    BY <1>1, <1>2, <2>1, <2>2, TargetSame, ThreadsSame, ProcessesSame DEF OutboxInv, Budgets
<1>4. CASE Discard(k, r)
  <2>1. rows' = [rows EXCEPT ![r] = NoRow] /\ closed' = closed
    BY <1>4 DEF Discard
  <2>2. TablesOK'
    BY <1>1, <2>1, RowSet, EmptyRecords
  <2>3. (\A q \in Row \ {r} : rows'[q] = rows[q]) /\ rows'[r].st = "none"
    BY <2>1, EmptyRecords DEF OutboxInv, TablesOK
  <2> QED
    BY <1>1, <1>2, <2>2, <2>3, TargetSame, ThreadsSame, ProcessesSame DEF OutboxInv, Budgets
<1> QED
  BY <1>3, <1>4

-----------------------------------------------------------------------------
(* Deletions. *)
SetDelete(k, y) == del' = [del EXCEPT ![k] = y]

(* Replacing one deletion keeps the others. *)
LEMMA DeleteSet ==
    ASSUME OutboxInv, Budgets, NEW k \in Console, NEW y \in DeleteRecord, SetDelete(k, y),
           UNCHANGED <<up, thr>>, up[k] # "dead", Happened("delete")',
           y.pc \in {"purge", "commit", "restore"} => thr[k].pc \notin Acting
    PROVE  /\ ProcessesOK' /\ del'[k] = y /\ \A j \in Console \ {k} : del'[j] = del[j]
<1>1. /\ del' \in [Console -> DeleteRecord] /\ del'[k] = y
      /\ \A j \in Console \ {k} : del'[j] = del[j]
  BY DEF SetDelete, OutboxInv, ProcessesOK
<1>2. /\ Calm({"crash"})' => Calm({"crash"})
      /\ ~Calm({"delete"})'
  BY CalmBefore DEF Trouble, Calm
<1>3. ProcessesOK'
  BY <1>1, <1>2 DEF OutboxInv, ProcessesOK, Budgets, DeleteHasLock
<1> QED
  BY <1>1, <1>3

(* A console that deletes is up, and has the lock from the mark on. *)
LEMMA DeleterUp ==
    ASSUME OutboxInv, NEW k \in Console, del[k].pc # "none"
    PROVE  up[k] # "dead" /\ k \in left.consoles /\ Happened("delete")
<1>1. ~Calm({"delete"})
  BY DEF OutboxInv, ProcessesOK
<1> QED
  BY <1>1 DEF OutboxInv, ProcessesOK, Calm

(* The first step of a deletion keeps the invariant. *)
LEMMA DeleteReadKeeps ==
    ASSUME OutboxInv, NEW k \in Console, DeleteRead(k)
    PROVE  /\ OutboxInv' /\ Budgets /\ UNCHANGED <<db, target, up, thr, closed>>
           /\ del'[k].pc = "mark" /\ \A j \in Console \ {k} : del'[j] = del[j]
<1>1. /\ UNCHANGED <<db, target, up, thr, closed>> /\ Spend("delete") /\ up[k] # "dead"
      /\ del' = [del EXCEPT ![k].pc = "mark", ![k].prior = src.st]
  BY DEF DeleteRead
<1>2. Budgets /\ Happened("delete")'
  BY <1>1, BudgetsKept, Spent DEF Trouble
<1> DEFINE y == [del[k] EXCEPT !.pc = "mark", !.prior = src.st]
<1>3. del \in [Console -> DeleteRecord] /\ src.st \in {"none", "draft", "published"}
  BY DEF OutboxInv, ProcessesOK, TablesOK, NoSource
<1>4. SetDelete(k, y)
  BY <1>1, <1>3 DEF SetDelete
<1>5. y \in DeleteRecord /\ y.pc = "mark"
  BY <1>3 DEF DeleteRecord
<1> HIDE DEF y
<1>6. ProcessesOK' /\ del'[k] = y /\ \A j \in Console \ {k} : del'[j] = del[j]
  BY <1>1, <1>2, <1>4, <1>5, DeleteSet
<1> QED
  BY <1>1, <1>2, <1>5, <1>6, TablesSame, TargetSame, ThreadsSame DEF OutboxInv, Budgets

(* Marking the rows keeps the invariant and remembers their status. *)
LEMMA DeleteMarkKeeps ==
    ASSUME OutboxInv, NEW k \in Console, DeleteMark(k)
    PROVE  /\ OutboxInv' /\ Budgets /\ UNCHANGED <<src, born, target, up, thr, closed, left>>
           /\ LockFree(k) /\ up[k] # "dead"
           /\ del'[k].pc = "purge" /\ \A j \in Console \ {k} : del'[j] = del[j]
           /\ \A r \in Row : del'[k].snap[r] = IF rows[r].st = "deleting" THEN "none" ELSE rows[r].st
           /\ \A r \in Row : rows'[r].st \in {"none", "deleting"} /\ (rows'[r].st = "none" <=> rows[r].st = "none")
<1> DEFINE s == [r \in Row |-> IF rows[r].st = "deleting" THEN "none" ELSE rows[r].st]
           y == [del[k] EXCEPT !.pc = "purge", !.snap = s]
<1>1. /\ UNCHANGED <<src, born, target, up, thr, closed, left>> /\ del[k].pc = "mark" /\ LockFree(k)
      /\ del' = [del EXCEPT ![k].pc = "purge", ![k].snap = s]
      /\ rows' = [r \in Row |-> IF r \in Alive THEN [rows[r] EXCEPT !.st = "deleting"] ELSE rows[r]]
  BY DEF DeleteMark
<1>2. Budgets /\ up[k] # "dead" /\ Happened("delete")'
  BY <1>1, BudgetsKept, DeleterUp DEF Happened
<1>3. del \in [Console -> DeleteRecord] /\ rows \in [Row -> RowRecord]
  BY DEF OutboxInv, ProcessesOK, TablesOK
<1>4. s \in [Row -> Statuses]
  BY <1>3 DEF RowRecord, Statuses
<1>5. SetDelete(k, y)
  BY <1>1, <1>3 DEF SetDelete
<1> HIDE DEF s
<1>6. y \in DeleteRecord /\ y.pc = "purge" /\ y.snap = s
  BY <1>3, <1>4 DEF DeleteRecord
<1> HIDE DEF y
<1>7. ProcessesOK' /\ del'[k] = y /\ \A j \in Console \ {k} : del'[j] = del[j]
  BY <1>1, <1>2, <1>5, <1>6, DeleteSet DEF LockFree
<1>8. /\ rows' \in [Row -> RowRecord] /\ \A r \in Row : rows'[r].c = rows[r].c
      /\ \A r \in Row : rows'[r].st = IF r \in Alive THEN "deleting" ELSE rows[r].st
  BY <1>1, <1>3 DEF RowRecord, Statuses
<1>9. \A r \in Row : rows'[r].st \in {"none", "deleting"} /\ (rows'[r].st = "none" <=> rows[r].st = "none")
  BY <1>8 DEF Alive
<1>10. TablesOK'
  BY <1>1, <1>8, <1>9, StatusesSet DEF OutboxInv, TablesOK
<1>11. OutboxInv'
  BY <1>1, <1>2, <1>7, <1>10, TargetSame, ThreadsSame DEF OutboxInv, Budgets
<1>12. \A r \in Row : s[r] = IF rows[r].st = "deleting" THEN "none" ELSE rows[r].st
  BY DEF s
<1> QED
  BY <1>1, <1>2, <1>6, <1>7, <1>9, <1>11, <1>12

(* Purge, the transaction, and the restoration after it failed. *)
LEMMA DeleteStepKeeps ==
    ASSUME OutboxInv, NEW k \in Console, DeletePurge(k) \/ DeleteCommit(k) \/ DeleteRestore(k)
    PROVE  /\ OutboxInv' /\ Budgets /\ UNCHANGED <<born, up, thr, closed, lease, down>>
           /\ DeleteHasLock(k) /\ up[k] # "dead"
           /\ key' \in {key, NoContent}
           /\ DeleteHasLock(k)' => del'[k].snap = del[k].snap
           /\ \A j \in Console \ {k} : del'[j] = del[j]
           /\ \A r \in Row : \/ rows'[r] = rows[r] \/ rows'[r].st = "none"
                             \/ rows[r].st = "deleting" /\ rows'[r].st = Restored(k, r) /\ rows'[r].st # "none"
           /\ rows' = rows \/ del[k].pc \in {"commit", "restore"}
           /\ del[k].pc = "restore" => Alive' = Alive
           /\ del[k].pc \in {"commit", "restore"} => key' = key
<1>1. /\ UNCHANGED <<born, up, thr, closed>> /\ del[k].pc \in {"purge", "commit", "restore"}
      /\ left' = left \/ Spend("db") \/ Spend("restore")
  BY DEF DeletePurge, DeleteCommit, DeleteRestore, db
<1>2. Budgets /\ up[k] # "dead" /\ Happened("delete")'
  <2>1. Budgets
    BY <1>1, BudgetsKept DEF Trouble
  <2>2. up[k] # "dead" /\ Happened("delete")
    BY <1>1, DeleterUp
  <2> QED
    BY <2>1, <2>2 DEF Budgets, Trouble
<1>3. /\ del \in [Console -> DeleteRecord] /\ del[k] \in DeleteRecord /\ rows \in [Row -> RowRecord]
      /\ DeleteHasLock(k) /\ thr[k].pc \notin Acting
  BY <1>1 DEF OutboxInv, ProcessesOK, TablesOK, DeleteHasLock
<1>4. ASSUME NEW pc \in {"commit", "restore"}, del' = [del EXCEPT ![k].pc = pc]
      PROVE  /\ ProcessesOK' /\ del'[k].pc = pc /\ del'[k].snap = del[k].snap
             /\ \A j \in Console \ {k} : del'[j] = del[j]
  <2> DEFINE y == [del[k] EXCEPT !.pc = pc]
  <2>1. SetDelete(k, y)
    BY <1>3, <1>4 DEF SetDelete
  <2>2. y \in DeleteRecord /\ y.pc = pc /\ y.snap = del[k].snap
    BY <1>3 DEF DeleteRecord
  <2> HIDE DEF y
  <2> QED
    BY <1>1, <1>2, <1>3, <2>1, <2>2, DeleteSet
<1>5. ASSUME del' = [del EXCEPT ![k] = NoDelete]
      PROVE  ProcessesOK' /\ ~DeleteHasLock(k)' /\ \A j \in Console \ {k} : del'[j] = del[j]
  <2>1. ProcessesOK' /\ del'[k] = NoDelete /\ \A j \in Console \ {k} : del'[j] = del[j]
    BY <1>1, <1>2, <1>3, <1>5, DeleteSet, EmptyRecords DEF SetDelete
  <2> QED
    BY <2>1, EmptyRecords DEF DeleteHasLock
<1>6. CASE DeletePurge(k)
  <2>1. PurgeTarget /\ UNCHANGED db /\ del' = [del EXCEPT ![k].pc = "commit"] /\ del[k].pc = "purge"
    BY <1>6 DEF DeletePurge
  <2>2. TargetOK' /\ key' \in {key, NoContent} /\ UNCHANGED <<lease, down>>
    BY <1>2, <2>1, PurgedTarget
  <2>3. OutboxInv'
    BY <1>1, <1>2, <1>4, <2>1, <2>2, TablesSame, ThreadsSame DEF OutboxInv, Budgets
  <2> QED
    BY <1>1, <1>2, <1>3, <1>4, <2>1, <2>2, <2>3 DEF db
<1>7. CASE DeleteCommit(k)
  <2>1. UNCHANGED target /\ del[k].pc = "commit"
    BY <1>7 DEF DeleteCommit
  <2>2. CASE src' = NoSource /\ rows' = [r \in Row |-> NoRow] /\ del' = [del EXCEPT ![k] = NoDelete]
    <3>1. \A r \in Row : rows'[r] = NoRow
      BY <2>2
    <3>2. Alive' = {}
      BY <3>1, EmptyRecords DEF Alive
    <3>3. rows' \in [Row -> RowRecord]
      BY <2>2, EmptyRecords
    <3>4. TablesOK'
      BY <1>1, <2>2, <3>1, <3>2, <3>3, EmptyRecords DEF OutboxInv, TablesOK
    <3>5. OutboxInv'
      BY <1>1, <1>2, <1>5, <2>1, <2>2, <3>4, TargetSame, ThreadsSame DEF OutboxInv, Budgets
    <3> QED
      BY <1>1, <1>2, <1>3, <1>5, <2>1, <2>2, <3>1, <3>5, EmptyRecords DEF target
  <2>3. CASE UNCHANGED <<src, rows>> /\ del' = [del EXCEPT ![k].pc = "restore"]
    <3>1. OutboxInv'
      BY <1>1, <1>2, <1>4, <2>1, <2>3, TablesSame, TargetSame, ThreadsSame DEF OutboxInv, Budgets, db
    <3> QED
      BY <1>1, <1>2, <1>3, <1>4, <2>1, <2>3, <3>1 DEF target
  <2> QED
    BY <1>7, <2>2, <2>3 DEF DeleteCommit
<1>8. CASE DeleteRestore(k)
  <2>1. /\ UNCHANGED <<src, target>> /\ del[k].pc = "restore" /\ del' = [del EXCEPT ![k] = NoDelete]
        /\ \/ rows' = [r \in Row |-> IF rows[r].st = "deleting"
                                     THEN [rows[r] EXCEPT !.st = Restored(k, r)] ELSE rows[r]]
           \/ rows' = rows
    BY <1>8 DEF DeleteRestore
  <2>2. \A r \in Row : rows[r].st = "deleting" => Restored(k, r) \in Statuses \ {"none"}
    BY <1>3 DEF Restored, DeleteRecord, Statuses
  <2>3. /\ rows' \in [Row -> RowRecord] /\ \A r \in Row : rows'[r].c = rows[r].c
        /\ \A r \in Row : rows'[r] = rows[r] \/ (rows[r].st = "deleting" /\ rows'[r].st = Restored(k, r))
    BY <1>3, <2>1, <2>2 DEF RowRecord
  <2>4. \A r \in Row : rows'[r].st = "none" <=> rows[r].st = "none"
    BY <2>2, <2>3
  <2>5. TablesOK' /\ Alive' = Alive
    BY <1>1, <2>1, <2>3, <2>4, StatusesSet DEF OutboxInv, TablesOK
  <2>6. OutboxInv'
    BY <1>1, <1>2, <1>5, <2>1, <2>5, TargetSame, ThreadsSame DEF OutboxInv, Budgets
  <2> QED
    BY <1>1, <1>2, <1>3, <1>5, <2>1, <2>2, <2>3, <2>5, <2>6 DEF target
<1> QED
  BY <1>6, <1>7, <1>8

-----------------------------------------------------------------------------
(* Processes. *)

(* The crash of a console forgets its thread and its deletion. *)
LEMMA CrashKeeps ==
    ASSUME OutboxInv, NEW k \in Console, Crash(k)
    PROVE  /\ OutboxInv' /\ Budgets /\ Happened("crash")' /\ UNCHANGED <<db, target, closed>>
           /\ thr'[k] = Resting /\ del'[k] = NoDelete
           /\ \A j \in Console \ {k} : thr'[j] = thr[j] /\ del'[j] = del[j]
<1>1. /\ Spend("crash") /\ UNCHANGED <<db, target, closed>>
      /\ up' = [up EXCEPT ![k] = "dead"] /\ thr' = [thr EXCEPT ![k] = Resting]
      /\ del' = [del EXCEPT ![k] = NoDelete]
  BY DEF Crash
<1>2. Budgets /\ Happened("crash")'
  BY <1>1, BudgetsKept, Spent DEF Trouble
<1>3. ~Calm({"crash"})' /\ (Calm({"delete"})' => Calm({"delete"}))
  BY <1>2, CalmBefore DEF Trouble, Calm
<1>4. /\ thr' \in [Console -> ThreadRecord] /\ thr'[k] = Resting
      /\ \A j \in Console \ {k} : thr'[j] = thr[j]
  BY <1>1, EmptyRecords DEF OutboxInv, ThreadsOK
<1>5. /\ del' \in [Console -> DeleteRecord] /\ del'[k] = NoDelete
      /\ \A j \in Console \ {k} : del'[j] = del[j]
  BY <1>1, EmptyRecords DEF OutboxInv, ProcessesOK
<1>6. /\ up' \in [Console -> {"dead", "run", "idle"}] /\ up'[k] = "dead"
      /\ \A j \in Console \ {k} : up'[j] = up[j]
  BY <1>1 DEF OutboxInv, ProcessesOK
<1>7. ThreadsOK'
  BY <1>4, EmptyRecords DEF OutboxInv, ThreadsOK, ThreadOK, Acting
<1>8. ASSUME NEW j \in Console
      PROVE  /\ up'[j] = "dead" => thr'[j].pc = "rest" /\ del'[j].pc = "none"
             /\ up'[j] # "dead" => j \in left'.consoles
             /\ DeleteHasLock(j)' => thr'[j].pc \notin Acting
             /\ Calm({"delete"})' => del'[j].pc = "none"
  BY <1>2, <1>3, <1>4, <1>5, <1>6, EmptyRecords DEF OutboxInv, ProcessesOK, DeleteHasLock, Budgets
<1>9. ProcessesOK'
  BY <1>3, <1>5, <1>6, <1>8 DEF ProcessesOK
<1> QED
  BY <1>1, <1>2, <1>4, <1>5, <1>7, <1>9, TablesSame, TargetSame DEF OutboxInv, Budgets

(* The restart of a console changes rows marked for deletion only. *)
LEMMA RestartKeeps ==
    ASSUME OutboxInv, NEW k \in Console, Restart(k)
    PROVE  /\ OutboxInv' /\ Budgets /\ UNCHANGED <<src, born, target, thr, del, closed, left>>
           /\ ~Calm({"crash"})
           /\ OneConsole => \A j \in Console : thr[j].pc = "rest" /\ del[j].pc = "none"
           /\ Alive' = Alive
           /\ \A r \in Row : rows'[r] = rows[r] \/ rows[r].st = "deleting"
<1>1. /\ k \in left.consoles /\ up[k] = "dead" /\ UNCHANGED <<src, born, target, thr, del, closed, left>>
      /\ rows' = [r \in Row |-> Recovered(rows[r])]
      /\ up' = [up EXCEPT ![k] = IF down THEN "idle" ELSE "run"]
  BY DEF Restart
<1>2. Budgets
  BY <1>1, BudgetsKept
<1>3. ~Calm({"crash"}) /\ thr[k].pc = "rest" /\ del[k].pc = "none"
  BY <1>1 DEF OutboxInv, ProcessesOK
<1>4. OneConsole => \A j \in Console : thr[j].pc = "rest" /\ del[j].pc = "none"
  <2>1. \A j \in Console \ {k} : OneConsole => j \notin left.consoles
    BY <1>1, OnlyConsole
  <2> QED
    BY <1>3, <2>1 DEF OutboxInv, ProcessesOK
<1>5. /\ rows' \in [Row -> RowRecord]
      /\ \A r \in Row : /\ rows'[r].c = rows[r].c /\ (rows'[r].st = "none" <=> rows[r].st = "none")
                        /\ rows'[r] = rows[r] \/ rows[r].st = "deleting"
  <2>1. ASSUME NEW row \in RowRecord
        PROVE  /\ Recovered(row) \in RowRecord /\ Recovered(row).c = row.c
               /\ Recovered(row).st = "none" <=> row.st = "none"
               /\ Recovered(row) = row \/ row.st = "deleting"
    BY DEF RowRecord, Recovered, Statuses
  <2>2. /\ \A r \in Row : rows[r] \in RowRecord
        /\ \A r \in Row : rows'[r] = Recovered(rows[r])
    BY <1>1 DEF OutboxInv, TablesOK
  <2> QED
    BY <1>1, <2>1, <2>2
<1>6. TablesOK' /\ Alive' = Alive
  BY <1>1, <1>5, StatusesSet DEF OutboxInv, TablesOK
<1>7. ProcessesOK'
  <2>1. /\ up' \in [Console -> {"dead", "run", "idle"}] /\ up'[k] # "dead"
        /\ \A j \in Console \ {k} : up'[j] = up[j]
    BY <1>1 DEF OutboxInv, ProcessesOK
  <2>2. Calm({"crash"})' <=> Calm({"crash"})
    BY <1>1 DEF Calm, Happened
  <2>3. Calm({"delete"})' <=> Calm({"delete"})
    BY <1>1 DEF Calm, Happened
  <2> QED
    BY <1>1, <1>3, <2>1, <2>2, <2>3 DEF OutboxInv, ProcessesOK, DeleteHasLock
<1> QED
  BY <1>1, <1>2, <1>3, <1>4, <1>5, <1>6, <1>7, TargetSame, ThreadsSame DEF OutboxInv, Budgets

-----------------------------------------------------------------------------

(* The invariant holds at the start. *)
LEMMA OutboxInvInit == OutboxInit => OutboxInv
<1> SUFFICES ASSUME OutboxInit PROVE OutboxInv
  OBVIOUS
<1>1. PICK s \in Scenarios :
        /\ left = [consoles |-> s.consoles, batch |-> s.batch, ahead |-> s.ahead,
                   budget |-> s.budget, now |-> s.budget]
        /\ up = [k \in Console |-> IF k \in s.consoles THEN "run" ELSE "dead"]
  BY DEF OutboxInit
<1>2. s \in [consoles : SUBSET Console, batch : Nat \ {0}, ahead : Nat, budget : [Trouble -> Nat]]
  BY OutboxAssumption
<1>3. LeftOK
  BY <1>1, <1>2 DEF LeftOK
<1>4. TablesOK
  <2>1. rows \in [Row -> RowRecord] /\ \A r \in Row : rows[r] = NoRow
    BY EmptyRecords DEF OutboxInit
  <2> QED
    BY <2>1, EmptyRecords, OutboxConstants DEF OutboxInit, TablesOK, Alive
<1>5. TargetOK
  BY DEF OutboxInit, TargetOK
<1>6. ThreadsOK
  BY EmptyRecords DEF OutboxInit, ThreadsOK, ThreadOK, Acting
<1>7. ProcessesOK
  <2>1. up \in [Console -> {"dead", "run", "idle"}] /\ \A k \in Console : up[k] # "dead" <=> k \in left.consoles
    BY <1>1
  <2>2. /\ del \in [Console -> DeleteRecord] /\ \A k \in Console : del[k].pc = "none"
        /\ \A k \in Console : thr[k].pc = "rest"
    BY EmptyRecords DEF OutboxInit
  <2> QED
    BY <2>1, <2>2 DEF ProcessesOK, DeleteHasLock
<1> QED
  BY <1>3, <1>4, <1>5, <1>6, <1>7 DEF OutboxInv

(* Every step keeps the invariant and spends budgets only. *)
LEMMA OutboxInvNext == OutboxInv /\ [OutboxNext]_vars => OutboxInv' /\ Budgets
<1> SUFFICES ASSUME OutboxInv, [OutboxNext]_vars PROVE OutboxInv' /\ Budgets
  OBVIOUS
<1>1. ASSUME NEW k \in Console, DeleteStep(k) PROVE OutboxInv' /\ Budgets
  BY <1>1, DeleteMarkKeeps, DeleteStepKeeps DEF DeleteStep
<1>2. ASSUME NEW k \in Console, RowStep(k) \/ DeliveryCycle(k) \/ ReconcileCycle(k)
      PROVE  OutboxInv' /\ Budgets
  BY <1>2, ThreadWorks DEF Worked
<1>3. CASE UNCHANGED vars
  <2>1. Budgets
    BY <1>3, BudgetsKept DEF vars
  <2> QED
    BY <1>3, <2>1, TablesSame, TargetSame, ThreadsSame, ProcessesSame DEF vars, db, OutboxInv, Budgets
<1> QED
  BY <1>1, <1>2, <1>3, SourceKeeps, PublishKeeps, FaultKeeps, BackoffKeeps, OperatorKeeps,
     DeleteReadKeeps, CrashKeeps, RestartKeeps DEF OutboxNext

(* Type correctness of the outbox in its inductive form, with what the     *)
(* lock and the lives of the processes guarantee.                          *)
THEOREM OutboxInvariant == OutboxSpec => []OutboxInv
BY OutboxInvInit, OutboxInvNext, PTL DEF OutboxSpec

(* OutboxTypeOK: no two rows of the table ever have the same definition,   *)
(* which enqueue_publish and the drift branch of the reconciliation rely   *)
(* on, and a thread has a row exactly while it is at work.                 *)
THEOREM OutboxTypeCorrect == OutboxSpec => []OutboxTypeOK
<1>1. OutboxInv => OutboxTypeOK
  <2> SUFFICES ASSUME OutboxInv PROVE OutboxTypeOK
    OBVIOUS
  <2>1. \A k \in Console : /\ thr[k].pc \in Acting \cup {"rest", "next", "reload", "release"}
                           /\ thr[k].pc = "rest" <=> thr[k].todo = {}
                           /\ del[k].pc \in {"none", "mark", "purge", "commit", "restore"}
    BY DEF OutboxInv, ThreadsOK, ThreadOK, ThreadRecord, ThreadPc, ProcessesOK, DeleteRecord
  <2> QED
    BY <2>1 DEF OutboxInv, OutboxTypeOK, TablesOK, TargetOK, ProcessesOK, RowRecord
<1> QED
  BY <1>1, OutboxInvariant, PTL

-----------------------------------------------------------------------------
(* While the target answers and every row is done with in time, a thread   *)
(* has the lease of the row it is at.                                      *)
LeaseInv ==
    Calm({"slow", "down"}) =>
        \A k \in Console : thr[k].pc \notin {"rest", "next"} => thr[k].held /\ lease[Cur(k)] = k

(* What a thread acts on has not changed since it was reloaded, unless     *)
(* replicas delete, operators interfere, or leases are lost.               *)
Undisturbed == OneConsole \/ Calm({"delete", "exit", "slow", "down"})
Faithful(k) ==
    /\ rows[Cur(k)].st # "none"
    /\ thr[k].job = "deliver" =>
          rows[Cur(k)].st = thr[k].row.st /\ rows[Cur(k)].tries = thr[k].row.tries
WorkInv == Undisturbed => \A k \in Console : thr[k].pc \in Acting => Faithful(k)

(* A single console is the only one that does anything. *)
LEMMA SoleActor ==
    ASSUME OutboxInv, OneConsole, NEW j \in Console, NEW k \in Console, up[k] # "dead",
           thr[j].pc # "rest" \/ del[j].pc # "none"
    PROVE  j = k
BY OnlyConsole DEF OutboxInv, ProcessesOK

(* What is undisturbed after a step was so before it. *)
LEMMA UndisturbedBefore == Budgets /\ Undisturbed' => Undisturbed
<1>1. {"delete", "exit", "slow", "down"} \in SUBSET Trouble
  BY DEF Trouble
<1> QED
  BY <1>1, CalmBefore, OneConsoleBefore DEF Undisturbed

(* The lease's invariant holds at the start. *)
LEMMA LeaseInvInit == OutboxInit => LeaseInv
BY EmptyRecords DEF OutboxInit, LeaseInv

(* Every step keeps the lease's invariant. *)
LEMMA LeaseInvNext == OutboxInv /\ LeaseInv /\ [OutboxNext]_vars => LeaseInv'
<1> SUFFICES ASSUME OutboxInv, LeaseInv, [OutboxNext]_vars, Calm({"slow", "down"})',
                    NEW j \in Console, thr'[j].pc \notin {"rest", "next"}
             PROVE  thr'[j].held /\ lease'[Cur(j)'] = j
  BY DEF LeaseInv
<1>1. OutboxInv' /\ Budgets
  BY OutboxInvNext
<1>2. Calm({"slow", "down"}) /\ ~down /\ lease \in [Row -> Console \cup {Nobody}]
  <2>1. Calm({"slow", "down"})
    BY <1>1, CalmBefore DEF Trouble
  <2> QED
    BY <2>1 DEF Calm, OutboxInv, TargetOK
<1>3. \A i \in Console : /\ thr[i].pc \notin {"rest", "next"} => thr[i].held /\ lease[Cur(i)] = i
                         /\ thr[i].pc # "rest" => Cur(i) \in Row
  BY <1>2, CurIsNext DEF LeaseInv
<1>4. CASE UNCHANGED <<thr, lease>>
  BY <1>3, <1>4, CurIsLeast
<1>5. ASSUME NEW r \in Row, LeaseExpires(r) PROVE thr'[j].held /\ lease'[Cur(j)'] = j
  <2>1. UNCHANGED thr /\ lease' = [lease EXCEPT ![r] = Nobody]
    BY <1>5 DEF LeaseExpires
  <2>2. thr[j].held /\ lease[Cur(j)] = j /\ Cur(j)' = Cur(j) /\ Cur(j) \in Row
    BY <1>3, <2>1, CurIsLeast
  <2>3. ~Spend("slow")
    BY Spent DEF Trouble, Calm
  <2>4. Cur(j) # r
    BY <1>5, <2>2, <2>3 DEF LeaseExpires, LeaseHolderAtWork
  <2> QED
    BY <1>2, <2>1, <2>2, <2>4
<1>6. ASSUME NEW k \in Console, Crash(k) PROVE thr'[j].held /\ lease'[Cur(j)'] = j
  <2>1. /\ UNCHANGED target /\ thr'[k] = Resting /\ \A i \in Console \ {k} : thr'[i] = thr[i]
    BY <1>6, CrashKeeps
  <2> QED
    BY <1>3, <2>1, CurIsLeast, EmptyRecords DEF target
<1>7. ASSUME NEW k \in Console, TakeLease(k) PROVE thr'[j].held /\ lease'[Cur(j)'] = j
  <2>1. /\ Worked(k) /\ thr[k].pc = "next"
        /\ \/ thr'[k].pc \in {"rest", "next"} /\ lease' = lease
           \/ thr'[k].held /\ lease[Cur(k)] = Nobody /\ lease' = [lease EXCEPT ![Cur(k)] = k]
    BY <1>2, <1>7, TakeLeaseWorked
  <2>2. CASE j = k
    BY <1>2, <1>3, <2>1, <2>2 DEF Worked
  <2>3. CASE j # k
    <3>1. thr'[j] = thr[j] /\ Cur(j)' = Cur(j)
      BY <2>1, <2>3, CurIsLeast DEF Worked
    <3>2. thr[j].held /\ lease[Cur(j)] = j /\ Cur(j) \in Row
      BY <1>3, <3>1
    <3> QED
      BY <1>2, <2>1, <3>1, <3>2, OutboxConstants
  <2> QED
    BY <2>2, <2>3
<1>8. ASSUME NEW k \in Console, ReleaseLease(k) PROVE thr'[j].held /\ lease'[Cur(j)'] = j
  <2>1. /\ Worked(k) /\ thr'[k].pc \in {"rest", "next"}
        /\ lease' = lease \/ (lease[Cur(k)] = k /\ lease' = [lease EXCEPT ![Cur(k)] = Nobody])
    BY <1>8, ReleaseWorked
  <2>2. j # k /\ thr'[j] = thr[j] /\ Cur(j)' = Cur(j)
    BY <2>1, CurIsLeast DEF Worked
  <2>3. thr[j].held /\ lease[Cur(j)] = j /\ Cur(j) \in Row
    BY <1>3, <2>2
  <2> QED
    BY <1>2, <2>1, <2>2, <2>3
<1>9. ASSUME NEW k \in Console, RowStep(k) \/ DeliveryCycle(k) \/ ReconcileCycle(k),
             ~TakeLease(k), ~ReleaseLease(k)
      PROVE  thr'[j].held /\ lease'[Cur(j)'] = j
  <2>1. Worked(k)
    BY <1>9, ThreadWorks
  <2>2. thr[k].pc \notin {"next", "release"}
    BY <1>9 DEF RowStep, DeliveryCycle, ReconcileCycle, Begin, Reload, Write, Verify, Book,
       CheckSource, CheckTarget, PurgeOrphan, DropOrphan, At
  <2>3. lease' = lease
    BY <2>1, <2>2 DEF Worked
  <2>4. CASE j = k
    BY <1>3, <2>1, <2>2, <2>3, <2>4 DEF Worked
  <2>5. CASE j # k
    BY <1>3, <2>1, <2>3, <2>5, CurIsLeast DEF Worked
  <2> QED
    BY <2>4, <2>5
<1>10. CASE UNCHANGED vars
  BY <1>4, <1>10 DEF vars, target
<1>11. CASE \/ \E c \in Content : SaveDraft(c) \/ SourceEdited(c)
            \/ Publish \/ SourceRemoved \/ TargetDown \/ TargetUp \/ TargetLosesKeys
  BY <1>4, <1>11 DEF SaveDraft, SourceEdited, Publish, SourceRemoved, TargetDown, TargetUp,
     TargetLosesKeys, target
<1>12. ASSUME NEW r \in Row, BackoffEnds(r) PROVE thr'[j].held /\ lease'[Cur(j)'] = j
  BY <1>4, <1>12 DEF BackoffEnds, target
<1>13. ASSUME NEW k \in Console, \/ DeleteRead(k) \/ DeleteStep(k) \/ Restart(k)
                                 \/ \E r \in Row : Resolve(k, r) \/ Discard(k, r)
       PROVE  thr'[j].held /\ lease'[Cur(j)'] = j
  BY <1>4, <1>13 DEF DeleteRead, DeleteStep, DeleteMark, DeletePurge, DeleteCommit, DeleteRestore,
     PurgeTarget, Restart, Resolve, Discard, target
<1> QED
  BY <1>5, <1>6, <1>7, <1>8, <1>9, <1>10, <1>11, <1>12, <1>13 DEF OutboxNext

-----------------------------------------------------------------------------

(* The invariant on the row at work holds at the start. *)
LEMMA WorkInvInit == OutboxInit => WorkInv
BY EmptyRecords DEF OutboxInit, WorkInv, Acting

(* Every step keeps the invariant on the row at work. *)
LEMMA WorkInvNext == OutboxInv /\ LeaseInv /\ WorkInv /\ [OutboxNext]_vars => WorkInv'
<1> SUFFICES ASSUME OutboxInv, LeaseInv, WorkInv, [OutboxNext]_vars, Undisturbed',
                    NEW j \in Console, thr'[j].pc \in Acting
             PROVE  Faithful(j)'
  BY DEF WorkInv
<1>1. Budgets /\ Undisturbed
  BY OutboxInvNext, UndisturbedBefore
<1>2. \A i \in Console : thr[i].pc \in Acting =>
          Faithful(i) /\ thr[i].pc # "rest" /\ Cur(i) \in Row /\ up[i] # "dead"
  <2>1. \A i \in Console : thr[i].pc \in Acting => thr[i].pc # "rest"
    BY DEF Acting
  <2> QED
    BY <1>1, <2>1, CurIsNext DEF WorkInv, OutboxInv, ProcessesOK
<1>3. ASSUME thr'[j] = thr[j],
             /\ rows'[Cur(j)].st = rows[Cur(j)].st /\ rows'[Cur(j)].tries = rows[Cur(j)].tries
      PROVE  Faithful(j)'
  BY <1>2, <1>3, CurIsLeast DEF Faithful
<1>4. Happened("exit")' \/ Happened("delete") => OneConsole
  BY <1>1, OneConsoleBefore DEF Undisturbed, Calm, Budgets, Trouble
<1>5. ASSUME NEW k \in Console, Worked(k) PROVE Faithful(j)'
  <2>1. CASE j = k
    <3>1. rows' = rows /\ Cur(k)' = Cur(k) /\ thr'[k].job = thr[k].job
      BY <1>5, <2>1 DEF Worked, Acting
    <3>2. CASE thr[k].pc \in Acting /\ thr'[k].row = thr[k].row
      BY <1>2, <2>1, <3>1, <3>2 DEF Faithful
    <3>3. CASE thr'[k].row = rows[Cur(k)] /\ rows[Cur(k)].st \in {"pending", "failed", "delivered"}
      BY <2>1, <3>1, <3>3 DEF Faithful
    <3> QED
      BY <1>5, <2>1, <3>2, <3>3 DEF Worked
  <2>2. CASE j # k
    <3>1. thr'[j] = thr[j] /\ thr[j].pc \in Acting
      BY <1>5, <2>2 DEF Worked
    <3>2. thr[k].pc \in Acting => Cur(j) # Cur(k)
      <4>1. up[k] # "dead" /\ ~OneConsole
        BY <1>2, <1>5, <2>2, <3>1, SoleActor DEF Worked
      <4>2. Calm({"slow", "down"})
        BY <1>1, <4>1 DEF Undisturbed, Calm
      <4> QED
        BY <2>2, <3>1, <4>2 DEF LeaseInv, Acting
    <3>3. rows'[Cur(j)] = rows[Cur(j)]
      <4>1. Cur(j) \in Row /\ rows \in [Row -> RowRecord]
        BY <1>2, <3>1 DEF OutboxInv, TablesOK
      <4> QED
        BY <1>5, <3>2, <4>1 DEF Worked
    <3> QED
      BY <1>3, <3>1, <3>3
  <2> QED
    BY <2>1, <2>2
<1>6. CASE UNCHANGED <<rows, thr>>
  BY <1>3, <1>6
<1>7. CASE Publish
  BY <1>2, <1>3, <1>7, PublishKeeps DEF Faithful
<1>8. ASSUME NEW r \in Row, BackoffEnds(r) PROVE Faithful(j)'
  BY <1>2, <1>3, <1>8, BackoffKeeps
<1>9. ASSUME NEW k \in Console, NEW r \in Row, Resolve(k, r) \/ Discard(k, r) PROVE FALSE
  BY <1>2, <1>4, <1>9, OperatorKeeps, SoleActor DEF LockFree
<1>10. ASSUME NEW k \in Console, DeleteMark(k) PROVE FALSE
  <2>1. LockFree(k) /\ up[k] # "dead" /\ thr' = thr
    BY <1>10, DeleteMarkKeeps
  <2>2. OneConsole
    BY <1>4, <1>10, DeleterUp DEF DeleteMark
  <2> QED
    BY <1>2, <2>1, <2>2, SoleActor DEF LockFree
<1>11. ASSUME NEW k \in Console, DeletePurge(k) \/ DeleteCommit(k) \/ DeleteRestore(k) PROVE FALSE
  <2>1. DeleteHasLock(k) /\ up[k] # "dead" /\ thr' = thr /\ thr[k].pc \notin Acting
    BY <1>11, DeleteStepKeeps DEF OutboxInv, ProcessesOK
  <2>2. OneConsole
    BY <1>4, <2>1, DeleterUp DEF DeleteHasLock
  <2> QED
    BY <1>2, <2>1, <2>2, SoleActor
<1>12. ASSUME NEW k \in Console, Crash(k) PROVE Faithful(j)'
  <2>1. /\ UNCHANGED db /\ thr'[k] = Resting /\ \A i \in Console \ {k} : thr'[i] = thr[i]
    BY <1>12, CrashKeeps
  <2> QED
    BY <1>3, <2>1, EmptyRecords DEF db, Acting
<1>13. ASSUME NEW k \in Console, Restart(k) PROVE Faithful(j)'
  <2>1. /\ thr' = thr /\ Alive' = Alive /\ \A r \in Row : rows'[r] = rows[r] \/ rows[r].st = "deleting"
    BY <1>13, RestartKeeps
  <2>2. Cur(j) \in Row /\ Faithful(j) /\ Cur(j)' = Cur(j) /\ ThreadOK(thr[j])
    BY <1>2, <2>1, CurIsLeast DEF OutboxInv, ThreadsOK
  <2>3. rows'[Cur(j)].st # "none"
    BY <2>1, <2>2 DEF Alive, Faithful
  <2>4. thr[j].job = "deliver" => rows'[Cur(j)] = rows[Cur(j)]
    BY <2>1, <2>2 DEF Faithful, ThreadOK
  <2> QED
    BY <2>1, <2>2, <2>3, <2>4 DEF Faithful
<1>14. CASE UNCHANGED vars
  BY <1>6, <1>14 DEF vars, db
<1>15. CASE \/ \E c \in Content : SaveDraft(c) \/ SourceEdited(c)
            \/ SourceRemoved \/ TargetDown \/ TargetUp \/ TargetLosesKeys
  BY <1>6, <1>15, SourceKeeps, FaultKeeps DEF db
<1>16. ASSUME NEW r \in Row, LeaseExpires(r) PROVE Faithful(j)'
  BY <1>6, <1>16, FaultKeeps DEF db
<1>17. ASSUME NEW k \in Console, DeleteRead(k) PROVE Faithful(j)'
  BY <1>6, <1>17, DeleteReadKeeps DEF db
<1> QED
  BY <1>5, <1>7, <1>8, <1>9, <1>10, <1>11, <1>12, <1>13, <1>14, <1>15, <1>16, <1>17, ThreadWorks
     DEF OutboxNext, DeleteStep

(* SingleWriter, for any number of consoles: the count of attempts and the *)
(* status of a row under delivery are those the thread has read, so none   *)
(* is lost (#324), as long as leases are kept and, among replicas, nobody  *)
(* deletes and no operator interferes.                                     *)
THEOREM OutboxSingleWriter == OutboxSpec => []SingleWriter
<1>1. OutboxInit => OutboxInv /\ LeaseInv /\ WorkInv
  BY OutboxInvInit, LeaseInvInit, WorkInvInit
<1>2. OutboxInv /\ LeaseInv /\ WorkInv /\ [OutboxNext]_vars => (OutboxInv /\ LeaseInv /\ WorkInv)'
  BY OutboxInvNext, LeaseInvNext, WorkInvNext
<1>3. WorkInv => SingleWriter
  BY DEF WorkInv, Undisturbed, Faithful, SingleWriter, Calm
<1> QED
  BY <1>1, <1>2, <1>3, PTL DEF OutboxSpec

-----------------------------------------------------------------------------
(* One console that does not crash: a closed row is not due, no thread     *)
(* acts on it, and no deletion remembers it as due.                        *)
ClosedInv ==
    Calm({"crash"}) /\ OneConsole =>
        /\ \A r \in closed : rows[r].st \in {"resolved", "deleting", "none"}
        /\ \A k \in Console : thr[k].pc \in Acting => Cur(k) \notin closed
        /\ \A k \in Console : DeleteHasLock(k) =>
              \A r \in closed : del[k].snap[r] \in {"resolved", "none"}

(* The invariant on closed rows holds at the start. *)
LEMMA ClosedInvInit == OutboxInit => ClosedInv
BY DEF OutboxInit, ClosedInv, Resting, NoDelete, Acting, DeleteHasLock

(* Every step keeps the invariant on closed rows. *)
LEMMA ClosedInvNext == OutboxInv /\ ClosedInv /\ [OutboxNext]_vars => ClosedInv'
<1> DEFINE Final == /\ \A r \in closed' : rows'[r].st \in {"resolved", "deleting", "none"}
                    /\ \A k \in Console : thr'[k].pc \in Acting => Cur(k)' \notin closed'
                    /\ \A k \in Console : DeleteHasLock(k)' =>
                          \A r \in closed' : del'[k].snap[r] \in {"resolved", "none"}
<1> SUFFICES ASSUME OutboxInv, ClosedInv, [OutboxNext]_vars, Calm({"crash"})', OneConsole'
             PROVE  Final
  BY DEF ClosedInv
<1>1. Budgets /\ OneConsole /\ Calm({"crash"}) /\ ~Happened("crash")'
  BY OutboxInvNext, OneConsoleBefore, CalmBefore DEF Trouble, Calm
<1>2. /\ \A r \in closed : r \in Row /\ rows[r].st \in {"resolved", "deleting", "none"}
      /\ \A k \in Console : thr[k].pc \in Acting => Cur(k) \notin closed
      /\ \A k \in Console : DeleteHasLock(k) =>
            \A r \in closed : del[k].snap[r] \in {"resolved", "none"}
  BY <1>1 DEF ClosedInv, OutboxInv, TablesOK
<1>3. ASSUME UNCHANGED <<thr, del, closed>>, \A r \in closed : rows'[r].st = rows[r].st
      PROVE  Final
  BY <1>2, <1>3, CurIsLeast DEF DeleteHasLock
<1>4. ASSUME NEW k \in Console, LockFree(k), up[k] # "dead"
      PROVE  \A i \in Console : thr[i].pc \notin Acting /\ ~DeleteHasLock(i)
  BY <1>1, <1>4, SoleActor DEF LockFree, DeleteHasLock, Acting
<1>5. ASSUME NEW k \in Console, Worked(k) PROVE Final
  <2>1. UNCHANGED <<del, closed>> /\ (\A i \in Console \ {k} : thr'[i] = thr[i]) /\ rows \in [Row -> RowRecord]
    BY <1>5 DEF Worked, OutboxInv, TablesOK
  <2>2. \A r \in closed : rows'[r] = rows[r]
    BY <1>2, <1>5, <2>1 DEF Worked
  <2>3. thr'[k].pc \in Acting => Cur(k)' \notin closed
    <3> HAVE thr'[k].pc \in Acting
    <3>1. Cur(k)' = Cur(k)
      BY <1>5 DEF Worked, Acting
    <3>2. thr[k].pc \in Acting \/ rows[Cur(k)].st \in {"pending", "failed", "delivered"}
      BY <1>5 DEF Worked
    <3> QED
      BY <1>2, <3>1, <3>2
  <2>4. \A i \in Console \ {k} : thr'[i].pc \in Acting => Cur(i)' \notin closed
    BY <1>2, <2>1, CurIsLeast
  <2> QED
    BY <1>2, <2>1, <2>2, <2>3, <2>4 DEF DeleteHasLock
<1>6. CASE Publish
  BY <1>2, <1>3, <1>6, PublishKeeps
<1>7. ASSUME NEW r \in Row, BackoffEnds(r) PROVE Final
  BY <1>2, <1>3, <1>7, BackoffKeeps
<1>8. ASSUME NEW k \in Console, NEW r \in Row, Resolve(k, r) \/ Discard(k, r) PROVE Final
  <2>1. /\ UNCHANGED <<thr, del>> /\ up[k] # "dead" /\ LockFree(k)
        /\ \A q \in Row \ {r} : rows'[q] = rows[q]
        /\ rows'[r].st \in {"resolved", "none"} /\ closed' \subseteq closed \cup {r}
    BY <1>8, OperatorKeeps
  <2> QED
    BY <1>2, <1>4, <2>1 DEF DeleteHasLock
<1>9. ASSUME NEW k \in Console, DeleteRead(k) PROVE Final
  <2>1. /\ UNCHANGED <<rows, thr, closed>> /\ del'[k].pc = "mark"
        /\ \A i \in Console \ {k} : del'[i] = del[i]
    BY <1>9, DeleteReadKeeps DEF db
  <2> QED
    BY <1>2, <2>1, CurIsLeast DEF DeleteHasLock
<1>10. ASSUME NEW k \in Console, DeleteMark(k) PROVE Final
  <2>1. /\ UNCHANGED <<thr, closed>> /\ LockFree(k) /\ up[k] # "dead"
        /\ \A i \in Console \ {k} : del'[i] = del[i]
        /\ \A r \in Row : del'[k].snap[r] = IF rows[r].st = "deleting" THEN "none" ELSE rows[r].st
        /\ \A r \in Row : rows'[r].st \in {"none", "deleting"}
    BY <1>10, DeleteMarkKeeps
  <2>2. \A i \in Console : thr[i].pc \notin Acting /\ ~DeleteHasLock(i)
    BY <1>4, <2>1
  <2>3. \A r \in closed : del'[k].snap[r] \in {"resolved", "none"}
    BY <1>2, <2>1
  <2> QED
    BY <1>2, <2>1, <2>2, <2>3 DEF DeleteHasLock
<1>11. ASSUME NEW k \in Console, DeletePurge(k) \/ DeleteCommit(k) \/ DeleteRestore(k) PROVE Final
  <2>1. /\ UNCHANGED <<thr, closed>> /\ DeleteHasLock(k)
        /\ DeleteHasLock(k)' => del'[k].snap = del[k].snap
        /\ \A i \in Console \ {k} : del'[i] = del[i]
        /\ \A r \in Row : \/ rows'[r] = rows[r] \/ rows'[r].st = "none"
                          \/ rows[r].st = "deleting" /\ rows'[r].st = Restored(k, r)
    BY <1>11, DeleteStepKeeps
  <2>2. \A r \in closed : rows'[r].st \in {"resolved", "deleting", "none"}
    BY <1>2, <2>1 DEF Restored
  <2>3. \A i \in Console : thr'[i].pc \in Acting => Cur(i)' \notin closed'
    BY <1>2, <2>1, CurIsLeast
  <2>4. \A i \in Console : DeleteHasLock(i)' => \A r \in closed' : del'[i].snap[r] \in {"resolved", "none"}
    <3>1. \A i \in Console \ {k} : DeleteHasLock(i)' => DeleteHasLock(i)
      BY <2>1 DEF DeleteHasLock
    <3> QED
      BY <1>2, <2>1, <3>1
  <2> QED
    BY <2>1, <2>2, <2>3, <2>4
<1>12. ASSUME NEW k \in Console, Crash(k) \/ Restart(k) PROVE FALSE
  BY <1>1, <1>12, CrashKeeps, RestartKeeps
<1>13. CASE UNCHANGED vars
  BY <1>3, <1>13 DEF vars, db
<1>14. CASE \/ \E c \in Content : SaveDraft(c) \/ SourceEdited(c)
            \/ SourceRemoved \/ TargetDown \/ TargetUp \/ TargetLosesKeys
  BY <1>3, <1>14, SourceKeeps, FaultKeeps DEF db
<1>15. ASSUME NEW r \in Row, LeaseExpires(r) PROVE Final
  BY <1>3, <1>15, FaultKeeps DEF db
<1> QED
  BY <1>5, <1>6, <1>7, <1>8, <1>9, <1>10, <1>11, <1>12, <1>13, <1>14, <1>15, ThreadWorks
     DEF OutboxNext, DeleteStep

(* ClosedStaysClosed: no interleaving of deliveries, reconciliations and   *)
(* deletions that fail makes a row due again that an operator has resolved *)
(* (A2R50-02), in a console that does not crash.                           *)
THEOREM OutboxClosedStaysClosed == OutboxSpec => []ClosedStaysClosed
<1>1. OutboxInit => OutboxInv /\ ClosedInv
  BY OutboxInvInit, ClosedInvInit
<1>2. OutboxInv /\ ClosedInv /\ [OutboxNext]_vars => (OutboxInv /\ ClosedInv)'
  BY OutboxInvNext, ClosedInvNext
<1>3. ClosedInv => ClosedStaysClosed
  BY DEF ClosedInv, ClosedStaysClosed
<1> QED
  BY <1>1, <1>2, <1>3, PTL DEF OutboxSpec

-----------------------------------------------------------------------------
(* Without a failure in the middle of a delivery, a key is registered, so  *)
(* that a purge finds it.                                                  *)
RegisteredInv == Calm({"partial"}) => (key # NoContent => listed)

(* One console with a target that does not fail: what a deletion has       *)
(* purged stays away until the transaction.                                *)
PurgedInv ==
    OneConsole /\ Calm({"down", "partial"}) =>
        \A k \in Console : del[k].pc = "commit" => key = NoContent

(* The promise of NoGhost, whether or not the version is published. *)
Promised ==
    /\ Calm({"exit"})
    /\ Calm({"delete"}) \/ (OneConsole /\ Calm({"down", "partial"}))
    /\ OneConsole \/ Calm({"slow", "down"})
GhostInv == RegisteredInv /\ PurgedInv /\ (Promised => (key # NoContent => Alive # {}))

(* What a step can do to the key. *)
LEMMA KeySteps ==
    ASSUME OutboxInv, [OutboxNext]_vars
    PROVE  \/ UNCHANGED <<key, listed>>
           \/ key' = NoContent
           \/ PurgeTarget
           \/ \E k \in Console : Worked(k) /\ thr[k].pc = "write" /\ (listed' \/ Happened("partial")')
<1>1. ASSUME NEW k \in Console, Write(k), ~UNCHANGED <<key, listed>>
      PROVE  Worked(k) /\ thr[k].pc = "write" /\ (listed' \/ Happened("partial")')
  <2>1. thr[k].pc = "write" /\ (listed' = TRUE \/ Spend("partial"))
    BY <1>1 DEF Write, At
  <2> QED
    BY <1>1, <2>1, WriteWorked, Spent DEF Trouble
<1>2. ASSUME NEW k \in Console, RowStep(k), ~Write(k) PROVE UNCHANGED <<key, listed>> \/ PurgeTarget
  BY <1>2 DEF RowStep, TakeLease, Reload, Verify, Book, CheckSource, CheckTarget, PurgeOrphan,
     DropOrphan, ReleaseLease, target
<1>3. ASSUME NEW k \in Console, DeliveryCycle(k) \/ ReconcileCycle(k) PROVE UNCHANGED <<key, listed>>
  BY <1>3 DEF DeliveryCycle, ReconcileCycle, Begin, target
<1>4. ASSUME NEW k \in Console,
             \/ DeleteRead(k) \/ DeleteStep(k) \/ Crash(k) \/ Restart(k)
             \/ \E r \in Row : Resolve(k, r) \/ Discard(k, r)
      PROVE  UNCHANGED <<key, listed>> \/ PurgeTarget
  BY <1>4 DEF DeleteRead, DeleteStep, DeleteMark, DeletePurge, DeleteCommit, DeleteRestore,
     Crash, Restart, Resolve, Discard, target
<1>5. ASSUME NEW r \in Row, LeaseExpires(r) \/ BackoffEnds(r) PROVE UNCHANGED <<key, listed>>
  BY <1>5 DEF LeaseExpires, BackoffEnds, target
<1>6. CASE \/ \E c \in Content : SaveDraft(c) \/ SourceEdited(c)
           \/ Publish \/ SourceRemoved \/ TargetDown \/ TargetUp \/ TargetLosesKeys
  BY <1>6 DEF SaveDraft, SourceEdited, Publish, SourceRemoved, TargetDown, TargetUp,
     TargetLosesKeys, target
<1>7. CASE UNCHANGED vars
  BY <1>7 DEF vars, target
<1> QED
  BY <1>1, <1>2, <1>3, <1>4, <1>5, <1>6, <1>7 DEF OutboxNext

(* Every step keeps the part of the ghost's invariant on registered keys. *)
LEMMA RegisteredNext ==
    ASSUME OutboxInv, RegisteredInv, [OutboxNext]_vars
    PROVE  RegisteredInv'
<1> SUFFICES ASSUME Calm({"partial"})' PROVE key' # NoContent => listed'
  BY DEF RegisteredInv
<1>1. Calm({"partial"}) /\ ~Happened("partial")'
  BY OutboxInvNext, CalmBefore DEF Trouble, Calm
<1>2. key # NoContent => listed
  BY <1>1 DEF RegisteredInv
<1>3. CASE PurgeTarget
  BY <1>2, <1>3 DEF PurgeTarget
<1> QED
  BY <1>1, <1>2, <1>3, KeySteps

(* Which step starts the transaction of a deletion. *)
LEMMA CommitSteps ==
    ASSUME OutboxInv, [OutboxNext]_vars, NEW k \in Console, del'[k].pc = "commit"
    PROVE  del[k].pc = "commit" \/ DeletePurge(k)
<1> SUFFICES ASSUME ~DeletePurge(k) PROVE del[k].pc = "commit"
  OBVIOUS
<1>1. CASE del' = del
  BY <1>1
<1>2. ASSUME NEW j \in Console, DeleteRead(j) PROVE del[k].pc = "commit"
  BY <1>2, DeleteReadKeeps
<1>3. ASSUME NEW j \in Console, DeleteMark(j) PROVE del[k].pc = "commit"
  BY <1>3, DeleteMarkKeeps
<1>4. ASSUME NEW j \in Console, DeletePurge(j) PROVE del[k].pc = "commit"
  BY <1>4, DeleteStepKeeps
<1>5. ASSUME NEW j \in Console, DeleteCommit(j) \/ DeleteRestore(j) PROVE del[k].pc = "commit"
  <2>1. \A i \in Console \ {j} : del'[i] = del[i]
    BY <1>5, DeleteStepKeeps
  <2>2. del'[j].pc # "commit"
    BY <1>5, EmptyRecords DEF DeleteCommit, DeleteRestore, OutboxInv, ProcessesOK, DeleteRecord
  <2> QED
    BY <2>1, <2>2
<1>6. ASSUME NEW j \in Console, Crash(j) PROVE del[k].pc = "commit"
  BY <1>6, CrashKeeps, EmptyRecords
<1>7. ASSUME NEW j \in Console, RowStep(j) \/ DeliveryCycle(j) \/ ReconcileCycle(j) PROVE del' = del
  BY <1>7, ThreadWorks DEF Worked
<1>8. ASSUME NEW j \in Console, Restart(j) \/ \E r \in Row : Resolve(j, r) \/ Discard(j, r)
      PROVE  del' = del
  BY <1>8, RestartKeeps, OperatorKeeps
<1>9. ASSUME NEW r \in Row, LeaseExpires(r) \/ BackoffEnds(r) PROVE del' = del
  BY <1>9, FaultKeeps, BackoffKeeps
<1>10. CASE \/ \E c \in Content : SaveDraft(c) \/ SourceEdited(c)
            \/ Publish \/ SourceRemoved \/ TargetDown \/ TargetUp \/ TargetLosesKeys
  BY <1>1, <1>10, SourceKeeps, PublishKeeps, FaultKeeps
<1>11. CASE UNCHANGED vars
  BY <1>1, <1>11 DEF vars
<1> QED
  BY <1>1, <1>2, <1>3, <1>4, <1>5, <1>6, <1>7, <1>8, <1>9, <1>10, <1>11 DEF OutboxNext, DeleteStep

(* Every step keeps the part of the ghost's invariant on purged keys. *)
LEMMA PurgedNext ==
    ASSUME OutboxInv, RegisteredInv, PurgedInv, [OutboxNext]_vars
    PROVE  PurgedInv'
<1> SUFFICES ASSUME OneConsole', Calm({"down", "partial"})', NEW k \in Console, del'[k].pc = "commit"
             PROVE  key' = NoContent
  BY DEF PurgedInv
<1>1. Budgets /\ OneConsole /\ Calm({"down", "partial"})
  BY OutboxInvNext, OneConsoleBefore, CalmBefore DEF Trouble
<1>2. ~down /\ (key # NoContent => listed)
  BY <1>1 DEF Calm, RegisteredInv, OutboxInv, TargetOK
<1>3. CASE DeletePurge(k)
  BY <1>2, <1>3 DEF DeletePurge, PurgeTarget
<1>4. CASE del[k].pc = "commit"
  <2>1. key = NoContent /\ DeleteHasLock(k) /\ up[k] # "dead" /\ thr[k].pc \notin Acting
    BY <1>1, <1>4, DeleterUp DEF PurgedInv, DeleteHasLock, OutboxInv, ProcessesOK
  <2>2. ASSUME NEW j \in Console, Worked(j), thr[j].pc = "write" PROVE FALSE
    BY <1>1, <2>1, <2>2, SoleActor DEF Worked, Acting
  <2> QED
    BY <2>1, <2>2, KeySteps DEF PurgeTarget
<1> QED
  BY <1>3, <1>4, CommitSteps

(* The ghost's invariant holds at the start. *)
LEMMA GhostInvInit == OutboxInit => GhostInv
BY EmptyRecords DEF OutboxInit, GhostInv, RegisteredInv, PurgedInv

(* What is promised after a step was promised before it. *)
LEMMA PromisedBefore == Budgets /\ Promised' => Promised
<1>1. {{"exit"}, {"delete"}, {"down", "partial"}, {"slow", "down"}} \subseteq SUBSET Trouble
  BY DEF Trouble
<1> QED
  BY <1>1, CalmBefore, OneConsoleBefore DEF Promised

(* Every step keeps the ghost's invariant. *)
LEMMA GhostInvNext == OutboxInv /\ WorkInv /\ GhostInv /\ [OutboxNext]_vars => GhostInv'
<1> SUFFICES ASSUME OutboxInv, WorkInv, GhostInv, [OutboxNext]_vars PROVE GhostInv'
  OBVIOUS
<1>1. RegisteredInv' /\ PurgedInv'
  BY RegisteredNext, PurgedNext DEF GhostInv
<1>2. ASSUME Promised', key' # NoContent PROVE Alive' # {}
  <2>1. Budgets /\ Promised /\ ~Happened("exit")'
    BY <1>2, OutboxInvNext, PromisedBefore DEF Promised, Calm
  <2>2. key # NoContent => Alive # {}
    BY <2>1 DEF GhostInv
  <2>3. Undisturbed
    BY <2>1 DEF Promised, Undisturbed, Calm
  <2>4. rows \in [Row -> RowRecord]
    BY DEF OutboxInv, TablesOK
  <2>5. CASE key' = key /\ Alive \subseteq Alive'
    BY <1>2, <2>2, <2>5
  <2>6. ASSUME NEW k \in Console, Worked(k) PROVE Alive' # {}
    <3>1. ASSUME thr[k].pc \in Acting PROVE Cur(k) \in Row /\ rows[Cur(k)].st # "none"
      <4>1. thr[k].pc # "rest"
        BY <3>1 DEF Acting
      <4> QED
        BY <2>3, <3>1, <4>1, CurIsNext DEF WorkInv, Faithful
    <3>2. CASE rows' = rows
      <4>1. Alive' = Alive
        BY <3>2 DEF Alive
      <4>2. CASE thr[k].pc = "write"
        BY <3>1, <4>1, <4>2 DEF Alive, Acting
      <4>3. CASE key' \in {key, NoContent}
        BY <1>2, <2>2, <4>1, <4>3
      <4> QED
        BY <2>6, <4>2, <4>3 DEF Worked
    <3>3. CASE thr[k].pc \in Acting /\ key' = key /\ \E row \in RowRecord :
                  rows' = [rows EXCEPT ![Cur(k)] = row] /\ (row.st # "none" \/ key = NoContent)
      <4>1. rows'[Cur(k)].st # "none"
        BY <1>2, <2>4, <3>1, <3>3
      <4> QED
        BY <3>1, <3>3, <4>1 DEF Alive
    <3> QED
      BY <2>6, <3>2, <3>3 DEF Worked
  <2>7. CASE UNCHANGED rows /\ key' \in {key, NoContent}
    BY <1>2, <2>2, <2>7 DEF Alive
  <2>8. CASE Publish
    <3>1. key' = key /\ \A r \in Row : rows'[r] = rows[r] \/ rows'[r].st = "pending"
      BY <2>8, PublishKeeps DEF target
    <3>2. Alive \subseteq Alive'
      BY <3>1 DEF Alive
    <3> QED
      BY <2>5, <3>1, <3>2
  <2>9. ASSUME NEW r \in Row, BackoffEnds(r) PROVE Alive' # {}
    <3>1. key' = key /\ \A q \in Row : rows'[q].st = rows[q].st
      BY <2>9, BackoffKeeps DEF target
    <3>2. Alive \subseteq Alive'
      BY <3>1 DEF Alive
    <3> QED
      BY <2>5, <3>1, <3>2
  <2>10. ASSUME NEW k \in Console, NEW r \in Row, Resolve(k, r) \/ Discard(k, r) PROVE FALSE
    BY <2>1, <2>10, OperatorKeeps
  <2>11. ASSUME NEW k \in Console, DeleteMark(k) PROVE Alive' # {}
    <3>1. key' = key /\ \A r \in Row : rows'[r].st = "none" <=> rows[r].st = "none"
      BY <2>11, DeleteMarkKeeps DEF target
    <3>2. Alive \subseteq Alive'
      BY <3>1 DEF Alive
    <3> QED
      BY <2>5, <3>1, <3>2
  <2>12. ASSUME NEW k \in Console, DeletePurge(k) \/ DeleteCommit(k) \/ DeleteRestore(k) PROVE Alive' # {}
    <3>1. /\ DeleteHasLock(k) /\ key' \in {key, NoContent}
          /\ rows' = rows \/ del[k].pc \in {"commit", "restore"}
          /\ del[k].pc = "restore" => Alive' = Alive
    BY <2>12, DeleteStepKeeps
    <3>2. CASE del[k].pc = "commit"
      <4>1. Happened("delete")
        BY <3>1, DeleterUp DEF DeleteHasLock
      <4>2. OneConsole /\ Calm({"down", "partial"})
        BY <2>1, <4>1 DEF Promised, Calm
      <4>3. key = NoContent
        BY <3>2, <4>2 DEF GhostInv, PurgedInv
      <4> QED
        BY <1>2, <3>1, <4>3
    <3>3. CASE del[k].pc = "restore"
      BY <1>2, <2>2, <3>1, <3>3
    <3> QED
      BY <2>7, <3>1, <3>2, <3>3
  <2>13. ASSUME NEW k \in Console, Restart(k) PROVE Alive' # {}
    BY <2>5, <2>13, RestartKeeps DEF target
  <2>14. ASSUME NEW k \in Console, Crash(k) \/ DeleteRead(k) PROVE Alive' # {}
    BY <2>7, <2>14, CrashKeeps, DeleteReadKeeps DEF db, target
  <2>15. CASE UNCHANGED vars
    BY <2>7, <2>15 DEF vars, db, target
  <2>16. CASE \/ \E c \in Content : SaveDraft(c) \/ SourceEdited(c)
              \/ SourceRemoved \/ TargetDown \/ TargetUp \/ TargetLosesKeys
    BY <2>7, <2>16, SourceKeeps, FaultKeeps DEF db, target
  <2>17. ASSUME NEW r \in Row, LeaseExpires(r) PROVE Alive' # {}
    BY <2>7, <2>17, FaultKeeps DEF db
  <2> QED
    BY <2>6, <2>8, <2>9, <2>10, <2>11, <2>12, <2>13, <2>14, <2>15, <2>16, <2>17, ThreadWorks
       DEF OutboxNext, DeleteStep
<1> QED
  BY <1>1, <1>2 DEF GhostInv

(* NoGhost: once a version is deleted its key does not come back to the    *)
(* target without an outbox row by which the reconciliation clears it away *)
(* (#303): what is written is the definition of a row that is still there, *)
(* and a deletion of a single console keeps the lock from the purge to the *)
(* transaction.                                                            *)
THEOREM OutboxNoGhost == OutboxSpec => []NoGhost
<1> DEFINE I == OutboxInv /\ LeaseInv /\ WorkInv /\ GhostInv
<1>1. OutboxInit => I
  BY OutboxInvInit, LeaseInvInit, WorkInvInit, GhostInvInit
<1>2. I /\ [OutboxNext]_vars => I'
  BY OutboxInvNext, LeaseInvNext, WorkInvNext, GhostInvNext
<1>3. I => NoGhost
  BY DEF GhostInv, Promised, NoGhost
<1> QED
  BY <1>1, <1>2, <1>3, PTL DEF OutboxSpec
=============================================================================
