------------------------------ MODULE EngineOutbox ------------------------------
(***************************************************************************)
(* The publish outbox of the console                                       *)
(* (plaita-console/backend/services/engine_outbox.py).  Publishing a flow  *)
(* version writes an outbox row in the same transaction                    *)
(* (services/flow_store.py); a thread of every console process             *)
(* (main.py) delivers the rows to the Redis of the workers, reads back     *)
(* what it wrote, and compares delivered rows with the source table and    *)
(* with the target.  Replicas share the rows by a lease on each row; in    *)
(* one process, deletions (api/flows.py), operators and the thread exclude *)
(* each other by a lock.                                                   *)
(*                                                                         *)
(* One version of one flow; definitions are members of Content, compared   *)
(* where the code compares their hashes.  Of other versions a scenario     *)
(* says how many delivered rows with smaller ids there are, for they take  *)
(* their places in the page the reconciliation looks at.  A transaction is *)
(* one step, and reads are taken together with the next write of the same  *)
(* thread where nothing that happens between them changes more than the    *)
(* order of steps.                                                         *)
(***************************************************************************)
EXTENDS Naturals, FiniteSets

CONSTANTS
    Console,        \* console processes
    Content,        \* definitions
    MaxRow,         \* bound on the outbox rows of a behaviour
    MaxAttempts,    \* failed deliveries before a row counts as failed
    Scenarios,      \* who runs, the batch size, the delivered rows ahead of
                    \* these, and how often each thing in Trouble happens
    NoContent, Nobody

Row == 1 .. MaxRow      \* ids, in the order of creation

(* What has a budget: a draft is saved; the version is deleted; an         *)
(* operator resolves or discards a row; the source table is edited, or its *)
(* row removed, behind the back of the API; the target loses its keys, or  *)
(* cannot be reached, or fails in the middle of a delivery; a delivery     *)
(* outlasts the lease of its row; a process dies; the transaction of a     *)
(* deletion fails, or the one that takes it back.                          *)
Trouble == {"save", "delete", "exit", "edit", "remove", "tamper", "down",
            "partial", "slow", "crash", "db", "restore"}

ASSUME OutboxAssumption ==
    /\ NoContent \notin Content /\ Nobody \notin Console /\ IsFiniteSet(Console)
    /\ MaxRow \in Nat \ {0} /\ MaxAttempts \in Nat \ {0}
    /\ Scenarios \subseteq [consoles : SUBSET Console, batch : Nat \ {0}, ahead : Nat,
                            budget : [Trouble -> Nat]]

VARIABLES
    src,        \* flow_versions: status and definition of the version
    rows,       \* flow_publish_outbox
    born,       \* rows created so far
    key,        \* target Redis: the definition stored under the version's key
    listed,     \* target Redis: the version is in flow_list and flow_versions
    lease,      \* target Redis: who holds the lease of each row
    down,       \* the target cannot be reached
    up,         \* console processes: "dead", "run", or "idle" without the thread
    thr,        \* the outbox thread of each console
    del,        \* the deletion each console handles
    closed,     \* history: rows an operator has resolved
    left        \* the scenario, and what remains (now) of its budget

db == <<src, rows, born>>
target == <<key, listed, lease, down>>
vars == <<db, target, up, thr, del, closed, left>>

Spend(t) == /\ left.now[t] > 0
            /\ left' = [left EXCEPT !.now[t] = @ - 1]
Happened(t) == left.now[t] # left.budget[t]
Calm(ts) == \A t \in ts : ~Happened(t)

NoSource == [st |-> "none", c |-> NoContent]
NoRow == [st |-> "none", c |-> NoContent, tries |-> 0, wait |-> FALSE]
Pending(c) == [st |-> "pending", c |-> c, tries |-> 0, wait |-> FALSE]
Alive == {r \in Row : rows[r].st # "none"}

Resting == [pc |-> "rest", job |-> "none", todo |-> {}, held |-> FALSE,
            row |-> NoRow, ok |-> FALSE]
NoDelete == [pc |-> "none", prior |-> "none", snap |-> [r \in Row |-> "none"]]

OutboxInit ==
    /\ src = NoSource
    /\ rows = [r \in Row |-> NoRow] /\ born = 0
    /\ key = NoContent /\ listed = FALSE
    /\ lease = [r \in Row |-> Nobody] /\ down = FALSE
    /\ \E s \in Scenarios :
          /\ left = [consoles |-> s.consoles, batch |-> s.batch, ahead |-> s.ahead,
                     budget |-> s.budget, now |-> s.budget]
          /\ up = [k \in Console |-> IF k \in s.consoles THEN "run" ELSE "dead"]
    /\ thr = [k \in Console |-> Resting]
    /\ del = [k \in Console |-> NoDelete]
    /\ closed = {}

-----------------------------------------------------------------------------
(* OUTBOX_DELETE_LOCK of a process: held by its thread while it acts on a  *)
(* row, and by a deletion from the mark to the end of its transaction.     *)
Acting == {"write", "verify", "book", "source", "target", "purge", "drop"}
DeleteHasLock(k) == del[k].pc \in {"purge", "commit", "restore"}
\* Mutant: there is no lock.
LockIgnored(k) == k \in Console
LockFree(k) == ~DeleteHasLock(k) /\ thr[k].pc \notin Acting

(* RedisFlowStorage.delete_flow for one version: what is not registered is *)
(* not deleted, and an error is swallowed.                                 *)
PurgeTarget ==
    /\ key' = IF ~down /\ listed THEN NoContent ELSE key
    /\ listed' = (down /\ listed)
    /\ UNCHANGED <<lease, down>>

-----------------------------------------------------------------------------
(* Users and operators of a console. *)

(* _save_flow_once: a draft is created or replaced, a published version is not. *)
SaveDraft(c) ==
    /\ src.st # "published" /\ src.c # c
    /\ Spend("save")
    /\ src' = [st |-> "draft", c |-> c]
    /\ UNCHANGED <<rows, born, target, up, thr, del, closed>>

\* Mutant: the idempotency key is not looked up.
EnqueueAgain(c) ==
    /\ born < MaxRow
    /\ born' = born + 1
    /\ rows' = [rows EXCEPT ![born + 1] = Pending(c)]
(* enqueue_publish: one row for each definition of the version. *)
Enqueue(c) ==
    IF \E r \in Alive : rows[r].c = c THEN UNCHANGED <<rows, born>>
    ELSE /\ born < MaxRow
         /\ born' = born + 1
         /\ rows' = [rows EXCEPT ![born + 1] = Pending(c)]
Publish ==
    /\ src.st = "draft"
    /\ src' = [src EXCEPT !.st = "published"]
    /\ Enqueue(src.c)
    /\ UNCHANGED <<target, up, thr, del, closed, left>>

(* delete_version reads the status it will insist on; deleting_guard takes *)
(* the lock and marks the rows.  (A mark that fails ends the deletion and  *)
(* leaves nothing behind.)                                                 *)
DeleteRead(k) ==
    /\ up[k] # "dead" /\ del[k].pc = "none" /\ src.st # "none"
    /\ Spend("delete")
    /\ del' = [del EXCEPT ![k].pc = "mark", ![k].prior = src.st]
    /\ UNCHANGED <<db, target, up, thr, closed>>
DeleteMark(k) ==
    /\ del[k].pc = "mark" /\ LockFree(k)
    /\ del' = [del EXCEPT ![k].pc = "purge",
                          ![k].snap = [r \in Row |-> IF rows[r].st = "deleting" THEN "none"
                                                     ELSE rows[r].st]]
    /\ rows' = [r \in Row |-> IF r \in Alive THEN [rows[r] EXCEPT !.st = "deleting"] ELSE rows[r]]
    /\ UNCHANGED <<src, born, target, up, thr, closed, left>>
DeletePurge(k) ==
    /\ del[k].pc = "purge"
    /\ PurgeTarget
    /\ del' = [del EXCEPT ![k].pc = "commit"]
    /\ UNCHANGED <<db, up, thr, closed, left>>

(* The source row, if its status is still the one that was read, and all   *)
(* outbox rows go in one transaction; or it fails.                         *)
DeleteCommit(k) ==
    /\ del[k].pc = "commit"
    /\ \/ /\ src.st = del[k].prior
          /\ src' = NoSource
          /\ rows' = [r \in Row |-> NoRow]
          /\ del' = [del EXCEPT ![k] = NoDelete]
          /\ UNCHANGED left
       \/ /\ IF src.st = del[k].prior THEN Spend("db") ELSE UNCHANGED left
          /\ del' = [del EXCEPT ![k].pc = "restore"]
          /\ UNCHANGED <<src, rows>>
    /\ UNCHANGED <<born, target, up, thr, closed>>

\* Mutant: the rows are put back to be delivered, whatever they were.
RestoredPending(k, r) == IF del[k].snap[r] = "none" THEN rows[r].st ELSE "pending"
(* restore_deleting: a transaction, too.  If it fails the rows stay as     *)
(* they are, until a console starts.                                       *)
Restored(k, r) == IF del[k].snap[r] = "none" THEN rows[r].st ELSE del[k].snap[r]
DeleteRestore(k) ==
    /\ del[k].pc = "restore"
    /\ \/ /\ rows' = [r \in Row |-> IF rows[r].st = "deleting"
                                    THEN [rows[r] EXCEPT !.st = Restored(k, r)] ELSE rows[r]]
          /\ UNCHANGED left
       \/ Spend("restore") /\ UNCHANGED rows
    /\ del' = [del EXCEPT ![k] = NoDelete]
    /\ UNCHANGED <<src, born, target, up, thr, closed>>
DeleteStep(k) == DeleteMark(k) \/ DeletePurge(k) \/ DeleteCommit(k) \/ DeleteRestore(k)

(* resolve_row and discard_row, by which an operator closes a row that is  *)
(* neither delivered nor being deleted.                                    *)
Resolve(k, r) ==
    /\ up[k] # "dead" /\ LockFree(k)
    /\ rows[r].st \in {"pending", "failed"}
    /\ Spend("exit")
    /\ rows' = [rows EXCEPT ![r].st = "resolved", ![r].wait = FALSE]
    /\ closed' = closed \cup {r}
    /\ UNCHANGED <<src, born, target, up, thr, del>>
Discard(k, r) ==
    /\ up[k] # "dead" /\ LockFree(k)
    /\ rows[r].st \in {"pending", "failed", "resolved"}
    /\ Spend("exit")
    /\ rows' = [rows EXCEPT ![r] = NoRow]
    /\ UNCHANGED <<src, born, target, up, thr, del, closed>>

-----------------------------------------------------------------------------
(* The outbox thread.  held says that it has the lease of the row it is    *)
(* at, row is the row in the session's memory, ok the outcome of a         *)
(* delivery.                                                               *)

At(k, pc) == up[k] = "run" /\ thr[k].pc = pc
Cur(k) == CHOOSE r \in thr[k].todo : \A q \in thr[k].todo : r <= q
Goto(k, pc) == thr' = [thr EXCEPT ![k].pc = pc]
Done(k, todo) ==
    thr' = [thr EXCEPT ![k] = IF todo = {} THEN Resting
                              ELSE [Resting EXCEPT !.pc = "next", !.job = thr[k].job, !.todo = todo]]

(* run_delivery_cycle and run_reconcile_cycle list rows first, by their    *)
(* ids and up to the batch size.  Rows that were delivered are no longer   *)
(* due; but a reconciliation begins with the same delivered rows again.    *)
Begin(k, job, todo) ==
    /\ At(k, "rest") /\ todo # {}
    /\ thr' = [thr EXCEPT ![k].pc = "next", ![k].job = job, ![k].todo = todo]
    /\ UNCHANGED <<db, target, up, del, closed, left>>
FirstRows(rs, ahead) == {r \in rs : ahead + Cardinality({q \in rs : q < r}) < left.batch}
Due == FirstRows({r \in Row : rows[r].st \in {"pending", "failed"} /\ ~rows[r].wait}, 0)
AllDelivered == {r \in Row : rows[r].st = "delivered"}
Delivered == FirstRows(AllDelivered, left.ahead)
DeliveryCycle(k) == Begin(k, "deliver", Due)
ReconcileCycle(k) == Begin(k, "reconcile", Delivered)

\* Mutant: the lease is written whether it is free or not.
LeaseWritten(r) == r = r
LeaseGranted(r) == lease[r] = Nobody
(* acquire_row_lease: taken, held by another console, or, when the target  *)
(* cannot be reached, done without. *)
TakeLease(k) ==
    /\ At(k, "next")
    /\ LET r == Cur(k) IN
         \/ down /\ Goto(k, "reload") /\ UNCHANGED lease
         \/ /\ ~down /\ LeaseGranted(r)
            /\ lease' = [lease EXCEPT ![r] = k]
            /\ thr' = [thr EXCEPT ![k].pc = "reload", ![k].held = TRUE]
         \/ /\ ~down /\ ~LeaseGranted(r)
            /\ Done(k, thr[k].todo \ {r}) /\ UNCHANGED lease
    /\ UNCHANGED <<db, key, listed, down, up, del, closed, left>>

(* The lock, and _reload_row. *)
Reload(k) ==
    /\ At(k, "reload") /\ LockFree(k)
    /\ LET row == rows[Cur(k)] IN
         \/ /\ thr[k].job = "deliver" /\ row.st \in {"pending", "failed"}
            /\ thr' = [thr EXCEPT ![k].pc = "write", ![k].row = row]
         \/ /\ thr[k].job = "reconcile" /\ row.st = "delivered"
            /\ thr' = [thr EXCEPT ![k].pc = "source", ![k].row = row]
         \/ /\ row.st \notin (IF thr[k].job = "deliver" THEN {"pending", "failed"} ELSE {"delivered"})
            /\ Goto(k, "release")
    /\ UNCHANGED <<db, target, up, del, closed, left>>

(* _deliver_one: sync_flow_to_engine sets the key, then registers the      *)
(* version; then the key is read back.                                     *)
Write(k) ==
    /\ At(k, "write")
    /\ \/ down /\ Goto(k, "book") /\ UNCHANGED <<key, listed, left>>
       \/ /\ ~down
          /\ key' = thr[k].row.c /\ listed' = TRUE
          /\ Goto(k, "verify") /\ UNCHANGED left
       \/ /\ ~down /\ Spend("partial")
          /\ key' = thr[k].row.c
          /\ Goto(k, "book") /\ UNCHANGED listed
    /\ UNCHANGED <<db, lease, down, up, del, closed>>

Verified(k) == ~down /\ key = thr[k].row.c
Verify(k) ==
    /\ At(k, "verify")
    /\ thr' = [thr EXCEPT ![k].pc = "book", ![k].ok = Verified(k)]
    /\ UNCHANGED <<db, target, up, del, closed, left>>

(* The outcome is committed.  The session updates the columns it has       *)
(* changed; a row that is gone raises, which ends the cycle.               *)
Booked(row, mem, ok) ==
    LET tries == IF mem.tries < MaxAttempts THEN mem.tries + 1 ELSE mem.tries
    IN  [row EXCEPT !.tries = tries, !.wait = ~ok,
                    !.st = IF ok THEN "delivered"
                           ELSE IF tries = MaxAttempts /\ mem.st # "failed" THEN "failed"
                           ELSE @]
Update(k, row) ==
    LET r == Cur(k) IN
      IF rows[r].st = "none"
      THEN thr' = [thr EXCEPT ![k].pc = "release", ![k].todo = {r}] /\ UNCHANGED rows
      ELSE rows' = [rows EXCEPT ![r] = row] /\ Goto(k, "release")
Book(k) ==
    /\ At(k, "book")
    /\ Update(k, Booked(rows[Cur(k)], thr[k].row, thr[k].ok))
    /\ UNCHANGED <<src, born, target, up, del, closed, left>>

(* _reconcile_definition_drift: the row takes the source's definition and  *)
(* is delivered again, unless another row already has that definition.     *)
Drift(k) ==
    IF \E q \in Alive \ {Cur(k)} : rows[q].c = src.c
    THEN Goto(k, "release") /\ UNCHANGED rows
    ELSE Update(k, Pending(src.c))

(* _reconcile_one, first against the source.                               *)
CheckSource(k) ==
    /\ At(k, "source")
    /\ \/ src.st = "none" /\ Goto(k, "purge") /\ UNCHANGED rows
       \/ src.st # "none" /\ src.c # thr[k].row.c /\ Drift(k)
       \/ src.st # "none" /\ src.c = thr[k].row.c /\ Goto(k, "target") /\ UNCHANGED rows
    /\ UNCHANGED <<src, born, target, up, del, closed, left>>

(* Then against the target: what is missing or different is delivered      *)
(* again.  A target that cannot be reached ends the cycle.                 *)
CheckTarget(k) ==
    /\ At(k, "target")
    /\ \/ down /\ thr' = [thr EXCEPT ![k].pc = "release", ![k].todo = {Cur(k)}] /\ UNCHANGED rows
       \/ ~down /\ key = thr[k].row.c /\ Goto(k, "release") /\ UNCHANGED rows
       \/ ~down /\ key # thr[k].row.c /\ Update(k, Pending(rows[Cur(k)].c))
    /\ UNCHANGED <<src, born, target, up, del, closed, left>>

(* _reconcile_source_missing: purge, and the row goes once the key is gone. *)
PurgeOrphan(k) ==
    /\ At(k, "purge")
    /\ PurgeTarget
    /\ Goto(k, "drop")
    /\ UNCHANGED <<db, up, del, closed, left>>
DropOrphan(k) ==
    /\ At(k, "drop")
    /\ rows' = IF ~down /\ key = NoContent THEN [rows EXCEPT ![Cur(k)] = NoRow] ELSE rows
    /\ Goto(k, "release")
    /\ UNCHANGED <<src, born, target, up, del, closed, left>>

(* The lock was given back; the lease is, if it is still this console's. *)
ReleaseLease(k) ==
    /\ At(k, "release")
    /\ LET r == Cur(k) IN
         /\ lease' = IF ~down /\ thr[k].held /\ lease[r] = k THEN [lease EXCEPT ![r] = Nobody] ELSE lease
         /\ Done(k, thr[k].todo \ {r})
    /\ UNCHANGED <<db, key, listed, down, up, del, closed, left>>

RowStep(k) ==
    \/ TakeLease(k) \/ Reload(k) \/ Write(k) \/ Verify(k) \/ Book(k)
    \/ CheckSource(k) \/ CheckTarget(k) \/ PurgeOrphan(k) \/ DropOrphan(k)
    \/ ReleaseLease(k)

-----------------------------------------------------------------------------
(* Time, faults, and what happens behind the console's back. *)

LeaseHolderAtWork(r) ==
    \E k \in Console : lease[r] = k /\ thr[k].held /\ Cur(k) = r
LeaseExpires(r) ==
    /\ lease[r] # Nobody
    /\ IF LeaseHolderAtWork(r) THEN Spend("slow") ELSE UNCHANGED left
    /\ lease' = [lease EXCEPT ![r] = Nobody]
    /\ UNCHANGED <<db, key, listed, down, up, thr, del, closed>>

(* next_attempt_at has come. *)
BackoffEnds(r) ==
    /\ rows[r].wait
    /\ rows' = [rows EXCEPT ![r].wait = FALSE]
    /\ UNCHANGED <<src, born, target, up, thr, del, closed, left>>

TargetDown ==
    /\ ~down /\ Spend("down") /\ down' = TRUE
    /\ UNCHANGED <<db, key, listed, lease, up, thr, del, closed>>
TargetUp ==
    /\ down /\ down' = FALSE
    /\ UNCHANGED <<db, key, listed, lease, up, thr, del, closed, left>>
TargetLosesKeys ==
    /\ key # NoContent /\ Spend("tamper")
    /\ key' = NoContent /\ listed' = FALSE
    /\ UNCHANGED <<db, lease, down, up, thr, del, closed>>
SourceEdited(c) ==
    /\ src.st = "published" /\ src.c # c /\ Spend("edit")
    /\ src' = [src EXCEPT !.c = c]
    /\ UNCHANGED <<rows, born, target, up, thr, del, closed>>
SourceRemoved ==
    /\ src.st = "published" /\ Spend("remove")
    /\ src' = NoSource
    /\ UNCHANGED <<rows, born, target, up, thr, del, closed>>

Crash(k) ==
    /\ up[k] # "dead" /\ Spend("crash")
    /\ up' = [up EXCEPT ![k] = "dead"]
    /\ thr' = [thr EXCEPT ![k] = Resting]
    /\ del' = [del EXCEPT ![k] = NoDelete]
    /\ UNCHANGED <<db, target, closed>>

\* Mutant: rows a deletion has left behind are not recovered.
LeftDeleting(row) == row
(* recover_deleting_rows *)
Recovered(row) == IF row.st = "deleting" THEN [row EXCEPT !.st = "pending", !.wait = FALSE] ELSE row

(* The start of a console: connect, recover, and start the thread, but     *)
(* only if the target could be reached.                                    *)
Restart(k) ==
    /\ k \in left.consoles /\ up[k] = "dead"
    /\ rows' = [r \in Row |-> Recovered(rows[r])]
    /\ up' = [up EXCEPT ![k] = IF down THEN "idle" ELSE "run"]
    /\ UNCHANGED <<src, born, target, thr, del, closed, left>>

OutboxNext ==
    \/ \E c \in Content : SaveDraft(c) \/ SourceEdited(c)
    \/ Publish \/ SourceRemoved
    \/ TargetDown \/ TargetUp \/ TargetLosesKeys
    \/ \E r \in Row : LeaseExpires(r) \/ BackoffEnds(r)
    \/ \E k \in Console :
         \/ DeleteRead(k) \/ DeleteStep(k) \/ Crash(k) \/ Restart(k)
         \/ DeliveryCycle(k) \/ ReconcileCycle(k) \/ RowStep(k)
         \/ \E r \in Row : Resolve(k, r) \/ Discard(k, r)

OutboxSpec == OutboxInit /\ [][OutboxNext]_vars

(* Processes make progress and are restarted, every thread delivers and    *)
(* reconciles again and again, an outage ends, leases and waits run out.   *)
(* Users, operators and faults are under no obligation.                    *)
OutboxFairness ==
    /\ \A k \in Console :
          /\ WF_vars(DeleteStep(k)) /\ WF_vars(RowStep(k)) /\ WF_vars(Restart(k))
          /\ SF_vars(DeliveryCycle(k)) /\ SF_vars(ReconcileCycle(k))
    /\ \A r \in Row : WF_vars(BackoffEnds(r)) /\ WF_vars(LeaseExpires(r) /\ ~LeaseHolderAtWork(r))
    /\ WF_vars(TargetUp)
OutboxFairSpec == OutboxSpec /\ OutboxFairness

-----------------------------------------------------------------------------
(* Properties.  Each names the conditions under which the code promises    *)
(* it; the deletion protocol is one of a single process                    *)
(* (engine_outbox.py, multi-replica convention).                           *)

Statuses == {"none", "pending", "delivered", "failed", "resolved", "deleting"}
OneConsole == Cardinality(left.consoles) = 1

(* Every variable has its type, a free slot of the table is empty and the  *)
(* rows of the table have different definitions, which is the unique       *)
(* constraint enqueue_publish and the drift branch of the reconciliation   *)
(* rely on.                                                                *)
OutboxTypeOK ==
    /\ src \in [st : {"draft", "published"}, c : Content] \cup {NoSource}
    /\ rows \in [Row -> [st : Statuses, c : Content \cup {NoContent},
                         tries : 0 .. MaxAttempts, wait : BOOLEAN]]
    /\ born \in 0 .. MaxRow
    /\ \A r \in Row : (rows[r].c = NoContent) <=> (rows[r].st = "none")
    /\ \A r, q \in Alive : rows[r].c = rows[q].c => r = q
    /\ key \in Content \cup {NoContent} /\ listed \in BOOLEAN
    /\ lease \in [Row -> Console \cup {Nobody}] /\ down \in BOOLEAN
    /\ up \in [Console -> {"dead", "run", "idle"}]
    /\ \A k \in Console :
          /\ thr[k].pc \in Acting \cup {"rest", "next", "reload", "release"}
          /\ thr[k].pc = "rest" <=> thr[k].todo = {}
          /\ del[k].pc \in {"none", "mark", "purge", "commit", "restore"}
    /\ closed \subseteq Row

(* #303: once a version is deleted its key does not come back to the       *)
(* target.  While the source has no version, a key is there only as long   *)
(* as an outbox row is left by which the reconciliation will clear it      *)
(* away.  Not promised are a row discarded by hand, a deletion while the   *)
(* target fails or from one of several consoles, and replicas that lose    *)
(* the lease of a row at work or do without.                               *)
NoGhost ==
    /\ src.st = "none" /\ key # NoContent
    /\ Calm({"exit"})
    /\ Calm({"delete"}) \/ (OneConsole /\ Calm({"down", "partial"}))
    /\ OneConsole \/ Calm({"slow", "down"})
    => Alive # {}

(* A2R50-02: a row an operator resolved is final.  Neither a delivery, nor *)
(* a reconciliation, nor a deletion that failed makes it due again; only   *)
(* the recovery after a crash does, which is documented.                   *)
ClosedStaysClosed ==
    \A r \in closed : Calm({"crash"}) /\ OneConsole
        => rows[r].st \in {"resolved", "deleting", "none"}

(* #324: while a console delivers a row, nobody else does, so the count of *)
(* its attempts and its status are those the console has read.  Promised   *)
(* while the target answers and the delivery is done within its lease.     *)
SingleWriter ==
    \A k \in Console :
        /\ thr[k].job = "deliver" /\ thr[k].pc \in Acting
        /\ Calm({"slow", "down"})
        /\ OneConsole \/ Calm({"delete", "exit"})
        => LET row == rows[Cur(k)]
           IN  row.st = thr[k].row.st /\ row.tries = thr[k].row.tries

(* The target and the source table agree. *)
InStep ==
    /\ src.st = "published" => key = src.c
    /\ src.st = "none" => key = NoContent

(* Rows of a deletion that failed, and could not be taken back.            *)
Stranded == Happened("restore") /\ \E r \in Row : rows[r].st = "deleting"

(* What the code does not promise: an operator closed a row; a deletion    *)
(* while the target fails, or from one of several consoles; a version that *)
(* was removed behind the API and may be published again meanwhile;        *)
(* consoles that all started without the target, whose threads never ran;  *)
(* a deletion that could not be taken back, until a console starts; more   *)
(* delivered rows than a batch holds, of which the later ones are never    *)
(* looked at.                                                              *)
NotPromised ==
    \/ Happened("exit")
    \/ Happened("delete") /\ ~(OneConsole /\ Calm({"down", "partial"}))
    \/ Happened("remove") /\ left.budget["save"] > 1
    \/ \A k \in left.consoles : up[k] # "run"
    \/ Stranded
    \/ left.ahead + Cardinality(AllDelivered) > left.batch

(* #299, #301, #302: what the workers' Redis holds becomes what the source *)
(* table says, and stays so once nothing goes wrong any more: after        *)
(* failures of the target, edits behind the API, lost keys, dead processes *)
(* and deletions that fail.                                                *)
Converges == <>[](InStep \/ NotPromised)

=============================================================================
