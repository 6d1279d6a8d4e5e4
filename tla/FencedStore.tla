---------------------------- MODULE FencedStore ----------------------------
(***************************************************************************)
(* The keys Redis holds for ONE execution id and every operation on them:  *)
(* the resume lease (plaita/server/execution_lease.py), the generation-    *)
(* fenced row storage (plaita/storage/fenced.py) and the plain storage     *)
(* below it (plaita/storage/redis.py).  Keys of two execution ids never    *)
(* meet in one script, so one id is enough.                                *)
(*                                                                         *)
(* A Session is one call of start_flow / resume_flow: it acquires the      *)
(* lease once, carries the generation in its ContextVar (token) and ends.  *)
(* Each action is one Lua script or one MULTI/EXEC pipeline, which Redis   *)
(* runs atomically.                                                        *)
(***************************************************************************)
EXTENDS Naturals

CONSTANTS
    Session,        \* concurrent callers of start_flow / resume_flow
    NoSession,      \* the holder of a free lease
    Content,        \* what a row can say
    Terminal,       \* the contents with a terminal status: these rows have a TTL
    Reader,         \* callers of list_executions and rebuild_execution_index
    LegacyFence,    \* greatest fence value an older release may have left
    MaxGen          \* bound on generations, for TLC

ASSUME StoreAssumption ==
    /\ NoSession \notin Session
    /\ Content # {} /\ Terminal \subseteq Content
    /\ LegacyFence \in Nat /\ MaxGen \in Nat

VARIABLES
    lease,          \* {ns}:execution:lease:{id}, value "{holder}:{gen}"
    fence,          \* {ns}:execution:fence:{id}, 0 when the key is missing
    fencegen,       \* {ns}:execution:fencegen:{id}, 0 when the key is missing
    row,            \* {ns}:execution:{id}
    indexed,        \* is the id a member of the executions ZSET
    ready,          \* does the mark index:ready exist
    reader,         \* where each listing or rebuild is, and what it has seen
    tombstone,      \* does execution:tombstone:{id} exist
    token,          \* the fence token of each session, 0 for None
    backup,         \* the copy of row and fence key an operator took
    revoked,        \* history: the newest generation when the row was last deleted
    restored,       \* history: was a backup put back since the last grant or delete
    lost            \* history: has a listing or a rebuild lost the member since it
                    \* was last added

indexVars == <<indexed, ready, reader, lost>>
redisVars == <<lease, fence, fencegen, row, indexVars, tombstone>>
historyVars == <<revoked, restored>>
storeVars == <<redisVars, token, backup, historyVars>>

Free == [holder |-> NoSession, gen |-> 0]
SomeContent == CHOOSE c \in Content : TRUE
NoRow == [src |-> "none", gen |-> 0, data |-> SomeContent]

Lease == [holder : Session \cup {NoSession}, gen : Nat]
Row == [src : {"none", "fenced", "plain", "console", "restored"}, gen : Nat, data : Content]

(* listed: the index slice held the id; stale: the MGET found no row for it; *)
(* drop: the rebuild is about to fill the index again; scan: the mark was  *)
(* missing; missed and found: what the backfill has seen of the row.       *)
ReaderState == {"idle", "listed", "stale", "drop", "scan", "missed", "found"}

IndexType ==
    /\ indexed \in BOOLEAN /\ ready \in BOOLEAN /\ lost \in BOOLEAN
    /\ reader \in [Reader -> ReaderState]

(* One type invariant: what each key can hold. *)
TypeOK ==
    /\ lease \in Lease /\ (lease.gen = 0 <=> lease = Free)
    /\ fence \in Nat /\ fencegen \in Nat
    /\ row \in Row
    /\ IndexType /\ tombstone \in BOOLEAN
    /\ token \in [Session -> Nat]
    /\ backup \in [taken : BOOLEAN, row : Row, fence : Nat]
    /\ revoked \in Nat /\ restored \in BOOLEAN

(* No row and no counter, but an older release may have left a fence key. *)
StoreInit ==
    /\ lease = Free
    /\ fence \in 0 .. LegacyFence /\ fencegen = 0
    /\ row = NoRow /\ indexed = FALSE /\ tombstone = FALSE
    /\ ready = FALSE /\ lost = FALSE /\ reader = [p \in Reader |-> "idle"]
    /\ token = [s \in Session |-> 0]
    /\ backup = [taken |-> FALSE, row |-> NoRow, fence |-> 0]
    /\ revoked = 0 /\ restored = FALSE

(***************************************************************************)
(* The lease.                                                              *)
(***************************************************************************)
\* Mutant: the counter is not raised above the old fence value.
NextGenerationNoFloor == fencegen + 1

(* The counter is incremented, and raised above a fence value left by a    *)
(* release that still counted in the fence key.                            *)
NextGeneration == IF fencegen + 1 <= fence THEN fence + 1 ELSE fencegen + 1

LeaseValue(s) == [holder |-> s, gen |-> token[s]]

HoldsLease(s) == token[s] # 0 /\ lease = LeaseValue(s)

\* Mutant: the counter is incremented before the lease is looked at.
AcquireCountingFirst(s) ==
    /\ token[s] = 0
    /\ NextGeneration <= MaxGen
    /\ fencegen' = NextGeneration
    /\ fence' = NextGeneration
    /\ IF lease = Free
         THEN /\ lease' = [holder |-> s, gen |-> NextGeneration]
              /\ token' = [token EXCEPT ![s] = NextGeneration]
         ELSE UNCHANGED <<lease, token>>
    /\ restored' = FALSE
    /\ UNCHANGED <<row, indexVars, tombstone, backup, revoked>>

\* Mutant: the lease value is the bare holder, without the generation.
AcquireWithBareHolder(s) ==
    /\ token[s] = 0
    /\ lease = Free
    /\ NextGeneration <= MaxGen
    /\ fencegen' = NextGeneration
    /\ fence' = NextGeneration
    /\ lease' = [holder |-> s, gen |-> 0]
    /\ token' = [token EXCEPT ![s] = NextGeneration]
    /\ restored' = FALSE
    /\ UNCHANGED <<row, indexVars, tombstone, backup, revoked>>

(* _FENCED_ACQUIRE_LUA; when the lease is taken the script changes nothing *)
(* and the session is refused.                                             *)
TryAcquireFenced(s) ==
    /\ token[s] = 0
    /\ lease = Free
    /\ NextGeneration <= MaxGen
    /\ fencegen' = NextGeneration
    /\ fence' = NextGeneration
    /\ lease' = [holder |-> s, gen |-> NextGeneration]
    /\ token' = [token EXCEPT ![s] = NextGeneration]
    /\ restored' = FALSE
    /\ UNCHANGED <<row, indexVars, tombstone, backup, revoked>>

(* The session is over: the token is reset and the lease given back, only  *)
(* if its whole value is still the session's own.                          *)
LeaseAfterRelease(s) == IF HoldsLease(s) THEN Free ELSE lease

Release(s) ==
    /\ token[s] # 0
    /\ lease' = LeaseAfterRelease(s)
    /\ token' = [token EXCEPT ![s] = 0]
    /\ UNCHANGED <<fence, fencegen, row, indexVars, tombstone, backup, historyVars>>

(* A renewal that finds another value, or none: the session aborts. *)
RenewLost(s) ==
    /\ token[s] # 0 /\ ~HoldsLease(s)
    /\ token' = [token EXCEPT ![s] = 0]
    /\ UNCHANGED <<redisVars, backup, historyVars>>

(* The process dies: the ContextVar is gone, the lease stays until its TTL. *)
Crash(s) ==
    /\ token[s] # 0
    /\ token' = [token EXCEPT ![s] = 0]
    /\ UNCHANGED <<redisVars, backup, historyVars>>

(***************************************************************************)
(* The index member of the row: every save adds it, a delete removes it.   *)
(***************************************************************************)
AddMember == indexed' = TRUE /\ lost' = FALSE /\ UNCHANGED <<ready, reader>>

RemoveMember == indexed' = FALSE /\ lost' = FALSE /\ UNCHANGED <<ready, reader>>

(***************************************************************************)
(* Rows.                                                                   *)
(***************************************************************************)
\* Mutant: the counter does not take part in the comparison.
FenceAcceptsKeyOnly(s) == fence = token[s]

(* Both Lua scripts: the fence key must be the token, and the counter too. *)
FenceAccepts(s) == fence = token[s] /\ fencegen = token[s]

\* Mutant: the row is written without a comparison.
FencedSaveUnchecked(s, d) ==
    /\ token[s] # 0
    /\ row' = [src |-> "fenced", gen |-> token[s], data |-> d]
    /\ AddMember
    /\ UNCHANGED <<lease, fence, fencegen, tombstone, token, backup, historyVars>>

(* save_execution_state with a token: the row is stamped with it. *)
FencedSave(s, d) ==
    /\ token[s] # 0
    /\ FenceAccepts(s)
    /\ row' = [src |-> "fenced", gen |-> token[s], data |-> d]
    /\ AddMember
    /\ UNCHANGED <<lease, fence, fencegen, tombstone, token, backup, historyVars>>

\* Mutant: the counter is cleared with the other keys.
DropRowResettingCounter ==
    /\ row' = NoRow /\ RemoveMember
    /\ fence' = 0 /\ fencegen' = 0 /\ lease' = Free
    /\ tombstone' = TRUE
    /\ revoked' = fencegen /\ restored' = FALSE

\* Mutant: the fence key outlives the row.
DropRowKeepingFence ==
    /\ row' = NoRow /\ RemoveMember
    /\ lease' = Free
    /\ tombstone' = TRUE
    /\ revoked' = fencegen /\ restored' = FALSE
    /\ UNCHANGED <<fence, fencegen>>

(* Every key of the execution but the counter, and the tombstone, in one   *)
(* transaction.                                                            *)
DropRow ==
    /\ row' = NoRow /\ RemoveMember
    /\ fence' = 0 /\ lease' = Free
    /\ tombstone' = TRUE
    /\ revoked' = fencegen /\ restored' = FALSE
    /\ UNCHANGED fencegen

\* Mutant: the delete does not compare.
FencedDeleteUnchecked(s) ==
    /\ token[s] # 0
    /\ DropRow
    /\ UNCHANGED <<token, backup>>

(* delete_execution_state with a token. *)
FencedDelete(s) ==
    /\ token[s] # 0
    /\ FenceAccepts(s)
    /\ DropRow
    /\ UNCHANGED <<token, backup>>

(* Either script answers 0 or -1: ExecutionLeaseError, and the session     *)
(* leaves through its finally block.                                       *)
Refused(s) ==
    /\ ~FenceAccepts(s)
    /\ Release(s)

(* delete_execution_state without a token: deleting is revoking. *)
ControlDelete ==
    /\ DropRow
    /\ UNCHANGED <<token, backup>>

(* save_execution_state without a token: no stamp, no comparison. *)
PlainSave(d) ==
    /\ row' = [src |-> "plain", gen |-> row.gen, data |-> d]
    /\ AddMember
    /\ UNCHANGED <<lease, fence, fencegen, tombstone, token, backup, historyVars>>

(* The console sets the row key itself, past the storage: no index member. *)
ConsoleSave(d) ==
    /\ row' = [src |-> "console", gen |-> row.gen, data |-> d]
    /\ UNCHANGED <<lease, fence, fencegen, indexVars, tombstone, token, backup, historyVars>>

(* load_execution_state puts a missing index member back. *)
Load ==
    /\ row # NoRow
    /\ AddMember
    /\ UNCHANGED <<lease, fence, fencegen, row, tombstone, token, backup, historyVars>>

(***************************************************************************)
(* Redis expiry, and an operator who restores the row and the fence key    *)
(* but not the counter.                                                    *)
(***************************************************************************)
LeaseExpires ==
    /\ lease # Free
    /\ lease' = Free
    /\ UNCHANGED <<fence, fencegen, row, indexVars, tombstone, token, backup, historyVars>>

FenceExpires ==
    /\ fence # 0
    /\ fence' = 0
    /\ UNCHANGED <<lease, fencegen, row, indexVars, tombstone, token, backup, historyVars>>

RowExpires ==
    /\ row # NoRow /\ row.data \in Terminal
    /\ row' = NoRow
    /\ UNCHANGED <<lease, fence, fencegen, indexVars, tombstone, token, backup, historyVars>>

TombstoneExpires ==
    /\ tombstone
    /\ tombstone' = FALSE
    /\ UNCHANGED <<lease, fence, fencegen, row, indexVars, token, backup, historyVars>>

Backup ==
    /\ row # NoRow
    /\ backup' = [taken |-> TRUE, row |-> row, fence |-> fence]
    /\ UNCHANGED <<redisVars, token, historyVars>>

Restore ==
    /\ backup.taken
    /\ row' = [backup.row EXCEPT !.src = "restored"]
    /\ fence' = backup.fence
    /\ restored' = TRUE
    /\ UNCHANGED <<lease, fencegen, indexVars, tombstone, token, backup, revoked>>

(***************************************************************************)
(* Listing and rebuilding the index (storage/redis.py).  No lock and no    *)
(* transaction holds the steps of one reader together.                     *)
(***************************************************************************)
(* A reader takes a step of its own and touches no key but the index and   *)
(* its mark.                                                               *)
Reads(p, from, to) ==
    /\ reader[p] = from
    /\ reader' = [reader EXCEPT ![p] = to]
    /\ UNCHANGED <<lease, fence, fencegen, row, tombstone, token, backup, historyVars>>

(* _index_slice: the page holds the id. *)
ListSlice(p) ==
    /\ indexed
    /\ Reads(p, "idle", "listed")
    /\ UNCHANGED <<indexed, ready, lost>>

(* The MGET of _load_indexed_states. *)
ListLook(p) ==
    /\ Reads(p, "listed", IF row = NoRow THEN "stale" ELSE "idle")
    /\ UNCHANGED <<indexed, ready, lost>>

(* Its ZREM of the members without a row: the row may be back by now. *)
ListPrune(p) ==
    /\ Reads(p, "stale", "idle")
    /\ indexed' = FALSE
    /\ lost' = (lost \/ row # NoRow)
    /\ UNCHANGED ready

\* Mutant: the index is dropped and its mark is kept.
DropIndexOnly(p) ==
    /\ Reads(p, "idle", "drop")
    /\ indexed' = FALSE
    /\ lost' = (lost \/ (row # NoRow /\ \E q \in Reader : reader[q] = "missed"))
    /\ UNCHANGED ready

(* rebuild_execution_index: the index and its mark go in one pipeline.  A  *)
(* backfill under way that has passed the row will set the mark again.     *)
DropIndex(p) ==
    /\ Reads(p, "idle", "drop")
    /\ indexed' = FALSE /\ ready' = FALSE
    /\ lost' = (lost \/ (row # NoRow /\ \E q \in Reader : reader[q] = "missed"))

(* _ensure_execution_index, of a listing or after the drop: with the mark  *)
(* in place there is nothing to do.                                        *)
EnsureIndex(p) ==
    /\ \E from \in {"idle", "drop"} : Reads(p, from, IF ready THEN "idle" ELSE "scan")
    /\ UNCHANGED <<indexed, ready, lost>>

(* SCAN and GET come to the id. *)
BackfillLook(p) ==
    /\ Reads(p, "scan", IF row = NoRow THEN "missed" ELSE "found")
    /\ UNCHANGED <<indexed, ready, lost>>

(* The GET fails and the backfill goes on without the row, or the row is   *)
(* newer than the SCAN.                                                    *)
BackfillSkip(p) ==
    /\ Reads(p, "scan", "missed")
    /\ lost' = (lost \/ (row # NoRow /\ ~indexed))
    /\ UNCHANGED <<indexed, ready>>

(* One pipeline adds the rows found and sets the mark. *)
BackfillDone(p) ==
    /\ \E seen \in {"missed", "found"} :
          /\ Reads(p, seen, "idle")
          /\ indexed' = (indexed \/ seen = "found")
          /\ lost' = (lost /\ seen # "found")
    /\ ready' = TRUE

(* The process dies or a command fails: the rest of the call is not done. *)
ReaderStops(p) ==
    /\ \E from \in ReaderState \ {"idle"} : Reads(p, from, "idle")
    /\ UNCHANGED <<indexed, ready, lost>>

ReaderNext(p) ==
    \/ ListSlice(p) \/ ListLook(p) \/ ListPrune(p)
    \/ DropIndex(p) \/ EnsureIndex(p)
    \/ BackfillLook(p) \/ BackfillSkip(p) \/ BackfillDone(p) \/ ReaderStops(p)

StoreNext ==
    \/ \E s \in Session :
          \/ TryAcquireFenced(s) \/ Release(s) \/ RenewLost(s) \/ Crash(s)
          \/ FencedDelete(s) \/ Refused(s)
          \/ \E d \in Content : FencedSave(s, d)
    \/ \E d \in Content : PlainSave(d) \/ ConsoleSave(d)
    \/ ControlDelete \/ Load
    \/ LeaseExpires \/ FenceExpires \/ RowExpires \/ TombstoneExpires
    \/ Backup \/ Restore
    \/ \E p \in Reader : ReaderNext(p)

StoreSpec == StoreInit /\ [][StoreNext]_storeVars

(***************************************************************************)
(* Properties.                                                             *)
(***************************************************************************)
(* No two sessions ever bear the same generation, not even across a        *)
(* delete and re-creation of the same execution id: the counter survives   *)
(* the delete (the ABA of execution_lease.py).                             *)
GenerationsUnique ==
    \A s, t \in Session : s # t /\ token[s] # 0 => token[s] # token[t]

(* Whoever holds the lease has the newest generation ever granted, so a    *)
(* fence refusal never hits the rightful holder in favour of an older one. *)
HolderIsNewest ==
    lease # Free => lease.gen = fencegen /\ \A s \in Session : token[s] <= lease.gen

(* A fenced write bears the newest generation granted: a session that was  *)
(* overtaken (its lease expired, another one acquired) never changes the   *)
(* row again, not even after an operator put an old fence key back.        *)
NoStaleWrite ==
    [][row' # row /\ row'.src = "fenced"
         => \A s \in Session : token[s] <= row'.gen]_storeVars

(* A session whose execution was deleted under it does not bring the row   *)
(* back: a fenced write after a delete bears a generation granted after    *)
(* it (unless an operator restored the row in between).                    *)
NoResurrection ==
    [][row' # row /\ row'.src = "fenced" /\ ~restored => row'.gen > revoked]_storeVars

(* A fenced delete never takes the lease away from a newer session.        *)
(* Only the control plane (tokenless) may revoke a live lease.             *)
NoStaleDelete ==
    [][\A s \in Session : FencedDelete(s)
         => /\ lease \in {Free, LeaseValue(s)}
            /\ \A t \in Session \ {s} : token[t] < token[s]]_storeVars

(* Generations do not go back, across the upgrade from the release that     *)
(* counted in the fence key itself either: a fence value is only ever      *)
(* replaced by a greater one (an operator's restore aside).                *)
FenceNeverRegresses ==
    [][fence' # 0 /\ ~restored' => fence' >= fence]_storeVars

(* While the mark stands, a row written through the storage is in the      *)
(* index, so that every listing sees it, however saves, deletes, listings, *)
(* backfills and rebuilds interleave.  Three ways to lose the member are   *)
(* left, and lost records them: a listing prunes it for a row saved after  *)
(* its MGET, a rebuild drops it behind a backfill that has passed the row, *)
(* a backfill goes on without a row it could not read.                     *)
RowIndexed == ready /\ row.src \in {"fenced", "plain"} => indexed \/ lost

(* The store implements the epoch register. *)
Register == INSTANCE EpochRegister WITH
    epoch <- fencegen,
    open <- fence # 0 /\ fence = fencegen,
    reg <- row

ImplementsRegister == Register!Spec
=============================================================================
