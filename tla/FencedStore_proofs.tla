------------------------ MODULE FencedStore_proofs ------------------------
(***************************************************************************)
(* What the fenced store guarantees for any number of sessions, any bound  *)
(* on generations and any fence value an older release may have left.      *)
(***************************************************************************)
EXTENDS FencedStore, TLAPS

(* Every generation in use was granted by the counter. *)
TokensGranted == \A s \in Session : token[s] <= fencegen

(* A live lease bears the counter's value. *)
LeaseNewest == lease # Free => lease.gen = fencegen

(* A session that bears the lease's generation is the lease's holder. *)
LeaseOwned == \A s \in Session : token[s] # 0 /\ lease.gen = token[s] => lease.holder = s

(* A fence key the scripts would accept was written after the last delete. *)
FenceAfterDelete ==
    /\ revoked <= fencegen
    /\ fence # 0 /\ fence = fencegen /\ ~restored => fence > revoked

(* The inductive invariant. *)
StoreInv ==
    /\ TypeOK /\ TokensGranted /\ GenerationsUnique
    /\ LeaseNewest /\ LeaseOwned /\ FenceAfterDelete

-----------------------------------------------------------------------------

(* The missing row is a row value. *)
LEMMA NoRowType == NoRow \in Row
BY StoreAssumption DEF NoRow, Row, SomeContent

(* The free lease is a lease value. *)
LEMMA FreeType == Free \in Lease
BY DEF Free, Lease

(* The generation the acquire script grants exceeds the counter and the    *)
(* fence key, whatever an older release left there.                        *)
LEMMA NextGenerationExceeds ==
    ASSUME fence \in Nat, fencegen \in Nat
    PROVE  /\ NextGeneration \in Nat \ {0}
           /\ NextGeneration > fencegen
           /\ NextGeneration > fence
BY DEF NextGeneration

(* The ways a step touches the index keep its type. *)
LEMMA MemberKeepsType ==
    ASSUME StoreInv, AddMember \/ RemoveMember \/ UNCHANGED indexVars
    PROVE  IndexType'
BY DEF StoreInv, TypeOK, IndexType, AddMember, RemoveMember, indexVars

(* A listing or a rebuild touches the index and nothing else. *)
LEMMA ReaderTouchesIndex ==
    ASSUME StoreInv, NEW p \in Reader, ReaderNext(p)
    PROVE  /\ IndexType'
           /\ UNCHANGED <<lease, fence, fencegen, row, tombstone, token, backup, historyVars>>
<1> USE DEF StoreInv, TypeOK, IndexType, ReaderState, Reads
<1>1. CASE ListSlice(p) \/ ListLook(p) \/ ListPrune(p)
  BY <1>1 DEF ListSlice, ListLook, ListPrune
<1>2. CASE DropIndex(p)
  BY <1>2 DEF DropIndex
<1>3. CASE EnsureIndex(p) \/ ReaderStops(p)
  BY <1>3 DEF EnsureIndex, ReaderStops
<1>4. CASE BackfillLook(p) \/ BackfillSkip(p) \/ BackfillDone(p)
  BY <1>4 DEF BackfillLook, BackfillSkip, BackfillDone
<1> QED
  BY <1>1, <1>2, <1>3, <1>4 DEF ReaderNext

(* The invariant holds at the start. *)
LEMMA InitEstablishes == StoreInit => StoreInv
<1> SUFFICES ASSUME StoreInit PROVE StoreInv
  OBVIOUS
<1>1. TypeOK
  <2>1. lease \in Lease /\ (lease.gen = 0 <=> lease = Free)
    BY FreeType DEF StoreInit, Free
  <2>2. fence \in Nat /\ fencegen \in Nat
    BY StoreAssumption DEF StoreInit
  <2>3. row \in Row /\ backup \in [taken : BOOLEAN, row : Row, fence : Nat]
    BY NoRowType DEF StoreInit
  <2>4. IndexType
    BY DEF StoreInit, IndexType, ReaderState
  <2> QED
    BY <2>1, <2>2, <2>3, <2>4 DEF StoreInit, TypeOK
<1>2. TokensGranted /\ GenerationsUnique
  BY DEF StoreInit, TokensGranted, GenerationsUnique
<1>3. LeaseNewest /\ LeaseOwned /\ FenceAfterDelete
  BY DEF StoreInit, LeaseNewest, LeaseOwned, FenceAfterDelete
<1> QED
  BY <1>1, <1>2, <1>3 DEF StoreInv

(* A session that ends, however it ends, keeps the invariant. *)
LEMMA EndKeepsInv ==
    ASSUME StoreInv, NEW s \in Session,
           token' = [token EXCEPT ![s] = 0],
           lease' \in {lease, Free},
           UNCHANGED <<fence, fencegen, row, indexVars, tombstone, backup, historyVars>>
    PROVE  StoreInv'
<1>1. TypeOK'
  <2>1. lease' \in Lease /\ (lease.gen = 0 <=> lease = Free)'
    BY FreeType DEF StoreInv, TypeOK, Free
  <2>2. token' \in [Session -> Nat]
    BY DEF StoreInv, TypeOK
  <2> QED
    BY <2>1, <2>2, MemberKeepsType DEF StoreInv, TypeOK, historyVars
<1>2. \A t \in Session : token'[t] \in {token[t], 0}
  BY DEF StoreInv, TypeOK
<1>3. TokensGranted' /\ GenerationsUnique'
  BY <1>2 DEF StoreInv, TypeOK, TokensGranted, GenerationsUnique
<1>4. LeaseNewest' /\ LeaseOwned'
  BY <1>2 DEF StoreInv, TypeOK, LeaseNewest, LeaseOwned, Free
<1>5. FenceAfterDelete'
  BY DEF StoreInv, TypeOK, FenceAfterDelete, historyVars
<1> QED
  BY <1>1, <1>3, <1>4, <1>5 DEF StoreInv

(* A step that leaves the lease, the generations and the deletion history  *)
(* alone keeps the invariant.                                              *)
LEMMA RowStepKeepsInv ==
    ASSUME StoreInv, row' \in Row, IndexType', tombstone' \in BOOLEAN,
           backup' \in [taken : BOOLEAN, row : Row, fence : Nat],
           UNCHANGED <<lease, fence, fencegen, token, historyVars>>
    PROVE  StoreInv'
<1>1. TypeOK'
  BY DEF StoreInv, TypeOK, historyVars, Free
<1>2. TokensGranted' /\ GenerationsUnique'
  BY DEF StoreInv, TokensGranted, GenerationsUnique
<1>3. LeaseNewest' /\ LeaseOwned' /\ FenceAfterDelete'
  BY DEF StoreInv, LeaseNewest, LeaseOwned, FenceAfterDelete, historyVars, Free
<1> QED
  BY <1>1, <1>2, <1>3 DEF StoreInv

(* Dropping the row keeps the invariant. *)
LEMMA DropRowKeepsInv ==
    ASSUME StoreInv, DropRow, UNCHANGED <<token, backup>>
    PROVE  StoreInv'
<1>1. TypeOK'
  BY NoRowType, FreeType, MemberKeepsType DEF StoreInv, TypeOK, DropRow, Free
<1>2. TokensGranted' /\ GenerationsUnique'
  BY DEF StoreInv, TypeOK, TokensGranted, GenerationsUnique, DropRow
<1>3. LeaseNewest' /\ LeaseOwned' /\ FenceAfterDelete'
  BY DEF StoreInv, TypeOK, LeaseNewest, LeaseOwned, FenceAfterDelete, DropRow, Free
<1> QED
  BY <1>1, <1>2, <1>3 DEF StoreInv

(* Granting a lease keeps the invariant: the generation granted is a new one. *)
LEMMA AcquireKeepsInv ==
    ASSUME StoreInv, NEW s \in Session, TryAcquireFenced(s)
    PROVE  StoreInv'
<1> DEFINE g == NextGeneration
<1>1. /\ g \in Nat \ {0} /\ g > fencegen
      /\ fencegen' = g /\ fence' = g
      /\ lease' = [holder |-> s, gen |-> g]
      /\ token' = [token EXCEPT ![s] = g]
      /\ restored' = FALSE
      /\ UNCHANGED <<row, indexVars, tombstone, backup, revoked>>
  BY NextGenerationExceeds DEF StoreInv, TypeOK, TryAcquireFenced
<1> HIDE DEF g
<1>2. TypeOK'
  <2>1. lease' \in Lease
    BY <1>1 DEF Lease
  <2>2. (lease.gen = 0 <=> lease = Free)'
    BY <1>1 DEF Free
  <2>3. token' \in [Session -> Nat]
    BY <1>1 DEF StoreInv, TypeOK
  <2> QED
    BY <1>1, <2>1, <2>2, <2>3, MemberKeepsType DEF StoreInv, TypeOK
<1>3. \A t \in Session : token'[t] = IF t = s THEN g ELSE token[t]
  BY <1>1 DEF StoreInv, TypeOK
<1>4. \A t \in Session : token[t] \in Nat /\ token[t] < g
  BY <1>1 DEF StoreInv, TypeOK, TokensGranted
<1>5. TokensGranted' /\ GenerationsUnique'
  BY <1>1, <1>3, <1>4 DEF StoreInv, TokensGranted, GenerationsUnique
<1>6. LeaseNewest' /\ LeaseOwned'
  BY <1>1, <1>3, <1>4 DEF LeaseNewest, LeaseOwned
<1>7. FenceAfterDelete'
  BY <1>1 DEF StoreInv, TypeOK, FenceAfterDelete
<1> QED
  BY <1>2, <1>5, <1>6, <1>7 DEF StoreInv

(* Every step of the store keeps the invariant. *)
LEMMA NextKeepsInv == StoreInv /\ [StoreNext]_storeVars => StoreInv'
<1> SUFFICES ASSUME StoreInv, [StoreNext]_storeVars PROVE StoreInv'
  OBVIOUS
<1>1. ASSUME NEW s \in Session, TryAcquireFenced(s) PROVE StoreInv'
  BY <1>1, AcquireKeepsInv
<1>2. ASSUME NEW s \in Session, Release(s) PROVE StoreInv'
  BY <1>2, EndKeepsInv DEF Release, LeaseAfterRelease
<1>3. ASSUME NEW s \in Session, RenewLost(s) \/ Crash(s) PROVE StoreInv'
  BY <1>3, EndKeepsInv DEF RenewLost, Crash, redisVars
<1>4. ASSUME NEW s \in Session, Refused(s) PROVE StoreInv'
  BY <1>4, <1>2 DEF Refused
<1>5. ASSUME NEW s \in Session, FencedDelete(s) PROVE StoreInv'
  BY <1>5, DropRowKeepsInv DEF FencedDelete
<1>6. ASSUME NEW s \in Session, NEW d \in Content, FencedSave(s, d) PROVE StoreInv'
  <2>1. row' \in Row
    BY <1>6 DEF FencedSave, Row, StoreInv, TypeOK
  <2> QED
    BY <1>6, <2>1, RowStepKeepsInv, MemberKeepsType DEF FencedSave, StoreInv, TypeOK
<1>7. ASSUME NEW d \in Content, PlainSave(d) \/ ConsoleSave(d) PROVE StoreInv'
  <2>1. row' \in Row
    BY <1>7 DEF PlainSave, ConsoleSave, Row, StoreInv, TypeOK
  <2> QED
    BY <1>7, <2>1, RowStepKeepsInv, MemberKeepsType DEF PlainSave, ConsoleSave, StoreInv, TypeOK
<1>8. CASE ControlDelete
  BY <1>8, DropRowKeepsInv DEF ControlDelete
<1>9. CASE Load \/ RowExpires \/ TombstoneExpires
  BY <1>9, NoRowType, RowStepKeepsInv, MemberKeepsType
     DEF Load, RowExpires, TombstoneExpires, StoreInv, TypeOK
<1>10. CASE Backup
  BY <1>10, RowStepKeepsInv, MemberKeepsType DEF Backup, redisVars, StoreInv, TypeOK
<1>11. CASE LeaseExpires
  <2>1. TypeOK'
    BY <1>11, FreeType, MemberKeepsType DEF LeaseExpires, StoreInv, TypeOK, historyVars, Free
  <2>2. TokensGranted' /\ GenerationsUnique'
    BY <1>11 DEF LeaseExpires, StoreInv, TokensGranted, GenerationsUnique
  <2>3. LeaseNewest' /\ LeaseOwned' /\ FenceAfterDelete'
    BY <1>11 DEF LeaseExpires, StoreInv, TypeOK, LeaseNewest, LeaseOwned,
                 FenceAfterDelete, historyVars, Free
  <2> QED
    BY <2>1, <2>2, <2>3 DEF StoreInv
<1>12. CASE FenceExpires \/ Restore
  <2>1. row' \in Row /\ fence' \in Nat /\ restored' \in BOOLEAN
    <3>1. CASE FenceExpires
      BY <3>1 DEF FenceExpires, StoreInv, TypeOK, historyVars
    <3>2. CASE Restore
      <4>1. backup.row \in Row /\ backup.fence \in Nat
        BY DEF StoreInv, TypeOK
      <4>2. [backup.row EXCEPT !.src = "restored"] \in Row
        BY <4>1 DEF Row
      <4> QED
        BY <3>2, <4>1, <4>2 DEF Restore
    <3> QED
      BY <1>12, <3>1, <3>2
  <2>2. TypeOK'
    BY <1>12, <2>1, MemberKeepsType DEF FenceExpires, Restore, StoreInv, TypeOK, historyVars, Free
  <2>3. TokensGranted' /\ GenerationsUnique'
    BY <1>12 DEF FenceExpires, Restore, StoreInv, TokensGranted, GenerationsUnique
  <2>4. LeaseNewest' /\ LeaseOwned'
    BY <1>12 DEF FenceExpires, Restore, StoreInv, LeaseNewest, LeaseOwned, Free
  <2>5. FenceAfterDelete'
    BY <1>12 DEF FenceExpires, Restore, StoreInv, TypeOK, FenceAfterDelete, historyVars
  <2> QED
    BY <2>2, <2>3, <2>4, <2>5 DEF StoreInv
<1>13. CASE UNCHANGED storeVars
  BY <1>13, RowStepKeepsInv, MemberKeepsType DEF storeVars, redisVars, StoreInv, TypeOK
<1>14. ASSUME NEW p \in Reader, ReaderNext(p) PROVE StoreInv'
  BY <1>14, ReaderTouchesIndex, RowStepKeepsInv DEF StoreInv, TypeOK
<1> QED
  BY <1>1, <1>2, <1>3, <1>4, <1>5, <1>6, <1>7, <1>8, <1>9, <1>10, <1>11, <1>12, <1>13, <1>14
     DEF StoreNext

(* Every reachable state of the store satisfies the inductive invariant.   *)
THEOREM StoreInvariant == StoreSpec => []StoreInv
BY InitEstablishes, NextKeepsInv, PTL DEF StoreSpec

(* The keys of an execution keep their types. *)
THEOREM StoreTypeCorrect == StoreSpec => []TypeOK
<1>1. StoreInv => TypeOK
  BY DEF StoreInv
<1> QED
  BY <1>1, StoreInvariant, PTL

(* No two sessions ever bear the same generation, across deletes too.      *)
THEOREM StoreGenerationsUnique == StoreSpec => []GenerationsUnique
<1>1. StoreInv => GenerationsUnique
  BY DEF StoreInv
<1> QED
  BY <1>1, StoreInvariant, PTL

(* The holder of the lease has the newest generation.                      *)
THEOREM StoreHolderIsNewest == StoreSpec => []HolderIsNewest
<1>1. StoreInv => HolderIsNewest
  BY DEF StoreInv, TokensGranted, LeaseNewest, HolderIsNewest
<1> QED
  BY <1>1, StoreInvariant, PTL

-----------------------------------------------------------------------------
(* The only step that leaves a changed row marked as fenced is a fenced    *)
(* save, and the token it carries is the counter's value.                  *)
LEMMA FencedRowStep ==
    ASSUME StoreInv, StoreNext, row' # row, row'.src = "fenced"
    PROVE  /\ row'.gen = fencegen
           /\ fence # 0 /\ fence = fencegen
           /\ UNCHANGED <<token, historyVars>>
<1>1. ASSUME NEW s \in Session, NEW d \in Content, FencedSave(s, d)
      PROVE  /\ row'.gen = fencegen
             /\ fence # 0 /\ fence = fencegen
             /\ UNCHANGED <<token, historyVars>>
  BY <1>1 DEF FencedSave, FenceAccepts
<1>2. NoRow.src # "fenced"
  BY DEF NoRow
<1>3. ~DropRow
  BY <1>2 DEF DropRow
<1>4. \A s \in Session : ~(TryAcquireFenced(s) \/ Release(s) \/ RenewLost(s) \/ Crash(s)
                             \/ FencedDelete(s) \/ Refused(s))
  BY <1>3 DEF TryAcquireFenced, Release, RenewLost, Crash, FencedDelete, Refused, redisVars
<1>5. \A d \in Content : ~(PlainSave(d) \/ ConsoleSave(d))
  BY DEF PlainSave, ConsoleSave
<1>6. ~Restore
  BY DEF Restore, StoreInv, TypeOK, Row
<1>7. ~(ControlDelete \/ Load \/ LeaseExpires \/ FenceExpires \/ RowExpires
          \/ TombstoneExpires \/ Backup)
  BY <1>2, <1>3 DEF ControlDelete, Load, LeaseExpires, FenceExpires, RowExpires,
                    TombstoneExpires, Backup, redisVars
<1>8. \A p \in Reader : ~ReaderNext(p)
  BY ReaderTouchesIndex
<1> QED
  BY <1>1, <1>4, <1>5, <1>6, <1>7, <1>8 DEF StoreNext

(* An overtaken session never changes the row again.                       *)
THEOREM StoreNoStaleWrite == StoreSpec => NoStaleWrite
<1>1. StoreInv /\ [StoreNext]_storeVars =>
        [row' # row /\ row'.src = "fenced"
           => \A s \in Session : token[s] <= row'.gen]_storeVars
  BY FencedRowStep DEF StoreInv, TokensGranted
<1> QED
  BY <1>1, StoreInvariant, PTL DEF StoreSpec, NoStaleWrite

(* A deleted execution is not brought back by a session of before.         *)
THEOREM StoreNoResurrection == StoreSpec => NoResurrection
<1>1. StoreInv /\ [StoreNext]_storeVars =>
        [row' # row /\ row'.src = "fenced" /\ ~restored => row'.gen > revoked]_storeVars
  BY FencedRowStep DEF StoreInv, FenceAfterDelete
<1> QED
  BY <1>1, StoreInvariant, PTL DEF StoreSpec, NoResurrection

(* A fenced delete comes from the newest session only.                     *)
THEOREM StoreNoStaleDelete == StoreSpec => NoStaleDelete
<1>1. ASSUME StoreInv, NEW s \in Session, FencedDelete(s)
      PROVE  /\ lease \in {Free, LeaseValue(s)}
             /\ \A t \in Session \ {s} : token[t] < token[s]
  <2>1. token[s] # 0 /\ token[s] = fencegen /\ \A t \in Session : token[t] \in Nat
    BY <1>1 DEF FencedDelete, FenceAccepts, StoreInv, TypeOK
  <2>2. lease # Free => lease.gen = token[s] /\ lease.holder = s
    BY <1>1, <2>1 DEF StoreInv, LeaseNewest, LeaseOwned
  <2>3. lease \in {Free, LeaseValue(s)}
    BY <1>1, <2>2 DEF LeaseValue, StoreInv, TypeOK, Lease
  <2>4. \A t \in Session \ {s} : token[t] < token[s]
    <3> TAKE t \in Session \ {s}
    <3>1. token[t] <= token[s] /\ token[s] \in Nat /\ token[t] \in Nat
      BY <1>1, <2>1 DEF StoreInv, TokensGranted
    <3>2. token[s] # token[t]
      BY <1>1, <2>1 DEF StoreInv, GenerationsUnique
    <3> QED
      BY <3>1, <3>2
  <2> QED
    BY <2>3, <2>4
<1>2. StoreInv => [\A s \in Session : FencedDelete(s)
                     => /\ lease \in {Free, LeaseValue(s)}
                        /\ \A t \in Session \ {s} : token[t] < token[s]]_storeVars
  BY <1>1
<1> QED
  BY <1>2, StoreInvariant, PTL DEF NoStaleDelete

(* The fence key never goes back, except by an operator's hand.            *)
THEOREM StoreFenceNeverRegresses == StoreSpec => FenceNeverRegresses
<1>1. ASSUME StoreInv, StoreNext, fence' # 0, ~restored' PROVE fence' >= fence
  <2>1. ASSUME NEW s \in Session, TryAcquireFenced(s) PROVE fence' >= fence
    BY <1>1, <2>1, NextGenerationExceeds DEF TryAcquireFenced, StoreInv, TypeOK
  <2>2. ~DropRow /\ ~FenceExpires /\ ~Restore
    BY <1>1 DEF DropRow, FenceExpires, Restore
  <2>3. CASE fence' = fence
    BY <1>1, <2>3 DEF StoreInv, TypeOK
  <2>4. ASSUME NEW s \in Session,
               Release(s) \/ RenewLost(s) \/ Crash(s) \/ Refused(s)
        PROVE  fence' = fence
    BY <2>4 DEF Release, RenewLost, Crash, Refused, redisVars
  <2>5. ASSUME NEW d \in Content,
               PlainSave(d) \/ ConsoleSave(d) \/ \E s \in Session : FencedSave(s, d)
        PROVE  fence' = fence
    BY <2>5 DEF PlainSave, ConsoleSave, FencedSave
  <2>6. ASSUME Load \/ LeaseExpires \/ RowExpires \/ TombstoneExpires \/ Backup
        PROVE  fence' = fence
    BY <2>6 DEF Load, LeaseExpires, RowExpires, TombstoneExpires, Backup, redisVars
  <2>7. ASSUME NEW p \in Reader, ReaderNext(p) PROVE fence' = fence
    BY <1>1, <2>7, ReaderTouchesIndex
  <2> QED
    BY <1>1, <2>1, <2>2, <2>3, <2>4, <2>5, <2>6, <2>7 DEF StoreNext, FencedDelete, ControlDelete
<1>2. StoreInv /\ [StoreNext]_storeVars =>
        [fence' # 0 /\ ~restored' => fence' >= fence]_storeVars
  BY <1>1
<1> QED
  BY <1>2, StoreInvariant, PTL DEF StoreSpec, FenceNeverRegresses

-----------------------------------------------------------------------------
(* Whoever backfills has seen the row, unless it is in the index already   *)
(* or recorded as lost, and the mark is not set without it.                *)
Accounted ==
    row.src \in {"fenced", "plain"} /\ ~indexed /\ ~lost =>
        /\ ~ready
        /\ \A p \in Reader : reader[p] # "missed"

(* A reader's step keeps the row accounted for. *)
LEMMA ReaderAccounts ==
    ASSUME StoreInv, Accounted, NEW p \in Reader, ReaderNext(p)
    PROVE  Accounted'
<1> USE DEF StoreInv, TypeOK, IndexType, Accounted, Reads, NoRow
<1>1. CASE ListSlice(p) \/ ListLook(p)
  BY <1>1 DEF ListSlice, ListLook
<1>2. CASE ListPrune(p)
  BY <1>2 DEF ListPrune
<1>3. CASE DropIndex(p)
  BY <1>3 DEF DropIndex
<1>4. CASE EnsureIndex(p) \/ ReaderStops(p)
  BY <1>4 DEF EnsureIndex, ReaderStops
<1>5. CASE BackfillLook(p)
  <2>1. reader' = [reader EXCEPT ![p] = IF row = NoRow THEN "missed" ELSE "found"]
        /\ UNCHANGED <<row, indexed, ready, lost>>
    BY <1>5 DEF BackfillLook
  <2>2. row.src \in {"fenced", "plain"} => row # NoRow
    OBVIOUS
  <2> QED
    BY <2>1, <2>2
<1>6. CASE BackfillSkip(p)
  <2>1. row.src \in {"fenced", "plain"} => row # NoRow
    OBVIOUS
  <2>2. row # NoRow /\ ~indexed => lost'
    BY <1>6 DEF BackfillSkip
  <2>3. UNCHANGED <<row, indexed>>
    BY <1>6 DEF BackfillSkip
  <2> QED
    BY <2>1, <2>2, <2>3
<1>7. CASE BackfillDone(p)
  BY <1>7 DEF BackfillDone
<1> QED
  BY <1>1, <1>2, <1>3, <1>4, <1>5, <1>6, <1>7 DEF ReaderNext

(* While the mark stands a row written through the storage is in the index *)
(* or lost in one of the three ways recorded: every write adds the member, *)
(* only a delete, a listing's prune and a rebuild remove it, and a         *)
(* backfill sets the mark only with the rows it has passed accounted for.  *)
THEOREM StoreRowIndexed == StoreSpec => []RowIndexed
<1>1. StoreInit => Accounted
  BY DEF StoreInit, Accounted, NoRow
<1>2. ASSUME Accounted, StoreInv, StoreNext PROVE Accounted'
  <2>1. ASSUME NEW s \in Session, NEW d \in Content, FencedSave(s, d) PROVE Accounted'
    BY <2>1 DEF FencedSave, AddMember, Accounted
  <2>2. ASSUME NEW d \in Content, PlainSave(d) PROVE Accounted'
    BY <2>2 DEF PlainSave, AddMember, Accounted
  <2>3. CASE DropRow \/ RowExpires \/ Load
    BY <2>3 DEF DropRow, RowExpires, Load, AddMember, NoRow, Accounted
  <2>4. ASSUME Restore \/ \E d \in Content : ConsoleSave(d) PROVE Accounted'
    <3>1. row'.src \notin {"fenced", "plain"}
      BY <1>2, <2>4 DEF Restore, ConsoleSave, StoreInv, TypeOK, Row
    <3> QED
      BY <3>1 DEF Accounted
  <2>5. CASE UNCHANGED <<row, indexVars>>
    BY <1>2, <2>5 DEF Accounted, indexVars
  <2>6. ASSUME NEW s \in Session,
               TryAcquireFenced(s) \/ Release(s) \/ RenewLost(s) \/ Crash(s) \/ Refused(s)
        PROVE  UNCHANGED <<row, indexVars>>
    BY <2>6 DEF TryAcquireFenced, Release, RenewLost, Crash, Refused, redisVars
  <2>7. ASSUME LeaseExpires \/ FenceExpires \/ TombstoneExpires \/ Backup
        PROVE  UNCHANGED <<row, indexVars>>
    BY <2>7 DEF LeaseExpires, FenceExpires, TombstoneExpires, Backup, redisVars
  <2>8. ASSUME NEW p \in Reader, ReaderNext(p) PROVE Accounted'
    BY <1>2, <2>8, ReaderAccounts
  <2> QED
    BY <1>2, <2>1, <2>2, <2>3, <2>4, <2>5, <2>6, <2>7, <2>8
       DEF StoreNext, FencedDelete, ControlDelete
<1>3. Accounted /\ StoreInv /\ [StoreNext]_storeVars => Accounted'
  BY <1>2 DEF storeVars, redisVars, indexVars, Accounted
<1>4. Accounted => RowIndexed
  BY DEF Accounted, RowIndexed
<1> QED
  BY <1>1, <1>3, <1>4, StoreInvariant, PTL DEF StoreSpec

-----------------------------------------------------------------------------
(* The store implements the epoch register: acquiring grants, a fenced     *)
(* save writes, a delete or an expired fence key closes.                   *)
LEMMA StepImplements ==
    ASSUME StoreInv, StoreNext
    PROVE  [Register!Next]_(Register!regVars)
<1> USE DEF Register!Next, Register!regVars
<1>1. ASSUME NEW s \in Session, TryAcquireFenced(s) PROVE Register!Grant
  BY <1>1, NextGenerationExceeds DEF TryAcquireFenced, StoreInv, TypeOK, Register!Grant
<1>2. ASSUME NEW s \in Session, NEW d \in Content, FencedSave(s, d) PROVE Register!Write
  BY <1>2 DEF FencedSave, FenceAccepts, Register!Write
<1>3. ASSUME DropRow PROVE Register!Remove
  BY <1>3 DEF DropRow, NoRow, Register!Remove
<1>4. ASSUME RowExpires PROVE Register!Remove
  BY <1>4 DEF RowExpires, NoRow, Register!Remove
<1>5. ASSUME NEW d \in Content, PlainSave(d) \/ ConsoleSave(d) PROVE Register!Outside
  BY <1>5 DEF PlainSave, ConsoleSave, Register!Outside
<1>6. ASSUME Restore PROVE Register!Outside
  BY <1>6 DEF Restore, StoreInv, TypeOK, Row, Register!Outside
<1>7. ASSUME FenceExpires PROVE Register!Close \/ UNCHANGED Register!regVars
  BY <1>7 DEF FenceExpires, Register!Close
<1>8. ASSUME NEW s \in Session, Release(s) \/ RenewLost(s) \/ Crash(s) \/ Refused(s)
      PROVE  UNCHANGED Register!regVars
  BY <1>8 DEF Release, RenewLost, Crash, Refused, redisVars
<1>9. ASSUME Load \/ LeaseExpires \/ TombstoneExpires \/ Backup
      PROVE  UNCHANGED Register!regVars
  BY <1>9 DEF Load, LeaseExpires, TombstoneExpires, Backup, redisVars
<1>10. ASSUME NEW p \in Reader, ReaderNext(p) PROVE UNCHANGED Register!regVars
  BY <1>10, ReaderTouchesIndex
<1> QED
  BY <1>1, <1>2, <1>3, <1>4, <1>5, <1>6, <1>7, <1>8, <1>9, <1>10
     DEF StoreNext, FencedDelete, ControlDelete

(* The fenced store (src/plaita/storage/fenced.py) implements
   the epoch register: its steps are steps of the register, or leave it alone. *)
THEOREM StoreImplementsRegister == StoreSpec => ImplementsRegister
<1>1. StoreInit => Register!Init
  BY DEF StoreInit, NoRow, Register!Init
<1>2. StoreInv /\ [StoreNext]_storeVars => [Register!Next]_(Register!regVars)
  BY StepImplements DEF storeVars, redisVars, Register!regVars
<1> QED
  BY <1>1, <1>2, StoreInvariant, PTL DEF StoreSpec, ImplementsRegister, Register!Spec
=============================================================================
