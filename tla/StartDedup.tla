------------------------------ MODULE StartDedup ------------------------------
(***************************************************************************)
(* Starting an execution once per dedup key.  Console requests             *)
(* (start_execution, plaita-console/backend/api/executions.py) and the     *)
(* firings of a schedule (fire_schedule, services/schedule_service.py)     *)
(* claim the key in Redis (plaita/server/start_dedup.py), take a quota     *)
(* slot of the tenant (tenant_quota.py), write a queued row, enqueue the   *)
(* start message and mark the claim enqueued.  Workers consume the         *)
(* messages, users cancel and delete, and a sweeper                        *)
(* (start_dedup_sweeper.py) clears claims left "parked".                   *)
(*                                                                         *)
(* One dedup key of one tenant.  A step ends where the code reads or       *)
(* writes a shared key.  The owner key and the token key are written,      *)
(* deleted and expire together, so they are one variable; the random token *)
(* is represented by the requester that drew it, which draws a new one     *)
(* only after it has given the old one up.                                 *)
(***************************************************************************)
EXTENDS Naturals, FiniteSets

CONSTANTS
    Req,            \* requesters: console requests, or firings of a schedule
    Worker,
    MaxId,          \* bound on the execution ids in use
    MaxMsg,         \* bound on the messages of a behaviour
    Attempts,       \* times a console request tries to claim (3 in the code)
    DeferMax,       \* times a start is deferred before it passes without a slot
    Scenarios,      \* who asks, the tenant's cap, and how often each Trouble may happen
    Unlimited,      \* no cap; a budget that never runs out
    NoId, Nobody

Id == 1 .. MaxId

(* Faults, and requests from outside, that each have a budget: a requester *)
(* or a worker dies; a requester is slower than the TTL of its claim; the  *)
(* row, the first message or a recovery message cannot be written; the     *)
(* first mark or a recovery's mark gets no answer; Redis fails under the   *)
(* quota's admission, which lets the start pass; a slot outlives its TTL   *)
(* although its execution is not over; a client or a schedule tries again; *)
(* a user cancels or deletes.                                              *)
Trouble == {"crash", "slow", "row", "xadd", "readd", "mark", "remark", "open", "slot",
            "retry", "cancel", "delete"}

ASSUME DedupAssumption ==
    /\ NoId \notin Nat
    /\ Nobody \notin Req
    /\ MaxId \in Nat \ {0} /\ MaxMsg \in Nat \ {0}
    /\ Attempts \in Nat \ {0} /\ DeferMax \in Nat \ {0}
    /\ Unlimited \notin Nat
    /\ Scenarios \subseteq [cron : BOOLEAN, cap : (Nat \ {0}) \cup {Unlimited},
                            budget : [Trouble -> Nat \cup {Unlimited}]]
    /\ \A s \in Scenarios : \A t \in Trouble \ {"retry"} : s.budget[t] \in Nat

VARIABLES
    map,        \* start-dedup key: the execution id it stands for
    claim,      \* owner and token keys: state, id, requester that holds it
    parked,     \* park marker: the id left for the sweeper
    row,        \* execution rows
    tomb,       \* tombstones
    slots,      \* ZSET of the tenant's admitted executions
    flag,       \* cancel flags
    msgs,       \* start messages in the stream, pending ones included; defers
                \* counts how often the quota has sent one to the tail
    sent,       \* messages sent so far
    req,        \* each requester: where it is and what it has in memory
    wk,         \* each worker
    sw,         \* the sweeper: the id it is about to clear, and how far it is
    accepted,   \* history: ids some caller was told are started
    ran,        \* history: ids whose nodes have run
    beside,     \* history: ids that the quota has lost sight of
    left        \* the scenario, and what remains (now) of its budget

redis == <<map, claim, parked, row, tomb, slots, flag, msgs, sent>>
history == <<accepted, ran, beside>>
vars == <<redis, req, wk, sw, history, left>>

-----------------------------------------------------------------------------
(* The keys of the dedup protocol. *)

NoClaim == [st |-> "none", id |-> NoId, by |-> Nobody]
\* Mutant: the owner is written without the token.
ClaimTokenless(st, i, r) == [st |-> st, id |-> i]
Claim(st, i, r) == [st |-> st, id |-> i, by |-> r]
OwnerIs(states, i) == claim.st \in states /\ claim.id = i

(* _GUARD_LUA and _RESERVE_LUA: the claim is still this requester's, in    *)
(* state claiming, or has expired without anybody taking over.             *)
MayProceed(i, r) ==
    /\ map = i /\ i \notin tomb
    /\ claim \in {Claim("claiming", i, r), NoClaim}

(* _MARK_ENQUEUED_LUA *)
MayMark(i, r) == map = i /\ i \notin tomb /\ claim = Claim("enqueueing", i, r)

\* Mutant: adoption does not look at the owner key.
MayAdoptFromAnybody(i) == map = i /\ i \notin tomb /\ row[i] # "none"

(* _RECOVER_LUA *)
MayAdopt(i) ==
    /\ map = i /\ i \notin tomb
    /\ claim = NoClaim
    /\ row[i] # "none"

(* _RELEASE_LUA: with the token, by the requester that failed; without it, *)
(* by whoever finds an orphan.                                             *)
MayReleaseOwn(i, r, rowAbsent) ==
    /\ map = i
    /\ claim \in {Claim("claiming", i, r), Claim("enqueueing", i, r)}
    /\ rowAbsent => row[i] = "none"
\* Mutant: the keys are deleted without looking at whose they are.
MayReleaseUnchecked(i, rowAbsent) == rowAbsent => row[i] = "none"
MayReleaseOrphan(i, rowAbsent) ==
    /\ map = i
    /\ \/ i \in tomb
       \/ claim = NoClaim /\ (rowAbsent => row[i] = "none")
ReleaseIf(may) ==
    /\ map' = IF may THEN NoId ELSE map
    /\ claim' = IF may THEN NoClaim ELSE claim

(* An execution id nothing refers to: a new one. *)
Unused(i) ==
    /\ map # i /\ claim.id # i /\ parked # i /\ sw.id # i
    /\ row[i] = "none" /\ i \notin tomb \cup slots \cup flag \cup accepted \cup ran \cup beside
    /\ \A m \in msgs : m.id # i
    /\ \A r \in Req : req[r].id # i /\ req[r].to # i
    /\ \A w \in Worker : wk[w].to # i
NewId == CHOOSE i \in Id : Unused(i) /\ \A j \in 1 .. (i - 1) : ~Unused(j)

cron == left.cron
Spend(t) ==
    /\ left.now[t] # 0
    /\ left' = [left EXCEPT !.now[t] = IF @ = Unlimited THEN @ ELSE @ - 1]
Happened(t) == left.now[t] # left.budget[t]

-----------------------------------------------------------------------------
(* Requesters.  id is the id claimed by this request; to is the id of      *)
(* somebody else it found under the key; st the status it read in its row; *)
(* msg the message it added; why the reason it undoes its work; lost is    *)
(* set once it only looks for an answer to give.                           *)

ReqAt(pc) == [pc |-> pc, id |-> NoId, to |-> NoId, st |-> "none",
              msg |-> 0, why |-> "none", lost |-> FALSE, tries |-> 0]
At(r, pc) == req[r].pc = pc
Goto(r, pc) == req' = [req EXCEPT ![r].pc = pc]
Rest == {"claim", "ok", "dedup", "failed", "gaveup"}

Answer(r, i) ==
    /\ req' = [req EXCEPT ![r] = [ReqAt("ok") EXCEPT !.to = i]]
    /\ accepted' = accepted \cup {i}
(* 409, 429 or 503: the caller may try again with the same key. *)
Fail(r) == req' = [req EXCEPT ![r] = ReqAt("failed")]
(* A schedule that has recorded the failure moves on to its next due time. *)
GiveUp(r) ==
    req' = [req EXCEPT ![r] = ReqAt(IF cron THEN "gaveup" ELSE "failed")]
(* None from _dedup_hit_row_response, or an orphan released: claim again,  *)
(* at most Attempts times, and never once the own claim is lost.           *)
Again(r) ==
    IF req[r].lost \/ req[r].tries + 1 = Attempts
    THEN Fail(r)
    ELSE req' = [req EXCEPT ![r] = [ReqAt("claim") EXCEPT !.tries = req[r].tries + 1]]

(* start_dedup.claim: _CLAIM_LUA, or the id found under the key. *)
TryClaim(r) ==
    /\ At(r, "claim")
    /\ \/ /\ map = NoId
          /\ \E i \in Id : Unused(i)
          /\ map' = NewId
          /\ claim' = Claim("claiming", NewId, r)
          /\ req' = [req EXCEPT ![r].pc = "admit", ![r].id = NewId]
       \/ /\ map # NoId
          /\ req' = [req EXCEPT ![r].pc = IF ~cron THEN "hit" ELSE "owner",
                                ![r].to = map]
          /\ UNCHANGED <<map, claim>>
    /\ UNCHANGED <<parked, row, tomb, slots, flag, msgs, sent, wk, sw, history, left>>

(* try_admit_tenant_start: no cap, no slot; a slot, taken again by whoever *)
(* has it already; or, when Redis fails, leave to run without one.         *)
HasRoom(i) == i \in slots \/ Cardinality(slots) < left.cap
TakesSlot(i) ==
    /\ left.cap # Unlimited /\ HasRoom(i)
    /\ slots' = slots \cup {i}
    /\ UNCHANGED left
PassesOpen ==
    /\ (left.cap = Unlimited /\ UNCHANGED left) \/ Spend("open")
    /\ UNCHANGED slots
NoSlotLeft(i) == left.cap # Unlimited /\ ~HasRoom(i) /\ UNCHANGED <<slots, left>>

Admit(r) ==
    /\ At(r, "admit")
    /\ LET i == req[r].id IN
         \/ (TakesSlot(i) \/ PassesOpen) /\ Goto(r, IF ~cron THEN "guard" ELSE "write")
         \/ NoSlotLeft(i) /\ req' = [req EXCEPT ![r].pc = "giveback", ![r].why = "full"]
    /\ UNCHANGED <<map, claim, parked, row, tomb, flag, msgs, sent, wk, sw, history>>

(* The guard before the placeholder (console only). *)
Guard(r) ==
    /\ At(r, "guard")
    /\ LET i == req[r].id IN
         IF MayProceed(i, r)
         THEN claim' = Claim("claiming", i, r) /\ Goto(r, "write")
         ELSE claim' = claim /\ req' = [req EXCEPT ![r].pc = "undo", ![r].why = "early"]
    /\ UNCHANGED <<map, parked, row, tomb, slots, flag, msgs, sent, wk, sw, history, left>>

(* _write_queued_placeholder *)
WriteRow(r) ==
    /\ At(r, "write")
    /\ \/ /\ row' = [row EXCEPT ![req[r].id] = "queued"]
          /\ Goto(r, "reserve")
          /\ UNCHANGED left
       \/ /\ Spend("row")
          /\ req' = [req EXCEPT ![r].pc = "undo", ![r].why = "fault"]
          /\ UNCHANGED row
    /\ UNCHANGED <<map, claim, parked, tomb, slots, flag, msgs, sent, wk, sw, history>>

(* reserve_enqueue; a schedule that is refused guards and reserves again.  *)
Reserve(r) ==
    /\ req[r].pc \in {"reserve", "reserve2"}
    /\ LET i == req[r].id IN
         IF MayProceed(i, r)
         THEN claim' = Claim("enqueueing", i, r) /\ Goto(r, "xadd")
         ELSE /\ claim' = claim
              /\ IF cron /\ At(r, "reserve")
                 THEN Goto(r, "reguard")
                 ELSE req' = [req EXCEPT ![r].pc = "undo", ![r].why = "lost"]
    /\ UNCHANGED <<map, parked, row, tomb, slots, flag, msgs, sent, wk, sw, history, left>>

Reguard(r) ==
    /\ At(r, "reguard")
    /\ LET i == req[r].id IN
         IF MayProceed(i, r)
         THEN claim' = Claim("claiming", i, r) /\ Goto(r, "reserve2")
         ELSE claim' = claim /\ req' = [req EXCEPT ![r].pc = "undo", ![r].why = "lost"]
    /\ UNCHANGED <<map, parked, row, tomb, slots, flag, msgs, sent, wk, sw, history, left>>

Send(i, defers) ==
    /\ sent < MaxMsg
    /\ sent' = sent + 1
    /\ msgs' = msgs \cup {[n |-> sent + 1, id |-> i, defers |-> defers]}
Sent(n) == {m \in msgs : m.n = n}

\* Mutant: the failure of XADD goes unnoticed.
XAddUnchecked(r) ==
    /\ At(r, "xadd")
    /\ req' = [req EXCEPT ![r].pc = "mark", ![r].msg = sent + 1]
    /\ \/ Send(req[r].id, 0) /\ UNCHANGED left
       \/ Spend("xadd") /\ UNCHANGED <<msgs, sent>>
    /\ UNCHANGED <<map, claim, parked, row, tomb, slots, flag, wk, sw, history>>

(* XADD of the start message. *)
XAdd(r) ==
    /\ At(r, "xadd")
    /\ \/ /\ Send(req[r].id, 0)
          /\ req' = [req EXCEPT ![r].pc = "mark", ![r].msg = sent + 1]
          /\ UNCHANGED left
       \/ /\ Spend("xadd")
          /\ req' = [req EXCEPT ![r].pc = "undo", ![r].why = "fault"]
          /\ UNCHANGED <<msgs, sent>>
    /\ UNCHANGED <<map, claim, parked, row, tomb, slots, flag, wk, sw, history>>

(* mark_enqueued, which clears the park marker when it succeeds; the call  *)
(* may also fail without an answer, before or after it took effect.        *)
Marked(i, r) == claim' = Claim("enqueued", i, r) /\ parked' = NoId
MarkFails(i, r, fault) ==
    \/ ~MayMark(i, r) /\ UNCHANGED <<claim, parked, left>>
    \/ Spend(fault) /\ UNCHANGED <<claim, parked>>
    \/ Spend(fault) /\ MayMark(i, r) /\ claim' = Claim("enqueued", i, r) /\ UNCHANGED parked
Mark(r) ==
    /\ req[r].pc \in {"mark", "rmark"}
    /\ LET i == req[r].id IN
         \/ /\ MayMark(i, r) /\ Marked(i, r)
            /\ Answer(r, i)
            /\ UNCHANGED <<ran, beside, left>>
         \/ /\ MarkFails(i, r, "mark")
            /\ Goto(r, IF At(r, "mark") THEN "rguard" ELSE "park")
            /\ UNCHANGED history
    /\ UNCHANGED <<map, row, tomb, slots, flag, msgs, sent, wk, sw>>

(* recover_after_mark_failure: guard and reserve; then Mark once more. *)
RecoverMark(r) ==
    /\ req[r].pc \in {"rguard", "rreserve"}
    /\ LET i == req[r].id IN
         IF MayProceed(i, r)
         THEN IF At(r, "rguard")
              THEN claim' = Claim("claiming", i, r) /\ Goto(r, "rreserve")
              ELSE claim' = Claim("enqueueing", i, r) /\ Goto(r, "rmark")
         ELSE claim' = claim /\ Goto(r, "park")
    /\ UNCHANGED <<map, parked, row, tomb, slots, flag, msgs, sent, wk, sw, history, left>>

(* mark_parked while the key is still ours; otherwise take everything back. *)
Park(r) ==
    /\ At(r, "park")
    /\ LET i == req[r].id IN
         IF map = i /\ i \notin tomb
         THEN parked' = i /\ GiveUp(r)
         ELSE /\ parked' = parked
              /\ req' = [req EXCEPT ![r].pc = IF cron THEN "xdel" ELSE "undo", ![r].why = "late"]
    /\ UNCHANGED <<map, claim, row, tomb, slots, flag, msgs, sent, wk, sw, history, left>>

(* release_tenant_start.  What is left to take back depends on how far the *)
(* request had come: "early" is before its row, "late" after its message.  *)
GiveSlot(r) ==
    /\ At(r, "undo")
    /\ slots' = slots \ {req[r].id}
    /\ beside' = beside \cup {req[r].id}
    /\ Goto(r, IF req[r].why = "early" THEN "giveback" ELSE "drop")
    /\ UNCHANGED <<map, claim, parked, row, tomb, flag, msgs, sent, wk, sw, accepted, ran, left>>

(* _discard_queued_placeholder: the row goes and a tombstone is written. *)
Drop(r) ==
    /\ At(r, "drop")
    /\ row' = [row EXCEPT ![req[r].id] = "none"]
    /\ tomb' = tomb \cup {req[r].id}
    /\ Goto(r, IF req[r].why = "late" /\ ~cron THEN "xdel" ELSE "giveback")
    /\ UNCHANGED <<map, claim, parked, slots, flag, msgs, sent, wk, sw, history, left>>

(* XDEL of a message sent too late: last at the console, first when a      *)
(* schedule fires.                                                         *)
Xdel(r) ==
    /\ At(r, "xdel")
    /\ msgs' = msgs \ Sent(req[r].msg)
    /\ Goto(r, IF cron THEN "undo" ELSE "lost")
    /\ UNCHANGED <<map, claim, parked, row, tomb, slots, flag, sent, wk, sw, history, left>>

(* release: a console request with its token, a schedule without (but for  *)
(* a full quota).                                                          *)
GiveBack(r) ==
    /\ At(r, "giveback")
    /\ LET i == req[r].id IN
         /\ ReleaseIf(IF cron /\ req[r].why # "full"
                      THEN MayReleaseOrphan(i, FALSE)
                      ELSE MayReleaseOwn(i, r, cron))
         /\ IF ~cron /\ req[r].why \in {"early", "lost"}
            THEN Goto(r, "lost")
            ELSE IF req[r].why = "full" THEN Fail(r) ELSE GiveUp(r)
    /\ UNCHANGED <<parked, row, tomb, slots, flag, msgs, sent, wk, sw, history, left>>

(* _start_claim_lost_response: answer with the id that took over. *)
Lost(r) ==
    /\ At(r, "lost")
    /\ IF map \notin {NoId, req[r].id} \cup tomb /\ row[map] # "none"
       THEN req' = [req EXCEPT ![r] = [ReqAt("row") EXCEPT !.to = map, !.st = row[map],
                                                          !.lost = TRUE]]
       ELSE Fail(r)
    /\ UNCHANGED <<redis, wk, sw, history, left>>

-----------------------------------------------------------------------------
(* A console request that finds the key taken. *)

Hit(r) ==
    /\ At(r, "hit")
    /\ req' = [req EXCEPT ![r].st = row[req[r].to],
                          ![r].pc = IF row[req[r].to] = "none" THEN "norow" ELSE "row"]
    /\ UNCHANGED <<redis, wk, sw, history, left>>

InFlight == {"claiming", "enqueueing"}
NoRow(r) ==
    /\ At(r, "norow")
    /\ Goto(r, IF OwnerIs(InFlight, req[r].to) /\ req[r].to \notin tomb
               THEN "waitrow" ELSE "orphan")
    /\ UNCHANGED <<redis, wk, sw, history, left>>

(* Poll for the row; the wait is bounded. *)
WaitRow(r) ==
    /\ At(r, "waitrow")
    /\ LET i == req[r].to IN
         \/ row[i] # "none" /\ req' = [req EXCEPT ![r].st = row[i], ![r].pc = "row"]
         \/ map = i /\ i \notin tomb /\ Fail(r)
         \/ ~(map = i /\ i \notin tomb) /\ Goto(r, "orphan")
    /\ UNCHANGED <<redis, wk, sw, history, left>>

\* Mutant: the orphan is left where it is.
OrphanKept(r) == At(r, "orphan") /\ Again(r) /\ UNCHANGED <<redis, wk, sw, history, left>>

(* A key whose row never came is freed for the next claim. *)
Orphan(r) ==
    /\ At(r, "orphan")
    /\ ReleaseIf(MayReleaseOrphan(req[r].to, TRUE))
    /\ Again(r)
    /\ UNCHANGED <<parked, row, tomb, slots, flag, msgs, sent, wk, sw, history, left>>

(* _dedup_hit_row_response *)
RowHit(r) ==
    /\ At(r, "row")
    /\ LET i == req[r].to IN
         \/ /\ req[r].st # "queued" \/ OwnerIs({"enqueued"}, i)
            /\ Answer(r, i) /\ UNCHANGED <<ran, beside>>
         \/ /\ req[r].st = "queued" /\ ~OwnerIs({"enqueued"}, i)
            /\ Goto(r, IF OwnerIs(InFlight, i) THEN "waitmark" ELSE "adopt")
            /\ UNCHANGED history
    /\ UNCHANGED <<redis, wk, sw, left>>

\* Mutant: the wait ends with an answer instead of a refusal.
WaitMarkThenAnswer(r) ==
    /\ At(r, "waitmark")
    /\ Answer(r, req[r].to)
    /\ UNCHANGED <<redis, wk, sw, ran, beside, left>>

(* Poll for the mark; the wait is bounded. *)
WaitMark(r) ==
    /\ At(r, "waitmark")
    /\ LET i == req[r].to IN
         \/ OwnerIs({"enqueued"}, i) /\ Answer(r, i) /\ UNCHANGED <<ran, beside>>
         \/ /\ ~OwnerIs({"enqueued"}, i)
            /\ IF map # i \/ i \in tomb \/ row[i] = "none" THEN Again(r) ELSE Fail(r)
            /\ UNCHANGED history
    /\ UNCHANGED <<redis, wk, sw, left>>

(* adopt_for_recovery: a row without an owner is enqueued again. *)
Adopt(r) ==
    /\ At(r, "adopt")
    /\ LET i == req[r].to IN
         IF MayAdopt(i)
         THEN claim' = Claim("enqueueing", i, r) /\ Goto(r, "readd")
         ELSE claim' = claim /\ IF ~cron THEN Again(r) ELSE Fail(r)
    /\ UNCHANGED <<map, parked, row, tomb, slots, flag, msgs, sent, wk, sw, history, left>>

(* The recovery message.  A console request that cannot send it still      *)
(* answers 200.                                                            *)
ReAdd(r) ==
    /\ At(r, "readd")
    /\ \/ /\ Send(req[r].to, 0)
          /\ req' = [req EXCEPT ![r].pc = "remark", ![r].msg = sent + 1]
          /\ UNCHANGED <<accepted, left>>
       \/ /\ Spend("readd")
          /\ IF ~cron THEN Answer(r, req[r].to) ELSE Fail(r) /\ UNCHANGED accepted
          /\ UNCHANGED <<msgs, sent>>
    /\ UNCHANGED <<map, claim, parked, row, tomb, slots, flag, wk, sw, ran, beside>>

ReMark(r) ==
    /\ At(r, "remark")
    /\ LET i == req[r].to IN
         \/ /\ MayMark(i, r) /\ Marked(i, r)
            /\ Answer(r, i)
            /\ UNCHANGED <<ran, beside, left>>
         \/ /\ MarkFails(i, r, "remark")
            /\ IF ~cron THEN Goto(r, "rexdel") ELSE Fail(r)
            /\ UNCHANGED history
    /\ UNCHANGED <<map, row, tomb, slots, flag, msgs, sent, wk, sw>>

ReXdel(r) ==
    /\ At(r, "rexdel")
    /\ msgs' = msgs \ Sent(req[r].msg)
    /\ Again(r)
    /\ UNCHANGED <<map, claim, parked, row, tomb, slots, flag, sent, wk, sw, history, left>>

-----------------------------------------------------------------------------
(* A firing that finds the key taken. *)

(* A live owner, in whatever state: this due time is taken care of. *)
FireOwner(r) ==
    /\ At(r, "owner")
    /\ IF OwnerIs(InFlight \cup {"enqueued"}, req[r].to)
       THEN req' = [req EXCEPT ![r] = ReqAt("dedup")]
       ELSE Goto(r, "look")
    /\ UNCHANGED <<redis, wk, sw, history, left>>

FireLook(r) ==
    /\ At(r, "look")
    /\ LET i == req[r].to IN
         Goto(r, IF row[i] = "none" THEN "clear"
                 ELSE IF i \in tomb THEN "discard" ELSE "adopt")
    /\ UNCHANGED <<redis, wk, sw, history, left>>

FireDiscard(r) ==
    /\ At(r, "discard")
    /\ row' = [row EXCEPT ![req[r].to] = "none"]
    /\ tomb' = tomb \cup {req[r].to}
    /\ Goto(r, "clear")
    /\ UNCHANGED <<map, claim, parked, slots, flag, msgs, sent, wk, sw, history, left>>

(* Release the orphan; if the key is free of it, fire with a new id. *)
FireClear(r) ==
    /\ At(r, "clear")
    /\ LET i == req[r].to IN
         /\ ReleaseIf(MayReleaseOrphan(i, FALSE))
         /\ IF map' = i THEN Fail(r) ELSE req' = [req EXCEPT ![r] = ReqAt("claim")]
    /\ UNCHANGED <<parked, row, tomb, slots, flag, msgs, sent, wk, sw, history, left>>

-----------------------------------------------------------------------------
(* Requesters fail, try again, and outlive their claim. *)

CrashReq(r) ==
    /\ req[r].pc \notin Rest
    /\ Spend("crash")
    /\ Fail(r)
    /\ UNCHANGED <<redis, wk, sw, history>>

TryAgain(r) ==
    /\ At(r, "failed")
    /\ Spend("retry")
    /\ req' = [req EXCEPT ![r] = ReqAt("claim")]
    /\ UNCHANGED <<redis, wk, sw, history>>

(* The owner and token keys run out, 60 s after the last renewal; a mark   *)
(* makes them last as long as the key.                                     *)
HolderAtWork ==
    \E r \in Req :
      /\ claim.by = r
      /\ \/ claim.id = req[r].id
         \/ claim.id = req[r].to /\ req[r].pc \in {"readd", "remark", "rexdel"}
ClaimExpires ==
    /\ claim.st \in InFlight
    /\ IF HolderAtWork THEN Spend("slow") ELSE UNCHANGED left
    /\ claim' = NoClaim
    /\ UNCHANGED <<map, parked, row, tomb, slots, flag, msgs, sent, req, wk, sw, history>>

-----------------------------------------------------------------------------
(* Workers: the gates of process_message and the head of start_flow.  to   *)
(* is the id whose mapping is to be released.  Running nodes, leases and   *)
(* redelivery are the subject of FlowWorker.                               *)

Idle == [pc |-> "idle", msg |-> [n |-> 0, id |-> NoId, defers |-> 0], to |-> NoId]
WAt(w, pc) == wk[w].pc = pc
WGoto(w, pc) == wk' = [wk EXCEPT ![w].pc = pc]
WId(w) == wk[w].msg.id
Ack(w) ==
    /\ msgs' = msgs \ {wk[w].msg}
    /\ wk' = [wk EXCEPT ![w] = Idle]

\* Mutant: the message is acknowledged as soon as it is read.
TakeAndAck(w) ==
    /\ WAt(w, "idle")
    /\ \E m \in msgs :
         wk' = [wk EXCEPT ![w].pc = "gate", ![w].msg = m] /\ msgs' = msgs \ {m}
    /\ UNCHANGED <<map, claim, parked, row, tomb, slots, flag, sent, req, sw, history, left>>

(* XREADGROUP or XAUTOCLAIM of a message nobody is working on. *)
Take(w) ==
    /\ WAt(w, "idle")
    /\ \E m \in msgs :
         /\ \A v \in Worker : wk[v].msg # m
         /\ wk' = [wk EXCEPT ![w].pc = "gate", ![w].msg = m]
    /\ UNCHANGED <<redis, req, sw, history, left>>

(* The tombstone gate, then the quota gate: a start without a slot takes   *)
(* one, or is deferred; one deferred more than DeferMax times passes.      *)
Bypass(w) == wk[w].msg.defers > DeferMax
PassesGate(w) ==
    \/ ~Bypass(w) /\ TakesSlot(WId(w)) /\ beside' = beside \ {WId(w)}
    \/ /\ PassesOpen \/ (Bypass(w) /\ UNCHANGED <<slots, left>>)
       /\ beside' = beside \cup ({WId(w)} \ slots)
\* Mutant: whoever is not deleted passes.
GateOpen(w) ==
    /\ WAt(w, "gate")
    /\ IF WId(w) \in tomb
       THEN wk' = [wk EXCEPT ![w].pc = "release", ![w].to = WId(w)]
       ELSE WGoto(w, "check")
    /\ UNCHANGED <<redis, req, sw, history, left>>
Gate(w) ==
    /\ WAt(w, "gate")
    /\ \/ /\ WId(w) \in tomb
          /\ wk' = [wk EXCEPT ![w].pc = "release", ![w].to = WId(w)]
          /\ UNCHANGED <<slots, beside, left>>
       \/ WId(w) \notin tomb /\ PassesGate(w) /\ WGoto(w, "check")
       \/ /\ WId(w) \notin tomb /\ ~Bypass(w) /\ NoSlotLeft(WId(w))
          /\ WGoto(w, "defer") /\ UNCHANGED beside
    /\ UNCHANGED <<map, claim, parked, row, tomb, flag, msgs, sent, req, sw, accepted, ran>>

(* _defer_over_quota_start: a copy to the tail of the queue, then the      *)
(* acknowledgement.  A copy that cannot be sent leaves the message         *)
(* pending, as a crash here does.                                          *)
DeferSend(w) ==
    /\ WAt(w, "defer")
    /\ Send(WId(w), wk[w].msg.defers + 1)
    /\ WGoto(w, "deferred")
    /\ UNCHANGED <<map, claim, parked, row, tomb, slots, flag, req, sw, history, left>>
DeferAck(w) ==
    /\ WAt(w, "deferred")
    /\ Ack(w)
    /\ UNCHANGED <<map, claim, parked, row, tomb, slots, flag, sent, req, sw, history, left>>

(* The tombstone again, at the head of start_flow. *)
CheckTomb(w) ==
    /\ WAt(w, "check")
    /\ IF WId(w) \in tomb
       THEN wk' = [wk EXCEPT ![w].pc = "release", ![w].to = WId(w)]
       ELSE WGoto(w, "claim")
    /\ UNCHANGED <<redis, req, sw, history, left>>

(* _claim_start_dedup: the map key alone, and one's own id is no hit. A    *)
(* second hit, after an orphan was released, is ignored.                   *)
WorkerClaim(w) ==
    /\ wk[w].pc \in {"claim", "claim2"}
    /\ map' = IF map = NoId THEN WId(w) ELSE map
    /\ IF map \in {NoId, WId(w)} \/ WAt(w, "claim2")
       THEN WGoto(w, "start")
       ELSE wk' = [wk EXCEPT ![w].pc = "whit", ![w].to = map]
    /\ UNCHANGED <<claim, parked, row, tomb, slots, flag, msgs, sent, req, sw, history, left>>

(* _handle_start_dedup_hit: the execution under the key has a row, and     *)
(* this message is done with; or it has none, and the key is an orphan.    *)
WorkerHit(w) ==
    /\ WAt(w, "whit")
    /\ IF row[wk[w].to] # "none"
       THEN Ack(w)
       ELSE WGoto(w, "release") /\ UNCHANGED msgs
    /\ UNCHANGED <<map, claim, parked, row, tomb, slots, flag, sent, req, sw, history, left>>

(* _release_start_dedup: GET, compare, DEL, in two commands. *)
AfterRelease(w) ==
    IF wk[w].to = WId(w) THEN Ack(w) ELSE WGoto(w, "claim2") /\ UNCHANGED msgs
ReleaseGet(w) ==
    /\ WAt(w, "release")
    /\ IF map = wk[w].to THEN WGoto(w, "delete") /\ UNCHANGED msgs ELSE AfterRelease(w)
    /\ UNCHANGED <<map, claim, parked, row, tomb, slots, flag, sent, req, sw, history, left>>
ReleaseDel(w) ==
    /\ WAt(w, "delete")
    /\ map' = NoId
    /\ AfterRelease(w)
    /\ UNCHANGED <<claim, parked, row, tomb, slots, flag, sent, req, sw, history, left>>

Final == {"done", "cancelled"}
(* The row of a terminal execution ends the start; a cancel flag turns it  *)
(* into a cancellation; otherwise the lease and the first running row.     *)
StartFlow(w) ==
    /\ WAt(w, "start")
    /\ LET i == WId(w) IN
         \/ /\ row[i] \in Final \/ \E v \in Worker \ {w} : WAt(v, "run") /\ WId(v) = i
            /\ Ack(w)
            /\ UNCHANGED <<row, slots, ran>>
         \/ /\ row[i] \notin Final /\ i \in flag
            /\ row' = [row EXCEPT ![i] = "cancelled"]
            /\ slots' = slots \ {i}
            /\ Ack(w)
            /\ UNCHANGED ran
         \/ /\ row[i] \notin Final /\ i \notin flag
            /\ \A v \in Worker \ {w} : ~(WAt(v, "run") /\ WId(v) = i)
            /\ row' = [row EXCEPT ![i] = "running"]
            /\ ran' = ran \cup {i}
            /\ WGoto(w, "run")
            /\ UNCHANGED <<slots, msgs>>
    /\ UNCHANGED <<map, claim, parked, tomb, flag, sent, req, sw, accepted, beside, left>>

(* The last persist, fenced: it is refused once the row was deleted.  A    *)
(* terminal row gives the slot back.                                       *)
Finish(w) ==
    /\ WAt(w, "run")
    /\ LET i == WId(w) IN
         IF row[i] = "none"
         THEN UNCHANGED <<row, slots>>
         ELSE /\ row' = [row EXCEPT ![i] = IF i \in flag THEN "cancelled" ELSE "done"]
              /\ slots' = slots \ {i}
    /\ Ack(w)
    /\ UNCHANGED <<map, claim, parked, tomb, flag, sent, req, sw, history, left>>

CrashWorker(w) ==
    /\ ~WAt(w, "idle")
    /\ Spend("crash")
    /\ wk' = [wk EXCEPT ![w] = Idle]
    /\ UNCHANGED <<redis, req, sw, history>>

-----------------------------------------------------------------------------
(* Users, who know only the ids they were told: cancel_execution on a      *)
(* queued row (the flag, then _CANCEL_QUEUED_ROW_LUA), and a forced        *)
(* delete_execution.                                                       *)
CancelQueued(i) ==
    /\ i \in accepted /\ row[i] = "queued" /\ i \notin flag
    /\ Spend("cancel")
    /\ flag' = flag \cup {i}
    /\ UNCHANGED <<map, claim, parked, row, tomb, slots, msgs, sent, req, wk, sw, history>>
CancelRow(i) ==
    /\ i \in flag /\ row[i] = "queued"
    /\ row' = [row EXCEPT ![i] = "cancelled"]
    /\ slots' = slots \ {i}
    /\ UNCHANGED <<map, claim, parked, tomb, flag, msgs, sent, req, wk, sw, history, left>>
Delete(i) ==
    /\ i \in accepted /\ row[i] # "none"
    /\ Spend("delete")
    /\ row' = [row EXCEPT ![i] = "none"]
    /\ tomb' = tomb \cup {i}
    /\ flag' = flag \ {i}
    /\ UNCHANGED <<map, claim, parked, slots, msgs, sent, req, wk, sw, history>>

(* sweep_parks: look at a marker, delete the row it found queued or        *)
(* missing, release key and slot and the marker.                           *)
SweepLook ==
    /\ sw.pc = "idle" /\ parked # NoId
    /\ IF map # parked \/ row[parked] \notin {"none", "queued"}
       THEN parked' = NoId /\ UNCHANGED sw
       ELSE sw' = [pc |-> "delete", id |-> parked] /\ UNCHANGED parked
    /\ UNCHANGED <<map, claim, row, tomb, slots, flag, msgs, sent, req, wk, history, left>>
SweepDelete ==
    /\ sw.pc = "delete"
    /\ row' = [row EXCEPT ![sw.id] = "none"]
    /\ tomb' = tomb \cup {sw.id}
    /\ sw' = [sw EXCEPT !.pc = "release"]
    /\ UNCHANGED <<map, claim, parked, slots, flag, msgs, sent, req, wk, history, left>>
SweepRelease ==
    /\ sw.pc = "release"
    /\ ReleaseIf(MayReleaseOrphan(sw.id, FALSE))
    /\ sw' = [sw EXCEPT !.pc = "clear"]
    /\ UNCHANGED <<parked, row, tomb, slots, flag, msgs, sent, req, wk, history, left>>
SweepClear ==
    /\ sw.pc = "clear"
    /\ slots' = slots \ {sw.id}
    /\ parked' = NoId
    /\ sw' = [pc |-> "idle", id |-> NoId]
    /\ UNCHANGED <<map, claim, row, tomb, flag, msgs, sent, req, wk, history, left>>

(* A slot runs out, a day after it was last taken (ZREMRANGEBYSCORE in     *)
(* _ADMIT_LUA): that of an execution that is over or never came to be, or  *)
(* of one that still waits or runs.                                        *)
InUse(i) ==
    \/ row[i] \notin {"none"} \cup Final
    \/ \E m \in msgs : m.id = i
    \/ \E r \in Req : req[r].id = i
SlotExpires(i) ==
    /\ i \in slots
    /\ slots' = slots \ {i}
    /\ IF InUse(i)
       THEN Spend("slot") /\ beside' = beside \cup {i}
       ELSE UNCHANGED <<beside, left>>
    /\ UNCHANGED <<map, claim, parked, row, tomb, flag, msgs, sent, req, wk, sw, accepted, ran>>

-----------------------------------------------------------------------------
Init ==
    /\ map = NoId /\ claim = NoClaim /\ parked = NoId
    /\ row = [i \in Id |-> "none"]
    /\ tomb = {} /\ slots = {} /\ flag = {} /\ msgs = {} /\ sent = 0
    /\ req = [r \in Req |-> ReqAt("claim")]
    /\ wk = [w \in Worker |-> Idle]
    /\ sw = [pc |-> "idle", id |-> NoId]
    /\ accepted = {} /\ ran = {} /\ beside = {}
    /\ \E s \in Scenarios :
         left = [cron |-> s.cron, cap |-> s.cap, budget |-> s.budget, now |-> s.budget]

ReqStep(r) ==
    \/ TryClaim(r) \/ Admit(r) \/ Guard(r) \/ WriteRow(r) \/ Reserve(r) \/ Reguard(r)
    \/ XAdd(r) \/ Mark(r) \/ RecoverMark(r) \/ Park(r)
    \/ GiveSlot(r) \/ Drop(r) \/ Xdel(r) \/ GiveBack(r)
    \/ Lost(r) \/ Hit(r) \/ NoRow(r) \/ WaitRow(r) \/ Orphan(r) \/ RowHit(r)
    \/ WaitMark(r) \/ Adopt(r) \/ ReAdd(r) \/ ReMark(r) \/ ReXdel(r)
    \/ FireOwner(r) \/ FireLook(r) \/ FireDiscard(r) \/ FireClear(r)
WorkerStep(w) ==
    \/ Take(w) \/ Gate(w) \/ DeferSend(w) \/ DeferAck(w) \/ CheckTomb(w) \/ WorkerClaim(w) \/ WorkerHit(w)
    \/ ReleaseGet(w) \/ ReleaseDel(w) \/ StartFlow(w) \/ Finish(w)
Sweep == SweepLook \/ SweepDelete \/ SweepRelease \/ SweepClear

Next ==
    \/ \E r \in Req : ReqStep(r) \/ CrashReq(r) \/ TryAgain(r)
    \/ \E w \in Worker : WorkerStep(w) \/ CrashWorker(w)
    \/ \E i \in Id : CancelQueued(i) \/ CancelRow(i) \/ Delete(i) \/ SlotExpires(i)
    \/ ClaimExpires
    \/ Sweep

Spec == Init /\ [][Next]_vars
(* Live processes make progress, a message comes back until it is          *)
(* acknowledged, a failed client or schedule tries again, the TTL of a     *)
(* claim whose holder is gone runs out, and so does that of a slot nobody  *)
(* uses.  Faults and users are under no obligation.                        *)
FairSpec ==
    /\ Spec
    /\ \A r \in Req : WF_vars(ReqStep(r) \/ TryAgain(r))
    /\ \A w \in Worker : WF_vars(WorkerStep(w))
    /\ WF_vars(ClaimExpires /\ ~HolderAtWork)
    /\ WF_vars(\E i \in Id : SlotExpires(i) /\ ~InUse(i))
    /\ WF_vars(Sweep)

-----------------------------------------------------------------------------
(* Properties. *)

Keys == Id \cup {NoId}
(* Type invariant. *)
DedupTypeOK ==
    /\ map \in Keys /\ parked \in Keys
    /\ claim \in [st : {"none", "claiming", "enqueueing", "enqueued"}, id : Keys,
                  by : Req \cup {Nobody}]
    /\ row \in [Id -> {"none", "queued", "running", "done", "cancelled"}]
    /\ tomb \subseteq Id /\ slots \subseteq Id /\ flag \subseteq Id
    /\ msgs \subseteq [n : 1 .. MaxMsg, id : Id, defers : 0 .. DeferMax + 1]
    /\ sent \in 0 .. MaxMsg
    /\ \A r \in Req : req[r].id \in Keys /\ req[r].to \in Keys
    /\ \A w \in Worker : wk[w].to \in Keys /\ WId(w) \in Keys
    /\ accepted \subseteq Id /\ ran \subseteq Id /\ beside \subseteq Id
    /\ [cron |-> cron, cap |-> left.cap, budget |-> left.budget] \in Scenarios
    /\ left.now \in [Trouble -> Nat \cup {Unlimited}]

(* What the protocol promises depends on what has gone wrong: none of ts   *)
(* has happened so far.                                                    *)
Calm(ts) == \A t \in ts : ~Happened(t)

(* The key starts one execution: at most one id ever runs.  Requesters and *)
(* workers may crash anywhere, row and message writes may fail, users may  *)
(* cancel; it takes a requester slower than its claim, a mark without an   *)
(* answer, or a deletion to break it (claim, release and adoption in       *)
(* start_dedup.py, and the worker side of the key).  After a deletion, the *)
(* worker's release of the key, GET and then DEL, can take away the key of *)
(* a newer start, and one more start then runs beside it, which the        *)
(* comment at _release_start_dedup admits.                                 *)
OneIdRuns == Calm({"slow", "mark", "delete"}) => \A i, j \in ran : i = j

(* An id some caller was told is started can still run, has run, or was    *)
(* deleted: a message for it is in the stream, or its row is past queued.  *)
(* No client is left with an execution that stays queued for ever (the     *)
(* "ghost id" of executions.py and the recovery of a row without carrier). *)
Carried(i) ==
    \/ i \in tomb
    \/ row[i] \in {"running"} \cup Final
    \/ \E m \in msgs : m.id = i
AcceptedIsCarried ==
    Calm({"slow", "delete", "mark", "remark", "readd"}) => \A i \in accepted : Carried(i)

(* The quota of a tenant with a cap: no more slots than the cap, and an    *)
(* execution runs without one in four cases only, which "beside" records:  *)
(* Redis failed at the worker's gate; the start was deferred DeferMax      *)
(* times; its slot ran out while it waited or ran; or the requester that   *)
(* started it is taking the start back, and has given the slot up before   *)
(* it deletes the row.  A start that the gate admits after that is counted *)
(* again.                                                                  *)
RunningHoldsSlot ==
    left.cap # Unlimited =>
      /\ Cardinality(slots) <= left.cap
      /\ \A i \in Id : row[i] = "running" => i \in slots \cup tomb \cup beside

(* A claim marked enqueued is final: only the deletion of its execution    *)
(* takes it away, no guard, reservation, adoption or release of another    *)
(* requester does.                                                         *)
EnqueuedIsFinal ==
    [][/\ Calm({"slow", "delete", "mark"})
       /\ claim.st = "enqueued" /\ claim' # claim
       => claim.id \in tomb']_vars

(* An execution some caller was told is started is deleted by a user or    *)
(* not at all: no requester that fails takes it back, no sweeper clears    *)
(* it.                                                                     *)
AcceptedNotUndone ==
    [][\A i \in accepted :
         /\ Calm({"slow", "delete", "mark", "remark"})
         /\ i \in tomb' \ tomb
         => left'.now["delete"] # left.now["delete"]]_vars

(* Every accepted execution comes to an end: finished, cancelled or        *)
(* deleted.                                                                *)
AcceptedSettles ==
    <>[](Calm({"slow", "delete", "mark", "remark", "readd"}) =>
           \A i \in accepted : i \in tomb \/ row[i] \in Final)

(* A client that keeps trying with its dedup key is answered with an id:   *)
(* claims of dead requesters expire, orphans are released, rows without a  *)
(* carrier are adopted, and leaked slots expire.                           *)
ClientAnswered ==
    <>(~cron /\ left.now["retry"] = Unlimited /\ Calm({"slow", "delete", "mark"}) =>
         \A r \in Req : At(r, "ok"))

(* What flow_worker.py says of its release of the key: the window between  *)
(* GET and DEL leads to a second start at worst.  So an accepted id stays  *)
(* carried whatever the users delete.                                      *)
ReleaseOnlyRepeats ==
    Calm({"slow", "mark", "remark", "readd"}) => \A i \in accepted : Carried(i)
=============================================================================
