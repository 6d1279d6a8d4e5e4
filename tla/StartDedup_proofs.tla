--------------------------- MODULE StartDedup_proofs ---------------------------
(***************************************************************************)
(* What holds of the start protocol for any number of requesters, workers, *)
(* ids, messages and quota slots, and whatever goes wrong: every variable  *)
(* keeps its type, an id is claimed once, a message exists only for an     *)
(* execution whose row was written, no more slots are taken than the cap,  *)
(* and an execution that runs without one is a case the model names.       *)
(* StartDedupCalm_proofs builds on it.                                     *)
(***************************************************************************)
EXTENDS StartDedup, Extrema, FiniteSetTheorems

(* A requester at OwnPc works for the id it claimed, one at ToPc for the   *)
(* id it found under the key.                                              *)
OwnPc == {"admit", "guard", "write", "reserve", "reguard", "reserve2", "xadd", "mark", "rguard",
          "rreserve", "rmark", "park", "undo", "drop", "xdel", "giveback", "lost"}
ToPc == {"hit", "norow", "waitrow", "orphan", "row", "waitmark", "adopt", "readd", "remark",
         "rexdel", "owner", "look", "discard", "clear"}
RowStatus == {"none", "queued", "running", "done", "cancelled"}
ReqRecord ==
    [pc : OwnPc \cup ToPc \cup Rest, id : Keys, to : Keys, st : RowStatus, msg : Nat,
     why : {"none", "full", "early", "lost", "fault", "late"}, lost : BOOLEAN, tries : Nat]
ClaimRecord ==
    [st : {"none", "claiming", "enqueueing", "enqueued"}, id : Keys, by : Req \cup {Nobody}]
MsgRecord == [n : 1 .. MaxMsg, id : Id, defers : 0 .. DeferMax + 1]
WorkRecord ==
    [pc : {"idle", "gate", "defer", "deferred", "check", "claim", "claim2", "whit", "release", "delete",
           "start", "run"},
     msg : [n : 0 .. MaxMsg, id : Keys, defers : 0 .. DeferMax + 1], to : Keys]

KeysOK ==
    /\ map \in Keys /\ parked \in Keys
    /\ claim \in ClaimRecord
    /\ claim.st = "none" => claim = NoClaim
    /\ claim.st # "none" => claim.id \in Id /\ claim.by \in Req

StoreOK ==
    /\ row \in [Id -> RowStatus]
    /\ tomb \subseteq Id /\ slots \subseteq Id /\ flag \subseteq Id
    /\ msgs \subseteq MsgRecord /\ sent \in 0 .. MaxMsg
    /\ accepted \subseteq Id /\ ran \subseteq Id /\ beside \subseteq Id

ReqOK(x) ==
    /\ x.pc \in OwnPc <=> x.id # NoId
    /\ x.pc \in ToPc => x.to \in Id
    /\ x.pc = "row" => x.st # "none"
    /\ x.pc \in Rest => x.st = "none"
ReqsOK ==
    /\ req \in [Req -> ReqRecord]
    /\ \A r \in Req : ReqOK(req[r])
    /\ \A r, q \in Req : req[r].id = req[q].id /\ req[r].id # NoId => r = q

WorkOK(x) ==
    /\ x.pc # "idle" => x.msg \in MsgRecord
    /\ x.pc \in {"whit", "release", "delete"} => x.to \in Id
    /\ x.pc = "defer" => x.msg.defers <= DeferMax
WorkersOK ==
    /\ wk \in [Worker -> WorkRecord]
    /\ \A w \in Worker : WorkOK(wk[w])

SweepOK ==
    /\ sw \in [pc : {"idle", "delete", "release", "clear"}, id : Keys]
    /\ sw.pc # "idle" => sw.id \in Id

Counted == Trouble \ {"retry"}
LeftRecord ==
    [cron : BOOLEAN, cap : (Nat \ {0}) \cup {Unlimited}, budget : [Trouble -> Nat \cup {Unlimited}],
     now : [Trouble -> Nat \cup {Unlimited}]]
LeftOK ==
    /\ left \in LeftRecord
    /\ [cron |-> cron, cap |-> left.cap, budget |-> left.budget] \in Scenarios
    /\ \A t \in Counted : left.now[t] \in Nat /\ left.budget[t] \in Nat /\ left.now[t] <= left.budget[t]

(* The inductive type invariant. *)
DedupInv == KeysOK /\ StoreOK /\ ReqsOK /\ WorkersOK /\ SweepOK /\ LeftOK

-----------------------------------------------------------------------------

(* What the assumptions say of the constants, spelled out. *)
LEMMA DedupConstants ==
    /\ NoId \notin Nat /\ Nobody \notin Req /\ Unlimited \notin Nat
    /\ MaxId \in Nat \ {0} /\ MaxMsg \in Nat \ {0} /\ Attempts \in Nat \ {0} /\ DeferMax \in Nat \ {0}
    /\ Id = 1 .. MaxId /\ Id \in SUBSET Nat /\ NoId \notin Id /\ Keys = Id \cup {NoId}
BY DedupAssumption DEF Id, Keys

(* A new id is one nothing refers to. *)
LEMMA NewIdUnused ==
    ASSUME \E i \in Id : Unused(i)
    PROVE  NewId \in Id /\ Unused(NewId)
<1> DEFINE S == {i \in Id : Unused(i)}
<1>1. S \in SUBSET Nat /\ S # {}
  BY DedupConstants
<1>2. PICK i \in S : \A j \in S : i <= j
  BY <1>1, LeastElement
<1>3. i \in Id /\ Unused(i)
  BY <1>2
<1>4. \A j \in 1 .. (i - 1) : ~Unused(j)
  <2> SUFFICES ASSUME NEW j \in 1 .. (i - 1), Unused(j) PROVE FALSE
    OBVIOUS
  <2>1. j \in Id /\ j < i
    BY <1>3, DedupConstants
  <2>2. i <= j
    BY <1>2, <2>1
  <2> QED
    BY <1>3, <2>1, <2>2, DedupConstants
<1>5. \E k \in Id : Unused(k) /\ \A j \in 1 .. (k - 1) : ~Unused(j)
  BY <1>3, <1>4
<1> HIDE DEF S
<1> QED
  BY <1>5 DEF NewId

(* A claim written by a requester is a claim. *)
LEMMA ClaimType ==
    ASSUME NEW st \in {"claiming", "enqueueing", "enqueued"}, NEW i \in Id, NEW r \in Req
    PROVE  /\ Claim(st, i, r) \in ClaimRecord
           /\ Claim(st, i, r).st = st /\ Claim(st, i, r).id = i /\ Claim(st, i, r).by = r
BY DedupConstants DEF Claim, ClaimRecord

(* The absent claim is a claim. *)
LEMMA NoClaimType == NoClaim \in ClaimRecord /\ NoClaim.st = "none" /\ NoClaim.id = NoId
BY DedupConstants DEF NoClaim, ClaimRecord

(* A step that keeps, drops or writes a claim keeps the types of the keys. *)
LEMMA ClaimWritten ==
    ASSUME DedupInv, map' \in Keys, parked' \in Keys,
           \/ claim' = claim \/ claim' = NoClaim
           \/ \E st \in {"claiming", "enqueueing", "enqueued"}, i \in Id, r \in Req : claim' = Claim(st, i, r)
    PROVE  KeysOK'
BY ClaimType, NoClaimType DEF DedupInv, KeysOK

-----------------------------------------------------------------------------
(* Budgets. *)
Budgets ==
    /\ LeftOK' /\ left'.cron = left.cron /\ left'.cap = left.cap
    /\ \A t \in Counted : Happened(t) => Happened(t)'

(* A trouble whose budget is spent has happened. *)
LEMMA Spent ==
    ASSUME DedupInv, NEW t \in Trouble, Spend(t)
    PROVE  Budgets /\ (t \in Counted => Happened(t)')
<1> DEFINE n == IF left.now[t] = Unlimited THEN Unlimited ELSE left.now[t] - 1
<1>1. /\ left.now \in [Trouble -> Nat \cup {Unlimited}] /\ left.now[t] # 0
      /\ left' = [left EXCEPT !.now = [left.now EXCEPT ![t] = n]]
  BY DEF DedupInv, LeftOK, LeftRecord, Spend
<1>2. /\ n \in Nat \cup {Unlimited}
      /\ left.now[t] \in Nat => n \in Nat /\ n < left.now[t]
  BY <1>1, DedupConstants
<1> HIDE DEF n
<1>3. /\ left'.now = [left.now EXCEPT ![t] = n] /\ left'.budget = left.budget /\ left'.cron = left.cron
      /\ left'.cap = left.cap /\ left' \in LeftRecord
  BY <1>1, <1>2 DEF DedupInv, LeftOK, LeftRecord
<1>4. \A u \in Counted : left'.now[u] \in Nat /\ left'.now[u] <= left.now[u] /\ left'.now[u] <= left'.budget[u]
  BY <1>1, <1>2, <1>3 DEF DedupInv, LeftOK, Counted
<1>5. LeftOK'
  BY <1>3, <1>4 DEF DedupInv, LeftOK, cron
<1>6. \A u \in Counted : Happened(u) => Happened(u)'
  BY <1>3, <1>4 DEF DedupInv, LeftOK, Happened
<1>7. t \in Counted => Happened(t)'
  BY <1>1, <1>2, <1>3 DEF DedupInv, LeftOK, Happened
<1> QED
  BY <1>3, <1>5, <1>6, <1>7 DEF Budgets

(* Budgets that stay or are spent from stay budgets. *)
LEMMA BudgetsKept ==
    ASSUME DedupInv, left' = left \/ \E t \in Trouble : Spend(t)
    PROVE  Budgets
<1>1. CASE left' = left
  BY <1>1 DEF DedupInv, Budgets, LeftOK, Happened, cron
<1> QED
  BY <1>1, Spent

(* What has not happened after a step had not happened before it. *)
LEMMA CalmBefore ==
    ASSUME Budgets, NEW ts \in SUBSET Counted, Calm(ts)'
    PROVE  Calm(ts)
BY DEF Budgets, Calm

-----------------------------------------------------------------------------
(* One requester moves. *)
SetReq(r, x) == req' = [req EXCEPT ![r] = x]
Moved(r) == ReqsOK' /\ \A q \in Req \ {r} : req'[q] = req[q]
(* It goes on with the same ids, *)
Goes(r, pc) ==
    /\ Moved(r) /\ req'[r].pc = pc /\ req'[r].id = req[r].id /\ req'[r].to = req[r].to
Keeps(r, pc) == Goes(r, pc) /\ req'[r].st = req[r].st
(* or is done with them. *)
Rests(r) == Moved(r) /\ req'[r].pc \in Rest /\ req'[r].id = NoId /\ req'[r].st = "none"

(* A requester works for its own id, for another's, or rests. *)
LEMMA PcsDisjoint ==
    /\ \A pc \in OwnPc : pc \notin ToPc /\ pc \notin Rest
    /\ \A pc \in ToPc : pc \notin Rest
BY DEF OwnPc, ToPc, Rest

(* Replacing one requester by a sane one keeps the others. *)
LEMMA ReqSet ==
    ASSUME DedupInv, NEW r \in Req, NEW x \in ReqRecord, ReqOK(x), SetReq(r, x),
           x.id \in {NoId, req[r].id} \/ \A q \in Req : req[q].id # x.id
    PROVE  Moved(r) /\ req'[r] = x
<1>1. /\ req' \in [Req -> ReqRecord] /\ req'[r] = x
      /\ \A q \in Req \ {r} : req'[q] = req[q]
  BY DEF SetReq, DedupInv, ReqsOK
<1>2. \A q \in Req : ReqOK(req'[q])
  BY <1>1 DEF DedupInv, ReqsOK
<1>3. \A p, q \in Req : req'[p].id = req'[q].id /\ req'[p].id # NoId => p = q
  BY <1>1 DEF DedupInv, ReqsOK
<1>4. \A q \in Req : ReqOK(req[q])'
  BY <1>2 DEF ReqOK
<1> QED
  BY <1>1, <1>3, <1>4 DEF Moved, ReqsOK

(* What the invariant says of one requester. *)
LEMMA ReqFacts ==
    ASSUME DedupInv, NEW r \in Req
    PROVE  /\ req \in [Req -> ReqRecord] /\ req[r] \in ReqRecord /\ ReqOK(req[r])
           /\ req[r].pc \in OwnPc => req[r].id \in Id
           /\ req[r].pc \in ToPc => req[r].to \in Id /\ req[r].id = NoId
           /\ req[r].pc \in Rest => req[r].id = NoId
<1>1. req \in [Req -> ReqRecord] /\ req[r] \in ReqRecord /\ ReqOK(req[r])
  BY DEF DedupInv, ReqsOK
<1>2. req[r].id \in Keys
  BY <1>1 DEF ReqRecord
<1> QED
  BY <1>1, <1>2, PcsDisjoint, DedupConstants DEF ReqOK

(* A requester at another label keeps its ids. *)
LEMMA GotoMoves ==
    ASSUME DedupInv, NEW r \in Req, NEW pc \in OwnPc \cup ToPc, Goto(r, pc),
           pc \in OwnPc <=> req[r].pc \in OwnPc, pc \in ToPc => req[r].pc \in ToPc, pc # "row"
    PROVE  Keeps(r, pc) /\ req'[r].why = req[r].why
<1> DEFINE x == [req[r] EXCEPT !.pc = pc]
<1>1. req \in [Req -> ReqRecord] /\ req[r] \in ReqRecord /\ ReqOK(req[r])
  BY ReqFacts
<1>2. SetReq(r, x)
  BY <1>1 DEF Goto, SetReq
<1>3. /\ x \in ReqRecord /\ x.pc = pc /\ x.id = req[r].id /\ x.to = req[r].to /\ x.st = req[r].st
      /\ x.why = req[r].why
  BY <1>1 DEF ReqRecord
<1> HIDE DEF x
<1>4. ReqOK(x)
  BY <1>1, <1>3, PcsDisjoint DEF ReqOK
<1>5. Moved(r) /\ req'[r] = x
  BY <1>2, <1>3, <1>4, ReqSet
<1> QED
  BY <1>3, <1>5 DEF Keeps, Goes

(* A requester that undoes what it did keeps its id and says why. *)
LEMMA WhyMoves ==
    ASSUME DedupInv, NEW r \in Req, req[r].pc \in OwnPc, NEW pc \in {"giveback", "undo", "xdel"},
           NEW why \in {"full", "early", "lost", "fault", "late"},
           req' = [req EXCEPT ![r].pc = pc, ![r].why = why]
    PROVE  Keeps(r, pc) /\ req'[r].why = why
<1> DEFINE x == [req[r] EXCEPT !.pc = pc, !.why = why]
<1>1. req \in [Req -> ReqRecord] /\ req[r] \in ReqRecord /\ ReqOK(req[r])
  BY ReqFacts
<1>2. SetReq(r, x)
  BY <1>1 DEF SetReq
<1>3. /\ x \in ReqRecord /\ x.pc = pc /\ x.id = req[r].id /\ x.to = req[r].to /\ x.st = req[r].st
      /\ x.why = why
  BY <1>1 DEF ReqRecord, OwnPc
<1> HIDE DEF x
<1>4. ReqOK(x)
  BY <1>1, <1>3 DEF ReqOK, OwnPc, ToPc, Rest
<1>5. Moved(r) /\ req'[r] = x
  BY <1>2, <1>3, <1>4, ReqSet
<1> QED
  BY <1>3, <1>5 DEF Keeps, Goes

(* A requester that sent its message keeps its ids. *)
LEMMA MsgMoves ==
    ASSUME DedupInv, NEW r \in Req, NEW pc \in {"mark", "remark"}, NEW n \in Nat,
           pc = "mark" => req[r].pc \in OwnPc, pc = "remark" => req[r].pc \in ToPc,
           req' = [req EXCEPT ![r].pc = pc, ![r].msg = n]
    PROVE  Keeps(r, pc)
<1> DEFINE x == [req[r] EXCEPT !.pc = pc, !.msg = n]
<1>1. req \in [Req -> ReqRecord] /\ req[r] \in ReqRecord /\ ReqOK(req[r])
  BY ReqFacts
<1>2. SetReq(r, x)
  BY <1>1 DEF SetReq
<1>3. x \in ReqRecord /\ x.pc = pc /\ x.id = req[r].id /\ x.to = req[r].to /\ x.st = req[r].st
  BY <1>1 DEF ReqRecord, OwnPc, ToPc
<1> HIDE DEF x
<1>4. ReqOK(x)
  BY <1>1, <1>3, PcsDisjoint DEF ReqOK, OwnPc, ToPc, Rest
<1>5. Moved(r) /\ req'[r] = x
  BY <1>2, <1>3, <1>4, ReqSet
<1> QED
  BY <1>3, <1>5 DEF Keeps, Goes

(* The row of the id under the key was read. *)
LEMMA StMoves ==
    ASSUME DedupInv, NEW r \in Req, req[r].pc \in ToPc, NEW st \in RowStatus, NEW pc \in {"norow", "row"},
           pc = "row" => st # "none", req' = [req EXCEPT ![r].st = st, ![r].pc = pc]
    PROVE  Goes(r, pc) /\ req'[r].st = st
<1> DEFINE x == [req[r] EXCEPT !.st = st, !.pc = pc]
<1>1. req \in [Req -> ReqRecord] /\ req[r] \in ReqRecord /\ ReqOK(req[r])
  BY ReqFacts
<1>2. SetReq(r, x)
  BY <1>1 DEF SetReq
<1>3. x \in ReqRecord /\ x.pc = pc /\ x.id = req[r].id /\ x.to = req[r].to /\ x.st = st
  BY <1>1 DEF ReqRecord, ToPc
<1> HIDE DEF x
<1>4. ReqOK(x)
  BY <1>1, <1>3, PcsDisjoint DEF ReqOK, OwnPc, ToPc, Rest
<1>5. Moved(r) /\ req'[r] = x
  BY <1>2, <1>3, <1>4, ReqSet
<1> QED
  BY <1>3, <1>5 DEF Goes

(* A fresh requester is a requester without ids. *)
LEMMA ReqAtType ==
    ASSUME NEW pc \in Rest \cup {"row"}
    PROVE  /\ ReqAt(pc) \in ReqRecord /\ ReqAt(pc).pc = pc /\ ReqAt(pc).id = NoId /\ ReqAt(pc).to = NoId
           /\ ReqAt(pc).st = "none"
BY DedupConstants DEF ReqAt, ReqRecord, RowStatus, ToPc

(* A requester that rests gives up its ids. *)
LEMMA RestMoves ==
    ASSUME DedupInv, NEW r \in Req, NEW pc \in Rest, req' = [req EXCEPT ![r] = ReqAt(pc)]
    PROVE  Rests(r) /\ req'[r].pc = pc /\ req'[r].to = NoId
<1> DEFINE x == ReqAt(pc)
<1>1. x \in ReqRecord /\ x.pc = pc /\ x.id = NoId /\ x.to = NoId /\ x.st = "none"
  BY ReqAtType
<1>2. SetReq(r, x)
  BY DEF SetReq
<1> HIDE DEF x
<1>3. ReqOK(x)
  BY <1>1, PcsDisjoint DEF ReqOK, Rest
<1>4. Moved(r) /\ req'[r] = x
  BY <1>1, <1>2, <1>3, ReqSet
<1> QED
  BY <1>1, <1>4 DEF Rests

(* A requester that fails rests. *)
LEMMA FailMoves ==
    ASSUME DedupInv, NEW r \in Req, Fail(r) \/ GiveUp(r)
    PROVE  Rests(r) /\ req'[r].to = NoId
<1>1. PICK pc \in {"failed", "gaveup"} : req' = [req EXCEPT ![r] = ReqAt(pc)]
  BY DEF Fail, GiveUp
<1>2. pc \in Rest
  BY DEF Rest
<1> QED
  BY <1>1, <1>2, RestMoves

(* A requester that answers rests, and its answer is accepted. *)
LEMMA AnswerMoves ==
    ASSUME DedupInv, NEW r \in Req, NEW i \in Id, Answer(r, i)
    PROVE  Rests(r) /\ req'[r].to = i /\ accepted' = accepted \cup {i}
<1> DEFINE x == [ReqAt("ok") EXCEPT !.to = i]
<1>1. "ok" \in Rest
  BY DEF Rest
<1>2. x \in ReqRecord /\ x.pc = "ok" /\ x.id = NoId /\ x.to = i /\ x.st = "none"
  BY <1>1, ReqAtType, DedupConstants DEF ReqRecord
<1>3. SetReq(r, x) /\ accepted' = accepted \cup {i}
  BY DEF Answer, SetReq
<1> HIDE DEF x
<1>4. ReqOK(x)
  BY <1>1, <1>2, PcsDisjoint DEF ReqOK
<1>5. Moved(r) /\ req'[r] = x
  BY <1>2, <1>3, <1>4, ReqSet
<1> QED
  BY <1>1, <1>2, <1>3, <1>5 DEF Rests

(* A requester that tries again rests. *)
LEMMA AgainMoves ==
    ASSUME DedupInv, NEW r \in Req, Again(r)
    PROVE  Rests(r) /\ req'[r].to = NoId
<1>1. CASE Fail(r)
  BY <1>1, FailMoves
<1>2. CASE req' = [req EXCEPT ![r] = [ReqAt("claim") EXCEPT !.tries = req[r].tries + 1]]
  <2> DEFINE n == req[r].tries + 1
             x == [ReqAt("claim") EXCEPT !.tries = n]
  <2>1. "claim" \in Rest
    BY DEF Rest
  <2>2. n \in Nat
    BY ReqFacts DEF ReqRecord
  <2> HIDE DEF n
  <2>3. x \in ReqRecord /\ x.pc = "claim" /\ x.id = NoId /\ x.to = NoId /\ x.st = "none"
    BY <2>1, <2>2, ReqAtType DEF ReqRecord
  <2>4. SetReq(r, x)
    BY <1>2 DEF SetReq, n
  <2> HIDE DEF x
  <2>5. ReqOK(x)
    BY <2>1, <2>3, PcsDisjoint DEF ReqOK
  <2>6. Moved(r) /\ req'[r] = x
    BY <2>3, <2>4, <2>5, ReqSet
  <2> QED
    BY <2>1, <2>3, <2>6 DEF Rests
<1> QED
  BY <1>1, <1>2 DEF Again

(* A claim gets an id nothing refers to, or finds one. *)
LEMMA ClaimMoves ==
    ASSUME DedupInv, NEW r \in Req, TryClaim(r)
    PROVE  /\ UNCHANGED <<parked, row, tomb, slots, flag, msgs, sent, wk, sw, history, left>>
           /\ Moved(r) /\ req[r].pc = "claim" /\ req'[r].st = req[r].st
           /\ \/ /\ map = NoId /\ map' \in Id /\ claim' = Claim("claiming", map', r)
                 /\ req'[r].pc = "admit" /\ req'[r].id = map' /\ req'[r].to = req[r].to
                 /\ \E i \in Id : i = map' /\ Unused(i)
              \/ /\ map \in Id /\ UNCHANGED <<map, claim>>
                 /\ req'[r].pc \in {"hit", "owner"} /\ req'[r].id = NoId /\ req'[r].to = map
<1>1. /\ req \in [Req -> ReqRecord] /\ req[r] \in ReqRecord /\ ReqOK(req[r])
      /\ req[r].pc = "claim" /\ req[r].id = NoId
      /\ UNCHANGED <<parked, row, tomb, slots, flag, msgs, sent, wk, sw, history, left>>
  BY ReqFacts DEF TryClaim, At, Rest
<1>2. CASE /\ map = NoId /\ (\E i \in Id : Unused(i)) /\ map' = NewId
           /\ claim' = Claim("claiming", NewId, r)
           /\ req' = [req EXCEPT ![r].pc = "admit", ![r].id = NewId]
  <2>1. NewId \in Id /\ Unused(NewId)
    BY <1>2, NewIdUnused
  <2>2. PICK i \in Id : i = NewId
    BY <2>1
  <2> DEFINE x == [req[r] EXCEPT !.pc = "admit", !.id = i]
  <2>3. SetReq(r, x)
    BY <1>1, <1>2, <2>2 DEF SetReq
  <2>4. x \in ReqRecord /\ x.pc = "admit" /\ x.id = i /\ x.to = req[r].to /\ x.st = req[r].st
    BY <1>1, DedupConstants DEF ReqRecord, OwnPc
  <2> HIDE DEF x
  <2>5. ReqOK(x)
    BY <2>4, DedupConstants DEF ReqOK, OwnPc, ToPc, Rest
  <2>6. \A q \in Req : req[q].id # i
    BY <2>1, <2>2 DEF Unused
  <2>7. Moved(r) /\ req'[r] = x
    BY <2>3, <2>4, <2>5, <2>6, ReqSet
  <2> QED
    BY <1>1, <1>2, <2>1, <2>2, <2>4, <2>7
<1>3. CASE /\ map # NoId /\ UNCHANGED <<map, claim>>
           /\ req' = [req EXCEPT ![r].pc = IF ~cron THEN "hit" ELSE "owner", ![r].to = map]
  <2>1. map \in Id
    BY <1>3, DedupConstants DEF DedupInv, KeysOK
  <2>2. PICK pc \in {"hit", "owner"} : pc = IF ~cron THEN "hit" ELSE "owner"
    OBVIOUS
  <2> DEFINE x == [req[r] EXCEPT !.pc = pc, !.to = map]
  <2>3. SetReq(r, x)
    BY <1>1, <1>3, <2>2 DEF SetReq
  <2>4. x \in ReqRecord /\ x.pc = pc /\ x.id = req[r].id /\ x.to = map /\ x.st = req[r].st
    BY <1>1, <2>1, DedupConstants DEF ReqRecord, ToPc
  <2> HIDE DEF x
  <2>5. ReqOK(x)
    BY <1>1, <2>1, <2>4, DedupConstants DEF ReqOK, OwnPc, ToPc, Rest
  <2>6. Moved(r) /\ req'[r] = x
    BY <2>3, <2>4, <2>5, ReqSet
  <2> QED
    BY <1>1, <1>3, <2>1, <2>4, <2>6
<1> QED
  BY <1>2, <1>3 DEF TryClaim

(* A requester that lost the key rests, or looks at the id under the key. *)
LEMMA LostMoves ==
    ASSUME DedupInv, NEW r \in Req, Lost(r)
    PROVE  \/ Rests(r) /\ req'[r].to = NoId
           \/ /\ Moved(r) /\ req'[r].pc = "row" /\ req'[r].id = NoId /\ req'[r].to = map
              /\ map \in Id /\ req'[r].st = row[map]
<1>1. CASE /\ map \notin {NoId, req[r].id} \cup tomb /\ row[map] # "none"
           /\ req' = [req EXCEPT ![r] = [ReqAt("row") EXCEPT !.to = map, !.st = row[map], !.lost = TRUE]]
  <2>1. map \in Id /\ row[map] \in RowStatus
    BY <1>1, DedupConstants DEF DedupInv, KeysOK, StoreOK
  <2>2. PICK i \in Id, st \in RowStatus : i = map /\ st = row[map]
    BY <2>1
  <2> DEFINE x == [ReqAt("row") EXCEPT !.to = i, !.st = st, !.lost = TRUE]
  <2>3. ReqAt("row") \in ReqRecord /\ ReqAt("row").pc = "row" /\ ReqAt("row").id = NoId
    BY ReqAtType
  <2>4. x \in ReqRecord /\ x.pc = "row" /\ x.id = NoId /\ x.to = i /\ x.st = st
    BY <2>3, DedupConstants DEF ReqRecord
  <2>5. SetReq(r, x)
    BY <1>1, <2>2 DEF SetReq
  <2> HIDE DEF x
  <2>6. ReqOK(x)
    BY <1>1, <2>2, <2>4 DEF ReqOK, OwnPc, Rest
  <2>7. Moved(r) /\ req'[r] = x
    BY <2>4, <2>5, <2>6, ReqSet
  <2> QED
    BY <2>2, <2>4, <2>7
<1> QED
  BY <1>1, FailMoves DEF Lost

-----------------------------------------------------------------------------
(* Where each operation of a requester leads; first with the id it claimed. *)
LEMMA OwnMoves ==
    ASSUME DedupInv, NEW r \in Req
    PROVE  /\ Admit(r) => \/ Keeps(r, "guard") \/ Keeps(r, "write")
                          \/ Keeps(r, "giveback") /\ req'[r].why = "full"
           /\ Guard(r) => \/ MayProceed(req[r].id, r) /\ Keeps(r, "write")
                          \/ ~MayProceed(req[r].id, r) /\ Keeps(r, "undo") /\ req'[r].why = "early"
           /\ WriteRow(r) => \/ row' = [row EXCEPT ![req[r].id] = "queued"] /\ Keeps(r, "reserve")
                             \/ row' = row /\ Keeps(r, "undo") /\ req'[r].why = "fault"
           /\ Reserve(r) => \/ MayProceed(req[r].id, r) /\ Keeps(r, "xadd")
                            \/ ~MayProceed(req[r].id, r) /\ (Keeps(r, "reguard") \/ Keeps(r, "undo"))
           /\ Reguard(r) => Keeps(r, "reserve2") \/ Keeps(r, "undo")
           /\ XAdd(r) => \/ Send(req[r].id, 0) /\ Keeps(r, "mark")
                         \/ /\ UNCHANGED <<msgs, sent>> /\ Keeps(r, "undo") /\ req'[r].why = "fault"
           /\ RecoverMark(r) => Keeps(r, "rreserve") \/ Keeps(r, "rmark") \/ Keeps(r, "park")
           /\ Park(r) => (Rests(r) /\ req'[r].to = NoId) \/ Keeps(r, "undo") \/ Keeps(r, "xdel")
           /\ GiveSlot(r) => /\ req'[r].why = req[r].why
                             /\ Keeps(r, "drop") \/ (Keeps(r, "giveback") /\ req[r].why = "early")
           /\ Drop(r) => /\ req'[r].why = req[r].why
                         /\ Keeps(r, "giveback") \/ (Keeps(r, "xdel") /\ req[r].why = "late")
           /\ Xdel(r) => Keeps(r, "lost") \/ Keeps(r, "undo")
           /\ GiveBack(r) => \/ Keeps(r, "lost") /\ req[r].why \in {"early", "lost"}
                             \/ Rests(r) /\ req'[r].to = NoId
           /\ Mark(r) =>
                 \/ /\ MayMark(req[r].id, r) /\ Marked(req[r].id, r) /\ left' = left
                    /\ Rests(r) /\ req'[r].to = req[r].id /\ accepted' = accepted \cup {req[r].id}
                 \/ /\ MarkFails(req[r].id, r, "mark") /\ accepted' = accepted
                    /\ Keeps(r, "rguard") \/ Keeps(r, "park")
<1> USE DEF At
<1>0. \A pc \in OwnPc : pc \notin ToPc /\ pc \notin Rest /\ pc # "row"
  BY PcsDisjoint DEF OwnPc, ToPc
<1>1. Admit(r) => \/ Keeps(r, "guard") \/ Keeps(r, "write")
                  \/ Keeps(r, "giveback") /\ req'[r].why = "full"
  <2> HAVE Admit(r)
  <2>1. req[r].pc \in OwnPc /\ {"guard", "write"} \subseteq OwnPc
    BY DEF Admit, OwnPc
  <2> QED
    BY <1>0, <2>1, GotoMoves, WhyMoves DEF Admit
<1>2. Guard(r) => \/ MayProceed(req[r].id, r) /\ Keeps(r, "write")
                  \/ ~MayProceed(req[r].id, r) /\ Keeps(r, "undo") /\ req'[r].why = "early"
  <2> HAVE Guard(r)
  <2>1. req[r].pc \in OwnPc /\ "write" \in OwnPc
    BY DEF Guard, OwnPc
  <2> QED
    BY <1>0, <2>1, GotoMoves, WhyMoves DEF Guard
<1>3. WriteRow(r) => \/ row' = [row EXCEPT ![req[r].id] = "queued"] /\ Keeps(r, "reserve")
                     \/ row' = row /\ Keeps(r, "undo") /\ req'[r].why = "fault"
  <2> HAVE WriteRow(r)
  <2>1. req[r].pc \in OwnPc /\ "reserve" \in OwnPc
    BY DEF WriteRow, OwnPc
  <2> QED
    BY <1>0, <2>1, GotoMoves, WhyMoves DEF WriteRow
<1>4. Reserve(r) => \/ MayProceed(req[r].id, r) /\ Keeps(r, "xadd")
                    \/ ~MayProceed(req[r].id, r) /\ (Keeps(r, "reguard") \/ Keeps(r, "undo"))
  <2> HAVE Reserve(r)
  <2>1. req[r].pc \in OwnPc /\ {"xadd", "reguard"} \subseteq OwnPc
    BY DEF Reserve, OwnPc
  <2> QED
    BY <1>0, <2>1, GotoMoves, WhyMoves DEF Reserve
<1>5. Reguard(r) => Keeps(r, "reserve2") \/ Keeps(r, "undo")
  <2> HAVE Reguard(r)
  <2>1. req[r].pc \in OwnPc /\ "reserve2" \in OwnPc
    BY DEF Reguard, OwnPc
  <2> QED
    BY <1>0, <2>1, GotoMoves, WhyMoves DEF Reguard
<1>6. XAdd(r) => \/ Send(req[r].id, 0) /\ Keeps(r, "mark")
                 \/ UNCHANGED <<msgs, sent>> /\ Keeps(r, "undo") /\ req'[r].why = "fault"
  <2> HAVE XAdd(r)
  <2>1. req[r].pc \in OwnPc /\ sent + 1 \in Nat
    BY DedupConstants DEF XAdd, OwnPc, DedupInv, StoreOK
  <2> QED
    BY <2>1, MsgMoves, WhyMoves DEF XAdd
<1>7. RecoverMark(r) => Keeps(r, "rreserve") \/ Keeps(r, "rmark") \/ Keeps(r, "park")
  <2> HAVE RecoverMark(r)
  <2>1. req[r].pc \in OwnPc /\ {"rreserve", "rmark", "park"} \subseteq OwnPc
    BY DEF RecoverMark, OwnPc
  <2> QED
    BY <1>0, <2>1, GotoMoves DEF RecoverMark
<1>8. Park(r) => (Rests(r) /\ req'[r].to = NoId) \/ Keeps(r, "undo") \/ Keeps(r, "xdel")
  <2> HAVE Park(r)
  <2>1. req[r].pc \in OwnPc
    BY DEF Park, OwnPc
  <2> QED
    BY <2>1, FailMoves, WhyMoves DEF Park
<1>9. /\ GiveSlot(r) => /\ req'[r].why = req[r].why
                        /\ Keeps(r, "drop") \/ (Keeps(r, "giveback") /\ req[r].why = "early")
      /\ Drop(r) => /\ req'[r].why = req[r].why
                    /\ Keeps(r, "giveback") \/ (Keeps(r, "xdel") /\ req[r].why = "late")
      /\ Xdel(r) => Keeps(r, "lost") \/ Keeps(r, "undo")
  <2>1. {"drop", "xdel", "undo", "lost", "giveback"} \subseteq OwnPc
    BY DEF OwnPc
  <2>2. ASSUME GiveSlot(r) \/ Drop(r) \/ Xdel(r) PROVE req[r].pc \in OwnPc
    BY <2>1, <2>2 DEF GiveSlot, Drop, Xdel
  <2>3. ASSUME NEW pc \in {"drop", "xdel", "undo", "lost", "giveback"}, Goto(r, pc), req[r].pc \in OwnPc
        PROVE  Keeps(r, pc) /\ req'[r].why = req[r].why
    BY <1>0, <2>1, <2>3, GotoMoves
  <2>4. ASSUME GiveSlot(r)
        PROVE  /\ req'[r].why = req[r].why
               /\ Keeps(r, "drop") \/ (Keeps(r, "giveback") /\ req[r].why = "early")
    BY <2>2, <2>3, <2>4 DEF GiveSlot
  <2>5. ASSUME Drop(r)
        PROVE  /\ req'[r].why = req[r].why
               /\ Keeps(r, "giveback") \/ (Keeps(r, "xdel") /\ req[r].why = "late")
    BY <2>2, <2>3, <2>5 DEF Drop
  <2>6. ASSUME Xdel(r) PROVE Keeps(r, "lost") \/ Keeps(r, "undo")
    BY <2>2, <2>3, <2>6 DEF Xdel
  <2> QED
    BY <2>4, <2>5, <2>6
<1>10. GiveBack(r) => \/ Keeps(r, "lost") /\ req[r].why \in {"early", "lost"}
                      \/ Rests(r) /\ req'[r].to = NoId
  <2> HAVE GiveBack(r)
  <2>1. req[r].pc \in OwnPc /\ "lost" \in OwnPc
    BY DEF GiveBack, OwnPc
  <2> QED
    BY <1>0, <2>1, GotoMoves, FailMoves DEF GiveBack
<1>11. Mark(r) =>
          \/ /\ MayMark(req[r].id, r) /\ Marked(req[r].id, r) /\ left' = left
             /\ Rests(r) /\ req'[r].to = req[r].id /\ accepted' = accepted \cup {req[r].id}
          \/ /\ MarkFails(req[r].id, r, "mark") /\ accepted' = accepted
             /\ Keeps(r, "rguard") \/ Keeps(r, "park")
  <2> HAVE Mark(r)
  <2>1. req[r].pc \in OwnPc /\ {"rguard", "park"} \subseteq OwnPc
    BY DEF Mark, OwnPc
  <2>2. req[r].id \in Id
    BY <2>1, ReqFacts
  <2> QED
    BY <1>0, <2>1, <2>2, GotoMoves, AnswerMoves DEF Mark, history
<1> QED
  BY <1>1, <1>2, <1>3, <1>4, <1>5, <1>6, <1>7, <1>8, <1>9, <1>10, <1>11

(* Then with the id it found under the key. *)
LEMMA ToMoves ==
    ASSUME DedupInv, NEW r \in Req
    PROVE  /\ Hit(r) => \E pc \in {"norow", "row"} : Goes(r, pc) /\ req'[r].st = row[req[r].to]
           /\ NoRow(r) => Keeps(r, "waitrow") \/ Keeps(r, "orphan")
           /\ WaitRow(r) => \/ Goes(r, "row") /\ req'[r].st = row[req[r].to]
                            \/ Rests(r) /\ req'[r].to = NoId
                            \/ Keeps(r, "orphan")
           /\ Orphan(r) => Rests(r) /\ req'[r].to = NoId
           /\ RowHit(r) => \/ /\ Rests(r) /\ req'[r].to = req[r].to /\ accepted' = accepted \cup {req[r].to}
                              /\ req[r].st # "queued" \/ OwnerIs({"enqueued"}, req[r].to)
                           \/ accepted' = accepted /\ (Keeps(r, "waitmark") \/ Keeps(r, "adopt"))
           /\ WaitMark(r) => \/ /\ Rests(r) /\ req'[r].to = req[r].to /\ accepted' = accepted \cup {req[r].to}
                                /\ OwnerIs({"enqueued"}, req[r].to)
                             \/ accepted' = accepted /\ Rests(r) /\ req'[r].to = NoId
           /\ Adopt(r) => \/ MayAdopt(req[r].to) /\ claim' = Claim("enqueueing", req[r].to, r) /\ Keeps(r, "readd")
                          \/ claim' = claim /\ Rests(r) /\ req'[r].to = NoId
           /\ ReAdd(r) => \/ Send(req[r].to, 0) /\ accepted' = accepted /\ Keeps(r, "remark")
                          \/ /\ Spend("readd") /\ UNCHANGED <<msgs, sent>>
                             /\ Rests(r) /\ req'[r].to \in {NoId, req[r].to}
                             /\ accepted' \subseteq accepted \cup {req[r].to} /\ accepted \subseteq accepted'
           /\ ReMark(r) =>
                 \/ /\ MayMark(req[r].to, r) /\ Marked(req[r].to, r) /\ left' = left
                    /\ Rests(r) /\ req'[r].to = req[r].to /\ accepted' = accepted \cup {req[r].to}
                 \/ /\ MarkFails(req[r].to, r, "remark") /\ accepted' = accepted
                    /\ Keeps(r, "rexdel") \/ (Rests(r) /\ req'[r].to = NoId)
           /\ ReXdel(r) => Rests(r) /\ req'[r].to = NoId
           /\ FireOwner(r) => \/ Rests(r) /\ req'[r].to = NoId
                              \/ ~OwnerIs(InFlight \cup {"enqueued"}, req[r].to) /\ Keeps(r, "look")
           /\ FireLook(r) => \/ row[req[r].to] = "none" /\ Keeps(r, "clear")
                             \/ req[r].to \in tomb /\ Keeps(r, "discard")
                             \/ Keeps(r, "adopt")
           /\ FireDiscard(r) => Keeps(r, "clear")
           /\ FireClear(r) => Rests(r) /\ req'[r].to = NoId
<1> USE DEF At
<1>0. \A pc \in ToPc : pc \notin OwnPc /\ pc \notin Rest
  BY PcsDisjoint
<1>1. Hit(r) => \E pc \in {"norow", "row"} : Goes(r, pc) /\ req'[r].st = row[req[r].to]
  <2> HAVE Hit(r)
  <2>1. req[r].pc \in ToPc
    BY DEF Hit, ToPc
  <2>2. row[req[r].to] \in RowStatus
    BY <2>1, ReqFacts DEF DedupInv, StoreOK
  <2>3. PICK st \in RowStatus, pc \in {"norow", "row"} :
           st = row[req[r].to] /\ pc = IF st = "none" THEN "norow" ELSE "row"
    BY <2>2
  <2> QED
    BY <2>1, <2>3, StMoves DEF Hit
<1>2. NoRow(r) => Keeps(r, "waitrow") \/ Keeps(r, "orphan")
  <2> HAVE NoRow(r)
  <2>1. req[r].pc \in ToPc /\ {"waitrow", "orphan"} \subseteq ToPc
    BY DEF NoRow, ToPc
  <2> QED
    BY <1>0, <2>1, GotoMoves DEF NoRow
<1>3. WaitRow(r) => \/ Goes(r, "row") /\ req'[r].st = row[req[r].to]
                    \/ Rests(r) /\ req'[r].to = NoId
                    \/ Keeps(r, "orphan")
  <2> HAVE WaitRow(r)
  <2>1. req[r].pc \in ToPc /\ "orphan" \in ToPc
    BY DEF WaitRow, ToPc
  <2>2. row[req[r].to] \in RowStatus
    BY <2>1, ReqFacts DEF DedupInv, StoreOK
  <2>3. ASSUME row[req[r].to] # "none", req' = [req EXCEPT ![r].st = row[req[r].to], ![r].pc = "row"]
        PROVE  Goes(r, "row") /\ req'[r].st = row[req[r].to]
    BY <2>1, <2>2, <2>3, StMoves
  <2> QED
    BY <1>0, <2>1, <2>3, GotoMoves, FailMoves DEF WaitRow
<1>4. Orphan(r) => Rests(r) /\ req'[r].to = NoId
  BY AgainMoves DEF Orphan
<1>5. RowHit(r) => \/ /\ Rests(r) /\ req'[r].to = req[r].to /\ accepted' = accepted \cup {req[r].to}
                      /\ req[r].st # "queued" \/ OwnerIs({"enqueued"}, req[r].to)
                   \/ accepted' = accepted /\ (Keeps(r, "waitmark") \/ Keeps(r, "adopt"))
  <2> HAVE RowHit(r)
  <2>1. req[r].pc \in ToPc /\ {"waitmark", "adopt"} \subseteq ToPc
    BY DEF RowHit, ToPc
  <2>2. req[r].to \in Id
    BY <2>1, ReqFacts
  <2> QED
    BY <1>0, <2>1, <2>2, GotoMoves, AnswerMoves DEF RowHit, history
<1>6. WaitMark(r) => \/ /\ Rests(r) /\ req'[r].to = req[r].to /\ accepted' = accepted \cup {req[r].to}
                        /\ OwnerIs({"enqueued"}, req[r].to)
                     \/ accepted' = accepted /\ Rests(r) /\ req'[r].to = NoId
  <2> HAVE WaitMark(r)
  <2>1. req[r].to \in Id
    BY ReqFacts DEF WaitMark, ToPc
  <2> QED
    BY <2>1, AgainMoves, FailMoves, AnswerMoves DEF WaitMark, history
<1>7. Adopt(r) => \/ MayAdopt(req[r].to) /\ claim' = Claim("enqueueing", req[r].to, r) /\ Keeps(r, "readd")
                  \/ claim' = claim /\ Rests(r) /\ req'[r].to = NoId
  <2> HAVE Adopt(r)
  <2>1. req[r].pc \in ToPc /\ "readd" \in ToPc
    BY DEF Adopt, ToPc
  <2> QED
    BY <1>0, <2>1, GotoMoves, AgainMoves, FailMoves DEF Adopt
<1>8. ReAdd(r) => \/ Send(req[r].to, 0) /\ accepted' = accepted /\ Keeps(r, "remark")
                  \/ /\ Spend("readd") /\ UNCHANGED <<msgs, sent>>
                     /\ Rests(r) /\ req'[r].to \in {NoId, req[r].to}
                     /\ accepted' \subseteq accepted \cup {req[r].to} /\ accepted \subseteq accepted'
  <2> HAVE ReAdd(r)
  <2>1. req[r].pc \in ToPc /\ sent + 1 \in Nat
    BY DedupConstants DEF ReAdd, ToPc, DedupInv, StoreOK
  <2>2. req[r].to \in Id
    BY <2>1, ReqFacts
  <2>3. CASE /\ Send(req[r].to, 0) /\ req' = [req EXCEPT ![r].pc = "remark", ![r].msg = sent + 1]
             /\ accepted' = accepted
    BY <2>1, <2>3, MsgMoves
  <2>4. CASE /\ Spend("readd") /\ UNCHANGED <<msgs, sent>>
             /\ Answer(r, req[r].to) \/ (Fail(r) /\ UNCHANGED accepted)
    BY <2>2, <2>4, AnswerMoves, FailMoves
  <2> QED
    BY <2>3, <2>4 DEF ReAdd
<1>9. ReMark(r) =>
         \/ /\ MayMark(req[r].to, r) /\ Marked(req[r].to, r) /\ left' = left
            /\ Rests(r) /\ req'[r].to = req[r].to /\ accepted' = accepted \cup {req[r].to}
         \/ /\ MarkFails(req[r].to, r, "remark") /\ accepted' = accepted
            /\ Keeps(r, "rexdel") \/ (Rests(r) /\ req'[r].to = NoId)
  <2> HAVE ReMark(r)
  <2>1. req[r].pc \in ToPc /\ "rexdel" \in ToPc
    BY DEF ReMark, ToPc
  <2>2. req[r].to \in Id
    BY <2>1, ReqFacts
  <2> QED
    BY <1>0, <2>1, <2>2, GotoMoves, AnswerMoves, FailMoves DEF ReMark, history
<1>10. ReXdel(r) => Rests(r) /\ req'[r].to = NoId
  BY AgainMoves DEF ReXdel
<1>11. FireOwner(r) => \/ Rests(r) /\ req'[r].to = NoId
                       \/ ~OwnerIs(InFlight \cup {"enqueued"}, req[r].to) /\ Keeps(r, "look")
  <2> HAVE FireOwner(r)
  <2>1. req[r].pc \in ToPc /\ "look" \in ToPc /\ "dedup" \in Rest
    BY DEF FireOwner, ToPc, Rest
  <2> QED
    BY <1>0, <2>1, GotoMoves, RestMoves DEF FireOwner
<1>12. FireLook(r) => \/ row[req[r].to] = "none" /\ Keeps(r, "clear")
                      \/ req[r].to \in tomb /\ Keeps(r, "discard")
                      \/ Keeps(r, "adopt")
  <2> HAVE FireLook(r)
  <2>1. req[r].pc \in ToPc /\ {"clear", "discard", "adopt"} \subseteq ToPc
    BY DEF FireLook, ToPc
  <2> QED
    BY <1>0, <2>1, GotoMoves DEF FireLook
<1>13. FireDiscard(r) => Keeps(r, "clear")
  <2> HAVE FireDiscard(r)
  <2>1. req[r].pc \in ToPc /\ "clear" \in ToPc
    BY DEF FireDiscard, ToPc
  <2> QED
    BY <1>0, <2>1, GotoMoves DEF FireDiscard
<1>14. FireClear(r) => Rests(r) /\ req'[r].to = NoId
  <2> HAVE FireClear(r)
  <2>1. "claim" \in Rest
    BY DEF Rest
  <2> QED
    BY <2>1, RestMoves, FailMoves DEF FireClear
<1> QED
  BY <1>1, <1>2, <1>3, <1>4, <1>5, <1>6, <1>7, <1>8, <1>9, <1>10, <1>11, <1>12, <1>13, <1>14

(* A requester that crashes or is retried rests. *)
LEMMA CrashMoves ==
    ASSUME DedupInv, NEW r \in Req, CrashReq(r) \/ TryAgain(r)
    PROVE  Rests(r) /\ req'[r].to = NoId
<1>1. "claim" \in Rest
  BY DEF Rest
<1> QED
  BY <1>1, FailMoves, RestMoves DEF CrashReq, TryAgain

-----------------------------------------------------------------------------
(* One worker moves. *)
SetWork(w, x) == wk' = [wk EXCEPT ![w] = x]
WMoved(w) == WorkersOK' /\ \A v \in Worker \ {w} : wk'[v] = wk[v]
(* It goes on with its message, or is done with it. *)
WGoes(w, pc) == WMoved(w) /\ wk'[w].pc = pc /\ wk'[w].msg = wk[w].msg
WIdles(w) == WMoved(w) /\ wk'[w].pc = "idle"
Acks(w) == WIdles(w) /\ msgs' = msgs \ {wk[w].msg}

(* Replacing one worker by a sane one keeps the others. *)
LEMMA WorkSet ==
    ASSUME DedupInv, NEW w \in Worker, NEW x \in WorkRecord, WorkOK(x), SetWork(w, x)
    PROVE  WMoved(w) /\ wk'[w] = x
<1>1. wk' \in [Worker -> WorkRecord] /\ wk'[w] = x /\ \A v \in Worker \ {w} : wk'[v] = wk[v]
  BY DEF SetWork, DedupInv, WorkersOK
<1>2. \A v \in Worker : WorkOK(wk[v])'
  BY <1>1 DEF DedupInv, WorkersOK, WorkOK
<1> QED
  BY <1>1, <1>2 DEF WMoved, WorkersOK

(* What the invariant says of one worker. *)
LEMMA WorkFacts ==
    ASSUME DedupInv, NEW w \in Worker
    PROVE  /\ wk \in [Worker -> WorkRecord] /\ wk[w] \in WorkRecord /\ WorkOK(wk[w])
           /\ wk[w].pc # "idle" => wk[w].msg \in MsgRecord /\ WId(w) \in Id
           /\ wk[w].pc \in {"whit", "release", "delete"} => wk[w].to \in Id
<1>1. wk \in [Worker -> WorkRecord] /\ wk[w] \in WorkRecord /\ WorkOK(wk[w])
  BY DEF DedupInv, WorkersOK
<1>2. wk[w].pc # "idle" => wk[w].msg \in MsgRecord
  BY <1>1 DEF WorkOK
<1>3. wk[w].pc # "idle" => WId(w) \in Id
  BY <1>2 DEF WId, MsgRecord
<1> QED
  BY <1>1, <1>2, <1>3 DEF WorkOK

(* A worker at another label keeps its message and the id it found. *)
LEMMA WGotoMoves ==
    ASSUME DedupInv, NEW w \in Worker, wk[w].pc # "idle",
           NEW pc \in {"defer", "deferred", "check", "claim", "claim2", "release", "delete", "start", "run"},
           WGoto(w, pc), pc = "defer" => wk[w].msg.defers <= DeferMax,
           pc \in {"release", "delete"} => wk[w].pc \in {"whit", "release"}
    PROVE  WGoes(w, pc) /\ wk'[w].to = wk[w].to
<1> DEFINE x == [wk[w] EXCEPT !.pc = pc]
<1>1. wk \in [Worker -> WorkRecord] /\ wk[w] \in WorkRecord /\ WorkOK(wk[w])
  BY WorkFacts
<1>2. SetWork(w, x)
  BY <1>1 DEF WGoto, SetWork
<1>3. x \in WorkRecord /\ x.pc = pc /\ x.msg = wk[w].msg /\ x.to = wk[w].to
  BY <1>1 DEF WorkRecord
<1> HIDE DEF x
<1>4. WorkOK(x)
  BY <1>1, <1>3 DEF WorkOK
<1> QED
  BY <1>2, <1>3, <1>4, WorkSet DEF WGoes

(* A worker that found an id under the key remembers it. *)
LEMMA WToMoves ==
    ASSUME DedupInv, NEW w \in Worker, wk[w].pc # "idle", NEW pc \in {"whit", "release"}, NEW i \in Id,
           wk' = [wk EXCEPT ![w].pc = pc, ![w].to = i]
    PROVE  WGoes(w, pc) /\ wk'[w].to = i
<1> DEFINE x == [wk[w] EXCEPT !.pc = pc, !.to = i]
<1>1. wk \in [Worker -> WorkRecord] /\ wk[w] \in WorkRecord /\ WorkOK(wk[w])
  BY WorkFacts
<1>2. SetWork(w, x)
  BY <1>1 DEF SetWork
<1>3. x \in WorkRecord /\ x.pc = pc /\ x.msg = wk[w].msg /\ x.to = i
  BY <1>1, DedupConstants DEF WorkRecord
<1> HIDE DEF x
<1>4. WorkOK(x)
  BY <1>1, <1>3 DEF WorkOK
<1> QED
  BY <1>2, <1>3, <1>4, WorkSet DEF WGoes

(* A worker that gives its message up is idle. *)
LEMMA IdleMoves ==
    ASSUME DedupInv, NEW w \in Worker, wk' = [wk EXCEPT ![w] = Idle]
    PROVE  WIdles(w)
<1>1. Idle \in WorkRecord /\ Idle.pc = "idle"
  BY DedupConstants DEF Idle, WorkRecord
<1>2. WorkOK(Idle)
  BY <1>1 DEF WorkOK
<1> QED
  BY <1>1, <1>2, WorkSet DEF SetWork, WIdles

(* A worker that acknowledges is idle, and its message is gone. *)
LEMMA AckMoves ==
    ASSUME DedupInv, NEW w \in Worker, Ack(w)
    PROVE  Acks(w)
BY IdleMoves DEF Ack, Acks

(* A worker that takes a message holds a message of the queue. *)
LEMMA TakeMoves ==
    ASSUME DedupInv, NEW w \in Worker, Take(w)
    PROVE  WMoved(w) /\ wk'[w].pc = "gate" /\ wk'[w].msg \in msgs
<1>1. PICK m \in msgs : wk' = [wk EXCEPT ![w].pc = "gate", ![w].msg = m]
  BY DEF Take
<1>2. m \in MsgRecord
  BY DEF DedupInv, StoreOK
<1>3. m \in [n : 0 .. MaxMsg, id : Keys, defers : 0 .. DeferMax + 1]
  BY <1>2, DedupConstants DEF MsgRecord
<1> DEFINE x == [wk[w] EXCEPT !.pc = "gate", !.msg = m]
<1>4. wk \in [Worker -> WorkRecord] /\ wk[w] \in WorkRecord
  BY WorkFacts
<1>5. SetWork(w, x)
  BY <1>1, <1>4 DEF SetWork
<1>6. x \in WorkRecord /\ x.pc = "gate" /\ x.msg = m
  BY <1>3, <1>4 DEF WorkRecord
<1> HIDE DEF x
<1>7. WorkOK(x)
  BY <1>2, <1>6 DEF WorkOK
<1> QED
  BY <1>5, <1>6, <1>7, WorkSet

(* After its release a worker acknowledges or claims a second time. *)
LEMMA AfterReleaseMoves ==
    ASSUME DedupInv, NEW w \in Worker, wk[w].pc # "idle", AfterRelease(w)
    PROVE  Acks(w) \/ (WGoes(w, "claim2") /\ msgs' = msgs)
<1>1. CASE Ack(w)
  BY <1>1, AckMoves
<1>2. CASE WGoto(w, "claim2") /\ msgs' = msgs /\ wk[w].to # WId(w)
  <2>1. WGoes(w, "claim2")
    BY <1>2, WGotoMoves
  <2> QED
    BY <1>2, <2>1
<1> QED
  BY <1>1, <1>2 DEF AfterRelease

(* Where each operation of a worker leads. *)
LEMMA WorkMoves ==
    ASSUME DedupInv, NEW w \in Worker
    PROVE  /\ Gate(w) => \/ /\ WId(w) \in tomb /\ UNCHANGED <<slots, beside>>
                            /\ WGoes(w, "release") /\ wk'[w].to = WId(w)
                         \/ /\ TakesSlot(WId(w)) /\ beside' = beside \ {WId(w)}
                            /\ WId(w) \notin tomb /\ WGoes(w, "check")
                         \/ /\ slots' = slots /\ beside' = beside \cup ({WId(w)} \ slots)
                            /\ WId(w) \notin tomb /\ WGoes(w, "check")
                         \/ UNCHANGED <<slots, beside>> /\ WGoes(w, "defer")
           /\ DeferSend(w) => Send(WId(w), wk[w].msg.defers + 1) /\ WGoes(w, "deferred")
           /\ DeferAck(w) => Acks(w)
           /\ CheckTomb(w) => \/ WId(w) \in tomb /\ WGoes(w, "release")
                              \/ WGoes(w, "claim")
           /\ WorkerClaim(w) => \/ WGoes(w, "start")
                                \/ map \notin {NoId, WId(w)} /\ WGoes(w, "whit")
           /\ WorkerHit(w) => Acks(w) \/ (WGoes(w, "release") /\ msgs' = msgs)
           /\ ReleaseGet(w) => Acks(w) \/ (msgs' = msgs /\ (WGoes(w, "delete") \/ WGoes(w, "claim2")))
           /\ ReleaseDel(w) => Acks(w) \/ (msgs' = msgs /\ WGoes(w, "claim2"))
           /\ StartFlow(w) =>
                 \/ Acks(w) /\ UNCHANGED <<row, slots, ran>>
                 \/ /\ Acks(w) /\ ran' = ran /\ row[WId(w)] \notin Final
                    /\ row' = [row EXCEPT ![WId(w)] = "cancelled"] /\ slots' = slots \ {WId(w)}
                 \/ /\ WGoes(w, "run") /\ UNCHANGED <<slots, msgs>> /\ row[WId(w)] \notin Final
                    /\ row' = [row EXCEPT ![WId(w)] = "running"] /\ ran' = ran \cup {WId(w)}
           /\ Finish(w) =>
                 \/ Acks(w) /\ UNCHANGED <<row, slots>>
                 \/ /\ Acks(w) /\ row[WId(w)] # "none" /\ slots' = slots \ {WId(w)}
                    /\ \E st \in Final : row' = [row EXCEPT ![WId(w)] = st]
           /\ CrashWorker(w) => WIdles(w)
<1> USE DEF WAt
<1>1. Gate(w) => \/ /\ WId(w) \in tomb /\ UNCHANGED <<slots, beside>>
                    /\ WGoes(w, "release") /\ wk'[w].to = WId(w)
                 \/ /\ TakesSlot(WId(w)) /\ beside' = beside \ {WId(w)}
                    /\ WId(w) \notin tomb /\ WGoes(w, "check")
                 \/ /\ slots' = slots /\ beside' = beside \cup ({WId(w)} \ slots)
                    /\ WId(w) \notin tomb /\ WGoes(w, "check")
                 \/ UNCHANGED <<slots, beside>> /\ WGoes(w, "defer")
  <2> HAVE Gate(w)
  <2>1. wk[w].pc # "idle" /\ WId(w) \in Id
    BY WorkFacts DEF Gate
  <2>2. CASE /\ WId(w) \in tomb /\ UNCHANGED <<slots, beside>>
             /\ wk' = [wk EXCEPT ![w].pc = "release", ![w].to = WId(w)]
    <3>1. PICK i \in Id : i = WId(w)
      BY <2>1
    <3>2. wk' = [wk EXCEPT ![w].pc = "release", ![w].to = i]
      BY <2>2, <3>1
    <3>3. WGoes(w, "release") /\ wk'[w].to = i
      BY <2>1, <3>2, WToMoves
    <3> QED
      BY <2>2, <3>1, <3>3
  <2>3. CASE WId(w) \notin tomb /\ PassesGate(w) /\ WGoto(w, "check")
    <3>1. WGoes(w, "check")
      BY <2>1, <2>3, WGotoMoves
    <3> QED
      BY <2>3, <3>1 DEF PassesGate, PassesOpen
  <2>4. CASE ~Bypass(w) /\ NoSlotLeft(WId(w)) /\ WGoto(w, "defer") /\ UNCHANGED beside
    <3>1. wk[w].msg.defers <= DeferMax
      BY <2>1, <2>4, WorkFacts, DedupConstants DEF Bypass, MsgRecord
    <3>2. WGoes(w, "defer")
      BY <2>1, <2>4, <3>1, WGotoMoves
    <3> QED
      BY <2>4, <3>2 DEF NoSlotLeft
  <2> QED
    BY <2>2, <2>3, <2>4 DEF Gate
<1>0. (DeferSend(w) => Send(WId(w), wk[w].msg.defers + 1) /\ WGoes(w, "deferred")) /\ (DeferAck(w) => Acks(w))
  <2>1. ASSUME DeferSend(w) PROVE WGoes(w, "deferred")
    BY <2>1, WGotoMoves DEF DeferSend
  <2>2. ASSUME DeferAck(w) PROVE Acks(w)
    BY <2>2, AckMoves DEF DeferAck
  <2> QED
    BY <2>1, <2>2 DEF DeferSend
<1>2. CheckTomb(w) => \/ WId(w) \in tomb /\ WGoes(w, "release")
                      \/ WGoes(w, "claim")
  <2> HAVE CheckTomb(w)
  <2>1. wk[w].pc # "idle" /\ WId(w) \in Id
    BY WorkFacts DEF CheckTomb
  <2>2. PICK i \in Id : i = WId(w)
    BY <2>1
  <2> QED
    BY <2>1, <2>2, WToMoves, WGotoMoves DEF CheckTomb
<1>3. WorkerClaim(w) => \/ WGoes(w, "start")
                        \/ map \notin {NoId, WId(w)} /\ WGoes(w, "whit")
  <2> HAVE WorkerClaim(w)
  <2>1. wk[w].pc # "idle"
    BY DEF WorkerClaim
  <2>2. CASE WGoto(w, "start")
    BY <2>1, <2>2, WGotoMoves
  <2>3. CASE map \notin {NoId, WId(w)} /\ wk' = [wk EXCEPT ![w].pc = "whit", ![w].to = map]
    <3>1. PICK i \in Id : i = map
      BY <2>3, DedupConstants DEF DedupInv, KeysOK
    <3> QED
      BY <2>1, <2>3, <3>1, WToMoves
  <2> QED
    BY <2>2, <2>3 DEF WorkerClaim
<1>4. WorkerHit(w) => Acks(w) \/ (WGoes(w, "release") /\ msgs' = msgs)
  <2> HAVE WorkerHit(w)
  <2>1. ASSUME WGoto(w, "release") PROVE WGoes(w, "release")
    BY <2>1, WGotoMoves DEF WorkerHit
  <2> QED
    BY <2>1, AckMoves DEF WorkerHit
<1>5. ReleaseGet(w) => Acks(w) \/ (msgs' = msgs /\ (WGoes(w, "delete") \/ WGoes(w, "claim2")))
  <2> HAVE ReleaseGet(w)
  <2>1. ASSUME WGoto(w, "delete") PROVE WGoes(w, "delete")
    BY <2>1, WGotoMoves DEF ReleaseGet
  <2>2. wk[w].pc # "idle"
    BY DEF ReleaseGet
  <2>3. ASSUME AfterRelease(w) PROVE Acks(w) \/ (msgs' = msgs /\ WGoes(w, "claim2"))
    BY <2>2, <2>3, AfterReleaseMoves
  <2> QED
    BY <2>1, <2>3 DEF ReleaseGet
<1>6. ReleaseDel(w) => Acks(w) \/ (msgs' = msgs /\ WGoes(w, "claim2"))
  <2> HAVE ReleaseDel(w)
  <2>1. wk[w].pc # "idle" /\ AfterRelease(w)
    BY DEF ReleaseDel
  <2> QED
    BY <2>1, AfterReleaseMoves
<1>7. StartFlow(w) =>
         \/ Acks(w) /\ UNCHANGED <<row, slots, ran>>
         \/ /\ Acks(w) /\ ran' = ran /\ row[WId(w)] \notin Final
            /\ row' = [row EXCEPT ![WId(w)] = "cancelled"] /\ slots' = slots \ {WId(w)}
         \/ /\ WGoes(w, "run") /\ UNCHANGED <<slots, msgs>> /\ row[WId(w)] \notin Final
            /\ row' = [row EXCEPT ![WId(w)] = "running"] /\ ran' = ran \cup {WId(w)}
  BY AckMoves, WGotoMoves DEF StartFlow
<1>8. Finish(w) =>
         \/ Acks(w) /\ UNCHANGED <<row, slots>>
         \/ /\ Acks(w) /\ row[WId(w)] # "none" /\ slots' = slots \ {WId(w)}
            /\ \E st \in Final : row' = [row EXCEPT ![WId(w)] = st]
  <2> HAVE Finish(w)
  <2>1. Acks(w)
    BY AckMoves DEF Finish
  <2>2. \E st \in Final : st = IF WId(w) \in flag THEN "cancelled" ELSE "done"
    BY DEF Final
  <2> QED
    BY <2>1, <2>2 DEF Finish
<1>9. CrashWorker(w) => WIdles(w)
  BY IdleMoves DEF CrashWorker
<1> QED
  BY <1>0, <1>1, <1>2, <1>3, <1>4, <1>5, <1>6, <1>7, <1>8, <1>9

-----------------------------------------------------------------------------
(* Every operation keeps the type invariant. *)
LEMMA ReqIds ==
    ASSUME DedupInv, NEW r \in Req
    PROVE  /\ req[r].pc \in OwnPc => req[r].id \in Id
           /\ req[r].pc \in ToPc => req[r].to \in Id
BY ReqFacts

(* Keys that do not change keep their types. *)
LEMMA KeysSame ==
    ASSUME DedupInv, UNCHANGED <<map, claim, parked>>
    PROVE  KeysOK'
BY DEF DedupInv, KeysOK

(* A release of the key keeps the types of the keys. *)
LEMMA KeysReleased ==
    ASSUME DedupInv, NEW may, ReleaseIf(may), parked' \in Keys
    PROVE  KeysOK'
<1>1. map' \in Keys /\ (claim' = claim \/ claim' = NoClaim)
  BY DedupConstants DEF DedupInv, KeysOK, ReleaseIf
<1> QED
  BY <1>1, ClaimWritten

(* The steps of requesters keep the types of the keys. *)
LEMMA ReqKeys ==
    ASSUME DedupInv, NEW r \in Req, ReqStep(r)
    PROVE  KeysOK'
<1>0. map \in Keys /\ parked \in Keys /\ NoId \in Keys
  BY DedupConstants DEF DedupInv, KeysOK
<1>1. CASE TryClaim(r)
  <2>1. UNCHANGED parked /\ map' \in Keys
    BY <1>0, <1>1, ClaimMoves, DedupConstants
  <2>2. claim' = claim \/ \E i \in Id : claim' = Claim("claiming", i, r)
    BY <1>1, ClaimMoves
  <2> QED
    BY <1>0, <2>1, <2>2, ClaimWritten
<1>2. CASE \/ Admit(r) \/ WriteRow(r) \/ XAdd(r) \/ GiveSlot(r) \/ Drop(r) \/ Xdel(r) \/ Lost(r) \/ Hit(r)
           \/ NoRow(r) \/ WaitRow(r)
           \/ RowHit(r) \/ WaitMark(r) \/ ReAdd(r) \/ ReXdel(r) \/ FireOwner(r) \/ FireLook(r)
           \/ FireDiscard(r)
  <2>1. UNCHANGED <<map, claim, parked>>
    BY <1>2 DEF Admit, WriteRow, XAdd, GiveSlot, Drop, Xdel, Lost, Hit, NoRow, WaitRow, RowHit, WaitMark, ReAdd, ReXdel,
                FireOwner, FireLook, FireDiscard, redis
  <2> QED
    BY <2>1, KeysSame
<1>3. CASE GiveBack(r) \/ Orphan(r) \/ FireClear(r)
  <2>1. parked' = parked /\ \E may \in BOOLEAN : ReleaseIf(may)
    <3>1. parked' = parked
      BY <1>3 DEF GiveBack, Orphan, FireClear
    <3>2. \E may : ReleaseIf(may)
      BY <1>3 DEF GiveBack, Orphan, FireClear
    <3>3. \A may : ReleaseIf(may) => ReleaseIf(TRUE) \/ ReleaseIf(FALSE)
      BY DEF ReleaseIf
    <3> QED
      BY <3>1, <3>2, <3>3
  <2> QED
    BY <1>0, <2>1, KeysReleased
<1>4. CASE Guard(r) \/ Reserve(r) \/ Reguard(r) \/ RecoverMark(r)
  <2>1. req[r].id \in Id
    BY <1>4, ReqIds DEF Guard, Reserve, Reguard, RecoverMark, At, OwnPc
  <2>2. UNCHANGED <<map, parked>>
    BY <1>4 DEF Guard, Reserve, Reguard, RecoverMark
  <2>3. claim' = claim \/ \E st \in {"claiming", "enqueueing"} : claim' = Claim(st, req[r].id, r)
    BY <1>4 DEF Guard, Reserve, Reguard, RecoverMark
  <2> QED
    BY <1>0, <2>1, <2>2, <2>3, ClaimWritten
<1>5. CASE Adopt(r)
  <2>1. req[r].to \in Id /\ UNCHANGED <<map, parked>>
    BY <1>5, ReqIds DEF Adopt, At, ToPc
  <2>2. claim' = claim \/ claim' = Claim("enqueueing", req[r].to, r)
    BY <1>5 DEF Adopt
  <2> QED
    BY <1>0, <2>1, <2>2, ClaimWritten
<1>6. CASE Mark(r) \/ ReMark(r)
  <2>1. PICK i \in Id : \/ Marked(i, r)
                        \/ \E fault \in {"mark", "remark"} : MarkFails(i, r, fault)
    BY <1>6, ReqIds DEF Mark, ReMark, At, OwnPc, ToPc
  <2>2. map' = map /\ parked' \in Keys
    BY <1>0, <1>6, <2>1 DEF Mark, ReMark, Marked, MarkFails
  <2>3. claim' = claim \/ claim' = Claim("enqueued", i, r)
    BY <2>1 DEF Marked, MarkFails
  <2> QED
    BY <1>0, <2>2, <2>3, ClaimWritten
<1>7. CASE Park(r)
  <2>1. req[r].id \in Id
    BY <1>7, ReqIds DEF Park, At, OwnPc
  <2>2. UNCHANGED <<map, claim>> /\ parked' \in Keys
    BY <1>0, <1>7, <2>1, DedupConstants DEF Park
  <2> QED
    BY <1>0, <2>2, ClaimWritten
<1> QED
  BY <1>1, <1>2, <1>3, <1>4, <1>5, <1>6, <1>7 DEF ReqStep

(* Sending adds one message for the id. *)
LEMMA SendType ==
    ASSUME DedupInv, NEW i \in Id, NEW d \in 0 .. DeferMax + 1, Send(i, d)
    PROVE  /\ sent' \in 0 .. MaxMsg /\ msgs' \subseteq MsgRecord
           /\ \E m \in MsgRecord : m.id = i /\ m.n = sent + 1 /\ msgs' = msgs \cup {m}
<1>1. sent + 1 \in 1 .. MaxMsg
  BY DedupConstants DEF Send, DedupInv, StoreOK
<1>2. PICK n \in 1 .. MaxMsg : n = sent + 1
  BY <1>1
<1> DEFINE m == [n |-> n, id |-> i, defers |-> d]
<1>3. m \in MsgRecord /\ m.id = i /\ m.n = sent + 1
  BY <1>2 DEF MsgRecord
<1>4. msgs' = msgs \cup {m} /\ sent' = n
  BY <1>2 DEF Send
<1> HIDE DEF m
<1> QED
  BY <1>3, <1>4, DedupConstants DEF DedupInv, StoreOK

(* A store that does not change keeps its types. *)
LEMMA StoreSame ==
    ASSUME DedupInv, UNCHANGED <<row, tomb, slots, flag, msgs, sent, accepted, ran, beside>>
    PROVE  StoreOK'
BY DEF DedupInv, StoreOK

(* The steps of requesters keep the types of the store. *)
LEMMA ReqStore ==
    ASSUME DedupInv, NEW r \in Req, ReqStep(r)
    PROVE  StoreOK'
<1>1. CASE \/ TryClaim(r) \/ Guard(r) \/ Reserve(r) \/ Reguard(r) \/ RecoverMark(r) \/ Park(r) \/ GiveBack(r)
           \/ Lost(r) \/ Hit(r) \/ NoRow(r) \/ WaitRow(r) \/ Orphan(r) \/ Adopt(r) \/ FireOwner(r)
           \/ FireLook(r) \/ FireClear(r)
  <2>1. UNCHANGED <<row, tomb, slots, flag, msgs, sent, accepted, ran, beside>>
    BY <1>1 DEF TryClaim, Guard, Reserve, Reguard, RecoverMark, Park, GiveBack, Lost, Hit, NoRow, WaitRow,
                Orphan, Adopt, FireOwner, FireLook, FireClear, redis, history
  <2> QED
    BY <2>1, StoreSame
<1>2. CASE Admit(r) \/ WriteRow(r) \/ GiveSlot(r) \/ Drop(r) \/ Xdel(r) \/ XAdd(r)
  <2>1. req[r].id \in Id
    BY <1>2, ReqIds DEF Admit, WriteRow, GiveSlot, Drop, Xdel, XAdd, At, OwnPc
  <2>2. PICK i \in Id : i = req[r].id
    BY <2>1
  <2>3. CASE Admit(r)
    <3>1. slots' \subseteq slots \cup {i}
      BY <2>2, <2>3 DEF Admit, TakesSlot, PassesOpen, NoSlotLeft
    <3>2. UNCHANGED <<row, tomb, flag, msgs, sent, accepted, ran, beside>>
      BY <2>3 DEF Admit, history
    <3> QED
      BY <3>1, <3>2 DEF DedupInv, StoreOK
  <2>4. CASE WriteRow(r) \/ GiveSlot(r) \/ Drop(r) \/ Xdel(r)
    <3>1. row' \in [Id -> RowStatus]
      BY <2>2, <2>4 DEF WriteRow, GiveSlot, Drop, Xdel, DedupInv, StoreOK, RowStatus
    <3>2. /\ tomb' \subseteq Id /\ slots' \subseteq Id /\ msgs' \subseteq msgs /\ beside' \subseteq Id
          /\ UNCHANGED <<flag, sent, accepted, ran>>
      BY <2>2, <2>4 DEF WriteRow, GiveSlot, Drop, Xdel, DedupInv, StoreOK, history
    <3> QED
      BY <3>1, <3>2 DEF DedupInv, StoreOK
  <2>5. CASE XAdd(r)
    <3>1. Send(i, 0) \/ UNCHANGED <<msgs, sent>>
      BY <2>2, <2>5 DEF XAdd
    <3>2. UNCHANGED <<row, tomb, slots, flag, accepted, ran, beside>>
      BY <2>5 DEF XAdd, history
    <3>3. msgs' \subseteq MsgRecord /\ sent' \in 0 .. MaxMsg
      BY <3>1, SendType, DedupConstants DEF DedupInv, StoreOK
    <3> QED
      BY <3>2, <3>3 DEF DedupInv, StoreOK
  <2> QED
    BY <1>2, <2>3, <2>4, <2>5
<1>3. CASE Mark(r)
  <2>1. accepted' \in SUBSET Id
    BY <1>3, OwnMoves, ReqIds DEF Mark, OwnPc, DedupInv, StoreOK
  <2>2. UNCHANGED <<row, tomb, slots, flag, msgs, sent, ran, beside>>
    BY <1>3 DEF Mark, history
  <2> QED
    BY <2>1, <2>2 DEF DedupInv, StoreOK
<1>4. CASE RowHit(r) \/ WaitMark(r) \/ ReMark(r) \/ ReAdd(r) \/ ReXdel(r) \/ FireDiscard(r)
  <2>1. req[r].to \in Id
    BY <1>4, ReqIds DEF RowHit, WaitMark, ReMark, ReAdd, ReXdel, FireDiscard, At, ToPc
  <2>2. PICK i \in Id : i = req[r].to
    BY <2>1
  <2>3. CASE RowHit(r) \/ WaitMark(r) \/ ReMark(r)
    <3>1. accepted' \subseteq accepted \cup {i}
      BY <2>2, <2>3, ToMoves
    <3>2. UNCHANGED <<row, tomb, slots, flag, msgs, sent, ran, beside>>
      BY <2>3 DEF RowHit, WaitMark, ReMark, redis, history
    <3> QED
      BY <3>1, <3>2 DEF DedupInv, StoreOK
  <2>4. CASE ReAdd(r)
    <3>1. Send(i, 0) \/ UNCHANGED <<msgs, sent>>
      BY <2>2, <2>4 DEF ReAdd
    <3>2. accepted' \subseteq accepted \cup {i} /\ UNCHANGED <<row, tomb, slots, flag, ran, beside>>
      BY <2>2, <2>4, ToMoves DEF ReAdd
    <3>3. msgs' \subseteq MsgRecord /\ sent' \in 0 .. MaxMsg
      BY <3>1, SendType, DedupConstants DEF DedupInv, StoreOK
    <3> QED
      BY <3>2, <3>3 DEF DedupInv, StoreOK
  <2>5. CASE ReXdel(r)
    <3>1. msgs' \subseteq msgs /\ UNCHANGED <<row, tomb, slots, flag, sent, accepted, ran, beside>>
      BY <2>5 DEF ReXdel, history
    <3> QED
      BY <3>1 DEF DedupInv, StoreOK
  <2>6. CASE FireDiscard(r)
    <3>1. row' \in [Id -> RowStatus] /\ tomb' \subseteq Id
      BY <2>2, <2>6 DEF FireDiscard, DedupInv, StoreOK, RowStatus
    <3>2. UNCHANGED <<slots, flag, msgs, sent, accepted, ran, beside>>
      BY <2>6 DEF FireDiscard, history
    <3> QED
      BY <3>1, <3>2 DEF DedupInv, StoreOK
  <2> QED
    BY <1>4, <2>3, <2>4, <2>5, <2>6
<1> QED
  BY <1>1, <1>2, <1>3, <1>4 DEF ReqStep

(* The steps of requesters keep the invariant and move one requester. *)
LEMMA ReqInv ==
    ASSUME DedupInv, NEW r \in Req, ReqStep(r) \/ CrashReq(r) \/ TryAgain(r)
    PROVE  DedupInv' /\ Moved(r) /\ Budgets /\ UNCHANGED <<wk, sw>>
<1>1. CASE ReqStep(r)
  <2>1. Moved(r)
    <3>1. TryClaim(r) \/ Lost(r) => Moved(r)
      BY ClaimMoves, LostMoves DEF Rests
    <3>2. ASSUME
          \/ Admit(r) \/ Guard(r) \/ WriteRow(r) \/ Reserve(r) \/ Reguard(r) \/ XAdd(r) \/ Mark(r)
          \/ RecoverMark(r) \/ Park(r) \/ GiveSlot(r) \/ Drop(r) \/ Xdel(r) \/ GiveBack(r)
          PROVE Moved(r)
      BY <3>2, OwnMoves DEF Keeps, Goes, Rests
    <3>3. ASSUME
          \/ Hit(r) \/ NoRow(r) \/ WaitRow(r) \/ Orphan(r) \/ RowHit(r) \/ WaitMark(r) \/ Adopt(r)
          \/ ReAdd(r) \/ ReMark(r) \/ ReXdel(r) \/ FireOwner(r) \/ FireLook(r) \/ FireDiscard(r)
          \/ FireClear(r)
          PROVE Moved(r)
      BY <3>3, ToMoves DEF Keeps, Goes, Rests
    <3> QED
      BY <1>1, <3>1, <3>2, <3>3 DEF ReqStep
  <2>2. UNCHANGED <<wk, sw>>
    BY <1>1 DEF ReqStep, TryClaim, Admit, Guard, WriteRow, Reserve, Reguard, XAdd, Mark, RecoverMark, Park,
                GiveSlot, Drop, Xdel, GiveBack, Lost, Hit, NoRow, WaitRow, Orphan, RowHit, WaitMark, Adopt, ReAdd, ReMark,
                ReXdel, FireOwner, FireLook, FireDiscard, FireClear
  <2>3. left' = left \/ \E t \in Trouble : Spend(t)
    BY <1>1 DEF ReqStep, TryClaim, Admit, Guard, WriteRow, Reserve, Reguard, XAdd, Mark, RecoverMark, Park,
                GiveSlot, Drop, Xdel, GiveBack, Lost, Hit, NoRow, WaitRow, Orphan, RowHit, WaitMark, Adopt, ReAdd, ReMark,
                ReXdel, FireOwner, FireLook, FireDiscard, FireClear, MarkFails, TakesSlot, PassesOpen,
                NoSlotLeft, Trouble
  <2>4. Budgets
    BY <2>3, BudgetsKept
  <2>5. KeysOK' /\ StoreOK'
    BY <1>1, ReqKeys, ReqStore
  <2> QED
    BY <2>1, <2>2, <2>4, <2>5 DEF DedupInv, Budgets, Moved, WorkersOK, WorkOK, SweepOK
<1>2. CASE CrashReq(r) \/ TryAgain(r)
  <2>1. Moved(r)
    BY <1>2, CrashMoves DEF Rests
  <2>2. UNCHANGED <<redis, wk, sw, history>> /\ \E t \in Trouble : Spend(t)
    BY <1>2 DEF CrashReq, TryAgain, Trouble
  <2>3. Budgets
    BY <2>2, BudgetsKept
  <2>4. KeysOK' /\ StoreOK'
    BY <2>2, KeysSame, StoreSame DEF redis, history
  <2> QED
    BY <2>1, <2>2, <2>3, <2>4 DEF DedupInv, Budgets, Moved, WorkersOK, WorkOK, SweepOK
<1> QED
  BY <1>1, <1>2

(* The steps of workers keep the invariant and move one worker. *)
LEMMA WorkInv ==
    ASSUME DedupInv, NEW w \in Worker, WorkerStep(w) \/ CrashWorker(w)
    PROVE  DedupInv' /\ WMoved(w) /\ Budgets /\ UNCHANGED <<req, sw, claim, parked, tomb, flag, accepted>>
<1>1. WMoved(w)
  BY TakeMoves, WorkMoves DEF WorkerStep, WGoes, WIdles, Acks
<1>2. /\ UNCHANGED <<req, sw, claim, parked, tomb, flag, accepted>>
      /\ left' = left \/ Spend("crash") \/ Spend("open")
  BY DEF WorkerStep, CrashWorker, Take, Gate, PassesGate, TakesSlot, PassesOpen, NoSlotLeft,
         DeferSend, DeferAck, CheckTomb, WorkerClaim, WorkerHit, ReleaseGet, ReleaseDel,
         StartFlow, Finish, redis, history
<1>3. Budgets
  BY <1>2, BudgetsKept DEF Trouble
<1>4. /\ map' \in Keys /\ msgs' \subseteq MsgRecord /\ sent' \in 0 .. MaxMsg
      /\ row' \in [Id -> RowStatus] /\ slots' \subseteq Id /\ ran' \subseteq Id /\ beside' \subseteq Id
  <2>0. /\ map \in Keys /\ row \in [Id -> RowStatus] /\ slots \subseteq Id /\ ran \subseteq Id
        /\ msgs \subseteq MsgRecord /\ sent \in 0 .. MaxMsg /\ beside \subseteq Id
    BY DEF DedupInv, KeysOK, StoreOK
  <2>1. CASE Take(w) \/ CheckTomb(w) \/ CrashWorker(w)
    BY <2>0, <2>1 DEF Take, CheckTomb, CrashWorker, redis, history
  <2>2. CASE wk[w].pc # "idle" /\ ~(Take(w) \/ CheckTomb(w) \/ CrashWorker(w))
    <3>1. PICK i \in Id : i = WId(w)
      BY <2>2, WorkFacts
    <3>2. map' \in Keys
      BY <2>0, <2>2, <3>1, DedupConstants DEF WorkerStep, Gate, DeferSend, DeferAck, WorkerClaim, WorkerHit,
             ReleaseGet, ReleaseDel, StartFlow, Finish
    <3>3. msgs' \subseteq MsgRecord /\ sent' \in 0 .. MaxMsg
      <4>1. CASE DeferSend(w)
        <5>1. wk[w].msg.defers + 1 \in 0 .. DeferMax + 1
          BY <4>1, WorkFacts, DedupConstants DEF DeferSend, WAt, WorkOK, MsgRecord
        <5>2. PICK d \in 0 .. DeferMax + 1 : d = wk[w].msg.defers + 1
          BY <5>1
        <5>3. Send(i, d)
          BY <3>1, <4>1, <5>2 DEF DeferSend
        <5> QED
          BY <5>3, SendType
      <4>2. CASE ~DeferSend(w)
        <5>1. msgs' \subseteq msgs /\ sent' = sent
          BY <2>2, <4>2, WorkMoves DEF WorkerStep, Gate, DeferAck, WorkerClaim, WorkerHit, ReleaseGet, ReleaseDel,
                 StartFlow, Finish, Acks
        <5> QED
          BY <2>0, <5>1
      <4> QED
        BY <4>1, <4>2
    <3>4. CASE \/ Gate(w) \/ DeferSend(w) \/ DeferAck(w) \/ WorkerClaim(w) \/ WorkerHit(w)
               \/ ReleaseGet(w) \/ ReleaseDel(w)
      <4>1. UNCHANGED <<row, ran>>
        BY <3>4 DEF Gate, DeferSend, DeferAck, WorkerClaim, WorkerHit, ReleaseGet, ReleaseDel, history
      <4>2. slots' \subseteq slots \cup {i} /\ beside' \subseteq beside \cup {i}
        BY <3>1, <3>4 DEF Gate, PassesGate, TakesSlot, PassesOpen, NoSlotLeft, DeferSend, DeferAck, WorkerClaim,
                          WorkerHit, ReleaseGet, ReleaseDel, history
      <4> QED
        BY <2>0, <3>2, <3>3, <4>1, <4>2
    <3>5. CASE StartFlow(w)
      <4>1. /\ ran' \subseteq ran \cup {i} /\ slots' \subseteq slots /\ beside' = beside
            /\ row' = row \/ \E st \in {"cancelled", "running"} : row' = [row EXCEPT ![i] = st]
        BY <3>1, <3>5, WorkMoves DEF StartFlow
      <4> QED
        BY <2>0, <3>2, <3>3, <4>1 DEF RowStatus
    <3>6. CASE Finish(w)
      <4>1. /\ ran' = ran /\ slots' \subseteq slots /\ beside' = beside
            /\ row' = row \/ \E st \in Final : row' = [row EXCEPT ![i] = st]
        BY <3>1, <3>6, WorkMoves DEF Finish, history
      <4> QED
        BY <2>0, <3>2, <3>3, <4>1 DEF RowStatus, Final
    <3> QED
      BY <2>2, <3>4, <3>5, <3>6 DEF WorkerStep
  <2>3. ASSUME wk[w].pc = "idle" PROVE Take(w) \/ CheckTomb(w) \/ CrashWorker(w)
    BY <2>3 DEF WorkerStep, Gate, DeferSend, DeferAck, WorkerClaim, WorkerHit, ReleaseGet, ReleaseDel, StartFlow, Finish, WAt
  <2> QED
    BY <2>1, <2>2, <2>3
<1>5. KeysOK'
  BY <1>2, <1>4 DEF DedupInv, KeysOK
<1>6. StoreOK'
  BY <1>2, <1>4 DEF DedupInv, StoreOK
<1> QED
  BY <1>1, <1>2, <1>3, <1>5, <1>6 DEF DedupInv, Budgets, WMoved, ReqsOK, ReqOK, SweepOK

(* What users, the quota and the TTL of a claim do. *)
Outside == \E i \in Id : CancelQueued(i) \/ CancelRow(i) \/ Delete(i) \/ SlotExpires(i)

(* Users and expiries keep the invariant and leave requesters and workers alone. *)
LEMMA OutsideInv ==
    ASSUME DedupInv, Outside \/ ClaimExpires
    PROVE  DedupInv' /\ Budgets /\ UNCHANGED <<req, wk, sw, map, parked, msgs, accepted, ran>>
<1>1. /\ UNCHANGED <<req, wk, sw, map, parked, msgs, sent, accepted, ran>>
      /\ left' = left \/ \E t \in Trouble : Spend(t)
      /\ claim' = claim \/ claim' = NoClaim
  BY DEF Outside, ClaimExpires, CancelQueued, CancelRow, Delete, SlotExpires, Trouble, history
<1>2. Budgets
  BY <1>1, BudgetsKept
<1>3. KeysOK'
  BY <1>1, ClaimWritten DEF DedupInv, KeysOK
<1>4. row' \in [Id -> RowStatus] /\ tomb' \subseteq Id /\ slots' \subseteq Id /\ flag' \subseteq Id
      /\ beside' \subseteq Id
  BY DEF Outside, ClaimExpires, CancelQueued, CancelRow, Delete, SlotExpires, DedupInv, StoreOK, RowStatus, history
<1>5. StoreOK'
  BY <1>1, <1>4 DEF DedupInv, StoreOK
<1> QED
  BY <1>1, <1>2, <1>3, <1>5 DEF DedupInv, Budgets, ReqsOK, ReqOK, WorkersOK, WorkOK, SweepOK

(* The sweeper keeps the invariant and leaves requesters and workers alone. *)
LEMMA SweepInv ==
    ASSUME DedupInv, Sweep
    PROVE  DedupInv' /\ Budgets /\ UNCHANGED <<req, wk, flag, msgs, accepted, ran, left>>
<1>0. /\ map \in Keys /\ parked \in Keys /\ NoId \in Keys /\ sw \in [pc : {"idle", "delete", "release", "clear"}, id : Keys]
      /\ sw.pc # "idle" => sw.id \in Id
  BY DedupConstants DEF DedupInv, KeysOK, SweepOK
<1>1. UNCHANGED <<req, wk, flag, msgs, sent, history, left>>
  BY DEF Sweep, SweepLook, SweepDelete, SweepRelease, SweepClear
<1>2. Budgets
  BY <1>1, BudgetsKept
<1>3. KeysOK' /\ SweepOK' /\ StoreOK'
  <2>1. CASE SweepLook
    <3>1. UNCHANGED <<map, claim, row, tomb, slots>> /\ parked' \in Keys
      BY <1>0, <2>1 DEF SweepLook
    <3>2. KeysOK'
      BY <1>0, <3>1, ClaimWritten
    <3>3. StoreOK'
      BY <1>1, <3>1, StoreSame DEF history
    <3>4. PICK i \in Id : i = parked
      BY <1>0, <2>1, DedupConstants DEF SweepLook
    <3>5. sw' = sw \/ sw' = [pc |-> "delete", id |-> i]
      BY <2>1, <3>4 DEF SweepLook
    <3>6. SweepOK'
      BY <1>0, <3>5, DedupConstants DEF SweepOK
    <3> QED
      BY <3>2, <3>3, <3>6
  <2>2. CASE SweepDelete
    <3>1. UNCHANGED <<map, claim, parked, slots>> /\ sw.id \in Id
      BY <1>0, <2>2 DEF SweepDelete
    <3>2. KeysOK'
      BY <3>1, KeysSame
    <3>3. PICK i \in Id : i = sw.id
      BY <3>1
    <3>4. row' \in [Id -> RowStatus] /\ tomb' \subseteq Id
      BY <2>2, <3>3 DEF SweepDelete, DedupInv, StoreOK, RowStatus
    <3>5. StoreOK'
      BY <1>1, <3>1, <3>4 DEF DedupInv, StoreOK, history
    <3>6. SweepOK'
      BY <1>0, <2>2, <3>1 DEF SweepDelete, SweepOK
    <3> QED
      BY <3>2, <3>5, <3>6
  <2>3. CASE SweepRelease
    <3>1. UNCHANGED <<parked, row, tomb, slots>> /\ \E may \in BOOLEAN : ReleaseIf(may)
      BY <2>3 DEF SweepRelease, MayReleaseOrphan
    <3>2. KeysOK'
      BY <1>0, <3>1, KeysReleased
    <3>3. StoreOK'
      BY <1>1, <3>1, StoreSame DEF history
    <3>4. SweepOK'
      BY <1>0, <2>3 DEF SweepRelease, SweepOK
    <3> QED
      BY <3>2, <3>3, <3>4
  <2>4. CASE SweepClear
    <3>1. UNCHANGED <<map, claim, row, tomb>> /\ parked' = NoId /\ slots' \subseteq slots
      BY <2>4 DEF SweepClear
    <3>2. KeysOK'
      BY <1>0, <3>1, ClaimWritten
    <3>3. StoreOK'
      BY <1>1, <3>1 DEF DedupInv, StoreOK, history
    <3>4. sw' = [pc |-> "idle", id |-> NoId]
      BY <2>4 DEF SweepClear
    <3>5. SweepOK'
      BY <3>4, DedupConstants DEF SweepOK
    <3> QED
      BY <3>2, <3>3, <3>5
  <2> QED
    BY <2>1, <2>2, <2>3, <2>4 DEF Sweep
<1> QED
  BY <1>1, <1>2, <1>3 DEF DedupInv, Budgets, ReqsOK, ReqOK, WorkersOK, WorkOK, history

(* The invariant holds at the start. *)
LEMMA DedupInvInit == Init => DedupInv
<1> SUFFICES ASSUME Init PROVE DedupInv
  OBVIOUS
<1>1. KeysOK
  BY NoClaimType, DedupConstants DEF Init, KeysOK
<1>2. StoreOK
  BY DedupConstants DEF Init, StoreOK, RowStatus
<1>3. ReqsOK
  <2>1. "claim" \in Rest
    BY DEF Rest
  <2>2. ReqAt("claim") \in ReqRecord /\ ReqOK(ReqAt("claim")) /\ ReqAt("claim").id = NoId
    BY <2>1, ReqAtType, PcsDisjoint DEF ReqOK
  <2>3. req \in [Req -> ReqRecord] /\ \A r \in Req : req[r] = ReqAt("claim")
    BY <2>2 DEF Init
  <2> QED
    BY <2>2, <2>3 DEF ReqsOK
<1>4. WorkersOK
  <2>1. Idle \in WorkRecord /\ Idle.pc = "idle"
    BY DedupConstants DEF Idle, WorkRecord
  <2>2. wk \in [Worker -> WorkRecord] /\ \A w \in Worker : wk[w] = Idle
    BY <2>1 DEF Init
  <2> QED
    BY <2>1, <2>2 DEF WorkersOK, WorkOK
<1>5. SweepOK
  BY DedupConstants DEF Init, SweepOK
<1>6. LeftOK
  <2>1. PICK s \in Scenarios : left = [cron |-> s.cron, cap |-> s.cap, budget |-> s.budget, now |-> s.budget]
    BY DEF Init
  <2>2. /\ s \in [cron : BOOLEAN, cap : (Nat \ {0}) \cup {Unlimited}, budget : [Trouble -> Nat \cup {Unlimited}]]
        /\ \A t \in Counted : s.budget[t] \in Nat
    BY DedupAssumption DEF Counted
  <2>3. s = [cron |-> s.cron, cap |-> s.cap, budget |-> s.budget]
    BY <2>2
  <2>4. left.cron = s.cron /\ left.cap = s.cap /\ left.budget = s.budget /\ left.now = s.budget
    BY <2>1
  <2>5. \A t \in Counted : left.now[t] \in Nat /\ left.budget[t] \in Nat /\ left.now[t] <= left.budget[t]
    BY <2>2, <2>4
  <2>6. left \in LeftRecord
    BY <2>1, <2>2 DEF LeftRecord
  <2> QED
    BY <2>3, <2>4, <2>5, <2>6 DEF LeftOK, cron
<1> QED
  BY <1>1, <1>2, <1>3, <1>4, <1>5, <1>6 DEF DedupInv

(* A step that changes nothing keeps the invariant. *)
LEMMA DedupStutter ==
    ASSUME DedupInv, UNCHANGED vars
    PROVE  DedupInv' /\ Budgets
<1>1. UNCHANGED <<map, claim, parked, row, tomb, slots, flag, msgs, sent, req, wk, sw, accepted, ran, beside, left>>
  BY DEF vars, redis, history
<1>2. KeysOK' /\ StoreOK' /\ Budgets
  BY <1>1, KeysSame, StoreSame, BudgetsKept
<1> QED
  BY <1>1, <1>2 DEF DedupInv, Budgets, ReqsOK, ReqOK, WorkersOK, WorkOK, SweepOK

(* Every step keeps the invariant and spends budgets only. *)
LEMMA DedupInvNext ==
    ASSUME DedupInv, [Next]_vars
    PROVE  DedupInv' /\ Budgets
BY ReqInv, WorkInv, OutsideInv, SweepInv, DedupStutter DEF Next, Outside

(* The type invariant is inductive, for every number of requesters,        *)
(* workers, ids and messages and every scenario.                           *)
THEOREM DedupInvariant == Spec => []DedupInv
<1>1. DedupInv /\ [Next]_vars => DedupInv'
  BY DedupInvNext
<1> QED
  BY DedupInvInit, <1>1, PTL DEF Spec

(* Every variable of the start protocol keeps its type. *)
THEOREM DedupTypeCorrect == Spec => []DedupTypeOK
<1>1. DedupInv => DedupTypeOK
  <2> SUFFICES ASSUME DedupInv PROVE DedupTypeOK
    OBVIOUS
  <2>1. \A r \in Req : req[r].id \in Keys /\ req[r].to \in Keys
    BY ReqFacts DEF ReqRecord
  <2>2. \A w \in Worker : wk[w].to \in Keys /\ WId(w) \in Keys
    BY WorkFacts DEF WorkRecord, WId
  <2>3. left.now \in [Trouble -> Nat \cup {Unlimited}]
    BY DEF DedupInv, LeftOK, LeftRecord
  <2> QED
    BY <2>1, <2>2, <2>3
       DEF DedupTypeOK, DedupInv, KeysOK, StoreOK, LeftOK, ClaimRecord, MsgRecord, RowStatus
<1> QED
  BY DedupInvariant, <1>1, PTL

-----------------------------------------------------------------------------
(* An id is fresh until its row is written or it is given up.  Only its    *)
(* requester, before it writes the row, works with a fresh id: no message, *)
(* worker, park marker or sweeper ever refers to one.                      *)
Fresh(i) == row[i] = "none" /\ i \notin tomb
Before == {"admit", "guard", "write"}
After == {"reserve", "reguard", "reserve2", "xadd", "mark", "rguard", "rreserve", "rmark", "park"}
FreshReq(r) ==
    /\ req[r].pc \in Before => Fresh(req[r].id)
    /\ req[r].pc \in After => ~Fresh(req[r].id)
    /\ req[r].pc = "readd" => ~Fresh(req[r].to)
    /\ req[r].pc = "discard" => req[r].to \in tomb
FreshInv ==
    /\ \A r \in Req : FreshReq(r)
    /\ \A m \in msgs : ~Fresh(m.id)
    /\ \A w \in Worker : wk[w].pc # "idle" => ~Fresh(WId(w))
    /\ parked # NoId => ~Fresh(parked)
    /\ sw.pc # "idle" => ~Fresh(sw.id)
    /\ sw.pc \in {"release", "clear"} => sw.id \in tomb

(* A worker past the gates works on an execution that has a slot, is       *)
(* deleted, is over, or that the quota has lost sight of; and such is      *)
(* every execution that runs.                                              *)
Covered(i) == i \in slots \cup tomb \cup beside \/ row[i] \in Final
SlotInv ==
    /\ \A w \in Worker : wk[w].pc \notin {"idle", "gate", "defer", "deferred"} => Covered(WId(w))
    /\ \A i \in Id : row[i] = "running" => Covered(i)

(* What a step may do to the rows: only ids of S stop being fresh.         *)
Rows(S) ==
    /\ \A i \in Id : ~Fresh(i) => ~Fresh(i)' /\ (Covered(i) => Covered(i)')
    /\ \A i \in Id : Fresh(i) /\ i \notin S => Fresh(i)'
    /\ \A i \in Id : row'[i] = "running" => row[i] = "running" \/ Covered(i)'
    /\ tomb \subseteq tomb'

(* A step that leaves the rows alone and gives back no slot uses up no fresh id. *)
LEMMA RowsSame ==
    ASSUME DedupInv, UNCHANGED <<row, tomb>>, slots \cup beside \subseteq slots' \cup beside'
    PROVE  Rows({})
BY DEF Rows, Fresh, Covered

(* A requester uses up no fresh id but its own. *)
LEMMA ReqRows ==
    ASSUME DedupInv, FreshInv, NEW r \in Req, ReqStep(r) \/ CrashReq(r) \/ TryAgain(r)
    PROVE  \E S \in SUBSET {req[r].id} : Rows(S) /\ (req[r].pc \in {"write", "drop"} \/ S = {})
<1>1. CASE GiveSlot(r)
  <2>1. UNCHANGED <<row, tomb>> /\ slots \cup beside \subseteq slots' \cup beside'
    BY <1>1 DEF GiveSlot
  <2> QED
    BY <2>1, RowsSame
<1>2. CASE WriteRow(r)
  <2>1. PICK i \in Id : i = req[r].id
    BY <1>2, ReqIds DEF WriteRow, At, OwnPc
  <2>2. Fresh(i) /\ req[r].pc = "write"
    BY <1>2, <2>1 DEF WriteRow, At, FreshInv, FreshReq, Before
  <2>3. UNCHANGED <<tomb, slots, beside>> /\ (row' = row \/ row' = [row EXCEPT ![i] = "queued"])
    BY <1>2, <2>1 DEF WriteRow, history
  <2>4. Rows({i})
    BY <2>2, <2>3 DEF Rows, Fresh, Covered, DedupInv, StoreOK, Final
  <2> QED
    BY <2>1, <2>2, <2>4
<1>3. CASE Drop(r)
  <2>1. PICK i \in Id : i = req[r].id
    BY <1>3, ReqIds DEF Drop, At, OwnPc
  <2>2. /\ req[r].pc = "drop" /\ UNCHANGED <<slots, beside>>
        /\ row' = [row EXCEPT ![i] = "none"] /\ tomb' = tomb \cup {i}
    BY <1>3, <2>1 DEF Drop, At, history
  <2>3. Rows({i})
    BY <2>2 DEF Rows, Fresh, Covered, DedupInv, StoreOK
  <2> QED
    BY <2>1, <2>2, <2>3
<1>4. CASE FireDiscard(r)
  <2>1. PICK i \in Id : i = req[r].to
    BY <1>4, ReqIds DEF FireDiscard, At, ToPc
  <2>2. /\ i \in tomb /\ UNCHANGED <<slots, beside>>
        /\ row' = [row EXCEPT ![i] = "none"] /\ tomb' = tomb \cup {i}
    BY <1>4, <2>1 DEF FireDiscard, At, FreshInv, FreshReq, history
  <2>3. Rows({})
    BY <2>2 DEF Rows, Fresh, Covered, DedupInv, StoreOK
  <2> QED
    BY <2>3
<1>5. CASE Admit(r)
  <2>1. UNCHANGED <<row, tomb, beside>> /\ slots \subseteq slots'
    BY <1>5 DEF Admit, TakesSlot, PassesOpen, NoSlotLeft, history
  <2> QED
    BY <2>1, RowsSame
<1>6. CASE ~(Admit(r) \/ GiveSlot(r) \/ WriteRow(r) \/ Drop(r) \/ FireDiscard(r))
  <2>1. UNCHANGED <<row, tomb, slots, beside>>
    BY <1>6 DEF ReqStep, CrashReq, TryAgain, TryClaim, Guard, Reserve, Reguard, XAdd, Mark, RecoverMark, Park,
                Xdel, GiveBack, Lost, Hit, NoRow, WaitRow, Orphan, RowHit, WaitMark, Adopt, ReAdd, ReMark,
                ReXdel, FireOwner, FireLook, FireClear, redis, history
  <2> QED
    BY <2>1, RowsSame
<1> QED
  BY <1>1, <1>2, <1>3, <1>4, <1>5, <1>6

(* A worker uses up no fresh id and runs only what is covered. *)
LEMMA WorkRows ==
    ASSUME DedupInv, FreshInv, SlotInv, NEW w \in Worker, WorkerStep(w) \/ CrashWorker(w)
    PROVE  Rows({})
<1>1. CASE StartFlow(w) \/ Finish(w)
  <2>1. PICK i \in Id : i = WId(w)
    BY <1>1, WorkFacts DEF StartFlow, Finish, WAt
  <2>2. ~Fresh(i) /\ Covered(i) /\ UNCHANGED <<tomb, beside>>
    BY <1>1, <2>1 DEF StartFlow, Finish, WAt, FreshInv, SlotInv, history
  <2>3. \/ UNCHANGED <<row, slots>>
        \/ slots' = slots \ {i} /\ \E st \in Final : row' = [row EXCEPT ![i] = st]
        \/ slots' = slots /\ row' = [row EXCEPT ![i] = "running"] /\ row[i] \notin Final
    BY <1>1, <2>1, WorkMoves DEF Final
  <2> QED
    BY <2>2, <2>3 DEF Rows, Fresh, Covered, DedupInv, StoreOK, Final
<1>2. CASE Gate(w)
  <2>1. UNCHANGED <<row, tomb>>
    BY <1>2 DEF Gate
  <2>2. slots \cup beside \subseteq slots' \cup beside'
    BY <1>2, WorkMoves DEF TakesSlot
  <2> QED
    BY <2>1, <2>2, RowsSame
<1>3. CASE ~(Gate(w) \/ StartFlow(w) \/ Finish(w))
  <2>1. UNCHANGED <<row, tomb, slots, beside>>
    BY <1>3 DEF WorkerStep, CrashWorker, Take, DeferSend, DeferAck, CheckTomb, WorkerClaim, WorkerHit, ReleaseGet,
                ReleaseDel, redis, history
  <2> QED
    BY <2>1, RowsSame
<1> QED
  BY <1>1, <1>2, <1>3

(* Users, expiries and the sweeper use up no fresh id. *)
LEMMA OtherRows ==
    ASSUME DedupInv, FreshInv, Outside \/ ClaimExpires \/ Sweep
    PROVE  Rows({})
<1>1. CASE Outside
  <2>1. PICK i \in Id : CancelQueued(i) \/ CancelRow(i) \/ Delete(i) \/ SlotExpires(i)
    BY <1>1 DEF Outside
  <2>2. CASE CancelQueued(i)
    BY <2>2, RowsSame DEF CancelQueued, history
  <2>3. CASE CancelRow(i)
    BY <2>3 DEF CancelRow, Rows, Fresh, Covered, DedupInv, StoreOK, Final, history
  <2>4. CASE Delete(i)
    BY <2>4 DEF Delete, Rows, Fresh, Covered, DedupInv, StoreOK, history
  <2>5. CASE SlotExpires(i)
    <3>1. UNCHANGED <<row, tomb>> /\ slots' = slots \ {i} /\ beside \subseteq beside'
      BY <2>5 DEF SlotExpires
    <3>2. i \in beside' \/ row[i] \in {"none"} \cup Final
      BY <2>5 DEF SlotExpires, InUse
    <3> QED
      BY <3>1, <3>2 DEF Rows, Fresh, Covered, DedupInv, StoreOK
  <2> QED
    BY <2>1, <2>2, <2>3, <2>4, <2>5
<1>2. CASE ClaimExpires \/ SweepLook
  BY <1>2, RowsSame DEF ClaimExpires, SweepLook, history
<1>3. CASE SweepDelete \/ SweepClear
  <2>1. PICK i \in Id : i = sw.id
    BY <1>3 DEF SweepDelete, SweepClear, DedupInv, SweepOK
  <2>2. CASE SweepDelete
    <3>1. /\ ~Fresh(i) /\ UNCHANGED <<slots, beside>>
          /\ row' = [row EXCEPT ![i] = "none"] /\ tomb' = tomb \cup {i}
      BY <2>1, <2>2 DEF SweepDelete, FreshInv, history
    <3> QED
      BY <3>1 DEF Rows, Fresh, Covered, DedupInv, StoreOK
  <2>3. CASE SweepClear
    <3>1. i \in tomb /\ slots' = slots \ {i} /\ UNCHANGED <<row, tomb, beside>>
      BY <2>1, <2>3 DEF SweepClear, FreshInv, history
    <3> QED
      BY <3>1 DEF Rows, Fresh, Covered
  <2> QED
    BY <1>3, <2>2, <2>3
<1>4. CASE SweepRelease
  BY <1>4, RowsSame DEF SweepRelease, history
<1> QED
  BY <1>1, <1>2, <1>3, <1>4 DEF Sweep

-----------------------------------------------------------------------------
(* Requesters. *)
LEMMA FreshOwn ==
    ASSUME DedupInv, FreshInv, NEW r \in Req, NEW S \in SUBSET {req[r].id}, Rows(S),
           req[r].pc \in {"write", "drop"} \/ S = {}, ReqStep(r) \/ CrashReq(r) \/ TryAgain(r)
    PROVE  FreshReq(r)'
<1> USE DEF At
<1>0. FreshReq(r)
  BY DEF FreshInv
<1>1. CASE TryClaim(r)
  <2>1. CASE req'[r].pc = "admit" /\ \E i \in Id : i = req'[r].id /\ Unused(i)
    <3>1. PICK i \in Id : i = req'[r].id /\ Unused(i)
      BY <2>1
    <3>2. Fresh(i) /\ UNCHANGED <<row, tomb>>
      BY <1>1, <3>1, ClaimMoves DEF Unused, Fresh
    <3> QED
      BY <2>1, <3>1, <3>2 DEF FreshReq, Fresh, After
  <2>2. CASE req'[r].pc \in {"hit", "owner"}
    BY <2>2 DEF FreshReq, Before, After
  <2> QED
    BY <1>1, <2>1, <2>2, ClaimMoves
<1>2. CASE \/ Admit(r) \/ Guard(r) \/ Reserve(r) \/ Reguard(r) \/ XAdd(r) \/ Mark(r) \/ RecoverMark(r)
           \/ Park(r) \/ GiveBack(r)
  <2>1. req[r].pc \in OwnPc /\ req[r].id \in Id /\ S = {}
    BY <1>2, ReqIds DEF Admit, Guard, Reserve, Reguard, XAdd, Mark, RecoverMark, Park, GiveBack, OwnPc
  <2>2. PICK i \in Id : i = req[r].id
    BY <2>1
  <2>3. (Fresh(i) => Fresh(i)') /\ (~Fresh(i) => ~Fresh(i)')
    BY <2>1 DEF Rows
  <2>4. CASE Admit(r) \/ Guard(r)
    <3>1. Fresh(i)
      BY <1>0, <2>2, <2>4 DEF Admit, Guard, FreshReq, Before
    <3>2. \E pc \in {"guard", "write", "giveback", "undo"} : Keeps(r, pc)
      BY <2>4, OwnMoves
    <3> QED
      BY <2>2, <2>3, <3>1, <3>2 DEF Keeps, Goes, FreshReq, Fresh, Before, After
  <2>5. CASE Reserve(r) \/ Reguard(r) \/ XAdd(r) \/ Mark(r) \/ RecoverMark(r) \/ Park(r)
    <3>1. ~Fresh(i)
      BY <1>0, <2>2, <2>5 DEF Reserve, Reguard, XAdd, Mark, RecoverMark, Park, FreshReq, After
    <3>2. \/ Rests(r)
          \/ \E pc \in After \cup {"undo", "xdel"} : Keeps(r, pc)
      BY <2>5, OwnMoves DEF After
    <3> QED
      BY <2>2, <2>3, <3>1, <3>2 DEF Rests, Keeps, Goes, FreshReq, Fresh, Before, After, Rest
  <2>6. CASE GiveBack(r)
    <3>1. Rests(r) \/ Keeps(r, "lost")
      BY <2>6, OwnMoves
    <3> QED
      BY <3>1 DEF Rests, Keeps, Goes, FreshReq, Before, After, Rest
  <2> QED
    BY <1>2, <2>4, <2>5, <2>6
<1>3. CASE WriteRow(r)
  <2>1. PICK i \in Id : i = req[r].id
    BY <1>3, ReqIds DEF WriteRow, OwnPc
  <2>2. CASE row' = [row EXCEPT ![i] = "queued"] /\ Keeps(r, "reserve")
    <3>1. ~Fresh(i)'
      BY <2>2 DEF Fresh, DedupInv, StoreOK
    <3> QED
      BY <2>1, <2>2, <3>1 DEF Keeps, Goes, FreshReq, Fresh, Before
  <2>3. CASE Keeps(r, "undo")
    BY <2>3 DEF Keeps, Goes, FreshReq, Before, After
  <2> QED
    BY <1>3, <2>1, <2>2, <2>3, OwnMoves
<1>4. CASE GiveSlot(r) \/ Drop(r) \/ Xdel(r)
  <2>1. \E pc \in {"drop", "xdel", "undo", "giveback", "lost"} : Keeps(r, pc)
    BY <1>4, OwnMoves
  <2> QED
    BY <2>1 DEF Keeps, Goes, FreshReq, Before, After
<1>5. CASE Adopt(r)
  <2>1. CASE Rests(r)
    BY <2>1 DEF Rests, FreshReq, Before, After, Rest
  <2>2. CASE MayAdopt(req[r].to) /\ Keeps(r, "readd")
    <3>1. PICK i \in Id : i = req[r].to
      BY <1>5, ReqIds DEF Adopt, ToPc
    <3>2. ~Fresh(i)
      BY <2>2, <3>1 DEF MayAdopt, Fresh
    <3>3. ~Fresh(i)'
      BY <3>2 DEF Rows
    <3> QED
      BY <2>2, <3>1, <3>3 DEF Keeps, Goes, FreshReq, Fresh, Before, After
  <2> QED
    BY <1>5, <2>1, <2>2, ToMoves
<1>6. CASE FireLook(r)
  <2>1. CASE req[r].to \in tomb /\ Keeps(r, "discard")
    BY <2>1 DEF Rows, Keeps, Goes, FreshReq, Before, After
  <2>2. CASE \E pc \in {"clear", "adopt"} : Keeps(r, pc)
    BY <2>2 DEF Keeps, Goes, FreshReq, Before, After
  <2> QED
    BY <1>6, <2>1, <2>2, ToMoves
<1>7. CASE \/ Lost(r) \/ Hit(r) \/ NoRow(r) \/ WaitRow(r) \/ Orphan(r) \/ RowHit(r) \/ WaitMark(r) \/ ReAdd(r)
           \/ ReMark(r) \/ ReXdel(r) \/ FireOwner(r) \/ FireDiscard(r) \/ FireClear(r) \/ CrashReq(r)
           \/ TryAgain(r)
  <2>1. req'[r].pc \in Rest \cup {"row", "norow", "waitrow", "orphan", "waitmark", "adopt", "remark", "rexdel",
                                  "look", "clear"}
    BY <1>7, LostMoves, ToMoves, CrashMoves DEF Rests, Keeps, Goes
  <2> QED
    BY <2>1 DEF FreshReq, Before, After, Rest
<1> QED
  BY <1>1, <1>2, <1>3, <1>4, <1>5, <1>6, <1>7 DEF ReqStep

(* The steps of requesters keep the invariants on fresh ids and slots. *)
LEMMA FreshByReq ==
    ASSUME DedupInv, FreshInv, SlotInv, NEW r \in Req, ReqStep(r) \/ CrashReq(r) \/ TryAgain(r)
    PROVE  FreshInv' /\ SlotInv'
<1>1. PICK S \in SUBSET {req[r].id} : Rows(S) /\ (req[r].pc \in {"write", "drop"} \/ S = {})
  BY ReqRows
<1>2. DedupInv' /\ Moved(r) /\ UNCHANGED <<wk, sw>>
  BY ReqInv
<1>3. \A i \in Id : (~Fresh(i) => ~Fresh(i)') /\ (~Fresh(i) /\ Covered(i) => Covered(i)')
  BY <1>1 DEF Rows
<1>4. \A q \in Req : FreshReq(q)'
  <2> SUFFICES ASSUME NEW q \in Req PROVE FreshReq(q)'
    OBVIOUS
  <2>1. CASE q = r
    BY <1>1, <2>1, FreshOwn
  <2>2. CASE q # r
    <3>1. FreshReq(q) /\ req'[q] = req[q]
      BY <1>2, <2>2 DEF FreshInv, Moved
    <3>2. req[q].pc \in Before => Fresh(req[q].id)'
      <4> HAVE req[q].pc \in Before
      <4>1. Fresh(req[q].id) /\ req[q].id \in Id /\ req[q].id # NoId
        BY <3>1, ReqIds, DedupConstants DEF FreshReq, Before, OwnPc
      <4>2. req[q].id # req[r].id
        BY <2>2, <4>1 DEF DedupInv, ReqsOK
      <4>3. PICK i \in Id : i = req[q].id /\ Fresh(i) /\ i \notin S
        BY <4>1, <4>2
      <4>4. Fresh(i)'
        BY <1>1, <4>3 DEF Rows
      <4> QED
        BY <3>1, <4>3, <4>4 DEF Fresh
    <3>3. req[q].pc \in After => ~Fresh(req[q].id)'
      <4> HAVE req[q].pc \in After
      <4>1. PICK i \in Id : i = req[q].id
        BY ReqIds DEF After, OwnPc
      <4> QED
        BY <1>3, <3>1, <4>1 DEF FreshReq, Fresh
    <3>4. req[q].pc = "readd" => ~Fresh(req[q].to)'
      <4> HAVE req[q].pc = "readd"
      <4>1. PICK i \in Id : i = req[q].to
        BY ReqIds DEF ToPc
      <4> QED
        BY <1>3, <3>1, <4>1 DEF FreshReq, Fresh
    <3>5. tomb \subseteq tomb'
      BY <1>1 DEF Rows
    <3> QED
      BY <3>1, <3>2, <3>3, <3>4, <3>5 DEF FreshReq, Fresh
  <2> QED
    BY <2>1, <2>2
<1>5. \A m \in msgs' : ~Fresh(m.id)'
  <2>1. \/ msgs' \subseteq msgs
        \/ \E i \in Id : ~Fresh(i) /\ Send(i, 0)
    <3>1. CASE XAdd(r)
      <4>1. PICK i \in Id : i = req[r].id
        BY <3>1, ReqIds DEF XAdd, At, OwnPc
      <4>2. ~Fresh(i)
        BY <3>1, <4>1 DEF XAdd, At, FreshInv, FreshReq, After
      <4> QED
        BY <3>1, <4>1, <4>2, OwnMoves
    <3>2. CASE ReAdd(r)
      <4>1. PICK i \in Id : i = req[r].to
        BY <3>2, ReqIds DEF ReAdd, At, ToPc
      <4>2. ~Fresh(i)
        BY <3>2, <4>1 DEF ReAdd, At, FreshInv, FreshReq
      <4> QED
        BY <3>2, <4>1, <4>2, ToMoves
    <3>3. CASE ~(XAdd(r) \/ ReAdd(r))
      BY <3>3 DEF ReqStep, CrashReq, TryAgain, TryClaim, Admit, Guard, WriteRow, Reserve, Reguard, Mark,
                  RecoverMark, Park, GiveSlot, Drop, Xdel, GiveBack, Lost, Hit, NoRow, WaitRow, Orphan, RowHit, WaitMark, Adopt,
                  ReMark, ReXdel, FireOwner, FireLook, FireDiscard, FireClear, redis
    <3> QED
      BY <3>1, <3>2, <3>3
  <2>2. \A m \in msgs' : m.id \in Id /\ ~Fresh(m.id)
    <3>1. \A m \in msgs : m.id \in Id /\ ~Fresh(m.id)
      BY DEF DedupInv, StoreOK, MsgRecord, FreshInv
    <3>2. ASSUME NEW i \in Id, ~Fresh(i), Send(i, 0) PROVE \A m \in msgs' : m.id \in Id /\ ~Fresh(m.id)
      BY <3>1, <3>2, SendType, DedupConstants
    <3> QED
      BY <2>1, <3>1, <3>2
  <2> SUFFICES ASSUME NEW m \in msgs' PROVE ~Fresh(m.id)'
    OBVIOUS
  <2>3. PICK i \in Id : i = m.id /\ ~Fresh(i)
    BY <2>2
  <2> QED
    BY <1>3, <2>3 DEF Fresh
<1>6. \A w \in Worker : wk'[w].pc # "idle" => ~Fresh(WId(w))'
  <2> SUFFICES ASSUME NEW w \in Worker, wk[w].pc # "idle" PROVE ~Fresh(WId(w))'
    BY <1>2
  <2>1. PICK i \in Id : i = WId(w)
    BY WorkFacts
  <2>2. ~Fresh(i)'
    BY <1>3, <2>1 DEF FreshInv
  <2> QED
    BY <1>2, <2>1, <2>2 DEF Fresh, WId
<1>7. parked' # NoId => ~Fresh(parked)'
  <2>1. \/ parked' = parked \/ parked' = NoId
        \/ req[r].pc = "park" /\ parked' = req[r].id
    BY DEF ReqStep, CrashReq, TryAgain, TryClaim, Admit, Guard, WriteRow, Reserve, Reguard, XAdd, Mark,
           RecoverMark, Park, GiveSlot, Drop, Xdel, GiveBack, Lost, Hit, NoRow, WaitRow, Orphan, RowHit, WaitMark, Adopt,
           ReAdd, ReMark, ReXdel, FireOwner, FireLook, FireDiscard, FireClear, redis, Marked, MarkFails, At
  <2> HAVE parked' # NoId
  <2>2. CASE parked' = parked
    <3>1. PICK i \in Id : i = parked
      BY <2>2, DedupConstants DEF DedupInv, KeysOK
    <3> QED
      BY <1>3, <2>2, <3>1 DEF FreshInv, Fresh
  <2>3. CASE req[r].pc = "park" /\ parked' = req[r].id
    <3>1. PICK i \in Id : i = req[r].id
      BY <2>3, ReqIds DEF OwnPc
    <3>2. ~Fresh(i)
      BY <2>3, <3>1 DEF FreshInv, FreshReq, After
    <3> QED
      BY <1>3, <2>3, <3>1, <3>2 DEF Fresh
  <2> QED
    BY <2>1, <2>2, <2>3
<1>8. /\ sw'.pc # "idle" => ~Fresh(sw.id)'
      /\ sw'.pc \in {"release", "clear"} => sw'.id \in tomb'
  <2>1. ASSUME sw.pc # "idle" PROVE ~Fresh(sw.id)'
    <3>1. PICK i \in Id : i = sw.id
      BY <2>1 DEF DedupInv, SweepOK
    <3> QED
      BY <1>2, <1>3, <2>1, <3>1 DEF FreshInv, Fresh
  <2> QED
    BY <1>1, <1>2, <2>1 DEF FreshInv, Rows
<1>9. SlotInv'
  <2>1. \A w \in Worker : wk'[w].pc \notin {"idle", "gate", "defer", "deferred"} => Covered(WId(w))'
    <3> SUFFICES ASSUME NEW w \in Worker, wk[w].pc \notin {"idle", "gate", "defer", "deferred"} PROVE Covered(WId(w))'
      BY <1>2
    <3>1. PICK i \in Id : i = WId(w)
      BY WorkFacts
    <3>2. ~Fresh(i) /\ Covered(i)
      BY <3>1 DEF FreshInv, SlotInv
    <3>3. Covered(i)'
      BY <1>3, <3>2
    <3> QED
      BY <1>2, <3>1, <3>3 DEF Covered, WId
  <2>2. \A i \in Id : row'[i] = "running" => Covered(i)'
    BY <1>1, <1>3 DEF Rows, SlotInv, Fresh
  <2> QED
    BY <2>1, <2>2 DEF SlotInv
<1> QED
  BY <1>4, <1>5, <1>6, <1>7, <1>8, <1>9 DEF FreshInv

(* Steps that leave the requesters where they are. *)
LEMMA FreshElsewhere ==
    ASSUME DedupInv, FreshInv, SlotInv, Rows({}), req' = req, \A m \in msgs' : m.id \in Id /\ ~Fresh(m.id)
    PROVE  /\ \A q \in Req : FreshReq(q)'
           /\ \A m \in msgs' : ~Fresh(m.id)'
           /\ \A i \in Id : row'[i] = "running" => Covered(i)'
           /\ \A w \in Worker : wk[w].pc # "idle" =>
                 \E i \in Id : i = WId(w) /\ ~Fresh(i)' /\ (Covered(i) => Covered(i)')
           /\ parked # NoId => \E i \in Id : i = parked /\ ~Fresh(i) /\ ~Fresh(i)'
           /\ sw.pc # "idle" => \E i \in Id : i = sw.id /\ ~Fresh(i)'
<1>3. \A i \in Id : /\ ~Fresh(i) => ~Fresh(i)' 
                    /\ ~Fresh(i) /\ Covered(i) => Covered(i)'
                    /\ Fresh(i) => Fresh(i)'
  BY DEF Rows
<1>4. \A q \in Req : FreshReq(q)'
  <2> SUFFICES ASSUME NEW q \in Req PROVE FreshReq(q)'
    OBVIOUS
  <2>1. FreshReq(q) /\ tomb \subseteq tomb'
    BY DEF FreshInv, Rows
  <2>2. req[q].pc \in Before \cup After => req[q].id \in Id
    BY ReqIds DEF Before, After, OwnPc
  <2>3. req[q].pc = "readd" => req[q].to \in Id
    BY ReqIds DEF ToPc
  <2> QED
    BY <1>3, <2>1, <2>2, <2>3 DEF FreshReq, Fresh
<1>5. \A m \in msgs' : ~Fresh(m.id)'
  <2> SUFFICES ASSUME NEW m \in msgs' PROVE ~Fresh(m.id)'
    OBVIOUS
  <2>1. PICK i \in Id : i = m.id /\ ~Fresh(i)
    OBVIOUS
  <2> QED
    BY <1>3, <2>1 DEF Fresh
<1>6. \A w \in Worker : wk[w].pc # "idle" =>
         \E i \in Id : i = WId(w) /\ ~Fresh(i)' /\ (Covered(i) => Covered(i)')
  BY <1>3, WorkFacts DEF FreshInv
<1>7. parked # NoId => \E i \in Id : i = parked /\ ~Fresh(i) /\ ~Fresh(i)'
  <2> HAVE parked # NoId
  <2>1. PICK i \in Id : i = parked
    BY DedupConstants DEF DedupInv, KeysOK
  <2> QED
    BY <1>3, <2>1 DEF FreshInv
<1>8. sw.pc # "idle" => \E i \in Id : i = sw.id /\ ~Fresh(i)'
  <2> HAVE sw.pc # "idle"
  <2>1. PICK i \in Id : i = sw.id
    BY DEF DedupInv, SweepOK
  <2> QED
    BY <1>3, <2>1 DEF FreshInv
<1>9. \A i \in Id : row'[i] = "running" => Covered(i)'
  BY <1>3 DEF Rows, SlotInv, Fresh
<1> QED
  BY <1>4, <1>5, <1>6, <1>7, <1>8, <1>9

(* The steps of workers keep the invariants on fresh ids and slots. *)
LEMMA FreshByWorker ==
    ASSUME DedupInv, FreshInv, SlotInv, NEW w \in Worker, WorkerStep(w) \/ CrashWorker(w)
    PROVE  FreshInv' /\ SlotInv'
<1>1. Rows({}) /\ WMoved(w) /\ UNCHANGED <<req, sw, parked, tomb>>
  BY WorkRows, WorkInv
<1>2. \A m \in msgs' : m.id \in Id /\ ~Fresh(m.id)
  <2>0. \A m \in msgs : m.id \in Id /\ ~Fresh(m.id)
    BY DEF DedupInv, StoreOK, MsgRecord, FreshInv
  <2>1. CASE DeferSend(w)
    <3>1. WId(w) \in Id /\ ~Fresh(WId(w))
      BY <2>1, WorkFacts DEF DeferSend, WAt, FreshInv
    <3>2. \A m \in msgs' \ msgs : m.id = WId(w)
      BY <2>1 DEF DeferSend, Send
    <3> QED
      BY <2>0, <3>1, <3>2
  <2>2. CASE ~DeferSend(w)
    <3>1. msgs' \subseteq msgs
      BY <2>2, WorkMoves DEF WorkerStep, CrashWorker, Take, Gate, CheckTomb, WorkerClaim, Acks, redis
    <3> QED
      BY <2>0, <3>1
  <2> QED
    BY <2>1, <2>2
<1>3. /\ \A q \in Req : FreshReq(q)'
      /\ \A m \in msgs' : ~Fresh(m.id)'
      /\ \A i \in Id : row'[i] = "running" => Covered(i)'
      /\ \A v \in Worker : wk[v].pc # "idle" =>
            \E i \in Id : i = WId(v) /\ ~Fresh(i)' /\ (Covered(i) => Covered(i)')
      /\ parked # NoId => \E i \in Id : i = parked /\ ~Fresh(i) /\ ~Fresh(i)'
      /\ sw.pc # "idle" => \E i \in Id : i = sw.id /\ ~Fresh(i)'
  BY <1>1, <1>2, FreshElsewhere
<1>4. /\ parked' # NoId => ~Fresh(parked)'
      /\ sw'.pc # "idle" => ~Fresh(sw.id)'
      /\ sw'.pc \in {"release", "clear"} => sw'.id \in tomb'
  BY <1>1, <1>3 DEF Fresh, FreshInv
<1>5. ASSUME NEW v \in Worker
      PROVE  /\ wk'[v].pc # "idle" => ~Fresh(WId(v))'
             /\ wk'[v].pc \notin {"idle", "gate", "defer", "deferred"} => Covered(WId(v))'
  <2>1. CASE v # w
    <3>1. wk'[v] = wk[v]
      BY <1>1, <2>1 DEF WMoved
    <3> QED
      BY <1>3, <3>1 DEF Fresh, Covered, WId, SlotInv
  <2>2. CASE v = w /\ Take(w)
    <3>1. wk'[w].pc = "gate" /\ wk'[w].msg \in msgs /\ msgs' = msgs
      BY <2>2, TakeMoves DEF Take, redis
    <3> QED
      BY <1>3, <2>2, <3>1 DEF Fresh, WId
  <2>3. CASE v = w /\ WIdles(w)
    BY <2>3 DEF WIdles
  <2>4. CASE v = w /\ ~Take(w) /\ ~WIdles(w)
    <3>1. wk'[w].msg = wk[w].msg /\ wk[w].pc # "idle"
      BY <2>4, WorkMoves DEF WorkerStep, Gate, DeferSend, CheckTomb, WorkerClaim, WorkerHit, ReleaseGet,
             ReleaseDel, StartFlow, Finish, WAt, WGoes, Acks
    <3>2. PICK i \in Id : i = WId(w) /\ ~Fresh(i)' /\ (Covered(i) => Covered(i)')
      BY <1>3, <3>1
    <3>3. CASE Gate(w)
      <4>1. wk'[w].pc = "defer" \/ Covered(i)'
        BY <1>1, <3>2, <3>3, WorkMoves DEF TakesSlot, WGoes, Covered
      <4> QED
        BY <2>4, <3>1, <3>2, <4>1 DEF Fresh, Covered, WId
    <3>4. CASE DeferSend(w)
      <4>1. wk'[w].pc = "deferred"
        BY <3>4, WorkMoves DEF WGoes
      <4> QED
        BY <2>4, <3>1, <3>2, <4>1 DEF Fresh, WId
    <3>5. CASE ~Gate(w) /\ ~DeferSend(w)
      <4>1. wk[w].pc \notin {"idle", "gate", "defer", "deferred"}
        BY <2>4, <3>1, <3>5, WorkMoves
           DEF WorkerStep, CheckTomb, WorkerClaim, WorkerHit, ReleaseGet, ReleaseDel, StartFlow, Finish, WAt, Acks
      <4>2. Covered(i)'
        BY <3>1, <3>2, <4>1 DEF SlotInv
      <4> QED
        BY <2>4, <3>1, <3>2, <4>2 DEF Fresh, Covered, WId
    <3> QED
      BY <3>3, <3>4, <3>5
  <2> QED
    BY <2>1, <2>2, <2>3, <2>4
<1> QED
  BY <1>3, <1>4, <1>5 DEF FreshInv, SlotInv

(* Users, expiries and the sweeper keep the invariants on fresh ids and slots. *)
LEMMA FreshByOthers ==
    ASSUME DedupInv, FreshInv, SlotInv, Outside \/ ClaimExpires \/ Sweep
    PROVE  FreshInv' /\ SlotInv'
<1>0. \A m \in msgs : m.id \in Id /\ ~Fresh(m.id)
  BY DEF DedupInv, StoreOK, MsgRecord, FreshInv
<1>1. Rows({}) /\ UNCHANGED <<req, wk, msgs>>
  BY OtherRows, OutsideInv, SweepInv
<1>2. /\ \A q \in Req : FreshReq(q)'
      /\ \A m \in msgs' : ~Fresh(m.id)'
      /\ \A i \in Id : row'[i] = "running" => Covered(i)'
      /\ \A v \in Worker : wk[v].pc # "idle" =>
            \E i \in Id : i = WId(v) /\ ~Fresh(i)' /\ (Covered(i) => Covered(i)')
      /\ parked # NoId => \E i \in Id : i = parked /\ ~Fresh(i) /\ ~Fresh(i)'
      /\ sw.pc # "idle" => \E i \in Id : i = sw.id /\ ~Fresh(i)'
  BY <1>0, <1>1, FreshElsewhere
<1>3. ASSUME NEW v \in Worker
      PROVE  /\ wk'[v].pc # "idle" => ~Fresh(WId(v))'
             /\ wk'[v].pc \notin {"idle", "gate", "defer", "deferred"} => Covered(WId(v))'
  BY <1>1, <1>2 DEF Fresh, Covered, WId, SlotInv
<1>4. /\ parked' # NoId => ~Fresh(parked)'
      /\ sw'.pc # "idle" => ~Fresh(sw.id)'
      /\ sw'.pc \in {"release", "clear"} => sw'.id \in tomb'
  <2>1. CASE Outside \/ ClaimExpires
    <3>1. UNCHANGED <<parked, sw>> /\ tomb \subseteq tomb'
      BY <1>1, <2>1, OutsideInv DEF Rows
    <3> QED
      BY <1>2, <3>1 DEF Fresh, FreshInv
  <2>2. CASE SweepLook
    <3>1. PICK i \in Id : i = parked /\ ~Fresh(i)'
      BY <1>2, <2>2 DEF SweepLook
    <3>2. sw.pc = "idle" /\ \/ parked' = NoId /\ sw' = sw
                            \/ parked' = parked /\ sw' = [pc |-> "delete", id |-> i]
      BY <2>2, <3>1 DEF SweepLook
    <3>3. sw'.pc # "idle" => sw'.pc = "delete" /\ sw'.id = i
      BY <3>2
    <3>4. sw'.pc \notin {"release", "clear"}
      BY <3>2
    <3>5. parked' # NoId => parked' = i
      BY <3>1, <3>2
    <3> QED
      BY <3>1, <3>3, <3>4, <3>5 DEF Fresh
  <2>3. CASE SweepDelete
    <3>1. PICK i \in Id : i = sw.id /\ ~Fresh(i)'
      BY <1>2, <2>3 DEF SweepDelete
    <3>2. sw'.id = sw.id /\ i \in tomb' /\ parked' = parked
      BY <2>3, <3>1 DEF SweepDelete, DedupInv, SweepOK
    <3> QED
      BY <1>2, <3>1, <3>2 DEF Fresh
  <2>4. CASE SweepRelease
    <3>1. sw' = [sw EXCEPT !.pc = "clear"] /\ UNCHANGED <<parked, tomb>> /\ sw.id \in tomb
      BY <2>4 DEF SweepRelease, FreshInv
    <3>2. sw'.id = sw.id
      BY <3>1 DEF DedupInv, SweepOK
    <3> QED
      BY <1>2, <2>4, <3>1, <3>2 DEF SweepRelease, Fresh
  <2>5. CASE SweepClear
    <3>1. parked' = NoId /\ sw'.pc = "idle"
      BY <2>5 DEF SweepClear
    <3> QED
      BY <3>1
  <2> QED
    BY <2>1, <2>2, <2>3, <2>4, <2>5 DEF Sweep
<1> QED
  BY <1>2, <1>3, <1>4 DEF FreshInv, SlotInv

(* Every step keeps the invariants on fresh ids and slots. *)
LEMMA FreshNext ==
    ASSUME DedupInv, FreshInv, SlotInv, [Next]_vars
    PROVE  FreshInv' /\ SlotInv'
<1>1. CASE UNCHANGED vars
  BY <1>1 DEF vars, redis, history, FreshInv, FreshReq, Fresh, SlotInv, Covered, WId
<1> QED
  BY <1>1, FreshByReq, FreshByWorker, FreshByOthers DEF Next, Outside

(* A message, a worker, a park marker or the sweeper never refers to an id *)
(* whose row was not written; and an execution that a worker has past its  *)
(* gates, or that runs, has a slot, is over or deleted, or is one of the   *)
(* cases "beside" records: Redis failed at the gate, the deferrals were    *)
(* used up, the slot ran out, the requester is taking the start back, or   *)
(* the tenant has no cap.                                                  *)
THEOREM DedupCovered == Spec => [](FreshInv /\ SlotInv)
<1>1. Init => FreshInv /\ SlotInv
  <2> SUFFICES ASSUME Init PROVE FreshInv /\ SlotInv
    OBVIOUS
  <2>1. \A r \in Req : req[r].pc = "claim"
    BY DEF Init, ReqAt
  <2>2. \A w \in Worker : wk[w].pc = "idle"
    BY DEF Init, Idle
  <2>3. sw.pc = "idle" /\ parked = NoId /\ msgs = {} /\ \A i \in Id : row[i] # "running"
    BY DEF Init
  <2> QED
    BY <2>1, <2>2, <2>3 DEF FreshInv, FreshReq, SlotInv, Before, After
<1>2. DedupInv /\ FreshInv /\ SlotInv /\ [Next]_vars => (FreshInv /\ SlotInv)'
  BY FreshNext
<1> QED
  BY <1>1, <1>2, DedupInvariant, PTL DEF Spec

-----------------------------------------------------------------------------
(* The admission counts.  No other step adds a slot. *)
CapInv == left.cap # Unlimited => Cardinality(slots) <= left.cap

(* Slots are taken by the two admissions, one at a time. *)
LEMMA SlotsMove ==
    ASSUME DedupInv, [Next]_vars
    PROVE  slots' \subseteq slots \/ \E i \in Id : TakesSlot(i)
<1>1. ASSUME NEW r \in Req, ReqStep(r) \/ CrashReq(r) \/ TryAgain(r)
      PROVE  slots' \subseteq slots \/ \E i \in Id : TakesSlot(i)
  <2>1. CASE Admit(r)
    <3>1. req[r].id \in Id
      BY <2>1, ReqIds DEF Admit, At, OwnPc
    <3> QED
      BY <2>1, <3>1 DEF Admit, PassesOpen, NoSlotLeft
  <2>2. CASE ~Admit(r)
    BY <1>1, <2>2 DEF ReqStep, CrashReq, TryAgain, TryClaim, Guard, WriteRow, Reserve, Reguard, XAdd, Mark,
                      RecoverMark, Park, GiveSlot, Drop, Xdel, GiveBack, Lost, Hit, NoRow, WaitRow, Orphan,
                      RowHit, WaitMark, Adopt, ReAdd, ReMark, ReXdel, FireOwner, FireLook, FireDiscard,
                      FireClear, redis
  <2> QED
    BY <2>1, <2>2
<1>2. ASSUME NEW w \in Worker, WorkerStep(w) \/ CrashWorker(w)
      PROVE  slots' \subseteq slots \/ \E i \in Id : TakesSlot(i)
  <2>1. CASE Gate(w)
    <3>1. WId(w) \in Id
      BY <2>1, WorkFacts DEF Gate, WAt
    <3> QED
      BY <2>1, <3>1, WorkMoves
  <2>2. CASE ~Gate(w)
    BY <1>2, <2>2 DEF WorkerStep, CrashWorker, Take, DeferSend, DeferAck, CheckTomb, WorkerClaim, WorkerHit,
                      ReleaseGet, ReleaseDel, StartFlow, Finish, redis
  <2> QED
    BY <2>1, <2>2
<1>3. ASSUME Outside \/ ClaimExpires \/ Sweep \/ UNCHANGED vars
      PROVE  slots' \subseteq slots
  BY <1>3 DEF Outside, CancelQueued, CancelRow, Delete, SlotExpires, ClaimExpires, Sweep, SweepLook,
              SweepDelete, SweepRelease, SweepClear, vars, redis
<1> QED
  BY <1>1, <1>2, <1>3 DEF Next, Outside

(* An admission that finds room leaves at most the cap. *)
LEMMA CapNext ==
    ASSUME DedupInv, CapInv, [Next]_vars
    PROVE  CapInv'
<1> SUFFICES ASSUME left'.cap # Unlimited PROVE Cardinality(slots') <= left'.cap
  BY DEF CapInv
<1>1. left'.cap = left.cap /\ left.cap \in Nat
  BY DedupInvNext DEF Budgets, DedupInv, LeftOK, LeftRecord
<1>2. IsFiniteSet(Id) /\ slots \subseteq Id
  BY DedupConstants, FS_Interval DEF DedupInv, StoreOK
<1>3. IsFiniteSet(slots) /\ Cardinality(slots) \in Nat
  BY <1>2, FS_Subset, FS_CardinalityType
<1>4. Cardinality(slots) <= left.cap
  BY <1>1 DEF CapInv
<1>5. CASE slots' \subseteq slots
  <2>1. Cardinality(slots') <= Cardinality(slots) /\ Cardinality(slots') \in Nat
    BY <1>3, <1>5, FS_Subset, FS_CardinalityType
  <2> QED
    BY <1>1, <1>3, <1>4, <2>1
<1>6. CASE \E i \in Id : TakesSlot(i)
  <2>1. PICK i \in Id : slots' = slots \cup {i} /\ (i \in slots \/ Cardinality(slots) < left.cap)
    BY <1>6 DEF TakesSlot, HasRoom
  <2>2. CASE i \in slots
    <3>1. slots' = slots
      BY <2>1, <2>2
    <3> QED
      BY <1>1, <1>4, <3>1
  <2>3. CASE i \notin slots
    <3>1. Cardinality(slots \cup {i}) = Cardinality(slots) + 1
      BY <1>3, <2>3, FS_AddElement
    <3> QED
      BY <1>1, <1>3, <2>1, <2>3, <3>1
  <2> QED
    BY <2>2, <2>3
<1> QED
  BY <1>5, <1>6, SlotsMove

(* The quota of a tenant with a cap: never more slots than the cap, and an *)
(* execution that runs without one is deleted, or a case that "beside"     *)
(* records (try_admit_tenant_start and its releases, the worker's gate     *)
(* with its deferrals, the TTL of a slot, the sweeper).                    *)
THEOREM DedupRunningHoldsSlot == Spec => []RunningHoldsSlot
<1>1. SlotInv /\ CapInv => RunningHoldsSlot
  BY DEF SlotInv, CapInv, RunningHoldsSlot, Covered, Final
<1>2. Init => CapInv
  <2> SUFFICES ASSUME Init, left.cap # Unlimited PROVE Cardinality(slots) <= left.cap
    BY DEF CapInv
  <2>1. left.cap \in Nat
    BY DedupInvInit DEF DedupInv, LeftOK, LeftRecord
  <2>2. Cardinality(slots) = 0
    BY FS_EmptySet DEF Init
  <2> QED
    BY <2>1, <2>2
<1>3. DedupInv /\ CapInv /\ [Next]_vars => CapInv'
  BY CapNext
<1> QED
  BY <1>1, <1>2, <1>3, DedupCovered, DedupInvariant, PTL DEF Spec
=============================================================================
