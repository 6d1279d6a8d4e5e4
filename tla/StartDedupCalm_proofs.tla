------------------------- MODULE StartDedupCalm_proofs -------------------------
(***************************************************************************)
(* What the start protocol promises while no requester is slower than its  *)
(* claim, no mark goes unanswered and no execution is deleted: one id per  *)
(* key runs, a mark is final, what a caller was told is started is not     *)
(* taken back, and (when no recovery fails either) can still run.          *)
(* Requesters and workers may crash anywhere, row and message writes may   *)
(* fail, claims of dead requesters expire, users may cancel.               *)
(*                                                                         *)
(* The invariant says who may touch the key.  At most one requester is     *)
(* busy: the key and the claim are its own, and until it has sent its      *)
(* message nobody else can have answered with, run or cancelled its id.    *)
(* Every message, every worker and every id that ran belongs to the id     *)
(* under the key, whose row exists.                                        *)
(***************************************************************************)
EXTENDS StartDedup_proofs

Quiet == Calm({"slow", "delete", "mark"})
Live(i) == map = i /\ i \notin tomb /\ row[i] # "none"
Untouched(i) ==
    /\ i \notin accepted \cup ran \cup flag \cup tomb /\ row[i] \in {"none", "queued"}
    /\ \A m \in msgs : m.id # i
    /\ \A w \in Worker : wk[w].pc # "idle" => WId(w) # i
    /\ \A q \in Req : req[q].to = i => req[q].st \in {"none", "queued"}

(* Where a requester is before its message is sent, and where it has a     *)
(* claim at all.                                                           *)
Early(r) ==
    \/ req[r].pc \in {"admit", "guard", "write", "reserve", "xadd", "undo", "drop"}
    \/ req[r].pc = "giveback" /\ req[r].why = "full"
Adopter(r) == req[r].pc \in {"readd", "remark"}
Busy(r) == Early(r) \/ Adopter(r) \/ req[r].pc = "mark"
Mine(r) == IF Adopter(r) THEN req[r].to ELSE req[r].id
Never == {"reguard", "reserve2", "rguard", "rreserve", "rmark", "park", "xdel", "lost"}

BusyReq(r) ==
    /\ map = Mine(r) /\ claim.id = Mine(r) /\ claim.by = r /\ claim.st \in InFlight
    /\ Early(r) => Untouched(req[r].id)
    /\ req[r].pc \in Before \cup {"reserve"} => claim.st = "claiming"
    /\ req[r].pc \in {"xadd", "mark", "readd", "remark"} => claim.st = "enqueueing"
    /\ req[r].pc \in {"reserve", "xadd", "mark", "readd", "remark"} => Live(Mine(r))
    /\ req[r].pc \in {"undo", "drop"} => req[r].why = "fault"
CalmReq(r) ==
    /\ req[r].pc \notin Never
    /\ Busy(r) => BusyReq(r)
    /\ req[r].pc = "giveback" => /\ req[r].why \in {"full", "fault"} /\ row[req[r].id] = "none"
                                 /\ req[r].why = "fault" => req[r].id \in tomb
    /\ req[r].pc \in {"look", "clear"} => \A q \in Req : req[q].pc \in Before => req[q].id # req[r].to
    /\ req[r].pc = "clear" => row[req[r].to] = "none" \/ req[r].to \in tomb
CalmKeys ==
    /\ claim.st # "none" => map = claim.id
    /\ parked = NoId /\ sw.pc = "idle"
Course == {"gate", "defer", "deferred", "check", "claim", "start", "run"}
CalmWork ==
    /\ \A m \in msgs : Live(m.id)
    /\ \A i \in ran : Live(i)
    /\ \A w \in Worker : wk[w].pc # "idle" =>
          Live(WId(w)) /\ wk[w].pc \in Course
Calmly == CalmKeys /\ CalmWork /\ \A r \in Req : CalmReq(r)
CalmInv == Quiet => Calmly

(* What was proved without any calm. *)
Base == DedupInv /\ FreshInv

-----------------------------------------------------------------------------

(* What is quiet after a step was quiet before it. *)
LEMMA QuietBefore ==
    ASSUME Budgets, Quiet'
    PROVE  Quiet
BY DEF Budgets, Quiet, Calm, Counted, Trouble

(* A step into a quiet state spends none of the three troubles. *)
LEMMA QuietSpends ==
    ASSUME DedupInv, Quiet', NEW t \in {"slow", "delete", "mark"}
    PROVE  ~Spend(t)
<1> SUFFICES ASSUME Spend(t) PROVE FALSE
  OBVIOUS
<1>1. Happened(t)'
  BY Spent DEF Counted, Trouble
<1> QED
  BY <1>1 DEF Quiet, Calm

(* Where a requester is busy, and with which id. *)
LEMMA BusyPcs ==
    ASSUME NEW r \in Req, NEW pc, req[r].pc = pc
    PROVE  /\ pc \in {"admit", "guard", "write", "reserve", "xadd", "undo", "drop", "mark", "readd", "remark"} => Busy(r)
           /\ pc \notin {"admit", "guard", "write", "reserve", "xadd", "undo", "drop", "mark", "readd", "remark",
                         "giveback"}
                 => ~Busy(r)
           /\ pc \in {"readd", "remark"} => Mine(r) = req[r].to /\ ~Early(r)
           /\ pc \notin {"readd", "remark"} => Mine(r) = req[r].id
BY DEF Busy, Early, Adopter, Mine

(* The busy requester's id is one of its own; it is not deleted; there is  *)
(* no other busy requester.                                                *)
LEMMA BusyFacts ==
    ASSUME Base, Calmly, NEW r \in Req, Busy(r)
    PROVE  /\ Mine(r) \in Id /\ map = Mine(r) /\ map \notin tomb
           /\ claim.id = map /\ claim.by = r /\ claim.st \in InFlight /\ claim # NoClaim
           /\ \A q \in Req \ {r} : ~Busy(q)
<1>1. BusyReq(r)
  BY DEF Calmly, CalmReq
<1>2. Mine(r) \in Id
  BY ReqIds DEF Base, Busy, Early, Adopter, Mine, OwnPc, ToPc
<1>3. Mine(r) \notin tomb
  <2>1. CASE Early(r)
    BY <1>1, <2>1 DEF BusyReq, Untouched, Early, Adopter, Mine
  <2>2. CASE ~Early(r)
    BY <1>1, <2>2 DEF BusyReq, Live, Busy, Early, Adopter
  <2> QED
    BY <2>1, <2>2
<1>4. \A q \in Req \ {r} : ~Busy(q)
  BY <1>1 DEF Calmly, CalmReq, BusyReq
<1>5. claim # NoClaim
  BY <1>1 DEF BusyReq, InFlight, NoClaim
<1> QED
  BY <1>1, <1>2, <1>3, <1>4, <1>5 DEF BusyReq

(* A claim is known by its parts. *)
LEMMA ClaimIs ==
    ASSUME DedupInv, NEW st \in {"claiming", "enqueueing", "enqueued"}, NEW i \in Id, NEW r \in Req
    PROVE  claim = Claim(st, i, r) <=> claim.st = st /\ claim.id = i /\ claim.by = r
<1>1. claim \in ClaimRecord
  BY DEF DedupInv, KeysOK
<1> QED
  BY <1>1, ClaimType DEF ClaimRecord, Claim

(* The guards of a busy requester's own operations hold. *)
LEMMA BusyProceeds ==
    ASSUME Base, Calmly, NEW r \in Req, Busy(r)
    PROVE  /\ req[r].pc \in Before \cup {"reserve"} => MayProceed(req[r].id, r)
           /\ req[r].pc = "mark" => MayMark(req[r].id, r)
           /\ req[r].pc = "remark" => MayMark(req[r].to, r)
<1>1. BusyReq(r) /\ Mine(r) \in Id /\ map = Mine(r) /\ map \notin tomb
  BY BusyFacts DEF Calmly, CalmReq
<1>2. PICK i \in Id : i = Mine(r)
  BY <1>1
<1>3. claim.st \in {"claiming", "enqueueing"} /\ claim = Claim(claim.st, i, r)
  BY <1>1, <1>2, ClaimIs DEF Base, BusyReq, InFlight
<1> QED
  BY <1>1, <1>2, <1>3 DEF BusyReq, MayProceed, MayMark, Mine, Adopter, Before

-----------------------------------------------------------------------------
(* Orphans: what may be released without a token is not live, and not the  *)
(* key of a busy requester.                                                *)
LEMMA OrphanNotLive ==
    ASSUME Base, Calmly, NEW i \in Id, NEW absent \in BOOLEAN, MayReleaseOrphan(i, absent),
           absent \/ row[i] = "none" \/ i \in tomb
    PROVE  map = i /\ ~Live(i) /\ (i \in tomb \/ claim = NoClaim) /\ \A q \in Req : ~Busy(q)
<1>1. map = i /\ (i \in tomb \/ claim = NoClaim)
  BY DEF MayReleaseOrphan
<1>2. ~Live(i)
  BY DEF MayReleaseOrphan, Live
<1> QED
  BY <1>1, <1>2, BusyFacts

(* What each operation does to the key, when all is calm: *)
KeysMoved(r) ==
    \/ UNCHANGED <<map, claim>>
    \/ map = NoId /\ claim' = Claim("claiming", map', r) /\ map' \in Id
    \/ Busy(r) /\ map' = map /\ \E st \in {"claiming", "enqueueing", "enqueued"} : claim' = Claim(st, map, r)
    \/ claim = NoClaim /\ map' = map /\ map \in Id /\ claim' = Claim("enqueueing", map, r)
    \/ /\ ~Live(map) /\ map' = NoId /\ claim' = NoClaim
       /\ Busy(r) \/ ((map \in tomb \/ claim = NoClaim) /\ \A q \in Req : ~Busy(q))

(* What a requester does to the key and the claim. *)
LEMMA ReqKeysMoved ==
    ASSUME Base, Calmly, NEW r \in Req, ReqStep(r) \/ CrashReq(r) \/ TryAgain(r)
    PROVE  KeysMoved(r)
<1> USE DEF At
<1>0. CalmReq(r) /\ DedupInv
  BY DEF Calmly, Base
<1>1. CASE TryClaim(r)
  BY <1>0, <1>1, ClaimMoves DEF KeysMoved
<1>2. CASE Guard(r) \/ Reserve(r)
  <2>1. Busy(r)
    BY <1>0, <1>2 DEF Guard, Reserve, CalmReq, Never, Busy, Early
  <2>2. map = req[r].id
    BY <1>2, <2>1, BusyFacts DEF Mine, Adopter, Guard, Reserve
  <2>3. map' = map /\ (claim' = claim \/ \E st \in {"claiming", "enqueueing"} : claim' = Claim(st, map, r))
    BY <1>2, <2>2 DEF Guard, Reserve
  <2> QED
    BY <2>1, <2>3 DEF KeysMoved
<1>3. CASE Mark(r) \/ ReMark(r)
  <2>1. Busy(r)
    BY <1>0, <1>3 DEF Mark, ReMark, CalmReq, Never, Busy, Adopter
  <2>2. (Mark(r) => map = req[r].id) /\ (ReMark(r) => map = req[r].to)
    BY <1>0, <1>3, <2>1, BusyFacts DEF Mine, Adopter, Mark, ReMark, CalmReq, Never
  <2>3. map' = map /\ (claim' = claim \/ claim' = Claim("enqueued", map, r))
    BY <1>3, <2>2 DEF Mark, ReMark, Marked, MarkFails
  <2> QED
    BY <2>1, <2>3 DEF KeysMoved
<1>4. CASE Reguard(r) \/ RecoverMark(r)
  BY <1>0, <1>4 DEF Reguard, RecoverMark, CalmReq, Never
<1>5. CASE Adopt(r)
  <2>1. req[r].to \in Id
    BY <1>0, <1>5, ReqIds DEF Adopt, ToPc
  <2> QED
    BY <1>5, <2>1 DEF Adopt, MayAdopt, KeysMoved
<1>6. CASE GiveBack(r)
  <2>1. PICK i \in Id : i = req[r].id
    BY <1>0, <1>6, ReqIds DEF GiveBack, OwnPc
  <2>2. row[i] = "none" /\ req[r].why \in {"full", "fault"} /\ (req[r].why = "fault" => i \in tomb)
    BY <1>0, <1>6, <2>1 DEF GiveBack, CalmReq
  <2>3. UNCHANGED <<map, claim>> \/ (map = i /\ map' = NoId /\ claim' = NoClaim)
    BY <1>6, <2>1 DEF GiveBack, ReleaseIf, MayReleaseOrphan, MayReleaseOwn
  <2>4. ASSUME map = i PROVE ~Live(map) /\ (Busy(r) \/ (map \in tomb /\ \A q \in Req : ~Busy(q)))
    <3>1. ~Live(map)
      BY <2>2, <2>4 DEF Live
    <3>2. CASE req[r].why = "full"
      BY <1>6, <3>1, <3>2 DEF Busy, Early, GiveBack
    <3>3. CASE req[r].why = "fault"
      BY <2>2, <2>4, <3>1, <3>3, BusyFacts
    <3> QED
      BY <2>2, <3>2, <3>3
  <2> QED
    BY <2>3, <2>4 DEF KeysMoved
<1>7. CASE Orphan(r) \/ FireClear(r)
  <2>1. PICK i \in Id : i = req[r].to
    BY <1>0, <1>7, ReqIds DEF Orphan, FireClear, ToPc
  <2>2. PICK absent \in BOOLEAN : ReleaseIf(MayReleaseOrphan(i, absent)) /\ (absent \/ row[i] = "none" \/ i \in tomb)
    BY <1>0, <1>7, <2>1 DEF Orphan, FireClear, CalmReq
  <2>3. CASE ~MayReleaseOrphan(i, absent)
    BY <2>2, <2>3 DEF ReleaseIf, KeysMoved
  <2>4. CASE MayReleaseOrphan(i, absent)
    <3>1. map' = NoId /\ claim' = NoClaim
      BY <2>2, <2>4 DEF ReleaseIf
    <3> QED
      BY <2>2, <2>4, <3>1, OrphanNotLive DEF KeysMoved
  <2> QED
    BY <2>3, <2>4
<1>8. CASE ~(\/ TryClaim(r) \/ Guard(r) \/ Reserve(r) \/ Mark(r) \/ ReMark(r) \/ Reguard(r) \/ RecoverMark(r)
             \/ Adopt(r) \/ GiveBack(r) \/ Orphan(r) \/ FireClear(r))
  BY <1>8 DEF ReqStep, CrashReq, TryAgain, Admit, WriteRow, XAdd, Park, GiveSlot, Drop, Xdel, Lost, Hit, NoRow, WaitRow, RowHit,
              WaitMark, ReAdd, ReXdel, FireOwner, FireLook, FireDiscard, redis, KeysMoved
<1> QED
  BY <1>1, <1>2, <1>3, <1>4, <1>5, <1>6, <1>7, <1>8

(* The key stays with the requester that is busy and does not move. *)
LEMMA BusyKeysStay ==
    ASSUME Base, Calmly, NEW r \in Req, KeysMoved(r), NEW q \in Req \ {r}, Busy(q)
    PROVE  UNCHANGED <<map, claim>> /\ ~Busy(r)
<1>1. map \in Id /\ map # NoId /\ claim # NoClaim /\ ~Busy(r)
  BY BusyFacts, DedupConstants
<1> QED
  BY <1>1 DEF KeysMoved

(* What an operation does to the rows of the executions, when all is calm. *)
RowsMoved(r) ==
    \/ UNCHANGED <<row, tomb>>
    \/ /\ req[r].pc = "write" /\ tomb' = tomb
       /\ row' = [row EXCEPT ![req[r].id] = "queued"]
    \/ req[r].pc = "drop" /\ row' = [row EXCEPT ![req[r].id] = "none"] /\ tomb' = tomb \cup {req[r].id}
    \/ /\ req[r].pc = "discard" /\ tomb' = tomb /\ req[r].to \in tomb
       /\ row' = [row EXCEPT ![req[r].to] = "none"]

(* What a requester does to the rows; it runs nothing and cancels nothing. *)
LEMMA ReqRowsMoved ==
    ASSUME Base, Calmly, NEW r \in Req, ReqStep(r) \/ CrashReq(r) \/ TryAgain(r)
    PROVE  RowsMoved(r) /\ UNCHANGED <<flag, ran>>
<1>1. UNCHANGED <<flag, ran>>
  BY DEF ReqStep, CrashReq, TryAgain, TryClaim, Admit, Guard, WriteRow, Reserve, Reguard, XAdd, Mark,
         RecoverMark, Park, GiveSlot, Drop, Xdel, GiveBack, Lost, Hit, NoRow, WaitRow, Orphan, RowHit, WaitMark, Adopt,
         ReAdd, ReMark, ReXdel, FireOwner, FireLook, FireDiscard, FireClear, redis, history
<1>2. CASE WriteRow(r) \/ Drop(r)
  BY <1>1, <1>2 DEF WriteRow, Drop, At, RowsMoved
<1>3. CASE FireDiscard(r)
  BY <1>1, <1>3 DEF FireDiscard, At, RowsMoved, Base, FreshInv, FreshReq
<1>4. CASE ~(WriteRow(r) \/ Drop(r) \/ FireDiscard(r))
  <2>1. UNCHANGED <<row, tomb>>
    BY <1>4 DEF ReqStep, CrashReq, TryAgain, TryClaim, Admit, Guard, Reserve, Reguard, XAdd, Mark,
         RecoverMark, Park, GiveSlot, Xdel, GiveBack, Lost, Hit, NoRow, WaitRow, Orphan, RowHit, WaitMark, Adopt,
         ReAdd, ReMark, ReXdel, FireOwner, FireLook, FireClear, redis
  <2> QED
    BY <1>1, <2>1 DEF RowsMoved
<1> QED
  BY <1>2, <1>3, <1>4

(* An id stays live unless its own requester takes it back. *)
LEMMA LiveStays ==
    ASSUME Base, Calmly, NEW r \in Req, KeysMoved(r), RowsMoved(r), NEW i \in Id, Live(i),
           req[r].pc = "drop" => req[r].id # i
    PROVE  Live(i)'
<1>1. map' = map
  BY DedupConstants DEF KeysMoved, Live
<1>2. row'[i] # "none" /\ i \notin tomb'
  <2>1. CASE req[r].pc = "discard" /\ req[r].to \in tomb /\ row' = [row EXCEPT ![req[r].to] = "none"] /\ tomb' = tomb
    BY <2>1 DEF Live, Base, DedupInv, StoreOK
  <2>2. CASE req[r].pc = "write" /\ tomb' = tomb /\ row' = [row EXCEPT ![req[r].id] = "queued"]
    BY <2>2 DEF Live, Base, DedupInv, StoreOK
  <2>3. CASE req[r].pc = "drop" /\ row' = [row EXCEPT ![req[r].id] = "none"] /\ tomb' = tomb \cup {req[r].id}
    BY <2>3 DEF Live, Base, DedupInv, StoreOK
  <2> QED
    BY <2>1, <2>2, <2>3 DEF RowsMoved, Live
<1> QED
  BY <1>1, <1>2 DEF Live

(* What an operation tells a caller, adds to the stream and remembers of   *)
(* the row it read.                                                        *)
Tells(r) ==
    /\ accepted \subseteq accepted'
    /\ \A i \in accepted' \ accepted :
          \/ Busy(r) /\ ~Early(r) /\ i = Mine(r)
          \/ /\ i = req[r].to /\ req[r].pc \in {"row", "waitmark"}
             /\ (req[r].pc = "row" /\ req[r].st # "queued") \/ OwnerIs({"enqueued"}, i)
Sends(r) ==
    \/ msgs' \subseteq msgs
    \/ /\ req[r].pc \in {"xadd", "readd"} /\ Live(Mine(r)) /\ UNCHANGED <<row, tomb, map, accepted>>
       /\ req'[r].pc \in {"mark", "remark"}
       /\ \E m \in MsgRecord : m.id = Mine(r) /\ msgs' = msgs \cup {m}
Reads(r) ==
    \/ req'[r].st = "none"
    \/ req'[r].to \in Id /\ req'[r].st = row[req'[r].to] /\ UNCHANGED <<row, tomb>>
    \/ req'[r].to = req[r].to /\ req'[r].st = req[r].st

(* Which id a requester may tell its caller. *)
LEMMA ReqTells ==
    ASSUME Base, Calmly, NEW r \in Req, ReqStep(r) \/ CrashReq(r) \/ TryAgain(r)
    PROVE  Tells(r)
<1> USE DEF At
<1>0. CalmReq(r) /\ DedupInv
  BY DEF Calmly, Base
<1>1. CASE Mark(r)
  <2>1. req[r].pc = "mark"
    BY <1>0, <1>1 DEF Mark, CalmReq, Never
  <2>2. accepted' \subseteq accepted \cup {req[r].id} /\ accepted \subseteq accepted'
    BY <1>0, <1>1, OwnMoves
  <2> QED
    BY <2>1, <2>2 DEF Tells, Busy, Early, Mine, Adopter
<1>2. CASE ReAdd(r) \/ ReMark(r)
  <2>1. req[r].pc \in {"readd", "remark"}
    BY <1>2 DEF ReAdd, ReMark
  <2>2. accepted' \subseteq accepted \cup {req[r].to} /\ accepted \subseteq accepted'
    BY <1>0, <1>2, ToMoves
  <2> QED
    BY <2>1, <2>2 DEF Tells, Busy, Early, Mine, Adopter
<1>3. CASE RowHit(r) \/ WaitMark(r)
  <2>1. \/ accepted' = accepted
        \/ /\ accepted' = accepted \cup {req[r].to}
           /\ (req[r].pc = "row" /\ req[r].st # "queued") \/ OwnerIs({"enqueued"}, req[r].to)
    BY <1>0, <1>3, ToMoves DEF RowHit, WaitMark
  <2>2. req[r].pc \in {"row", "waitmark"}
    BY <1>3 DEF RowHit, WaitMark
  <2> QED
    BY <2>1, <2>2 DEF Tells
<1>4. CASE ~(Mark(r) \/ ReAdd(r) \/ ReMark(r) \/ RowHit(r) \/ WaitMark(r))
  <2>1. accepted' = accepted
    BY <1>4 DEF ReqStep, CrashReq, TryAgain, TryClaim, Admit, Guard, WriteRow, Reserve, Reguard, XAdd,
         RecoverMark, Park, GiveSlot, Drop, Xdel, GiveBack, Lost, Hit, NoRow, WaitRow, Orphan, Adopt,
         ReXdel, FireOwner, FireLook, FireDiscard, FireClear, history
  <2> QED
    BY <2>1 DEF Tells
<1> QED
  BY <1>1, <1>2, <1>3, <1>4

(* For which id a requester may send a message. *)
LEMMA ReqSends ==
    ASSUME Base, Calmly, NEW r \in Req, ReqStep(r) \/ CrashReq(r) \/ TryAgain(r)
    PROVE  Sends(r)
<1> USE DEF At
<1>0. CalmReq(r) /\ DedupInv
  BY DEF Calmly, Base
<1>1. CASE XAdd(r)
  <2>1. CASE Send(req[r].id, 0) /\ Keeps(r, "mark")
    <3>1. req[r].pc = "xadd" /\ Mine(r) = req[r].id /\ req[r].id \in Id /\ Live(Mine(r))
      BY <1>0, <1>1, ReqIds DEF XAdd, Mine, Adopter, OwnPc, CalmReq, Busy, Early, BusyReq
    <3>2. PICK i \in Id : i = req[r].id /\ Send(i, 0)
      BY <2>1, <3>1
    <3>3. UNCHANGED <<row, tomb, map, accepted>>
      BY <1>1 DEF XAdd, history
    <3> QED
      BY <1>0, <2>1, <3>1, <3>2, <3>3, SendType, DedupConstants DEF Sends, Keeps, Goes
  <2>2. CASE msgs' = msgs
    BY <2>2 DEF Sends
  <2> QED
    BY <1>0, <1>1, <2>1, <2>2, OwnMoves
<1>2. CASE ReAdd(r)
  <2>1. CASE Send(req[r].to, 0) /\ accepted' = accepted /\ Keeps(r, "remark")
    <3>1. req[r].pc = "readd" /\ Mine(r) = req[r].to /\ req[r].to \in Id /\ Live(Mine(r))
      BY <1>0, <1>2, ReqIds DEF ReAdd, Mine, Adopter, ToPc, CalmReq, Busy, BusyReq
    <3>2. PICK i \in Id : i = req[r].to /\ Send(i, 0)
      BY <2>1, <3>1
    <3>3. UNCHANGED <<row, tomb, map>>
      BY <1>2 DEF ReAdd
    <3> QED
      BY <1>0, <2>1, <3>1, <3>2, <3>3, SendType, DedupConstants DEF Sends, Keeps, Goes
  <2>2. CASE msgs' = msgs
    BY <2>2 DEF Sends
  <2> QED
    BY <1>0, <1>2, <2>1, <2>2, ToMoves
<1>3. CASE ~(XAdd(r) \/ ReAdd(r))
  BY <1>3 DEF ReqStep, CrashReq, TryAgain, TryClaim, Admit, Guard, WriteRow, Reserve, Reguard, Mark,
              RecoverMark, Park, GiveSlot, Drop, Xdel, GiveBack, Lost, Hit, NoRow, WaitRow, Orphan, RowHit, WaitMark, Adopt,
              ReMark, ReXdel, FireOwner, FireLook, FireDiscard, FireClear, redis, Sends
<1> QED
  BY <1>1, <1>2, <1>3

(* What a requester knows of the row of the id it found. *)
LEMMA ReqReads ==
    ASSUME Base, Calmly, NEW r \in Req, ReqStep(r) \/ CrashReq(r) \/ TryAgain(r)
    PROVE  Reads(r)
<1> USE DEF At
<1>0. CalmReq(r) /\ DedupInv
  BY DEF Calmly, Base
<1>1. CASE TryClaim(r)
  BY <1>0, <1>1, ClaimMoves, ReqFacts DEF Reads, ReqOK, Rest
<1>2. CASE Lost(r)
  BY <1>0, <1>2 DEF Lost, CalmReq, Never
<1>3. CASE Hit(r) \/ WaitRow(r)
  <2>1. req[r].to \in Id /\ UNCHANGED <<row, tomb>>
    BY <1>0, <1>3, ReqIds DEF Hit, WaitRow, ToPc, redis
  <2> QED
    BY <1>0, <1>3, <2>1, ToMoves DEF Reads, Goes, Keeps, Rests
<1>4. CASE \/ Admit(r) \/ Guard(r) \/ WriteRow(r) \/ Reserve(r) \/ Reguard(r) \/ XAdd(r) \/ Mark(r)
           \/ RecoverMark(r) \/ Park(r) \/ GiveSlot(r) \/ Drop(r) \/ Xdel(r) \/ GiveBack(r)
  BY <1>0, <1>4, OwnMoves DEF Reads, Keeps, Goes, Rests
<1>5. CASE \/ NoRow(r) \/ Orphan(r) \/ RowHit(r) \/ WaitMark(r) \/ Adopt(r) \/ ReAdd(r) \/ ReMark(r)
           \/ ReXdel(r) \/ FireOwner(r) \/ FireLook(r) \/ FireDiscard(r) \/ FireClear(r)
  BY <1>0, <1>5, ToMoves DEF Reads, Keeps, Goes, Rests
<1>6. CASE CrashReq(r) \/ TryAgain(r)
  BY <1>0, <1>6, CrashMoves DEF Reads, Rests
<1> QED
  BY <1>1, <1>2, <1>3, <1>4, <1>5, <1>6 DEF ReqStep

(* An untouched id stays so, as long as its requester neither sends nor    *)
(* gives up.                                                               *)
LEMMA UntouchedStays ==
    ASSUME Base, Calmly, NEW r \in Req, ReqStep(r) \/ CrashReq(r) \/ TryAgain(r), NEW i \in Id, Untouched(i),
           msgs' \subseteq msgs, i \notin accepted', i \notin tomb', row'[i] \in {"none", "queued"}
    PROVE  Untouched(i)'
<1>1. Moved(r) /\ UNCHANGED <<wk, flag, ran>> /\ Reads(r)
  BY ReqInv, ReqReads, ReqRowsMoved DEF Base
<1>2. \A q \in Req : req'[q].to = i => req'[q].st \in {"none", "queued"}
  <2> SUFFICES ASSUME NEW q \in Req, req'[q].to = i PROVE req'[q].st \in {"none", "queued"}
    OBVIOUS
  <2>1. CASE q = r
    BY <1>1, <2>1 DEF Reads, Untouched
  <2>2. CASE q # r
    BY <1>1, <2>2 DEF Moved, Untouched
  <2> QED
    BY <2>1, <2>2
<1>3. \A w \in Worker : wk'[w].pc # "idle" => WId(w)' # i
  BY <1>1 DEF Untouched, WId
<1> QED
  BY <1>1, <1>2, <1>3 DEF Untouched

(* Another requester's place does not become false. *)
LEMMA CalmOther ==
    ASSUME Base, Calmly, Quiet', NEW r \in Req, ReqStep(r) \/ CrashReq(r) \/ TryAgain(r), NEW q \in Req \ {r}
    PROVE  CalmReq(q)'
<1>0. CalmReq(q) /\ CalmReq(r) /\ DedupInv
  BY DEF Calmly, Base
<1>1. KeysMoved(r) /\ RowsMoved(r) /\ Tells(r) /\ Sends(r) /\ Moved(r) /\ UNCHANGED <<wk, flag, ran>>
  BY <1>0, ReqKeysMoved, ReqRowsMoved, ReqTells, ReqSends, ReqInv
<1>2. req'[q] = req[q]
  BY <1>1 DEF Moved
<1>3. (Busy(q)' <=> Busy(q)) /\ (Early(q)' <=> Early(q)) /\ Mine(q)' = Mine(q)
  BY <1>2 DEF Busy, Early, Adopter, Mine
<1>4. ASSUME Busy(q) PROVE BusyReq(q)'
  <2>1. UNCHANGED <<map, claim>> /\ ~Busy(r) /\ BusyReq(q) /\ Mine(q) \in Id
    BY <1>0, <1>1, <1>4, BusyKeysStay, BusyFacts DEF CalmReq
  <2>2. req[r].pc \notin {"write", "drop", "xadd", "readd"}
    BY <2>1 DEF Busy, Early, Adopter
  <2>3. req[q].pc \in {"reserve", "xadd", "mark", "readd", "remark"} => Live(Mine(q))'
    <3> HAVE req[q].pc \in {"reserve", "xadd", "mark", "readd", "remark"}
    <3>1. PICK i \in Id : i = Mine(q) /\ Live(i)
      BY <2>1 DEF BusyReq
    <3>2. Live(i)'
      BY <1>1, <2>2, <3>1, LiveStays
    <3> QED
      BY <1>3, <3>1, <3>2 DEF Live
  <2>4. Early(q) => Untouched(req[q].id)'
    <3> HAVE Early(q)
    <3>1. Mine(q) = req[q].id
      BY DEF Mine, Early, Adopter
    <3>2. PICK i \in Id : i = req[q].id /\ Untouched(i)
      BY <2>1, <3>1 DEF BusyReq
    <3>3. msgs' \subseteq msgs
      BY <1>1, <2>2 DEF Sends
    <3>4. i \notin accepted'
      <4> SUFFICES ASSUME i \in accepted' PROVE FALSE
        OBVIOUS
      <4>1. /\ i = req[r].to /\ req[r].pc \in {"row", "waitmark"}
            /\ (req[r].pc = "row" /\ req[r].st # "queued") \/ OwnerIs({"enqueued"}, i)
        BY <1>1, <2>1, <3>2 DEF Tells, Untouched
      <4>2. ~OwnerIs({"enqueued"}, i)
        BY <2>1 DEF BusyReq, OwnerIs, InFlight
      <4>3. req[r].pc = "row" => req[r].st # "none"
        BY <1>0, ReqFacts DEF ReqOK
      <4> QED
        BY <3>2, <4>1, <4>2, <4>3 DEF Untouched
    <3>5. i \notin tomb' /\ row'[i] \in {"none", "queued"}
      BY <1>1, <2>2, <3>2 DEF RowsMoved, Untouched, Base, DedupInv, StoreOK
    <3>6. Untouched(i)'
      BY <3>2, <3>3, <3>4, <3>5, UntouchedStays
    <3> QED
      BY <1>2, <3>2, <3>6 DEF Untouched, WId
  <2> QED
    BY <1>2, <1>3, <2>1, <2>3, <2>4 DEF BusyReq
<1>5. ASSUME req[q].pc = "giveback"
      PROVE  /\ req[q].why \in {"full", "fault"} /\ row'[req[q].id] = "none"
             /\ req[q].why = "fault" => req[q].id \in tomb'
  <2>1. /\ req[q].why \in {"full", "fault"} /\ row[req[q].id] = "none"
        /\ req[q].why = "fault" => req[q].id \in tomb
    BY <1>0, <1>5 DEF CalmReq
  <2>2. req[q].id \in Id /\ req[q].id # req[r].id
    BY <1>0, <1>5, ReqIds, DedupConstants DEF DedupInv, ReqsOK, OwnPc
  <2> QED
    BY <1>1, <2>1, <2>2 DEF RowsMoved, Base, DedupInv, StoreOK
<1>6. ASSUME req[q].pc \in {"look", "clear"}, NEW p \in Req, req'[p].pc \in Before
      PROVE  req'[p].id # req[q].to
  <2>1. CASE p # r
    <3>1. req'[p] = req[p]
      BY <1>1, <2>1 DEF Moved
    <3> QED
      BY <1>0, <1>6, <3>1 DEF CalmReq
  <2>2. CASE p = r /\ req[r].pc \in Before /\ req'[r].id = req[r].id
    BY <1>0, <1>6, <2>2 DEF CalmReq
  <2>3. CASE p = r /\ TryClaim(r)
    BY <1>0, <1>6, <2>3, ClaimMoves DEF Unused, Before
  <2>4. ~TryClaim(r) /\ p = r => req[r].pc \in Before /\ req'[r].id = req[r].id
    <3> SUFFICES ASSUME ~TryClaim(r), p = r PROVE req[r].pc \in Before /\ req'[r].id = req[r].id
      OBVIOUS
    <3>1. CASE Admit(r) \/ Guard(r)
      BY <1>0, <3>1, OwnMoves DEF Keeps, Goes, Admit, Guard, At, Before
    <3>2. CASE ~(Admit(r) \/ Guard(r))
      <4>1. req'[r].pc \notin Before
        <5>1. CASE \/ WriteRow(r) \/ Reserve(r) \/ Reguard(r) \/ XAdd(r) \/ Mark(r)
                   \/ RecoverMark(r) \/ Park(r) \/ GiveSlot(r) \/ Drop(r) \/ Xdel(r) \/ GiveBack(r)
          BY <1>0, <5>1, OwnMoves DEF Keeps, Goes, Rests, Rest, Before
        <5>2. CASE \/ Hit(r) \/ NoRow(r) \/ WaitRow(r) \/ Orphan(r) \/ RowHit(r) \/ WaitMark(r) \/ Adopt(r)
                   \/ ReAdd(r) \/ ReMark(r) \/ ReXdel(r) \/ FireOwner(r) \/ FireLook(r) \/ FireDiscard(r)
                   \/ FireClear(r)
          BY <1>0, <5>2, ToMoves DEF Keeps, Goes, Rests, Rest, Before
        <5>3. CASE Lost(r) \/ CrashReq(r) \/ TryAgain(r)
          BY <1>0, <5>3, LostMoves, CrashMoves DEF Rests, Rest, Before
        <5> QED
          BY <3>1, <3>2, <5>1, <5>2, <5>3 DEF ReqStep
      <4> QED
        BY <1>6, <4>1
    <3> QED
      BY <3>1, <3>2
  <2> QED
    BY <2>1, <2>2, <2>3, <2>4
<1>7. ASSUME req[q].pc = "clear"
      PROVE  row'[req[q].to] = "none" \/ req[q].to \in tomb'
  <2>1. req[q].to \in Id /\ (row[req[q].to] = "none" \/ req[q].to \in tomb)
    BY <1>0, <1>7, ReqIds DEF CalmReq, ToPc
  <2>2. req[r].pc = "write" => req[r].id # req[q].to
    BY <1>0, <1>7 DEF CalmReq, Before
  <2> QED
    BY <1>1, <2>1, <2>2 DEF RowsMoved, Base, DedupInv, StoreOK
<1>8. Busy(q)' => BusyReq(q)'
  BY <1>3, <1>4
<1> QED
  BY <1>0, <1>2, <1>5, <1>6, <1>7, <1>8 DEF CalmReq

-----------------------------------------------------------------------------
(* The requester that moves.  First the places at which nothing is         *)
(* promised of it.                                                         *)
LEMMA CalmPlain ==
    ASSUME NEW r \in Req,
           req'[r].pc \in Rest \cup {"hit", "norow", "waitrow", "orphan", "row", "waitmark", "adopt", "rexdel",
                                     "owner", "discard"}
    PROVE  CalmReq(r)'
<1>1. ~Busy(r)'
  BY DEF Busy, Early, Adopter, Rest
<1> QED
  BY <1>1 DEF CalmReq, Never, Rest

(* Then the places of a busy requester. *)
LEMMA CalmBusy ==
    ASSUME NEW r \in Req, BusyReq(r)', Busy(r)', req'[r].pc # "giveback"
    PROVE  CalmReq(r)'
BY DEF CalmReq, Busy, Early, Adopter, Never

(* A requester that takes or loses the key keeps its own part of the invariant. *)
LEMMA CalmTryClaim ==
    ASSUME Base, Calmly, NEW r \in Req, TryClaim(r)
    PROVE  CalmReq(r)'
<1>0. DedupInv
  BY DEF Base
<1>1. CASE req'[r].pc \in {"hit", "owner"}
  BY <1>1, CalmPlain
<1>2. CASE /\ map = NoId /\ map' \in Id /\ claim' = Claim("claiming", map', r)
           /\ req'[r].pc = "admit" /\ req'[r].id = map' /\ req'[r].to = req[r].to
           /\ \E i \in Id : i = map' /\ Unused(i)
  <2>1. PICK i \in Id : i = map' /\ Unused(i)
    BY <1>2
  <2>2. /\ UNCHANGED <<row, tomb, flag, msgs, wk, accepted, ran>> /\ Moved(r) /\ req'[r].st = req[r].st
    BY <1>0, ClaimMoves DEF history
  <2>3. Untouched(i)'
    <3>1. i \notin accepted' \cup ran' \cup flag' \cup tomb' /\ row'[i] \in {"none", "queued"}
      BY <2>1, <2>2 DEF Unused
    <3>2. \A m \in msgs' : m.id # i
      BY <2>1, <2>2 DEF Unused
    <3>3. \A w \in Worker : wk'[w].pc = "idle"
      <4> SUFFICES ASSUME NEW w \in Worker, wk[w].pc # "idle" PROVE FALSE
        BY <2>2
      <4>1. Live(WId(w)) /\ WId(w) \in Id
        BY <1>0, WorkFacts DEF Calmly, CalmWork
      <4> QED
        BY <1>2, <4>1, DedupConstants DEF Live
    <3>4. \A q \in Req : req'[q].to # i
      BY <1>2, <2>1, <2>2 DEF Unused, Moved
    <3> QED
      BY <3>1, <3>2, <3>3, <3>4 DEF Untouched
  <2>4. claim'.st = "claiming" /\ claim'.id = i /\ claim'.by = r
    BY <1>2, <2>1, ClaimType
  <2>5. Mine(r)' = i /\ Early(r)' /\ Busy(r)'
    BY <1>2, <2>1 DEF Mine, Adopter, Early, Busy
  <2>6. Untouched(req[r].id)'
    BY <1>2, <2>1, <2>3 DEF Untouched, WId
  <2>7. BusyReq(r)'
    BY <1>2, <2>1, <2>4, <2>5, <2>6 DEF BusyReq, InFlight
  <2> QED
    BY <1>2, <2>5, <2>7, CalmBusy
<1> QED
  BY <1>0, <1>1, <1>2, ClaimMoves

(* An early requester goes on, with its id as untouched as before. *)
LEMMA EarlyGoes ==
    ASSUME Base, Calmly, NEW r \in Req, ReqStep(r), Early(r),
           NEW pc \in {"guard", "write", "reserve", "xadd", "undo", "drop", "giveback"}, Keeps(r, pc),
           UNCHANGED <<map, msgs, tomb, accepted>>, row'[req[r].id] \in {"none", "queued"},
           claim' = claim \/ \E st \in {"claiming", "enqueueing"} : claim' = Claim(st, req[r].id, r)
    PROVE  /\ req'[r].pc = pc /\ Mine(r)' = req'[r].id /\ Untouched(req[r].id)'
           /\ map' = req'[r].id /\ req'[r].id = req[r].id /\ req[r].id \notin tomb'
           /\ claim'.id = req'[r].id /\ claim'.by = r /\ claim'.st \in InFlight
<1>0. DedupInv /\ CalmReq(r) /\ Busy(r)
  BY DEF Base, Calmly, Busy
<1>1. BusyReq(r) /\ Mine(r) = req[r].id /\ req[r].id \in Id /\ map = req[r].id
  BY <1>0, BusyFacts DEF CalmReq, Mine, Adopter, Early
<1>2. PICK i \in Id : i = req[r].id
  BY <1>1
<1>3. req'[r].pc = pc /\ req'[r].id = i
  BY <1>2 DEF Keeps, Goes
<1>4. Untouched(i) /\ row'[i] \in {"none", "queued"}
  BY <1>1, <1>2 DEF BusyReq
<1>5. Untouched(i)' /\ i \notin tomb'
  BY <1>4, UntouchedStays DEF Untouched
<1>6. claim'.by = r /\ claim'.id = i /\ claim'.st \in InFlight
  BY <1>1, <1>2, ClaimType DEF BusyReq, InFlight
<1>7. Mine(r)' = req'[r].id
  BY <1>3 DEF Mine, Adopter
<1>8. Untouched(req[r].id)'
  BY <1>3, <1>5 DEF Untouched, WId
<1> QED
  BY <1>1, <1>2, <1>3, <1>5, <1>6, <1>7, <1>8

(* A requester that has not sent its message keeps its own part. *)
LEMMA CalmEarly ==
    ASSUME Base, Calmly, Quiet', NEW r \in Req, ReqStep(r), Early(r), ~GiveBack(r)
    PROVE  CalmReq(r)'
<1> USE DEF At
<1>0. DedupInv /\ CalmReq(r) /\ Busy(r)
  BY DEF Base, Calmly, Busy
<1>1. BusyReq(r) /\ Mine(r) = req[r].id /\ req[r].id \in Id /\ map = req[r].id /\ Untouched(req[r].id)
  BY <1>0, BusyFacts DEF CalmReq, BusyReq, Mine, Adopter, Early
<1>2. req[r].pc \in Before => row[req[r].id] = "none"
  BY DEF Base, FreshInv, FreshReq, Fresh
<1>3. CASE Admit(r)
  <2>1. /\ UNCHANGED <<map, claim, msgs, tomb, accepted, row>> /\ req[r].pc = "admit"
        /\ row[req[r].id] = "none" /\ claim.st = "claiming"
    BY <1>1, <1>2, <1>3 DEF Admit, history, Before, BusyReq
  <2>2. PICK pc \in {"guard", "write", "giveback"} : Keeps(r, pc) /\ (pc = "giveback" => req'[r].why = "full")
    BY <1>0, <1>3, OwnMoves
  <2>3. /\ req'[r].pc = pc /\ Mine(r)' = req'[r].id /\ Untouched(req[r].id)'
        /\ map' = req'[r].id /\ req'[r].id = req[r].id
        /\ claim'.id = req'[r].id /\ claim'.by = r /\ claim'.st \in InFlight
    BY <2>1, <2>2, EarlyGoes
  <2>4. BusyReq(r)'
    BY <2>1, <2>3 DEF BusyReq
  <2> QED
    BY <2>1, <2>2, <2>3, <2>4 DEF CalmReq, Never
<1>4. CASE Guard(r)
  <2>1. req[r].pc = "guard" /\ MayProceed(req[r].id, r)
    BY <1>0, <1>4, BusyProceeds DEF Guard, Before
  <2>2. /\ UNCHANGED <<map, msgs, tomb, accepted, row>> /\ claim' = Claim("claiming", req[r].id, r)
        /\ row[req[r].id] = "none"
    BY <1>2, <1>4, <2>1 DEF Guard, history, Before
  <2>3. Keeps(r, "write") /\ claim'.st = "claiming"
    BY <1>0, <1>1, <1>4, <2>1, <2>2, OwnMoves, ClaimType
  <2>4. /\ req'[r].pc = "write" /\ Mine(r)' = req'[r].id /\ Untouched(req[r].id)'
        /\ map' = req'[r].id /\ req'[r].id = req[r].id
        /\ claim'.id = req'[r].id /\ claim'.by = r /\ claim'.st \in InFlight
    BY <2>2, <2>3, EarlyGoes
  <2>5. BusyReq(r)' /\ Busy(r)'
    BY <2>3, <2>4 DEF BusyReq, Busy, Early
  <2> QED
    BY <2>4, <2>5, CalmBusy
<1>5. CASE WriteRow(r)
  <2>1. UNCHANGED <<map, claim, msgs, tomb, accepted>> /\ req[r].pc = "write" /\ claim.st = "claiming"
    BY <1>1, <1>5 DEF WriteRow, history, Before, BusyReq
  <2>2. PICK pc \in {"reserve", "undo"} :
           /\ Keeps(r, pc) /\ (pc = "undo" => req'[r].why = "fault" /\ row' = row)
           /\ pc = "reserve" => row' = [row EXCEPT ![req[r].id] = "queued"]
    BY <1>0, <1>5, OwnMoves
  <2>3. row'[req[r].id] \in {"none", "queued"} /\ (pc = "reserve" => row'[req[r].id] = "queued")
    BY <1>0, <1>1, <2>2 DEF Untouched, DedupInv, StoreOK
  <2>4. /\ req'[r].pc = pc /\ Mine(r)' = req'[r].id /\ Untouched(req[r].id)'
        /\ map' = req'[r].id /\ req'[r].id = req[r].id /\ req[r].id \notin tomb'
        /\ claim'.id = req'[r].id /\ claim'.by = r /\ claim'.st \in InFlight
    BY <2>1, <2>2, <2>3, EarlyGoes
  <2>5. pc = "reserve" => Live(Mine(r))'
    BY <2>3, <2>4 DEF Live
  <2>6. BusyReq(r)' /\ Busy(r)'
    BY <2>1, <2>2, <2>4, <2>5 DEF BusyReq, Busy, Early, Before
  <2> QED
    BY <2>4, <2>6, CalmBusy
<1>6. CASE Reserve(r)
  <2>1. req[r].pc = "reserve" /\ MayProceed(req[r].id, r)
    BY <1>0, <1>6, BusyProceeds DEF Reserve, CalmReq, Never
  <2>2. /\ UNCHANGED <<map, msgs, tomb, accepted, row>> /\ claim' = Claim("enqueueing", req[r].id, r)
        /\ row[req[r].id] \in {"none", "queued"} /\ Live(req[r].id)
    BY <1>1, <1>6, <2>1 DEF Reserve, history, BusyReq, Untouched
  <2>3. Keeps(r, "xadd") /\ claim'.st = "enqueueing"
    BY <1>0, <1>1, <1>6, <2>1, <2>2, OwnMoves, ClaimType
  <2>4. /\ req'[r].pc = "xadd" /\ Mine(r)' = req'[r].id /\ Untouched(req[r].id)'
        /\ map' = req'[r].id /\ req'[r].id = req[r].id
        /\ claim'.id = req'[r].id /\ claim'.by = r /\ claim'.st \in InFlight
    BY <2>2, <2>3, EarlyGoes
  <2>5. Live(Mine(r))'
    BY <2>2, <2>4 DEF Live
  <2>6. BusyReq(r)' /\ Busy(r)'
    BY <2>3, <2>4, <2>5 DEF BusyReq, Busy, Early, Before
  <2> QED
    BY <2>4, <2>6, CalmBusy
<1>7. CASE XAdd(r)
  <2>1. UNCHANGED <<map, claim, row, tomb, accepted>> /\ req[r].pc = "xadd"
    BY <1>7 DEF XAdd, history
  <2>2. CASE Keeps(r, "mark")
    <3>1. req'[r].pc = "mark" /\ req'[r].id = req[r].id
      BY <2>2 DEF Keeps, Goes
    <3>2. Mine(r)' = req[r].id /\ ~Early(r)' /\ Busy(r)'
      BY <3>1 DEF Mine, Adopter, Early, Busy
    <3>3. Live(req[r].id) /\ claim.st = "enqueueing"
      BY <1>1, <2>1 DEF BusyReq
    <3>4. Live(Mine(r))'
      BY <2>1, <3>2, <3>3 DEF Live
    <3>5. BusyReq(r)'
      BY <1>1, <2>1, <3>1, <3>2, <3>3, <3>4 DEF BusyReq, Before
    <3> QED
      BY <3>1, <3>2, <3>5, CalmBusy
  <2>3. CASE msgs' = msgs /\ Keeps(r, "undo") /\ req'[r].why = "fault"
    <3>1. row[req[r].id] \in {"none", "queued"}
      BY <1>1 DEF Untouched
    <3>2. /\ req'[r].pc = "undo" /\ Mine(r)' = req'[r].id /\ Untouched(req[r].id)'
          /\ map' = req'[r].id /\ req'[r].id = req[r].id
          /\ claim'.id = req'[r].id /\ claim'.by = r /\ claim'.st \in InFlight
      BY <2>1, <2>3, <3>1, EarlyGoes
    <3>3. BusyReq(r)' /\ Busy(r)'
      BY <2>3, <3>2 DEF BusyReq, Busy, Early, Before
    <3> QED
      BY <3>2, <3>3, CalmBusy
  <2> QED
    BY <1>0, <1>7, <2>2, <2>3, OwnMoves
<1>8. CASE GiveSlot(r)
  <2>1. /\ req[r].pc = "undo" /\ req[r].why = "fault"
        /\ UNCHANGED <<map, claim, msgs, tomb, accepted, row>> /\ row[req[r].id] \in {"none", "queued"}
    BY <1>1, <1>8 DEF GiveSlot, BusyReq, Untouched
  <2>2. Keeps(r, "drop") /\ req'[r].why = "fault"
    BY <1>0, <1>8, <2>1, OwnMoves
  <2>3. /\ req'[r].pc = "drop" /\ Mine(r)' = req'[r].id /\ Untouched(req[r].id)'
        /\ map' = req'[r].id /\ req'[r].id = req[r].id
        /\ claim'.id = req'[r].id /\ claim'.by = r /\ claim'.st \in InFlight
    BY <2>1, <2>2, EarlyGoes
  <2>4. BusyReq(r)' /\ Busy(r)'
    BY <2>2, <2>3 DEF BusyReq, Busy, Early, Before
  <2> QED
    BY <2>3, <2>4, CalmBusy
<1>9. CASE Drop(r)
  <2>1. req[r].pc = "drop" /\ req[r].why = "fault"
    BY <1>1, <1>9 DEF Drop, BusyReq
  <2>2. Keeps(r, "giveback") /\ req'[r].why = "fault"
    BY <1>0, <1>9, <2>1, OwnMoves
  <2>3. req'[r].pc = "giveback" /\ req'[r].id = req[r].id
    BY <2>2 DEF Keeps, Goes
  <2>4. row'[req[r].id] = "none" /\ req[r].id \in tomb'
    BY <1>0, <1>1, <1>9 DEF Drop, DedupInv, StoreOK
  <2>5. ~Busy(r)'
    BY <2>2, <2>3 DEF Busy, Early, Adopter
  <2> QED
    BY <2>2, <2>3, <2>4, <2>5 DEF CalmReq, Never
<1> QED
  BY <1>3, <1>4, <1>5, <1>6, <1>7, <1>8, <1>9
     DEF ReqStep, Early, TryClaim, Reguard, Mark, RecoverMark, Park, Xdel, GiveBack, Lost, Hit, NoRow, WaitRow, Orphan,
         RowHit, WaitMark, Adopt, ReAdd, ReMark, ReXdel, FireOwner, FireLook, FireDiscard, FireClear

(* Every step of a requester keeps its own part of the invariant. *)
LEMMA CalmOwn ==
    ASSUME Base, Calmly, Quiet', NEW r \in Req, ReqStep(r) \/ CrashReq(r) \/ TryAgain(r)
    PROVE  CalmReq(r)'
<1> USE DEF At
<1>0. DedupInv /\ CalmReq(r)
  BY DEF Base, Calmly
<1>1. CASE Early(r) /\ ReqStep(r) /\ ~GiveBack(r)
  BY <1>1, CalmEarly
<1>2. CASE CrashReq(r) \/ TryAgain(r)
  BY <1>0, <1>2, CrashMoves, CalmPlain DEF Rests
<1>3. CASE TryClaim(r)
  BY <1>3, CalmTryClaim
<1>4. CASE GiveBack(r)
  <2>1. Rests(r)
    BY <1>0, <1>4, OwnMoves DEF CalmReq, GiveBack
  <2> QED
    BY <2>1, CalmPlain DEF Rests
<1>5. CASE Mark(r)
  <2>1. req[r].pc = "mark" /\ Busy(r)
    BY <1>0, <1>5 DEF Mark, CalmReq, Never, Busy
  <2>2. MayMark(req[r].id, r)
    BY <2>1, BusyProceeds
  <2>3. ~MarkFails(req[r].id, r, "mark")
    BY <1>0, <2>2, QuietSpends DEF MarkFails
  <2>4. Rests(r)
    BY <1>0, <1>5, <2>3, OwnMoves
  <2> QED
    BY <2>4, CalmPlain DEF Rests
<1>6. CASE Adopt(r)
  <2>1. CASE Rests(r)
    BY <2>1, CalmPlain DEF Rests
  <2>2. CASE MayAdopt(req[r].to) /\ claim' = Claim("enqueueing", req[r].to, r) /\ Keeps(r, "readd")
    <3>1. req[r].to \in Id /\ UNCHANGED <<map, row, tomb>>
      BY <1>0, <1>6, ReqIds DEF Adopt, ToPc
    <3>2. req'[r].pc = "readd" /\ req'[r].to = req[r].to
      BY <2>2 DEF Keeps, Goes
    <3>3. Mine(r)' = req[r].to /\ ~Early(r)' /\ Busy(r)'
      BY <3>2 DEF Mine, Adopter, Early, Busy
    <3>4. Live(Mine(r))' /\ map = req[r].to
      BY <2>2, <3>1, <3>3 DEF Live, MayAdopt
    <3>5. claim'.st = "enqueueing" /\ claim'.id = req[r].to /\ claim'.by = r
      BY <2>2, <3>1, ClaimType
    <3>6. BusyReq(r)'
      BY <3>1, <3>2, <3>3, <3>4, <3>5 DEF BusyReq, InFlight, Before
    <3> QED
      BY <3>2, <3>3, <3>6, CalmBusy
  <2> QED
    BY <1>0, <1>6, <2>1, <2>2, ToMoves
<1>7. CASE ReAdd(r)
  <2>1. CASE Rests(r)
    BY <2>1, CalmPlain DEF Rests
  <2>2. CASE Keeps(r, "remark")
    <3>1. UNCHANGED <<map, claim, row, tomb>> /\ req[r].pc = "readd"
      BY <1>7 DEF ReAdd
    <3>2. BusyReq(r) /\ Mine(r) = req[r].to
      BY <1>0, <3>1 DEF CalmReq, Busy, Adopter, Mine
    <3>3. req'[r].pc = "remark" /\ req'[r].to = req[r].to
      BY <2>2 DEF Keeps, Goes
    <3>4. Mine(r)' = req[r].to /\ ~Early(r)' /\ Busy(r)'
      BY <3>3 DEF Mine, Adopter, Early, Busy
    <3>5. Live(Mine(r))'
      BY <3>1, <3>2, <3>4 DEF Live, BusyReq
    <3>6. BusyReq(r)'
      BY <3>1, <3>2, <3>3, <3>4, <3>5 DEF BusyReq, Before
    <3> QED
      BY <3>3, <3>4, <3>6, CalmBusy
  <2> QED
    BY <1>0, <1>7, <2>1, <2>2, ToMoves
<1>8. CASE FireOwner(r)
  <2>1. CASE Rests(r)
    BY <2>1, CalmPlain DEF Rests
  <2>2. CASE ~OwnerIs(InFlight \cup {"enqueued"}, req[r].to) /\ Keeps(r, "look")
    <3>1. req'[r].pc = "look" /\ req'[r].to = req[r].to /\ Moved(r)
      BY <2>2 DEF Keeps, Goes
    <3>2. ASSUME NEW q \in Req, req'[q].pc \in Before PROVE req'[q].id # req[r].to
      <4>1. q # r /\ req'[q] = req[q]
        BY <3>1, <3>2 DEF Moved, Before
      <4>2. Busy(q) /\ Mine(q) = req[q].id
        BY <3>2, <4>1 DEF Busy, Early, Mine, Adopter, Before
      <4> QED
        BY <2>2, <4>1, <4>2, BusyFacts DEF OwnerIs
    <3>3. ~Busy(r)'
      BY <3>1 DEF Busy, Early, Adopter
    <3> QED
      BY <3>1, <3>2, <3>3 DEF CalmReq, Never
  <2> QED
    BY <1>0, <1>8, <2>1, <2>2, ToMoves
<1>9. CASE FireLook(r)
  <2>1. CASE Keeps(r, "discard") \/ Keeps(r, "adopt")
    BY <2>1, CalmPlain DEF Keeps, Goes
  <2>2. CASE row[req[r].to] = "none" /\ Keeps(r, "clear")
    <3>1. req'[r].pc = "clear" /\ req'[r].to = req[r].to /\ Moved(r)
      BY <2>2 DEF Keeps, Goes
    <3>2. req[r].pc = "look" /\ row' = row
      BY <1>9 DEF FireLook, redis
    <3>3. ASSUME NEW q \in Req, req'[q].pc \in Before PROVE req'[q].id # req[r].to
      BY <1>0, <3>1, <3>2, <3>3 DEF Moved, Before, CalmReq
    <3>4. ~Busy(r)'
      BY <3>1 DEF Busy, Early, Adopter
    <3> QED
      BY <2>2, <3>1, <3>2, <3>3, <3>4 DEF CalmReq, Never
  <2> QED
    BY <1>0, <1>9, <2>1, <2>2, ToMoves
<1>10. CASE FireDiscard(r)
  <2>1. Keeps(r, "clear") /\ req[r].pc = "discard" /\ UNCHANGED <<map, claim>> /\ tomb' = tomb \cup {req[r].to}
    BY <1>0, <1>10, ToMoves DEF FireDiscard
  <2>2. req'[r].pc = "clear" /\ req'[r].to = req[r].to /\ Moved(r) /\ ~Busy(r)'
    BY <2>1 DEF Keeps, Goes, Busy, Early, Adopter
  <2>3. req[r].to \in tomb
    BY <2>1 DEF Base, FreshInv, FreshReq
  <2>4. ASSUME NEW q \in Req, req'[q].pc \in Before PROVE req'[q].id # req[r].to
    <3>1. q # r /\ req'[q] = req[q]
      BY <2>2, <2>4 DEF Moved, Before
    <3>2. Fresh(req[q].id)
      BY <2>4, <3>1 DEF Base, FreshInv, FreshReq
    <3> QED
      BY <2>3, <3>1, <3>2 DEF Fresh
  <2> QED
    BY <2>1, <2>2, <2>4 DEF CalmReq, Never
<1>11. CASE \/ Hit(r) \/ NoRow(r) \/ WaitRow(r) \/ Orphan(r) \/ RowHit(r) \/ WaitMark(r) \/ ReMark(r) \/ ReXdel(r)
            \/ FireClear(r)
  <2>1. req'[r].pc \in Rest \cup {"norow", "waitrow", "orphan", "row", "waitmark", "adopt", "rexdel"}
    BY <1>0, <1>11, ToMoves DEF Rests, Keeps, Goes
  <2> QED
    BY <2>1, CalmPlain
<1>12. CASE Reguard(r) \/ RecoverMark(r) \/ Park(r) \/ Xdel(r) \/ Lost(r)
  BY <1>0, <1>12 DEF Reguard, RecoverMark, Park, Xdel, Lost, CalmReq, Never
<1>13. CASE Admit(r) \/ Guard(r) \/ WriteRow(r) \/ Reserve(r) \/ XAdd(r) \/ GiveSlot(r)
            \/ Drop(r)
  <2>1. Early(r) /\ ~GiveBack(r)
    BY <1>0, <1>13 DEF Admit, Guard, WriteRow, Reserve, XAdd, GiveSlot, Drop, GiveBack, Early, CalmReq, Never
  <2> QED
    BY <1>1, <1>13, <2>1 DEF ReqStep
<1> QED
  BY <1>2, <1>3, <1>4, <1>5, <1>6, <1>7, <1>8, <1>9, <1>10, <1>11, <1>12, <1>13 DEF ReqStep

-----------------------------------------------------------------------------
(* The invariant, actor by actor. *)
LEMMA CalmByReq ==
    ASSUME Base, Calmly, Quiet', NEW r \in Req, ReqStep(r) \/ CrashReq(r) \/ TryAgain(r)
    PROVE  Calmly'
<1>0. DedupInv /\ CalmReq(r) /\ CalmKeys /\ CalmWork
  BY DEF Base, Calmly
<1>1. \A q \in Req : CalmReq(q)'
  BY CalmOther, CalmOwn
<1>2. KeysMoved(r) /\ RowsMoved(r) /\ Sends(r) /\ UNCHANGED <<wk, sw, ran, flag>>
  BY <1>0, ReqKeysMoved, ReqRowsMoved, ReqSends, ReqInv
<1>3. req[r].pc = "drop" => Untouched(req[r].id)
  BY <1>0 DEF CalmReq, Busy, Early, BusyReq
<1>4. ASSUME NEW i \in Id, Live(i), i \in ran \/ (\E m \in msgs : m.id = i)
             \/ (\E w \in Worker : wk[w].pc # "idle" /\ WId(w) = i)
      PROVE  Live(i)'
  <2>1. req[r].pc = "drop" => req[r].id # i
    BY <1>3, <1>4 DEF Untouched
  <2> QED
    BY <1>2, <1>4, <2>1, LiveStays
<1>5. CalmWork'
  <2>1. \A m \in msgs' : Live(m.id)'
    <3>1. ASSUME NEW m \in msgs PROVE Live(m.id)'
      <4>1. PICK i \in Id : i = m.id
        BY <1>0 DEF DedupInv, StoreOK, MsgRecord
      <4>2. Live(i)'
        BY <1>0, <1>4, <4>1 DEF CalmWork
      <4> QED
        BY <4>1, <4>2 DEF Live
    <3>2. CASE msgs' \subseteq msgs
      BY <3>1, <3>2
    <3>3. ASSUME Live(Mine(r)), UNCHANGED <<row, tomb, map>>,
                 NEW m \in MsgRecord, m.id = Mine(r), msgs' = msgs \cup {m}
          PROVE  \A n \in msgs' : Live(n.id)'
      BY <3>1, <3>3 DEF Live
    <3> QED
      BY <1>2, <3>2, <3>3 DEF Sends
  <2>2. \A i \in ran' : Live(i)'
    <3> SUFFICES ASSUME NEW i \in ran PROVE Live(i)'
      BY <1>2
    <3>1. i \in Id /\ Live(i)
      BY <1>0 DEF DedupInv, StoreOK, CalmWork
    <3> QED
      BY <1>4, <3>1
  <2>3. ASSUME NEW w \in Worker, wk'[w].pc # "idle"
        PROVE  Live(WId(w))' /\ wk'[w].pc \in Course
    <3>1. wk[w].pc # "idle" /\ wk' = wk
      BY <1>2, <2>3
    <3>2. PICK i \in Id : i = WId(w)
      BY <1>0, <3>1, WorkFacts
    <3>3. Live(i)'
      BY <1>0, <1>4, <3>1, <3>2 DEF CalmWork
    <3> QED
      BY <1>0, <3>1, <3>2, <3>3 DEF CalmWork, Live, WId
  <2> QED
    BY <2>1, <2>2, <2>3 DEF CalmWork
<1>6. CalmKeys'
  <2>1. claim'.st # "none" => map' = claim'.id
    <3>1. CASE UNCHANGED <<map, claim>>
      BY <1>0, <3>1 DEF CalmKeys
    <3>2. CASE map' \in Id /\ \E st \in {"claiming", "enqueueing", "enqueued"} : claim' = Claim(st, map', r)
      BY <3>2, ClaimType
    <3>3. CASE claim' = NoClaim
      BY <3>3, NoClaimType
    <3>4. Busy(r) => map \in Id
      BY BusyFacts
    <3> QED
      BY <1>2, <3>1, <3>2, <3>3, <3>4 DEF KeysMoved
  <2>2. parked' = NoId
    BY <1>0 DEF ReqStep, CrashReq, TryAgain, TryClaim, Admit, Guard, WriteRow, Reserve, Reguard, XAdd, Mark,
           RecoverMark, Park, GiveSlot, Drop, Xdel, GiveBack, Lost, Hit, NoRow, WaitRow, Orphan, RowHit, WaitMark, Adopt,
           ReAdd, ReMark, ReXdel, FireOwner, FireLook, FireDiscard, FireClear, redis, Marked, MarkFails, At,
           CalmKeys, CalmReq, Never
  <2> QED
    BY <1>0, <1>2, <2>1, <2>2 DEF CalmKeys
<1> QED
  BY <1>1, <1>5, <1>6 DEF Calmly

(* A step that leaves the requesters, the key and the tombstones alone,    *)
(* and writes only rows that exist and that no requester is early with.    *)
LEMMA CalmElsewhere ==
    ASSUME Base, Calmly, UNCHANGED <<req, map, tomb, accepted>>,
           \A i \in Id : Untouched(i) => \A m \in msgs' : m.id # i,
           claim' = claim \/ (claim' = NoClaim /\ \A q \in Req : ~Busy(q)),
           \A i \in Id : row'[i] = "none" <=> row[i] = "none",
           \A i \in Id : Untouched(i) => row'[i] = row[i] /\ i \notin ran' /\ i \notin flag',
           \A i \in Id : Untouched(i) => \A w \in Worker : wk'[w].pc # "idle" => WId(w)' # i
    PROVE  (\A q \in Req : CalmReq(q)') /\ \A i \in Id : Live(i) => Live(i)'
<1>1. \A i \in Id : Live(i) => Live(i)'
  BY DEF Live
<1>2. \A i \in Id : Untouched(i) => Untouched(i)'
  BY DEF Untouched
<1> SUFFICES ASSUME NEW q \in Req PROVE CalmReq(q)'
  BY <1>1
<1>3. CalmReq(q) /\ DedupInv
  BY DEF Calmly, Base
<1>4. (Busy(q)' <=> Busy(q)) /\ (Early(q)' <=> Early(q)) /\ Mine(q)' = Mine(q)
  BY DEF Busy, Early, Adopter, Mine
<1>5. ASSUME Busy(q) PROVE BusyReq(q)'
  <2>1. BusyReq(q) /\ claim' = claim /\ Mine(q) \in Id
    BY <1>3, <1>5, BusyFacts DEF CalmReq
  <2>2. Early(q) => Untouched(req[q].id)'
    <3> HAVE Early(q)
    <3>1. PICK i \in Id : i = req[q].id /\ Untouched(i)
      BY <2>1 DEF BusyReq, Mine, Early, Adopter
    <3>2. Untouched(i)'
      BY <1>2, <3>1
    <3> QED
      BY <3>1, <3>2 DEF Untouched, WId
  <2>3. Live(Mine(q)) => Live(Mine(q))'
    <3> HAVE Live(Mine(q))
    <3>1. PICK i \in Id : i = Mine(q)
      BY <2>1
    <3> QED
      BY <1>1, <1>4, <3>1 DEF Live
  <2> QED
    BY <1>4, <2>1, <2>2, <2>3 DEF BusyReq
<1>6. /\ req[q].pc = "giveback" => req[q].id \in Id
      /\ req[q].pc = "clear" => req[q].to \in Id
  BY <1>3, ReqIds DEF OwnPc, ToPc
<1> QED
  BY <1>3, <1>4, <1>5, <1>6 DEF CalmReq

(* The steps of workers keep the invariant. *)
LEMMA CalmByWorker ==
    ASSUME Base, Calmly, NEW w \in Worker, WorkerStep(w) \/ CrashWorker(w)
    PROVE  Calmly'
<1> USE DEF WAt
<1>0. DedupInv /\ CalmKeys /\ CalmWork
  BY DEF Base, Calmly
<1>1. WMoved(w) /\ UNCHANGED <<req, sw, claim, parked, tomb, flag, accepted>>
  BY <1>0, WorkInv
<1>2. wk[w].pc # "idle" => \E i \in Id : /\ i = WId(w) /\ Live(i) /\ ~Untouched(i)
                                         /\ wk[w].pc \in Course
  BY <1>0, WorkFacts DEF CalmWork, Untouched
<1>3. map' = map
  BY <1>2 DEF Course, WorkerStep, CrashWorker, Take, Gate, DeferSend, DeferAck, CheckTomb, WorkerClaim, WorkerHit, ReleaseGet,
              ReleaseDel, StartFlow, Finish, redis, Live
<1>4. /\ \A m \in msgs' : m \in msgs \/ (m.id = WId(w) /\ wk[w].pc # "idle")
      /\ \A i \in Id : Untouched(i) => \A m \in msgs' : m.id # i
  <2>1. CASE DeferSend(w)
    BY <1>2, <2>1 DEF DeferSend, Send, Untouched
  <2>2. CASE ~DeferSend(w)
    <3>1. msgs' \subseteq msgs
      BY <1>0, <2>2, WorkMoves DEF WorkerStep, CrashWorker, Take, Gate, CheckTomb, WorkerClaim, Acks, redis
    <3> QED
      BY <3>1 DEF Untouched
  <2> QED
    BY <2>1, <2>2
<1>5. \/ UNCHANGED <<row, ran>>
      \/ \E i \in Id : /\ i = WId(w) /\ Live(i) /\ ~Untouched(i) /\ ran' \subseteq ran \cup {i}
                       /\ \E st \in {"running", "done", "cancelled"} : row' = [row EXCEPT ![i] = st]
  <2>1. CASE StartFlow(w) \/ Finish(w)
    <3>1. PICK i \in Id : i = WId(w) /\ Live(i) /\ ~Untouched(i)
      BY <1>2, <2>1 DEF StartFlow, Finish
    <3>2. \/ UNCHANGED <<row, ran>>
          \/ /\ ran' \subseteq ran \cup {i}
             /\ \E st \in {"running", "done", "cancelled"} : row' = [row EXCEPT ![i] = st]
      <4>1. Finish(w) => ran' = ran
        BY DEF Finish, history
      <4> QED
        BY <1>0, <2>1, <3>1, <4>1, WorkMoves DEF Final
    <3> QED
      BY <3>1, <3>2
  <2>2. CASE ~(StartFlow(w) \/ Finish(w))
    BY <2>2 DEF WorkerStep, CrashWorker, Take, Gate, DeferSend, DeferAck, CheckTomb, WorkerClaim, WorkerHit,
                ReleaseGet, ReleaseDel, redis, history
  <2> QED
    BY <2>1, <2>2
<1>6. \A i \in Id : row'[i] = "none" <=> row[i] = "none"
  BY <1>5 DEF Live, Base, DedupInv, StoreOK
<1>7. \A i \in Id : Untouched(i) => row'[i] = row[i] /\ i \notin ran' /\ i \notin flag'
  BY <1>1, <1>5 DEF Untouched, Base, DedupInv, StoreOK
<1>8. wk'[w].pc # "idle" => \/ wk'[w].msg \in msgs /\ wk'[w].pc = "gate"
                            \/ /\ wk'[w].msg = wk[w].msg /\ wk[w].pc # "idle"
                               /\ wk'[w].pc \in Course
  <2>1. CASE Take(w)
    BY <1>0, <2>1, TakeMoves
  <2>2. CASE WIdles(w)
    BY <2>2 DEF WIdles
  <2>3. CASE ~Take(w) /\ ~WIdles(w)
    <3>1. wk[w].pc # "idle"
      BY <1>0, <2>3, WorkMoves DEF WorkerStep, Gate, DeferSend, DeferAck, CheckTomb, WorkerClaim, WorkerHit,
             ReleaseGet, ReleaseDel, StartFlow, Finish
    <3>2. WId(w) \notin tomb /\ map = WId(w) /\ wk[w].pc \in Course
      BY <1>2, <3>1 DEF Live
    <3>3. \E pc \in {"defer", "deferred", "check", "claim", "start", "run"} : WGoes(w, pc)
      BY <1>0, <2>3, <3>2, WorkMoves DEF Course, WorkerStep, WorkerHit, ReleaseGet, ReleaseDel, Acks
    <3> QED
      BY <3>1, <3>3 DEF Course, WGoes
  <2> QED
    BY <2>1, <2>2, <2>3
<1>9. \A i \in Id : Untouched(i) => \A v \in Worker : wk'[v].pc # "idle" => WId(v)' # i
  <2> SUFFICES ASSUME NEW i \in Id, Untouched(i), NEW v \in Worker, wk'[v].pc # "idle" PROVE WId(v)' # i
    OBVIOUS
  <2>1. CASE v # w
    BY <1>1, <2>1 DEF WMoved, Untouched, WId
  <2>2. CASE v = w
    BY <1>8, <2>2 DEF Untouched, WId
  <2> QED
    BY <2>1, <2>2
<1>10. (\A q \in Req : CalmReq(q)') /\ \A i \in Id : Live(i) => Live(i)'
  BY <1>1, <1>3, <1>4, <1>6, <1>7, <1>9, CalmElsewhere
<1>11. CalmWork'
  <2>1. \A m \in msgs' : Live(m.id)'
    <3> SUFFICES ASSUME NEW m \in msgs' PROVE Live(m.id)'
      OBVIOUS
    <3>1. PICK i \in Id : i = m.id /\ Live(i)
      BY <1>0, <1>2, <1>4 DEF DedupInv, StoreOK, MsgRecord, CalmWork
    <3> QED
      BY <1>10, <3>1 DEF Live
  <2>2. \A i \in ran' : Live(i)'
    BY <1>0, <1>5, <1>10 DEF DedupInv, StoreOK, CalmWork
  <2>3. ASSUME NEW v \in Worker, wk'[v].pc # "idle"
        PROVE  Live(WId(v))' /\ wk'[v].pc \in Course
    <3>1. CASE v # w
      <4>1. wk'[v] = wk[v]
        BY <1>1, <3>1 DEF WMoved
      <4>2. PICK i \in Id : i = WId(v) /\ Live(i)
        BY <1>0, <2>3, <4>1, WorkFacts DEF CalmWork
      <4>3. Live(i)'
        BY <1>10, <4>2
      <4> QED
        BY <1>0, <2>3, <4>1, <4>2, <4>3 DEF Live, WId, CalmWork
    <3>2. CASE v = w
      <4>1. PICK i \in Id : i = wk'[w].msg.id /\ Live(i)
        <5>1. CASE wk'[w].msg \in msgs
          BY <1>0, <5>1 DEF DedupInv, StoreOK, MsgRecord, CalmWork
        <5>2. CASE wk'[w].msg = wk[w].msg /\ wk[w].pc # "idle"
          BY <1>2, <5>2 DEF WId
        <5> QED
          BY <1>8, <2>3, <3>2, <5>1, <5>2
      <4>2. Live(i)'
        BY <1>10, <4>1
      <4> QED
        BY <1>8, <2>3, <3>2, <4>1, <4>2 DEF Live, WId, Course
    <3> QED
      BY <3>1, <3>2
  <2> QED
    BY <2>1, <2>2, <2>3 DEF CalmWork
<1>12. CalmKeys'
  BY <1>0, <1>1, <1>3 DEF CalmKeys
<1> QED
  BY <1>10, <1>11, <1>12 DEF Calmly

(* Users, expiries and the sweeper keep the invariant. *)
LEMMA CalmByOthers ==
    ASSUME Base, Calmly, Quiet', Outside \/ ClaimExpires \/ Sweep
    PROVE  Calmly'
<1>0. DedupInv /\ CalmKeys /\ CalmWork
  BY DEF Base, Calmly
<1>1. ~Sweep
  BY <1>0 DEF CalmKeys, Sweep, SweepLook, SweepDelete, SweepRelease, SweepClear
<1>2. UNCHANGED <<req, wk, sw, map, parked, msgs, accepted, ran>>
  BY <1>0, <1>1, OutsideInv
<1>3. \A i \in Id : ~Delete(i)
  BY <1>0, QuietSpends DEF Delete
<1>4. tomb' = tomb
  BY <1>1, <1>3 DEF Outside, ClaimExpires, CancelQueued, CancelRow, SlotExpires
<1>5. claim' = claim \/ (claim' = NoClaim /\ \A q \in Req : ~Busy(q))
  <2>1. CASE Outside
    BY <1>3, <2>1 DEF Outside, CancelQueued, CancelRow, SlotExpires
  <2>2. CASE ClaimExpires
    <3>1. ~HolderAtWork /\ claim' = NoClaim
      BY <1>0, <2>2, QuietSpends DEF ClaimExpires
    <3>2. ASSUME NEW q \in Req, Busy(q) PROVE HolderAtWork
      <4>1. claim.by = q /\ claim.id = Mine(q)
        BY <3>2, BusyFacts
      <4> QED
        BY <4>1 DEF HolderAtWork, Mine, Adopter
    <3> QED
      BY <3>1, <3>2
  <2> QED
    BY <1>1, <2>1, <2>2
<1>6. \A i \in Id : row'[i] = "none" <=> row[i] = "none"
  BY <1>0, <1>1, <1>3 DEF Outside, ClaimExpires, CancelQueued, CancelRow, SlotExpires, DedupInv, StoreOK
<1>7. \A i \in Id : Untouched(i) => row'[i] = row[i] /\ i \notin ran' /\ i \notin flag'
  BY <1>0, <1>1, <1>2, <1>3 DEF Outside, ClaimExpires, CancelQueued, CancelRow, SlotExpires, DedupInv, StoreOK, Untouched
<1>8. \A i \in Id : Untouched(i) => /\ \A w \in Worker : wk'[w].pc # "idle" => WId(w)' # i
                                    /\ \A m \in msgs' : m.id # i
  BY <1>2 DEF Untouched, WId
<1>9. (\A q \in Req : CalmReq(q)') /\ \A i \in Id : Live(i) => Live(i)'
  <2>1. \A i \in Id : Untouched(i) => \A m \in msgs' : m.id # i
    BY <1>8
  <2>2. \A i \in Id : Untouched(i) => \A w \in Worker : wk'[w].pc # "idle" => WId(w)' # i
    BY <1>8
  <2>3. UNCHANGED <<req, map, tomb, accepted>>
    BY <1>2, <1>4
  <2> QED
    BY <1>5, <1>6, <1>7, <2>1, <2>2, <2>3, CalmElsewhere
<1>10. CalmWork'
  <2>1. \A m \in msgs : m.id \in Id
    BY <1>0 DEF DedupInv, StoreOK, MsgRecord
  <2>2. \A w \in Worker : wk[w].pc # "idle" => WId(w) \in Id
    BY <1>0, WorkFacts
  <2>3. \A m \in msgs' : Live(m.id)'
    BY <1>0, <1>2, <1>9, <2>1 DEF CalmWork, Live
  <2>4. \A i \in ran' : Live(i)'
    BY <1>0, <1>2, <1>9 DEF CalmWork, Live, DedupInv, StoreOK
  <2>5. ASSUME NEW w \in Worker, wk'[w].pc # "idle"
        PROVE  Live(WId(w))' /\ wk'[w].pc \in Course
    <3>1. PICK i \in Id : i = WId(w) /\ Live(i)
      BY <1>0, <1>2, <2>2, <2>5 DEF CalmWork
    <3>2. Live(i)'
      BY <1>9, <3>1
    <3> QED
      BY <1>0, <1>2, <2>5, <3>1, <3>2 DEF CalmWork, Live, WId
  <2> QED
    BY <2>3, <2>4, <2>5 DEF CalmWork
<1>11. CalmKeys'
  BY <1>0, <1>2, <1>5, NoClaimType DEF CalmKeys
<1> QED
  BY <1>9, <1>10, <1>11 DEF Calmly

(* Every step keeps the invariant. *)
LEMMA CalmNext ==
    ASSUME Base, CalmInv, [Next]_vars
    PROVE  CalmInv'
<1> SUFFICES ASSUME Quiet' PROVE Calmly'
  BY DEF CalmInv
<1>1. Quiet /\ Calmly
  BY DedupInvNext, QuietBefore DEF Base, CalmInv
<1>2. CASE UNCHANGED vars
  BY <1>1, <1>2 DEF vars, redis, history, Calmly, CalmKeys, CalmWork, CalmReq, BusyReq, Busy, Early, Adopter,
                    Mine, Live, Untouched, WId
<1> QED
  BY <1>1, <1>2, CalmByReq, CalmByWorker, CalmByOthers DEF Next, Outside

(* What StartDedup_proofs proves, as one fact. *)
LEMMA BaseHolds == Spec => []Base
BY DedupInvariant, DedupCovered, PTL DEF Base

(* While all is calm, the key belongs to the one busy requester, and all   *)
(* that was sent or has run to the id under the key.                       *)
THEOREM CalmInvariant == Spec => []CalmInv
<1>1. Init => CalmInv
  <2> SUFFICES ASSUME Init PROVE Calmly
    BY DEF CalmInv
  <2>1. \A r \in Req : req[r].pc = "claim"
    BY DEF Init, ReqAt
  <2>2. \A w \in Worker : wk[w].pc = "idle"
    BY DEF Init, Idle
  <2>3. sw.pc = "idle" /\ parked = NoId /\ msgs = {} /\ ran = {} /\ claim.st = "none"
    BY DEF Init, NoClaim
  <2> QED
    BY <2>1, <2>2, <2>3 DEF Calmly, CalmKeys, CalmWork, CalmReq, Busy, Early, Adopter, Never
<1>2. Base /\ CalmInv /\ [Next]_vars => CalmInv'
  BY CalmNext
<1> QED
  BY <1>1, <1>2, BaseHolds, PTL DEF Spec

(* The key starts one execution: at most one id ever runs, for any number  *)
(* of requesters, workers and crashes, while no requester is slower than   *)
(* its claim, no mark goes unanswered and no execution is deleted.         *)
THEOREM DedupOneIdRuns == Spec => []OneIdRuns
<1>1. CalmInv => OneIdRuns
  BY DEF CalmInv, Calmly, CalmWork, Live, OneIdRuns, Quiet, Calm
<1> QED
  BY <1>1, CalmInvariant, PTL

-----------------------------------------------------------------------------
(* A claim marked enqueued is final under the same conditions: no guard,   *)
(* reservation, adoption or release of another requester takes it away.    *)
THEOREM DedupEnqueuedIsFinal == Spec => EnqueuedIsFinal
<1> DEFINE A == /\ Calm({"slow", "delete", "mark"})
                /\ claim.st = "enqueued" /\ claim' # claim
                => claim.id \in tomb'
<1>1. Base /\ CalmInv /\ [Next]_vars => [A]_vars
  <2> SUFFICES ASSUME Base, CalmInv, Next, Quiet, claim.st = "enqueued", claim' # claim
               PROVE  claim.id \in tomb'
    BY DEF Quiet
  <2>1. Calmly /\ DedupInv /\ map = claim.id /\ map \in Id
    BY DEF CalmInv, Calmly, CalmKeys, Base, DedupInv, KeysOK
  <2>2. claim # NoClaim /\ \A r \in Req : ~Busy(r)
    BY <2>1, BusyFacts, NoClaimType DEF InFlight
  <2>3. CASE \E r \in Req : ReqStep(r) \/ CrashReq(r) \/ TryAgain(r)
    <3>1. PICK r \in Req : ReqStep(r) \/ CrashReq(r) \/ TryAgain(r)
      BY <2>3
    <3>2. KeysMoved(r) /\ RowsMoved(r)
      BY <2>1, <3>1, ReqKeysMoved, ReqRowsMoved
    <3>3. map \in tomb
      BY <2>1, <2>2, <3>2, DedupConstants DEF KeysMoved
    <3> QED
      BY <2>1, <3>2, <3>3 DEF RowsMoved
  <2>4. CASE \E w \in Worker : WorkerStep(w) \/ CrashWorker(w)
    BY <2>1, <2>4, WorkInv
  <2>5. CASE Outside \/ ClaimExpires
    BY <2>5 DEF Outside, ClaimExpires, InFlight, CancelQueued, CancelRow, Delete, SlotExpires
  <2>6. CASE Sweep
    BY <2>1, <2>6 DEF Calmly, CalmKeys, Sweep, SweepLook, SweepDelete, SweepRelease, SweepClear
  <2> QED
    BY <2>3, <2>4, <2>5, <2>6 DEF Next, Outside
<1>2. Spec => [][A]_vars
  BY <1>1, BaseHolds, CalmInvariant, PTL DEF Spec
<1> QED
  BY <1>2 DEF EnqueuedIsFinal

(* Under the same conditions, no requester that fails takes back, and no   *)
(* sweeper clears, what a caller was told is started.                      *)
THEOREM DedupAcceptedNotUndone == Spec => AcceptedNotUndone
<1> DEFINE A == \A i \in accepted :
                  /\ Calm({"slow", "delete", "mark", "remark"})
                  /\ i \in tomb' \ tomb
                  => left'.now["delete"] # left.now["delete"]
<1>1. Base /\ CalmInv /\ [Next]_vars => [A]_vars
  <2> SUFFICES ASSUME Base, CalmInv, Next, Quiet, NEW i \in accepted, i \in tomb' \ tomb
               PROVE  left'.now["delete"] # left.now["delete"]
    BY DEF Quiet, Calm
  <2>1. Calmly /\ DedupInv
    BY DEF CalmInv, Base
  <2>2. CASE \E r \in Req : ReqStep(r) \/ CrashReq(r) \/ TryAgain(r)
    <3>1. PICK r \in Req : ReqStep(r) \/ CrashReq(r) \/ TryAgain(r)
      BY <2>2
    <3>2. RowsMoved(r)
      BY <2>1, <3>1, ReqRowsMoved
    <3>3. req[r].pc = "drop" /\ i = req[r].id
      BY <3>2 DEF RowsMoved
    <3>4. Untouched(i)
      BY <2>1, <3>3 DEF Calmly, CalmReq, Busy, Early, BusyReq
    <3> QED
      BY <3>4 DEF Untouched
  <2>3. CASE \E w \in Worker : WorkerStep(w) \/ CrashWorker(w)
    BY <2>1, <2>3, WorkInv
  <2>4. CASE Outside \/ ClaimExpires
    <3>1. Spend("delete")
      BY <2>4 DEF Outside, ClaimExpires, CancelQueued, CancelRow, Delete, SlotExpires
    <3>2. left.now \in [Trouble -> Nat \cup {Unlimited}] /\ left.now["delete"] \in Nat /\ "delete" \in Trouble
      <4>1. "delete" \in Trouble /\ "delete" \in Counted
        BY DEF Counted, Trouble
      <4> QED
        BY <2>1, <4>1 DEF DedupInv, LeftOK, LeftRecord
    <3>3. left.now["delete"] # Unlimited
      BY <3>2, DedupConstants
    <3>4. left' = [left EXCEPT !.now = [left.now EXCEPT !["delete"] = left.now["delete"] - 1]]
      BY <3>1, <3>3 DEF Spend
    <3>5. left'.now["delete"] = left.now["delete"] - 1
      BY <2>1, <3>2, <3>4 DEF DedupInv, LeftOK
    <3> QED
      BY <3>2, <3>5
  <2>5. CASE Sweep
    BY <2>1, <2>5 DEF Calmly, CalmKeys, Sweep, SweepLook, SweepDelete, SweepRelease, SweepClear
  <2> QED
    BY <2>2, <2>3, <2>4, <2>5 DEF Next, Outside
<1>2. Spec => [][A]_vars
  BY <1>1, BaseHolds, CalmInvariant, PTL DEF Spec
<1> QED
  BY <1>2 DEF AcceptedNotUndone

-----------------------------------------------------------------------------
(* When no recovery fails either, what is marked, what is about to be      *)
(* marked and what a caller was told can still run, has run or is deleted; *)
(* and a requester that saw a row past queued saw the truth.               *)
Steady == Calm({"slow", "delete", "mark", "remark", "readd"})
Settled(i) == i \in tomb \/ row[i] \in {"running"} \cup Final
(* A message that may be acknowledged: a newer one is in the stream, or its *)
(* execution has come further than that.                                   *)
Copied(m) == Settled(m.id) \/ \E x \in msgs : x.id = m.id /\ x.n > m.n
CarriedReq(r) ==
    /\ req[r].pc # "rexdel"
    /\ req[r].pc = "mark" => Carried(req[r].id)
    /\ req[r].pc = "remark" => Carried(req[r].to)
    /\ req[r].st \in {"running"} \cup Final => req[r].to \in Id /\ Settled(req[r].to)
CarriedAll ==
    /\ \A i \in accepted : Carried(i)
    /\ claim.st = "enqueued" => Carried(claim.id)
    /\ \A r \in Req : CarriedReq(r)
    /\ \A w \in Worker : wk[w].pc = "run" => Settled(WId(w))
    /\ \A w \in Worker : wk[w].pc = "deferred" => Copied(wk[w].msg)
CarriedInv == Steady => CarriedAll

(* Messages are numbered as they are sent. *)
Numbered ==
    /\ \A m \in msgs : m.n <= sent
    /\ \A w \in Worker : wk[w].pc # "idle" => wk[w].msg.n <= sent

(* No step takes a number twice. *)
LEMMA NumberedNext ==
    ASSUME DedupInv, Numbered, [Next]_vars
    PROVE  Numbered'
<1>1. \/ msgs' \subseteq msgs /\ sent' = sent
      \/ \E i \in Id, d \in 0 .. DeferMax + 1 : Send(i, d)
  <2>1. ASSUME NEW r \in Req, ReqStep(r) \/ CrashReq(r) \/ TryAgain(r)
        PROVE  \/ msgs' \subseteq msgs /\ sent' = sent
               \/ \E i \in Id : Send(i, 0)
    <3>1. CASE XAdd(r) \/ ReAdd(r)
      <4>1. /\ XAdd(r) => req[r].id \in Id
            /\ ReAdd(r) => req[r].to \in Id
        BY ReqIds DEF XAdd, ReAdd, At, OwnPc, ToPc
      <4> QED
        BY <3>1, <4>1 DEF XAdd, ReAdd
    <3>2. CASE ~(XAdd(r) \/ ReAdd(r))
      BY <2>1, <3>2 DEF ReqStep, CrashReq, TryAgain, TryClaim, Admit, Guard, WriteRow, Reserve, Reguard, Mark,
         RecoverMark, Park, GiveSlot, Drop, Xdel, GiveBack, Lost, Hit, NoRow, WaitRow, Orphan, RowHit, WaitMark,
         Adopt, ReMark, ReXdel, FireOwner, FireLook, FireDiscard, FireClear, redis
    <3> QED
      BY <3>1, <3>2
  <2>2. ASSUME NEW w \in Worker, WorkerStep(w) \/ CrashWorker(w)
        PROVE  \/ msgs' \subseteq msgs /\ sent' = sent
               \/ \E i \in Id, d \in 0 .. DeferMax + 1 : Send(i, d)
    <3>1. CASE DeferSend(w)
      <4>1. WId(w) \in Id /\ wk[w].msg.defers + 1 \in 0 .. DeferMax + 1
        BY <3>1, WorkFacts, DedupConstants DEF DeferSend, WAt, MsgRecord, DedupInv, WorkersOK, WorkOK
      <4> QED
        BY <3>1, <4>1 DEF DeferSend
    <3>2. CASE ~DeferSend(w)
      BY <2>2, <3>2 DEF WorkerStep, CrashWorker, Take, Gate, DeferAck, CheckTomb, WorkerClaim, WorkerHit,
                        ReleaseGet, ReleaseDel, AfterRelease, StartFlow, Finish, Ack, redis
    <3> QED
      BY <3>1, <3>2
  <2>3. ASSUME Outside \/ ClaimExpires \/ Sweep \/ UNCHANGED vars
        PROVE  msgs' = msgs /\ sent' = sent
    BY <2>3 DEF Outside, CancelQueued, CancelRow, Delete, SlotExpires, ClaimExpires, Sweep, SweepLook,
                SweepDelete, SweepRelease, SweepClear, vars, redis
  <2> QED
    BY <2>1, <2>2, <2>3, DedupConstants DEF Next, Outside
<1>2. sent' >= sent /\ sent' \in Nat /\ sent \in Nat /\ \A m \in msgs' : m \in msgs \/ m.n = sent'
  <2>1. sent \in Nat /\ sent' \in Nat
    BY DedupInvNext DEF DedupInv, StoreOK
  <2>2. ASSUME NEW i \in Id, NEW d \in 0 .. DeferMax + 1, Send(i, d)
        PROVE  sent' = sent + 1 /\ \A m \in msgs' : m \in msgs \/ m.n = sent'
    BY <2>2 DEF Send
  <2> QED
    BY <1>1, <2>1, <2>2
<1>3. \A m \in msgs : m.n \in Nat
  BY DEF DedupInv, StoreOK, MsgRecord
<1>4. \A m \in msgs' : m.n <= sent'
  BY <1>2, <1>3 DEF Numbered
<1>5. ASSUME NEW w \in Worker, wk'[w].pc # "idle"
      PROVE  wk'[w].msg \in msgs \/ (wk[w].pc # "idle" /\ wk'[w].msg = wk[w].msg)
  <2>1. ASSUME NEW v \in Worker, WorkerStep(v) \/ CrashWorker(v)
        PROVE  wk'[w].msg \in msgs \/ (wk[w].pc # "idle" /\ wk'[w].msg = wk[w].msg)
    <3>1. CASE v # w
      BY <1>5, <2>1, <3>1, WorkInv DEF WMoved
    <3>2. CASE v = w
      <4>1. CASE Take(w)
        BY <4>1, TakeMoves
      <4>2. CASE ~Take(w)
        <5>1. wk[w].pc # "idle"
          BY <2>1, <3>2, <4>2 DEF WorkerStep, CrashWorker, Gate, DeferSend, DeferAck, CheckTomb, WorkerClaim,
                                  WorkerHit, ReleaseGet, ReleaseDel, StartFlow, Finish, WAt
        <5>2. wk'[w].msg = wk[w].msg
          <6>1. CASE CrashWorker(w)
            BY <1>5, <6>1, IdleMoves DEF CrashWorker, WIdles
          <6> QED
            BY <1>5, <2>1, <3>2, <4>2, <6>1, WorkMoves DEF WorkerStep, WGoes, Acks, WIdles
        <5> QED
          BY <5>1, <5>2
      <4> QED
        BY <4>1, <4>2
    <3> QED
      BY <3>1, <3>2
  <2>2. CASE wk' = wk
    BY <1>5, <2>2
  <2>3. ASSUME NEW r \in Req, ReqStep(r) \/ CrashReq(r) \/ TryAgain(r)
        PROVE  wk' = wk
    BY <2>3, ReqInv
  <2>4. ASSUME Outside \/ ClaimExpires \/ Sweep \/ UNCHANGED vars
        PROVE  wk' = wk
    BY <2>4, OutsideInv, SweepInv DEF vars
  <2> QED
    BY <2>1, <2>2, <2>3, <2>4 DEF Next, Outside
<1>6. ASSUME NEW w \in Worker, wk'[w].pc # "idle" PROVE wk'[w].msg.n <= sent'
  <2>1. CASE wk'[w].msg \in msgs
    BY <1>2, <1>3, <2>1 DEF Numbered
  <2>2. CASE wk[w].pc # "idle" /\ wk'[w].msg = wk[w].msg
    <3>1. wk[w].msg.n \in Nat /\ wk[w].msg.n <= sent
      BY <2>2, WorkFacts DEF Numbered, DedupInv, WorkersOK, WorkOK, MsgRecord
    <3> QED
      BY <1>2, <2>2, <3>1
  <2> QED
    BY <1>5, <1>6, <2>1, <2>2
<1> QED
  BY <1>4, <1>6 DEF Numbered

(* A step into a steady state was taken from one and spends no recovery. *)
LEMMA SteadyFacts ==
    ASSUME DedupInv, Budgets, Steady'
    PROVE  /\ Steady /\ Quiet /\ Quiet'
           /\ ~Spend("remark") /\ ~Spend("readd") /\ ~Spend("delete")
<1>1. Steady /\ Quiet /\ Quiet'
  BY DEF Budgets, Steady, Quiet, Calm, Counted, Trouble
<1>2. ASSUME NEW t \in {"remark", "readd", "delete"}, Spend(t) PROVE FALSE
  <2>1. Happened(t)'
    BY <1>2, Spent DEF Counted, Trouble
  <2> QED
    BY <2>1 DEF Steady, Calm
<1> QED
  BY <1>1, <1>2

(* What no message is taken from stays copied. *)
LEMMA CopiesStay ==
    ASSUME DedupInv, CarriedAll, wk' = wk, msgs \subseteq msgs', \A i \in Id : Settled(i) => Settled(i)'
    PROVE  \A w \in Worker : wk'[w].pc = "deferred" => Copied(wk[w].msg)'
<1> SUFFICES ASSUME NEW w \in Worker, wk[w].pc = "deferred" PROVE Copied(wk[w].msg)'
  OBVIOUS
<1>1. PICK i \in Id : i = wk[w].msg.id
  BY WorkFacts DEF WId
<1>2. Copied(wk[w].msg)
  BY DEF CarriedAll
<1> QED
  BY <1>1, <1>2 DEF Copied, Settled

(* The steps of requesters keep accepted ids carried. *)
LEMMA CarriedByReq ==
    ASSUME Base, Calmly, CarriedAll, Steady', NEW r \in Req, ReqStep(r) \/ CrashReq(r) \/ TryAgain(r)
    PROVE  CarriedAll'
<1> USE DEF At
<1>0. DedupInv /\ CalmReq(r) /\ CarriedReq(r)
  BY DEF Base, Calmly, CarriedAll
<1>1. /\ RowsMoved(r) /\ Tells(r) /\ Sends(r) /\ Reads(r) /\ Moved(r) /\ UNCHANGED <<wk, ran>>
      /\ Quiet' /\ ~Spend("remark") /\ ~Spend("readd")
  BY <1>0, ReqRowsMoved, ReqTells, ReqSends, ReqReads, ReqInv, SteadyFacts
<1>2. req[r].pc = "write" => row[req[r].id] = "none" /\ req[r].id \notin tomb /\ req[r].id \in Id
  BY <1>0, ReqIds DEF Base, FreshInv, FreshReq, Fresh, Before, OwnPc
<1>3. \A i \in Id : Settled(i) => Settled(i)'
  BY <1>1, <1>2 DEF RowsMoved, Settled, Final, Base, DedupInv, StoreOK
<1>4. msgs \subseteq msgs'
  <2>1. ~ReXdel(r)
    BY <1>0 DEF ReXdel, CarriedReq
  <2>2. ~Xdel(r)
    BY <1>0 DEF Xdel, CalmReq, Never
  <2> QED
    BY <2>1, <2>2 DEF ReqStep, CrashReq, TryAgain, TryClaim, Admit, Guard, WriteRow, Reserve, Reguard, XAdd, Mark,
         RecoverMark, Park, GiveSlot, Drop, GiveBack, Lost, Hit, NoRow, WaitRow, Orphan, RowHit, WaitMark, Adopt,
         ReAdd, ReMark, FireOwner, FireLook, FireDiscard, FireClear, redis, Send
<1>5. \A i \in Id : Carried(i) => Carried(i)'
  BY <1>3, <1>4 DEF Carried, Settled
<1>6. \A i \in accepted' : Carried(i)'
  <2>1. accepted \subseteq Id
    BY <1>0 DEF DedupInv, StoreOK
  <2> SUFFICES ASSUME NEW i \in accepted' \ accepted PROVE Carried(i)'
    BY <1>5, <2>1 DEF CarriedAll
  <2>2. CASE Busy(r) /\ ~Early(r) /\ i = Mine(r)
    <3>1. req[r].pc # "readd"
      <4>1. ReAdd(r) => accepted' = accepted
        BY <1>0, <1>1, ToMoves
      <4> QED
        BY <4>1 DEF ReqStep, CrashReq, TryAgain, TryClaim, Admit, Guard, WriteRow, Reserve, Reguard, XAdd, Mark,
         RecoverMark, Park, GiveSlot, Drop, Xdel, GiveBack, Lost, Hit, NoRow, WaitRow, Orphan, RowHit, WaitMark, Adopt,
         ReMark, ReXdel, FireOwner, FireLook, FireDiscard, FireClear, history, Rest
    <3>2. Carried(i) /\ i \in Id
      BY <1>0, <2>2, <3>1, BusyFacts DEF CarriedReq, Busy, Adopter, Mine
    <3> QED
      BY <1>5, <3>2
  <2>3. CASE OwnerIs({"enqueued"}, i)
    <3>1. Carried(i) /\ i \in Id
      BY <1>0, <2>3 DEF OwnerIs, CarriedAll, DedupInv, KeysOK
    <3> QED
      BY <1>5, <3>1
  <2>4. CASE i = req[r].to /\ req[r].pc = "row" /\ req[r].st # "queued"
    <3>1. req[r].st \in {"running"} \cup Final
      BY <1>0, <2>4, ReqFacts DEF ReqOK, ReqRecord, RowStatus, Final
    <3>2. i \in Id /\ Settled(i)
      BY <1>0, <2>4, <3>1 DEF CarriedReq
    <3> QED
      BY <1>5, <3>2 DEF Settled, Carried
  <2> QED
    BY <1>1, <2>2, <2>3, <2>4 DEF Tells
<1>7. claim'.st = "enqueued" => Carried(claim.id)'
  <2>1. claim' = claim => (claim'.st = "enqueued" => Carried(claim.id)')
    <3> SUFFICES ASSUME claim' = claim, claim.st = "enqueued" PROVE Carried(claim.id)'
      OBVIOUS
    <3>1. PICK i \in Id : i = claim.id /\ Carried(i)
      BY <1>0 DEF CarriedAll, DedupInv, KeysOK
    <3> QED
      BY <1>5, <3>1 DEF Carried
  <2>2. CASE Mark(r) \/ ReMark(r)
    <3>1. Busy(r)
      BY <1>0, <2>2 DEF Mark, ReMark, CalmReq, Never, Busy, Adopter
    <3>2. PICK i \in Id : i = Mine(r) /\ Carried(i)
      BY <1>0, <2>2, <3>1, BusyFacts DEF Mark, ReMark, CalmReq, Never, Mine, Adopter, CarriedReq
    <3>3. claim' = claim \/ claim' = Claim("enqueued", i, r)
      BY <1>0, <2>2, <3>2 DEF Mark, ReMark, Marked, MarkFails, Mine, Adopter, CalmReq, Never
    <3>4. Carried(i)'
      BY <1>5, <3>2
    <3>5. ASSUME claim' = Claim("enqueued", i, r) PROVE Carried(claim.id)'
      BY <3>4, <3>5, ClaimType DEF Carried
    <3> QED
      BY <2>1, <3>3, <3>5
  <2>3. CASE ~(Mark(r) \/ ReMark(r))
    <3>1. \/ claim' = claim \/ claim' = NoClaim
          \/ \E st \in {"claiming", "enqueueing"}, i \in Id : claim' = Claim(st, i, r)
      <4>1. CASE TryClaim(r)
        BY <1>0, <4>1, ClaimMoves
      <4>2. CASE Guard(r) \/ Reserve(r) \/ Reguard(r) \/ RecoverMark(r)
        <5>1. req[r].id \in Id
          BY <1>0, <4>2, ReqIds DEF Guard, Reserve, Reguard, RecoverMark, OwnPc
        <5> QED
          BY <4>2, <5>1 DEF Guard, Reserve, Reguard, RecoverMark
      <4>3. CASE Adopt(r)
        <5>1. req[r].to \in Id
          BY <1>0, <4>3, ReqIds DEF Adopt, ToPc
        <5> QED
          BY <4>3, <5>1 DEF Adopt
      <4>4. CASE ~(TryClaim(r) \/ Guard(r) \/ Reserve(r) \/ Reguard(r) \/ RecoverMark(r) \/ Adopt(r))
        BY <2>3, <4>4 DEF ReqStep, CrashReq, TryAgain, Admit, WriteRow, XAdd, Park, GiveSlot, Drop, Xdel, GiveBack, Lost, Hit, NoRow,
           WaitRow, Orphan, RowHit, WaitMark, ReAdd, ReXdel, FireOwner, FireLook, FireDiscard, FireClear, redis,
           ReleaseIf
      <4> QED
        BY <4>1, <4>2, <4>3, <4>4
    <3>2. claim' = claim \/ claim'.st # "enqueued"
      BY <3>1, ClaimType, NoClaimType
    <3> QED
      BY <2>1, <3>2
  <2> QED
    BY <2>2, <2>3
<1>8. \A q \in Req : CarriedReq(q)'
  <2> SUFFICES ASSUME NEW q \in Req PROVE CarriedReq(q)'
    OBVIOUS
  <2>1. CASE q # r
    <3>1. req'[q] = req[q] /\ CarriedReq(q)
      BY <1>1, <2>1 DEF Moved, CarriedAll
    <3>2. /\ req[q].pc = "mark" => req[q].id \in Id
          /\ req[q].pc = "remark" => req[q].to \in Id
      BY <1>0, ReqIds DEF OwnPc, ToPc
    <3>3. req[q].pc = "mark" => Carried(req[q].id)'
      BY <1>5, <3>1, <3>2 DEF CarriedReq, Carried
    <3>4. req[q].pc = "remark" => Carried(req[q].to)'
      BY <1>5, <3>1, <3>2 DEF CarriedReq, Carried
    <3>5. req[q].st \in {"running"} \cup Final => req[q].to \in Id /\ Settled(req[q].to)'
      BY <1>3, <3>1 DEF CarriedReq, Settled
    <3> QED
      BY <3>1, <3>3, <3>4, <3>5 DEF CarriedReq, Carried, Settled
  <2>2. CASE q = r
    <3>1. req'[r].st \in {"running"} \cup Final => req'[r].to \in Id /\ Settled(req[r].to)'
      <4> HAVE req'[r].st \in {"running"} \cup Final
      <4>1. CASE req'[r].to \in Id /\ req'[r].st = row[req'[r].to] /\ UNCHANGED <<row, tomb>>
        BY <4>1 DEF Settled
      <4>2. CASE req'[r].to = req[r].to /\ req'[r].st = req[r].st
        <5>1. PICK i \in Id : i = req[r].to /\ Settled(i)
          BY <1>0, <4>2 DEF CarriedReq
        <5>2. Settled(i)'
          BY <1>3, <5>1
        <5> QED
          BY <4>2, <5>1, <5>2 DEF Settled
      <4> QED
        BY <1>1, <4>1, <4>2 DEF Reads, Final
    <3>2. CASE XAdd(r)
      <4>1. req'[r].pc # "mark" \/ (Send(req[r].id, 0) /\ req'[r].id = req[r].id /\ req'[r].pc = "mark")
        BY <1>0, <3>2, OwnMoves DEF Keeps, Goes
      <4>2. req'[r].pc \notin {"rexdel", "remark"}
        BY <1>0, <3>2, OwnMoves DEF Keeps, Goes
      <4>3. ASSUME Send(req[r].id, 0), req'[r].id = req[r].id PROVE Carried(req[r].id)'
        <5>1. PICK i \in Id : i = req[r].id
          BY <1>0, <3>2, ReqIds DEF XAdd, OwnPc
        <5>2. Send(i, 0)
          BY <4>3, <5>1
        <5>3. PICK m \in MsgRecord : m.id = i /\ msgs' = msgs \cup {m}
          BY <1>0, <5>2, SendType, DedupConstants
        <5>4. req'[r].id = i /\ m \in msgs'
          BY <4>3, <5>1, <5>3
        <5> QED
          BY <5>3, <5>4 DEF Carried
      <4> QED
        BY <2>2, <3>1, <4>1, <4>2, <4>3 DEF CarriedReq, Carried
    <3>3. CASE ReAdd(r)
      <4>1. \/ req'[r].pc \in Rest
            \/ Send(req[r].to, 0) /\ req'[r].to = req[r].to /\ req'[r].pc = "remark"
        BY <1>0, <3>3, ToMoves DEF Keeps, Goes, Rests
      <4>2. ASSUME Send(req[r].to, 0), req'[r].to = req[r].to PROVE Carried(req[r].to)'
        <5>1. PICK i \in Id : i = req[r].to
          BY <1>0, <3>3, ReqIds DEF ReAdd, ToPc
        <5>2. Send(i, 0)
          BY <4>2, <5>1
        <5>3. PICK m \in MsgRecord : m.id = i /\ msgs' = msgs \cup {m}
          BY <1>0, <5>2, SendType, DedupConstants
        <5>4. req'[r].to = i /\ m \in msgs'
          BY <4>2, <5>1, <5>3
        <5> QED
          BY <5>3, <5>4 DEF Carried
      <4> QED
        BY <2>2, <3>1, <4>1, <4>2 DEF CarriedReq, Carried, Rest
    <3>4. CASE ReMark(r)
      <4>1. req[r].pc = "remark" /\ Busy(r)
        BY <3>4 DEF ReMark, Busy, Adopter
      <4>2. ~MarkFails(req[r].to, r, "remark")
        BY <1>1, <4>1, BusyProceeds DEF MarkFails
      <4>3. req'[r].pc \in Rest
        BY <1>0, <3>4, <4>2, ToMoves DEF Rests
      <4> QED
        BY <2>2, <3>1, <4>3 DEF CarriedReq, Rest
    <3>5. CASE ~(XAdd(r) \/ ReAdd(r) \/ ReMark(r))
      <4>1. req'[r].pc \notin {"mark", "remark", "rexdel"}
        <5>1. CASE \/ Admit(r) \/ Guard(r) \/ WriteRow(r) \/ Reserve(r) \/ Reguard(r) \/ Mark(r)
                   \/ RecoverMark(r) \/ Park(r) \/ GiveSlot(r) \/ Drop(r) \/ Xdel(r) \/ GiveBack(r)
          BY <1>0, <5>1, OwnMoves DEF Keeps, Goes, Rests, Rest
        <5>2. CASE \/ Hit(r) \/ NoRow(r) \/ WaitRow(r) \/ Orphan(r) \/ RowHit(r) \/ WaitMark(r) \/ Adopt(r)
                   \/ ReXdel(r) \/ FireOwner(r) \/ FireLook(r) \/ FireDiscard(r) \/ FireClear(r)
          BY <1>0, <5>2, ToMoves DEF Keeps, Goes, Rests, Rest
        <5>3. CASE TryClaim(r) \/ Lost(r) \/ CrashReq(r) \/ TryAgain(r)
          BY <1>0, <5>3, ClaimMoves, LostMoves, CrashMoves DEF Rests, Rest
        <5> QED
          BY <3>5, <5>1, <5>2, <5>3 DEF ReqStep
      <4> QED
        BY <2>2, <3>1, <4>1 DEF CarriedReq
    <3> QED
      BY <3>2, <3>3, <3>4, <3>5
  <2> QED
    BY <2>1, <2>2
<1>9. \A w \in Worker : wk'[w].pc = "run" => Settled(WId(w))'
  <2> SUFFICES ASSUME NEW w \in Worker, wk[w].pc = "run" PROVE Settled(WId(w))'
    BY <1>1
  <2>1. PICK i \in Id : i = WId(w) /\ Settled(i)
    BY <1>0, WorkFacts DEF CarriedAll
  <2> QED
    BY <1>1, <1>3, <2>1 DEF Settled, WId
<1>10. \A w \in Worker : wk'[w].pc = "deferred" => Copied(wk[w].msg)'
  BY <1>0, <1>1, <1>3, <1>4, CopiesStay DEF CarriedAll
<1> QED
  BY <1>6, <1>7, <1>8, <1>9, <1>10 DEF CarriedAll

(* What happens elsewhere takes nothing away either. *)
LEMMA CarriedElsewhere ==
    ASSUME Base, CarriedAll, UNCHANGED <<req, accepted>>, claim' = claim \/ claim' = NoClaim,
           \A i \in Id : (Settled(i) => Settled(i)') /\ (Carried(i) => Carried(i)')
    PROVE  /\ \A i \in accepted' : Carried(i)'
           /\ claim'.st = "enqueued" => Carried(claim.id)'
           /\ \A r \in Req : CarriedReq(r)'
<1>0. DedupInv
  BY DEF Base
<1>1. \A i \in accepted' : Carried(i)'
  BY <1>0 DEF CarriedAll, DedupInv, StoreOK
<1>2. claim'.st = "enqueued" => Carried(claim.id)'
  <2> HAVE claim'.st = "enqueued"
  <2>1. claim' = claim
    BY NoClaimType
  <2>2. PICK i \in Id : i = claim.id /\ Carried(i)
    BY <1>0, <2>1 DEF CarriedAll, DedupInv, KeysOK
  <2>3. Carried(i)'
    BY <2>2
  <2> QED
    BY <2>1, <2>2, <2>3 DEF Carried
<1>3. ASSUME NEW r \in Req PROVE CarriedReq(r)'
  <2>1. /\ req[r].pc = "mark" => req[r].id \in Id
        /\ req[r].pc = "remark" => req[r].to \in Id
        /\ CarriedReq(r)
    BY <1>0, ReqIds DEF OwnPc, ToPc, CarriedAll
  <2>2. req[r].pc = "mark" => Carried(req[r].id)'
    BY <2>1 DEF CarriedReq, Carried
  <2>3. req[r].pc = "remark" => Carried(req[r].to)'
    BY <2>1 DEF CarriedReq, Carried
  <2>4. req[r].st \in {"running"} \cup Final => req[r].to \in Id /\ Settled(req[r].to)'
    BY <2>1 DEF CarriedReq, Settled
  <2> QED
    BY <2>1, <2>2, <2>3, <2>4 DEF CarriedReq, Carried, Settled
<1> QED
  BY <1>1, <1>2, <1>3

(* A worker that takes only messages of settled ids leaves the others'     *)
(* messages copied.                                                        *)
LEMMA CopiesKept ==
    ASSUME DedupInv, CarriedAll, NEW w \in Worker, WMoved(w), wk'[w].pc # "deferred",
           \A i \in Id : Settled(i) => Settled(i)',
           \A m \in msgs : m \in msgs' \/ Settled(m.id)'
    PROVE  \A v \in Worker : wk'[v].pc = "deferred" => Copied(wk[v].msg)'
<1> SUFFICES ASSUME NEW v \in Worker, wk'[v].pc = "deferred" PROVE Copied(wk[v].msg)'
  OBVIOUS
<1>1. wk'[v] = wk[v]
  BY DEF WMoved
<1>2. PICK i \in Id : i = wk[v].msg.id
  BY <1>1, WorkFacts DEF WId
<1>3. Copied(wk[v].msg)
  BY <1>1 DEF CarriedAll
<1> QED
  BY <1>1, <1>2, <1>3 DEF Copied, Settled

(* The steps of workers keep accepted ids carried. *)
LEMMA CarriedByWorker ==
    ASSUME Base, Calmly, CarriedAll, Numbered, NEW w \in Worker, WorkerStep(w) \/ CrashWorker(w)
    PROVE  CarriedAll'
<1> USE DEF WAt
<1>0. DedupInv /\ CalmWork
  BY DEF Base, Calmly
<1>1. WMoved(w) /\ UNCHANGED <<req, claim, tomb, accepted>>
  BY <1>0, WorkInv
<1>2. wk[w].pc # "idle" => \E i \in Id : /\ i = WId(w) /\ Live(i)
                                         /\ wk[w].pc \in Course
  BY <1>0, WorkFacts DEF CalmWork
<1>3. CASE StartFlow(w)
  <2>1. PICK i \in Id : i = WId(w)
    BY <1>2, <1>3 DEF StartFlow
  <2>2. \/ Acks(w) /\ row' = row /\ Settled(i)
        \/ Acks(w) /\ row' = [row EXCEPT ![i] = "cancelled"]
        \/ WGoes(w, "run") /\ msgs' = msgs /\ row' = [row EXCEPT ![i] = "running"]
    <3>1. ASSUME Ack(w) PROVE Acks(w)
      BY <1>0, <3>1, AckMoves
    <3>2. ASSUME WGoto(w, "run") PROVE WGoes(w, "run")
      BY <1>0, <1>3, <3>2, WGotoMoves DEF StartFlow
    <3>3. ASSUME NEW v \in Worker, wk[v].pc = "run", WId(v) = i PROVE Settled(i)
      BY <3>3 DEF CarriedAll
    <3> QED
      BY <1>3, <2>1, <3>1, <3>2, <3>3 DEF StartFlow, Settled
  <2>3. \A j \in Id : Settled(j) => Settled(j)'
    BY <1>1, <2>1, <2>2 DEF Settled, Final, Base, DedupInv, StoreOK
  <2>4. Settled(i)'
    BY <1>1, <2>1, <2>2, <2>3 DEF Settled, Final, Base, DedupInv, StoreOK
  <2>5. \A m \in msgs : m \in msgs' \/ m.id = i
    BY <2>1, <2>2 DEF Acks, WId
  <2>6. \A j \in Id : Carried(j) => Carried(j)'
    BY <2>3, <2>4, <2>5 DEF Carried, Settled
  <2>7. \A v \in Worker : wk'[v].pc = "run" => Settled(WId(v))'
    <3> SUFFICES ASSUME NEW v \in Worker, wk'[v].pc = "run" PROVE Settled(WId(v))'
      OBVIOUS
    <3>1. CASE v = w
      BY <2>1, <2>2, <2>4, <3>1 DEF Acks, WIdles, WGoes, Settled, WId
    <3>2. CASE v # w
      <4>1. wk'[v] = wk[v]
        BY <1>1, <3>2 DEF WMoved
      <4>2. PICK j \in Id : j = WId(v) /\ Settled(j)
        BY <1>0, <4>1, WorkFacts DEF CarriedAll
      <4> QED
        BY <2>3, <4>1, <4>2 DEF Settled, WId
    <3> QED
      BY <3>1, <3>2
  <2>8. \A v \in Worker : wk'[v].pc = "deferred" => Copied(wk[v].msg)'
    <3>1. wk'[w].pc # "deferred"
      BY <2>2 DEF Acks, WIdles, WGoes
    <3>2. \A m \in msgs : m \in msgs' \/ Settled(m.id)'
      BY <2>1, <2>4, <2>5
    <3> QED
      BY <1>0, <1>1, <2>3, <3>1, <3>2, CopiesKept
  <2> QED
    BY <1>1, <2>3, <2>6, <2>7, <2>8, CarriedElsewhere DEF CarriedAll
<1>4. CASE DeferAck(w)
  <2>1. UNCHANGED <<row, tomb>> /\ Acks(w) /\ wk[w].pc = "deferred"
    BY <1>0, <1>4, WorkMoves DEF DeferAck
  <2>2. PICK i \in Id : i = WId(w)
    BY <1>2, <2>1
  <2>3. \A j \in Id : Settled(j) <=> Settled(j)'
    BY <2>1 DEF Settled
  <2>4. wk[w].msg.n \in Nat /\ \A m \in msgs : m.n \in Nat /\ m.id \in Id
    BY <1>0, <2>1, WorkFacts DEF DedupInv, StoreOK, WorkersOK, WorkOK, MsgRecord
  <2>5. Settled(i) \/ \E x \in msgs' : x.id = i /\ x.n > wk[w].msg.n
    <3>1. Settled(i) \/ \E x \in msgs : x.id = i /\ x.n > wk[w].msg.n
      BY <2>1, <2>2 DEF CarriedAll, Copied, WId
    <3>2. ASSUME NEW x \in msgs, x.n > wk[w].msg.n PROVE x \in msgs'
      BY <2>1, <2>4, <3>2 DEF Acks
    <3> QED
      BY <3>1, <3>2
  <2>6. \A m \in msgs : m \in msgs' \/ m = wk[w].msg
    BY <2>1 DEF Acks
  <2>7. \A j \in Id : Carried(j) => Carried(j)'
    BY <2>1, <2>2, <2>5, <2>6 DEF Carried, Settled, WId
  <2>8. ASSUME NEW v \in Worker, wk'[v].pc # "idle" PROVE wk'[v] = wk[v]
    BY <1>1, <2>1, <2>8 DEF Acks, WIdles, WMoved
  <2>9. \A v \in Worker : wk'[v].pc = "run" => Settled(WId(v))'
    BY <2>1, <2>8 DEF CarriedAll, Settled, WId
  <2>10. ASSUME NEW v \in Worker, wk'[v].pc = "deferred" PROVE Copied(wk[v].msg)'
    <3>1. wk'[v] = wk[v] /\ Copied(wk[v].msg)
      BY <2>8, <2>10 DEF CarriedAll
    <3>2. PICK j \in Id : j = wk[v].msg.id
      BY <1>0, <2>10, <3>1, WorkFacts DEF WId
    <3>3. wk[v].msg.n \in Nat
      BY <1>0, <2>10, <3>1, WorkFacts DEF DedupInv, WorkersOK, WorkOK, MsgRecord
    <3>4. Settled(j) \/ \E x \in msgs' : x.id = j /\ x.n > wk[v].msg.n
      <4> SUFFICES ASSUME ~Settled(j) PROVE \E x \in msgs' : x.id = j /\ x.n > wk[v].msg.n
        OBVIOUS
      <4>1. PICK x \in msgs : x.id = j /\ x.n > wk[v].msg.n
        BY <3>1, <3>2 DEF Copied
      <4>2. CASE x \in msgs'
        BY <4>1, <4>2
      <4>3. CASE x = wk[w].msg
        <5>1. PICK y \in msgs' : y.id = i /\ y.n > x.n
          BY <2>2, <2>5, <4>1, <4>3 DEF WId
        <5>2. y \in msgs
          BY <2>1 DEF Acks
        <5> QED
          BY <2>2, <2>4, <3>3, <4>1, <4>3, <5>1, <5>2 DEF WId
      <4> QED
        BY <2>6, <4>2, <4>3
    <3> QED
      BY <2>1, <3>1, <3>2, <3>4 DEF Copied, Settled
  <2> QED
    BY <1>1, <2>3, <2>7, <2>9, <2>10, CarriedElsewhere DEF CarriedAll
<1>5. CASE DeferSend(w)
  <2>1. PICK i \in Id : i = WId(w)
    BY <1>2, <1>5 DEF DeferSend
  <2>2. wk[w].msg.defers + 1 \in 0 .. DeferMax + 1 /\ wk[w].msg.n <= sent
        /\ wk[w].msg.n \in Nat /\ sent \in Nat
    <3>1. wk[w].pc = "defer"
      BY <1>5 DEF DeferSend
    <3>2. wk[w].msg \in MsgRecord /\ wk[w].msg.defers <= DeferMax
      BY <1>0, <3>1 DEF DedupInv, WorkersOK, WorkOK
    <3>3. wk[w].msg.defers \in Nat /\ wk[w].msg.n \in Nat
      BY <3>2 DEF MsgRecord
    <3>4. wk[w].msg.n <= sent /\ sent \in Nat
      BY <1>0, <3>1 DEF Numbered, DedupInv, StoreOK
    <3> QED
      BY <3>2, <3>3, <3>4, DedupConstants
  <2>3. PICK m \in MsgRecord : m.id = i /\ m.n = sent + 1 /\ msgs' = msgs \cup {m}
    BY <1>0, <1>5, <2>1, <2>2, SendType DEF DeferSend
  <2>4. UNCHANGED <<row, tomb>> /\ WGoes(w, "deferred")
    BY <1>0, <1>5, WorkMoves DEF DeferSend
  <2>5. \A j \in Id : (Settled(j) => Settled(j)') /\ (Carried(j) => Carried(j)')
    BY <2>3, <2>4 DEF Settled, Carried
  <2>6. \A v \in Worker : wk'[v].pc = "run" => Settled(WId(v))'
    BY <2>4 DEF WGoes, WMoved, CarriedAll, Settled, WId
  <2>7. \A v \in Worker : wk'[v].pc = "deferred" => Copied(wk[v].msg)'
    <3> SUFFICES ASSUME NEW v \in Worker, wk'[v].pc = "deferred" PROVE Copied(wk[v].msg)'
      OBVIOUS
    <3>1. CASE v = w
      <4>1. m \in msgs' /\ m.id = wk'[w].msg.id /\ m.n > wk'[w].msg.n
        BY <2>1, <2>2, <2>3, <2>4 DEF WGoes, WId
      <4> QED
        BY <3>1, <4>1 DEF Copied
    <3>2. CASE v # w
      <4>1. wk'[v] = wk[v] /\ Copied(wk[v].msg)
        BY <2>4, <3>2 DEF WGoes, WMoved, CarriedAll
      <4> QED
        BY <2>3, <2>4, <4>1 DEF Copied, Settled
    <3> QED
      BY <3>1, <3>2
  <2> QED
    BY <1>1, <2>5, <2>6, <2>7, CarriedElsewhere DEF CarriedAll
<1>6. CASE ~(StartFlow(w) \/ DeferAck(w) \/ DeferSend(w))
  <2>1. \/ row' = row /\ msgs' = msgs
        \/ \E i \in Id : /\ i = WId(w) /\ Settled(i) /\ Acks(w)
                         /\ row' = row \/ \E st \in Final : row' = [row EXCEPT ![i] = st]
    <3>1. CASE Finish(w)
      <4>1. PICK i \in Id : i = WId(w)
        BY <1>2, <3>1 DEF Finish
      <4>2. Settled(i)
        BY <3>1, <4>1 DEF Finish, CarriedAll
      <4> QED
        BY <1>0, <3>1, <4>1, <4>2, WorkMoves
    <3>2. CASE ~Finish(w)
      BY <1>2, <1>6, <3>2 DEF Course, WorkerStep, CrashWorker, Take, Gate, CheckTomb, WorkerClaim, WorkerHit, ReleaseGet,
         ReleaseDel, redis
    <3> QED
      BY <3>1, <3>2
  <2>2. \A j \in Id : Settled(j) => Settled(j)'
    BY <1>1, <2>1 DEF Settled, Final, Base, DedupInv, StoreOK
  <2>3. \A j \in Id : Carried(j) => Carried(j)'
    <3>1. CASE msgs' = msgs
      BY <2>2, <3>1 DEF Carried, Settled
    <3>2. CASE \E i \in Id : i = WId(w) /\ Settled(i) /\ Acks(w)
      <4>1. PICK i \in Id : i = WId(w) /\ Settled(i)' /\ Acks(w)
        BY <2>2, <3>2
      <4>2. \A m \in msgs : m \in msgs' \/ m.id = i
        BY <4>1 DEF Acks, WId
      <4> QED
        BY <2>2, <4>1, <4>2 DEF Carried, Settled
    <3> QED
      BY <2>1, <3>1, <3>2
  <2>4. \A v \in Worker : wk'[v].pc = "run" => Settled(WId(v))'
    <3> SUFFICES ASSUME NEW v \in Worker, wk'[v].pc = "run" PROVE Settled(WId(v))'
      OBVIOUS
    <3>1. wk'[w].pc # "run"
      BY <1>0, <1>6, TakeMoves, WorkMoves, IdleMoves DEF WorkerStep, CrashWorker, WGoes, WIdles, Acks, CheckTomb
    <3>2. wk'[v] = wk[v]
      BY <1>1, <3>1 DEF WMoved
    <3>3. PICK j \in Id : j = WId(v) /\ Settled(j)
      BY <1>0, <3>2, WorkFacts DEF CarriedAll
    <3> QED
      BY <2>2, <3>2, <3>3 DEF Settled, WId
  <2>5. \A v \in Worker : wk'[v].pc = "deferred" => Copied(wk[v].msg)'
    <3>1. wk'[w].pc # "deferred"
      BY <1>0, <1>6, TakeMoves, WorkMoves, IdleMoves DEF WorkerStep, CrashWorker, WGoes, WIdles, Acks
    <3>2. \A m \in msgs : m \in msgs' \/ Settled(m.id)'
      BY <2>1, <2>2 DEF Acks, WId
    <3> QED
      BY <1>0, <1>1, <2>2, <3>1, <3>2, CopiesKept
  <2> QED
    BY <1>1, <2>2, <2>3, <2>4, <2>5, CarriedElsewhere DEF CarriedAll
<1> QED
  BY <1>3, <1>4, <1>5, <1>6

(* Users, expiries and the sweeper keep accepted ids carried. *)
LEMMA CarriedByOthers ==
    ASSUME Base, Calmly, CarriedAll, Steady', Outside \/ ClaimExpires \/ Sweep
    PROVE  CarriedAll'
<1>0. DedupInv /\ CalmKeys
  BY DEF Base, Calmly
<1>1. ~Sweep
  BY <1>0 DEF CalmKeys, Sweep, SweepLook, SweepDelete, SweepRelease, SweepClear
<1>2. UNCHANGED <<req, wk, msgs, accepted>> /\ Budgets
  BY <1>0, <1>1, OutsideInv
<1>3. \A i \in Id : ~Delete(i)
  BY <1>0, <1>2, SteadyFacts DEF Delete
<1>4. claim' = claim \/ claim' = NoClaim
  BY <1>1, <1>3 DEF Outside, ClaimExpires, CancelQueued, CancelRow, SlotExpires
<1>5. \A i \in Id : Settled(i) => Settled(i)'
  BY <1>0, <1>1, <1>3 DEF Outside, ClaimExpires, CancelQueued, CancelRow, SlotExpires, Settled, Final,
                          DedupInv, StoreOK
<1>6. \A i \in Id : Carried(i) => Carried(i)'
  BY <1>2, <1>5 DEF Carried, Settled
<1>7. \A w \in Worker : wk'[w].pc = "run" => Settled(WId(w))'
  <2> SUFFICES ASSUME NEW w \in Worker, wk[w].pc = "run" PROVE Settled(WId(w))'
    BY <1>2
  <2>1. PICK i \in Id : i = WId(w) /\ Settled(i)
    BY <1>0, WorkFacts DEF CarriedAll
  <2> QED
    BY <1>2, <1>5, <2>1 DEF Settled, WId
<1>8. \A w \in Worker : wk'[w].pc = "deferred" => Copied(wk[w].msg)'
  BY <1>0, <1>2, <1>5, CopiesStay
<1> QED
  BY <1>2, <1>4, <1>5, <1>6, <1>7, <1>8, CarriedElsewhere DEF CarriedAll

(* Under the same conditions, and while no recovery message or its mark    *)
(* fails, an id some caller was told is started can still run or has run:  *)
(* no client is left with an execution that stays queued for ever.         *)
THEOREM DedupAcceptedIsCarried == Spec => []AcceptedIsCarried
<1>1. Init => CarriedInv /\ Numbered
  <2> SUFFICES ASSUME Init PROVE CarriedAll /\ Numbered
    BY DEF CarriedInv
  <2>1. \A r \in Req : req[r].pc = "claim" /\ req[r].st = "none"
    BY DEF Init, ReqAt
  <2>2. \A w \in Worker : wk[w].pc = "idle"
    BY DEF Init, Idle
  <2>3. accepted = {} /\ claim.st = "none" /\ msgs = {}
    BY DEF Init, NoClaim
  <2> QED
    BY <2>1, <2>2, <2>3 DEF CarriedAll, CarriedReq, Final, Numbered
<1>2. Base /\ CalmInv /\ Numbered /\ CarriedInv /\ [Next]_vars => CarriedInv'
  <2> SUFFICES ASSUME Base, CalmInv, Numbered, CarriedInv, [Next]_vars, Steady' PROVE CarriedAll'
    BY DEF CarriedInv
  <2>1. Calmly /\ CarriedAll
    BY DedupInvNext, SteadyFacts DEF Base, CalmInv, CarriedInv
  <2>2. CASE UNCHANGED vars
    BY <2>1, <2>2 DEF vars, redis, history, CarriedAll, CarriedReq, Carried, Copied, Settled, WId
  <2> QED
    BY <2>1, <2>2, CarriedByReq, CarriedByWorker, CarriedByOthers DEF Next, Outside
<1>3. CarriedInv => AcceptedIsCarried
  BY DEF CarriedInv, CarriedAll, AcceptedIsCarried, Steady
<1>4. Base /\ Numbered /\ [Next]_vars => Numbered'
  BY NumberedNext DEF Base
<1> QED
  BY <1>1, <1>2, <1>3, <1>4, BaseHolds, CalmInvariant, PTL DEF Spec
=============================================================================
