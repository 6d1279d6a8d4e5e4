---------------------------- MODULE MCStartDedup ----------------------------
(* Two requesters of one dedup key and one worker.  A scenario says who    *)
(* the requesters are, how many starts the tenant may run, and how often   *)
(* each trouble may happen.                                                *)
EXTENDS StartDedup

CONSTANTS r1, r2, w1

(* Both kinds of requester, with the cap and budget b for the troubles it  *)
(* names.                                                                  *)
Both(cap, b) ==
    {[cron |-> c, cap |-> cap, budget |-> [t \in Trouble |-> IF t \in DOMAIN b THEN b[t] ELSE 0]] :
       c \in BOOLEAN}

Faults ==
    UNION {Both(2, b) : b \in
      {[crash |-> 2, retry |-> Unlimited],
       [crash |-> 1, cancel |-> 1, retry |-> Unlimited],
       [delete |-> 1, retry |-> 1],
       [row |-> 1, xadd |-> 1, retry |-> Unlimited],
       [crash |-> 1, remark |-> 1, retry |-> Unlimited],
       [crash |-> 1, readd |-> 1, retry |-> Unlimited],
       [slow |-> 1],
       [mark |-> 1]}}
      \cup {s \in Both(2, [slow |-> 1, crash |-> 1]) : s.cron}

(* A cap that one dead start exhausts, slots that run out under a start    *)
(* that waits or runs, and admissions that fail; or no cap at all.         *)
Quota ==
    UNION {Both(1, b) : b \in
      {[crash |-> 1, open |-> 2, retry |-> Unlimited],
       [crash |-> 1, slot |-> 1, retry |-> Unlimited]}}
      \cup Both(Unlimited, [crash |-> 1, retry |-> Unlimited])

Troubles == Faults \cup Quota

Deletion == Both(2, [delete |-> 1, crash |-> 1, retry |-> Unlimited])
=============================================================================
