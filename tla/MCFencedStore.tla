--------------------------- MODULE MCFencedStore ---------------------------
(* Three sessions, so that a stale one, its successor and a third that     *)
(* follows a delete can be told apart; three generations; two readers of   *)
(* the index, so that a rebuild meets the backfill of another.             *)
EXTENDS FencedStore, TLC

CONSTANTS s1, s2, s3, nobody, r1, r2

MCSession == {s1, s2, s3}
MCReader == {r1, r2}
MCContent == {"running", "completed"}
MCTerminal == {"completed"}
Symmetry == Permutations(MCSession) \cup Permutations(MCReader)

(* Bound: readers are at work only under the first generation and before a *)
(* backup, and a behaviour with a backfill ends with the second.           *)
ReadersEarly ==
    /\ fencegen > 1 \/ backup.taken => \A p \in Reader : reader[p] = "idle"
    /\ fencegen > 2 => ~ready /\ ~lost

MCSpec == StoreInit /\ [][StoreNext /\ ReadersEarly']_storeVars
=============================================================================
