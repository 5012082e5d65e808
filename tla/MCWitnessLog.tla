---------------------------- MODULE MCWitnessLog -----------------------------
(* The witness's log on a small instance. *)
EXTENDS WitnessLog, TLC

CONSTANTS t1, t2, a, b, v, w

(* A checkpoint, another for its sequence, and the first with one above it. *)
Offered == {1 :> v, 1 :> w, (1 :> v) @@ (2 :> v)}
Symmetric == Permutations(Trails) \cup Permutations(Submitters)

-----------------------------------------------------------------------------
(* What was served is one marked chain, conflicts and registrations with    *)
(* it, and what a running witness counts is what its next start would read  *)
(* from the disk (submit, publish, openWitnessLog).                         *)
ServedIsKept == PublishedIsMarked /\ PublishedIsChain /\ ServesTheDisk

(* Whatever crashes leave, a repair ends in a log that starts, itself       *)
(* interrupted or not, and no byte it cuts is lost (repairWitnessLog,       *)
(* setAsideTail).                                                           *)
RepairsAreSound == CrashesAreRepaired /\ RepairHeals /\ CutIsKept
=============================================================================
