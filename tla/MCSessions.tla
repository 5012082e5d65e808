----------------------------- MODULE MCSessions -----------------------------
(***************************************************************************)
(* The sessions on small instances.  The store is the signer's own, with   *)
(* two sessions; or it is shared, and one session may turn up in it or     *)
(* lose receipts behind the signer's back.  `holder` says which.           *)
(***************************************************************************)
EXTENDS Sessions

CONSTANTS Stores, s1

VARIABLE holder
mcvars == <<holder, vars>>

MCInit == Init /\ holder \in Stores /\ (holder = "shared" => session = [r \in Requests |-> s1])

MCNext ==
  /\ UNCHANGED holder
  /\ \/ holder = "own" /\ SignerStep
     \/ holder = "shared" /\ Next /\ dir' \subseteq {s1} /\ \A r \in Requests : session'[r] = s1

MCSpec ==
  /\ MCInit /\ [][MCNext]_mcvars
  /\ \A r \in Requests : WF_mcvars(RequestStep(r) /\ UNCHANGED holder)

-----------------------------------------------------------------------------
(* What a seal says is so for good: it is of the receipts the session has,  *)
(* they are one chain, and no session whose acquisitions all failed is      *)
(* sealed (sealSession, stamp, release).                                    *)
SealsAreTrue == holder = "own" => SealIsExact /\ ChainHolds /\ NoPhantomSeal

(* Nothing runs that must not: no source for a session whose seal loads,    *)
(* none once a closure is drained, and no write whose receipt has no place, *)
(* whatever turns up in the store or is lost from it meanwhile              *)
(* (sealedElsewhere, gate.go, sessionOpen).                                 *)
OnlyAdmittedRuns ==
  (holder = "own" => SealedIsQuiet) /\ DrainedIsQuiet /\ WriteIsReceipted
=============================================================================
