---------------------------- MODULE MCKeyRotation ----------------------------
(* Key rotation on small instances. *)
EXTENDS KeyRotation

CONSTANTS p1, p2

(* The registry, the seeds beside it and the gateway that runs agree at     *)
(* every moment, whichever step was the last before a death: the seed of    *)
(* the key the registry ends at is held, a gateway serves under that key    *)
(* only, a line torn in the registry is the pending rotation's, and no seal *)
(* is ever cut from it (appendRecord, switchSeed, holdEngineRegistry,       *)
(* cutRegistry).                                                            *)
RotationHolds == CurrentSeedHeld /\ ServesCurrentKey /\ BreakIsPending /\ SealsKept
=============================================================================
