------------------------------- MODULE Verify -------------------------------
(* Two readings of one store: the engine's verifier and the independent one. *)
EXTENDS VerifyGo, VerifyTs

(* Where the two readers are asked to agree: stems that are plain decimals,  *)
(* and, below version 3, only the members both ask of such a receipt.        *)
Settled(d) ==
  \A p \in DOMAIN d.files :
    /\ p.stem.plain
    /\ d.files[p].body.version # "3" => d.files[p].body.faults \subseteq TsStructureV2

(* The two verifiers say the same of every store that was changed, moved or  *)
(* cut: the same findings of the same files, and the same observations.      *)
LaddersAgree ==
  Settled(store) =>
    /\ GoFindings(signed, store) = TsFindings(signed, store)
    /\ GoObservations(signed, store, GoWalkRegistry(signed, store).keys)
         = TsObservations(signed, store, TsWalk(signed, store).keys)

(* The registry holds every line the signer wrote, in order. *)
WholeRegistry(d) ==
  LET sigs == [i \in DOMAIN d.lines |-> d.lines[i].sig] IN
  /\ \A i, j \in DOMAIN sigs : i < j => sigs[i] < sigs[j]
  /\ {n \in DOMAIN signed : "version" \notin DOMAIN signed[n].body /\ ~IsStatement(n)} = Range(sigs)

(* What the signer made, session by session: nothing in a session directory  *)
(* but its receipts in order, the results and records they name as they      *)
(* were, and, while the registry is whole, every sealed session there.       *)
Faithful(d) ==
  /\ \A dir \in Dirs(d) :
       /\ dir \in sealed
       /\ {d.files[p] : p \in FilesOf(d, dir)} = Range(made[dir])
       /\ \A p \in FilesOf(d, dir) : d.files[p].body.index = p.stem.n
  /\ WholeRegistry(d) => sealed \subseteq Dirs(d)
  /\ \A p \in DOMAIN d.files :
       LET b == d.files[p].body IN
       /\ d.artifacts[b.result] = b.result
       /\ b.kind = "action" => \E r \in d.records : r.digest = b.record /\ r.cites = b.cites /\ r.pack = b.pack

(* A store the verifier calls ok is the signer's own, whatever was done to   *)
(* its files: no receipt added, dropped, moved between sessions or           *)
(* renumbered, no sealed session removed,                                    *)
(* no result or decision record changed under an action.                     *)
OkMeansFaithful == GoOK(signed, store) => Faithful(store)

(* SPEC.md: a receipt whose file is not named for its callIndex is misfiled. *)
StemIsIndex ==
  \A p \in DOMAIN store.files :
    GoCheckReceipt(signed, store, GoWalkRegistry(signed, store).keys, p) = "ok"
      => p.stem = Plain(store.files[p].body.index)
=============================================================================
