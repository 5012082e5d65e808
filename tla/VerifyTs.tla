------------------------------ MODULE VerifyTs ------------------------------
(***************************************************************************)
(* The independent verifier (verify-ts): the same reading of a store,      *)
(* written apart from the engine's.  `d` is the store, `w` the signatures  *)
(* there are.                                                              *)
(***************************************************************************)
EXTENDS Evidence

(* RegistryWalk: a line at a time; a rotation that holds is pending until   *)
(* the next line, which continues it or breaks it.                          *)
TsStop(walk, status) == [walk EXCEPT !.pending = None, !.finding = <<status, Len(walk.keys)>>]

TsContinues(w, walk, l) ==
  LET forward == walk.pending IN
  /\ l.kind = "continuation"
  /\ l.body.n = forward.n /\ l.body.named = Last(walk.keys) /\ l.body.key = forward.named
  /\ Verifies(w, l.sig, forward.named, l.body)

TsStatement(w, walk, l) ==
  LET current == Last(walk.keys) IN
  CASE walk.finding # None -> walk
    [] walk.finding = None /\ l.kind = "continuation" -> TsStop(walk, "rotation-forged")
    [] OTHER ->
         IF l.body.key # current \/ ~Verifies(w, l.sig, current, l.body) THEN TsStop(walk, "rotation-forged")
         ELSE IF l.body.n # Len(walk.keys) THEN TsStop(walk, "rotation-order")
         ELSE IF l.body.named \in Range(walk.keys) THEN TsStop(walk, "rotation-key-refused")
         ELSE [walk EXCEPT !.pending = l.body]

(* sealOf, and the first seal of a session kept. *)
TsSeal(w, walk, l) ==
  IF /\ l.body.key = Last(walk.keys) /\ Verifies(w, l.sig, l.body.key, l.body)
     /\ l.body.session \notin DOMAIN walk.seals
  THEN [walk EXCEPT !.seals = (l.body.session :> l.body.count) @@ @] ELSE walk

TsTake(w, walk, l) ==
  IF walk.pending # None /\ TsContinues(w, walk, l)
  THEN [walk EXCEPT !.keys = Append(@, walk.pending.named), !.pending = None]
  ELSE LET after == IF walk.pending # None THEN TsStop(walk, "rotation-break") ELSE walk IN
       IF l.kind = "seal" THEN TsSeal(w, after, l) ELSE TsStatement(w, after, l)

TsEnd(walk) == IF walk.pending # None THEN TsStop(walk, "rotation-break") ELSE walk

TsWalk(w, d) ==
  TsEnd(FoldLeft(LAMBDA walk, l : TsTake(w, walk, l),
                 [keys |-> <<FirstKey>>, seals |-> <<>>, finding |-> None, pending |-> None], d.lines))

-----------------------------------------------------------------------------
(* structureV2, asked of every version but 3. *)
TsStructureV2 == {"json", "signature", "callIndex", "resultDigest"}

(* structureV3, each part of it: remoteHolds, toolTransportHolds,           *)
(* isActionDelivery and isActionReconciliation, citations, isWitness,       *)
(* delegationHolds, reconcilerHolds, isDescriptorProvenance.                *)
TsRemoteHolds == {"endpoint", "peerIdentity", "schema", "upstreamToken"}
TsToolTransport == {"transport"}
TsDelivery == {"delivery"}
TsReconciliation == {"reconciliation"}
TsCitations == {"cites"}
TsWitness == {"witness"}
TsDelegation == {"delegation"}
TsReconciler == {"reconciler"}
TsProvenanceForm == {"descriptorProvenance"}

TsIsAcquisition ==
  {"adapter", "shape", "statement", "snapshot", "pageItems", "observedAt"}
    \cup TsReconciliation \cup TsRemoteHolds \cup TsToolTransport \cup TsProvenanceForm

TsIsAction ==
  {"requester", "recordDigest", "packDigest", "recordBytes", "tool", "request", "policy", "adapter",
   "observedAt"} \cup TsDelivery \cup TsToolTransport \cup TsCitations

TsStructureV3(kind) ==
  {"json", "receiptVersion", "sessionId", "keyId", "authority", "resultDigest", "signature", "source",
   "servedAt", "callIndex", "negative", "prevSignature", "argumentsDigest", "argumentsCommitment",
   "caller", "kind"}
    \cup TsWitness \cup TsDelegation \cup TsReconciler
    \cup (IF kind = "action" THEN TsIsAction ELSE TsIsAcquisition)

TsMalformed(b) == b.faults \cap (IF b.version = "3" /\ "receiptVersion" \notin b.faults
                                 THEN TsStructureV3(b.kind) ELSE TsStructureV2) # {}

TsKeyPos(keys, b) ==
  IF "keyIdCase" \in b.faults THEN 0
  ELSE SelectInSeq(keys, LAMBDA k : k = b.key)

(* descriptorStatus *)
TsDescriptorStatus(w, d, keys, b) ==
  CASE b.capture = None -> "ok"
    [] b.capture # None /\ b.capture \notin DOMAIN d.artifacts -> "descriptor-provenance-missing"
    [] OTHER ->
         IF /\ d.artifacts[b.capture] = b.capture
            /\ w[b.capture].key \in Range(SubSeq(keys, 1, TsKeyPos(keys, b)))
            /\ w[b.capture].body.source = b.source
         THEN "ok" ELSE "descriptor-provenance-mismatch"

(* judge *)
TsJudge(w, d, keys, p) ==
  LET b == d.files[p].body IN
  IF TsMalformed(b) THEN "malformed"
  ELSE IF b.version \notin {"2", "3"} \/ "receiptVersion" \in b.faults THEN "unsupported-version"
  ELSE IF TsKeyPos(keys, b) = 0 THEN "key-mismatch"
  ELSE IF ~Verifies(w, d.files[p].sig, keys[TsKeyPos(keys, b)], b) THEN "signature-mismatch"
  ELSE IF p.stem # Plain(b.index) \/ b.session # p.dir THEN "misfiled"
  ELSE IF b.authority # Authority THEN "authority-mismatch"
  ELSE IF b.result \notin DOMAIN d.artifacts THEN "artifact-missing"
  ELSE IF d.artifacts[b.result] # b.result THEN "artifact-mismatch"
  ELSE TsDescriptorStatus(w, d, keys, b)

TsPassing(w, d, keys) == {p \in DOMAIN d.files : TsJudge(w, d, keys, p) = "ok"}

(* Mutant: a citation resolves to whatever receipt is at its place. *)
TsResolvesByPlace(d, c) == Place(c[1], Plain(c[2])) \in DOMAIN d.files

(* citedSignature, and the map of them by session and stem. *)
TsResolves(d, c) ==
  \E p \in DOMAIN d.files :
    /\ p = Place(c[1], Plain(c[2]))
    /\ d.files[p].body.faults \cap {"json", "signature"} = {}
    /\ d.files[p].sig = c[3]

(* The sequence, the chain and the seal of one session. *)
TsSessionFindings(w, d, walk, dir) ==
  LET passing == SetToSortSeq({p \in TsPassing(w, d, walk.keys) : p.dir = dir},
                              LAMBDA p, q : d.files[p].body.index < d.files[q].body.index)
      at(i) == d.files[passing[i]]
      have == Cardinality(FilesOf(d, dir))
      note(status) == {<<dir, None, status>>} IN
  (IF \E i \in DOMAIN passing : at(i).body.index # i - 1 THEN note("sequence-broken")
   ELSE IF \E i \in DOMAIN passing :
             \/ at(i).body.prev # (IF i = 1 THEN 0 ELSE at(i - 1).sig)
             \/ at(i).body.version # at(1).body.version
             \/ i > 1 /\ TsKeyPos(walk.keys, at(i).body) < TsKeyPos(walk.keys, at(i - 1).body)
        THEN note("chain-broken") ELSE {})
  \cup
  (IF dir \notin DOMAIN walk.seals THEN note("unregistered-session")
   ELSE IF have < walk.seals[dir] THEN note("tail-rollback")
   ELSE IF have > walk.seals[dir] THEN note("count-exceeds-seal") ELSE {})

(* The read-backs, against the delivered actions by session and file. *)
TsTargets(w, d, keys) == {p \in TsPassing(w, d, keys) : d.files[p].body.delivery # None}

TsMatched(d, targets, read) ==
  LET c == read.body.recon.action
      p == Place(c[1], Plain(c[2])) IN
  /\ p \in targets
  /\ d.files[p].sig = c[3] /\ d.files[p].body.delivery = "uncertain"
  /\ d.files[p].body.who = read.body.who
  /\ d.files[p].body.source = "write" /\ read.body.source = "live"

TsReads(w, d, keys) == {p \in TsPassing(w, d, keys) : d.files[p].body.recon # None}

TsReconciliations(w, d, keys) ==
  {<<p.dir, <<"index", d.files[p].body.index>>, "action-reconciliation-unresolved">> :
     p \in {q \in TsReads(w, d, keys) : ~TsMatched(d, TsTargets(w, d, keys), d.files[q])}}

(* deliveryState, each read-back raising its target's rank. *)
TsRank == <<"action-uncertain", "action-committed", "action-mismatch">>

TsObservations(w, d, keys) ==
  LET targets == TsTargets(w, d, keys)
      raises(p) == {IF ~TsMatched(d, targets, d.files[q]) THEN 3
                    ELSE IF d.files[q].body.recon.outcome = "committed" THEN 2 ELSE 1 :
                      q \in {r \in TsReads(w, d, keys) :
                               Place(d.files[r].body.recon.action[1], Plain(d.files[r].body.recon.action[2])) = p}} IN
  {<<p.dir, <<"index", d.files[p].body.index>>, TsRank[Max({1} \cup raises(p))]>> :
     p \in {q \in targets : d.files[q].body.delivery = "uncertain"}}

(* The actions' citations and records (named, claims). *)
TsActionFindings(w, d, keys) ==
  UNION {LET b == d.files[p].body
             claims == {r \in d.records : r.digest = b.record /\ r.understood}
             note(wrong, status) == IF wrong THEN {<<p.dir, <<"index", b.index>>, status>>} ELSE {} IN
         note(\E c \in b.cites : ~TsResolves(d, c), "citation-unresolved")
         \cup note(~\E r \in d.records : r.digest = b.record, "decision-record-mismatch")
         \cup note(\E r \in claims : r.pack # b.pack, "decision-pack-mismatch")
         \cup note(\E r \in claims : r.cites # b.cites, "decision-cites-mismatch")
         \cup note(\E r \in claims : b.trail # None /\ r.trail # b.trail, "decision-trail-mismatch") :
         p \in {q \in TsPassing(w, d, keys) : d.files[q].body.kind = "action"}}

(* recordCitations, RecordFindings. *)
TsRecordFindings(d) ==
  {<<None, r.digest, "record-citation-unresolved">> :
     r \in {x \in d.records : ~\A c \in x.cites : TsResolves(d, c)}}

(* verifyStore *)
TsFindings(w, d) ==
  LET walk == TsWalk(w, d) IN
  {LET status == TsJudge(w, d, walk.keys, p) IN
   <<p.dir, IF status = "malformed" THEN <<"file", p.stem>> ELSE <<"index", d.files[p].body.index>>, status>> : p \in DOMAIN d.files}
  \cup UNION {TsSessionFindings(w, d, walk, dir) : dir \in Dirs(d)}
  \cup TsReconciliations(w, d, walk.keys)
  \cup TsActionFindings(w, d, walk.keys)
  \cup {<<s, None, "sealed-session-missing">> : s \in DOMAIN walk.seals \ Dirs(d)}
  \cup TsRecordFindings(d)
  \cup (IF walk.finding = None THEN {} ELSE {<<None, walk.finding[2], walk.finding[1]>>})

TsOK(w, d) == \A f \in TsFindings(w, d) : f[3] = "ok"
=============================================================================
