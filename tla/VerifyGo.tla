------------------------------ MODULE VerifyGo ------------------------------
(***************************************************************************)
(* The engine's verifier (go/verify.go, go/verify_v3.go,                   *)
(* go/action_receipt.go, go/rotation.go): a pure reading of a store.       *)
(* `d` is the store, `w` the signatures there are.                         *)
(***************************************************************************)
EXTENDS Evidence

(* walkRegistry, loadSeal, follow: a rotation and the continuation right    *)
(* after it are taken together; at the first that does not hold, rotations  *)
(* are no longer followed.                                                  *)
GoCurrent(walk) == Last(walk.keys)

GoLoadSeal(w, walk, l) ==
  IF /\ l.body.key = GoCurrent(walk)
     /\ Verifies(w, l.sig, l.body.key, l.body)
     /\ l.body.session \notin DOMAIN walk.seals
  THEN [walk EXCEPT !.seals = (l.body.session :> l.body.count) @@ @] ELSE walk

GoFollow(w, walk, l, next) ==
  LET current == GoCurrent(walk) IN
  IF l.body.key # current \/ ~Verifies(w, l.sig, current, l.body) THEN "rotation-forged"
  ELSE IF l.body.n # Len(walk.keys) THEN "rotation-order"
  ELSE IF l.body.named \in Range(walk.keys) THEN "rotation-key-refused"
  ELSE IF /\ next # None /\ next.kind = "continuation"
          /\ next.body.n = l.body.n /\ next.body.named = current /\ next.body.key = l.body.named
          /\ Verifies(w, next.sig, l.body.named, next.body)
       THEN "" ELSE "rotation-break"

GoWalkRegistry(w, d) ==
  LET lines == d.lines
      Walk[i \in 1 .. Len(lines) + 2] ==
        IF i = 1 THEN [keys |-> <<FirstKey>>, seals |-> <<>>, finding |-> None, taken |-> FALSE]
        ELSE IF i = Len(lines) + 2 THEN Walk[i - 1]
        ELSE LET walk == [Walk[i - 1] EXCEPT !.taken = FALSE]
                 l == lines[i - 1]
                 next == IF i <= Len(lines) THEN lines[i] ELSE None
                 stopped(status) == [walk EXCEPT !.finding = <<status, Len(walk.keys)>>] IN
             IF Walk[i - 1].taken THEN walk
             ELSE IF l.kind = "seal" THEN GoLoadSeal(w, walk, l)
             ELSE IF walk.finding # None THEN walk
             ELSE IF l.kind = "continuation" THEN stopped("rotation-forged")
             ELSE IF GoFollow(w, walk, l, next) # "" THEN stopped(GoFollow(w, walk, l, next))
             ELSE [walk EXCEPT !.keys = Append(@, l.body.named), !.taken = TRUE]
  IN Walk[Len(lines) + 1]

-----------------------------------------------------------------------------
(* receiptFrom: the members asked of every receipt, whatever its version. *)
GoReceiptAsks ==
  {"json", "receiptVersion", "sessionId", "keyId", "authority", "resultDigest", "signature",
   "source", "servedAt", "callIndex", "negative", "prevSignature"}

(* validateVersion3's, each part of it: remoteMembersProblem,               *)
(* toolTransportProblem, parseActionDelivery, parseActionReconciliation,    *)
(* parseCitations, validateDelegationMember, validateReconciler,            *)
(* validateAcquisition, validateAction.                                     *)
GoRemoteAsks == {"endpoint", "peerIdentity", "schema", "upstreamToken"}
GoTransportAsks == {"transport"}
GoDeliveryAsks == {"delivery"}
GoReconciliationAsks == {"reconciliation"}
GoCitationsAsk == {"cites"}
GoDelegationAsks == {"delegation"}
GoReconcilerAsks == {"reconciler"}
GoProvenanceAsks == {"descriptorProvenance"}

GoAcquisitionAsks ==
  {"adapter", "shape", "statement", "snapshot", "pageItems", "observedAt"}
    \cup GoRemoteAsks \cup GoTransportAsks \cup GoReconciliationAsks \cup GoProvenanceAsks

GoActionAsks ==
  {"requester", "recordDigest", "packDigest", "recordBytes", "tool", "request", "policy", "adapter", "observedAt"}
    \cup GoCitationsAsk \cup GoDeliveryAsks \cup GoTransportAsks

GoVersion3Asks(kind) ==
  {"keyIdCase", "argumentsDigest", "argumentsCommitment", "caller", "kind", "witness"}
    \cup GoDelegationAsks \cup GoReconcilerAsks
    \cup (IF kind = "action" THEN GoActionAsks ELSE GoAcquisitionAsks)

GoMalformed(b) ==
  b.faults \cap (GoReceiptAsks \cup
    CASE b.version = "2" -> {"argumentsDigest"}
      [] b.version = "3" -> GoVersion3Asks(b.kind)
      [] OTHER -> {}) # {}

(* The position of a receipt's key among those the walk reached. *)
GoKeyPos(keys, b) ==
  IF b.key \in Range(keys) /\ "keyIdCase" \notin b.faults
  THEN CHOOSE i \in DOMAIN keys : keys[i] = b.key ELSE 0

(* checkDescriptorProvenance: a statement of the source's descriptors is    *)
(* intact, and signed by a key reached no later than the receipt's.         *)
GoProvenance(w, d, keys, b) ==
  IF b.capture = None THEN "ok"
  ELSE IF b.capture \notin DOMAIN d.artifacts THEN "descriptor-provenance-missing"
  ELSE IF /\ d.artifacts[b.capture] = b.capture /\ w[b.capture].body.source = b.source
          /\ \E i \in 1 .. GoKeyPos(keys, b) : w[b.capture].key = keys[i]
       THEN "ok" ELSE "descriptor-provenance-mismatch"

(* checkReceiptUnder: the ladder, the first failure of it. *)
GoCheckReceipt(w, d, keys, p) ==
  LET b == d.files[p].body IN
  IF GoMalformed(b) THEN "malformed"
  ELSE IF b.version \notin {"2", "3"} THEN "unsupported-version"
  ELSE IF GoKeyPos(keys, b) = 0 THEN "key-mismatch"
  ELSE IF ~Verifies(w, d.files[p].sig, b.key, b) THEN "signature-mismatch"
  ELSE IF p.stem.n # b.index \/ p.dir # b.session THEN "misfiled"
  ELSE IF b.authority # Authority THEN "authority-mismatch"
  ELSE IF b.result \notin DOMAIN d.artifacts THEN "artifact-missing"
  ELSE IF d.artifacts[b.result] # b.result THEN "artifact-mismatch"
  ELSE GoProvenance(w, d, keys, b)

GoValid(w, d, keys) == {p \in DOMAIN d.files : GoCheckReceipt(w, d, keys, p) = "ok"}

(* verifySessionUnder: the sequence and the chain of the receipts that      *)
(* passed.  Of two with one index the sequence is broken.                   *)
GoChain(w, d, keys, dir) ==
  LET valid == {p \in GoValid(w, d, keys) : p.dir = dir}
      n == Cardinality(valid)
      indices == {d.files[p].body.index : p \in valid}
      at(i) == d.files[CHOOSE p \in valid : d.files[p].body.index = i]
      broken(i) ==
        \/ at(i).body.prev # (IF i = 0 THEN 0 ELSE at(i - 1).sig)
        \/ i > 0 /\ at(i).body.version # at(0).body.version
        \/ i > 0 /\ GoKeyPos(keys, at(i).body) < GoKeyPos(keys, at(i - 1).body) IN
  IF indices # 0 .. n - 1 THEN {<<dir, None, "sequence-broken">>}
  ELSE IF \E i \in 0 .. n - 1 : broken(i) THEN {<<dir, None, "chain-broken">>}
  ELSE {}

(* Mutant: the receipts there are not counted against the seal. *)
GoSealFindingsUncounted(d, seals) ==
  {<<dir, None, "unregistered-session">> : dir \in Dirs(d) \ DOMAIN seals}
  \cup {<<s, None, "sealed-session-missing">> : s \in DOMAIN seals \ Dirs(d)}

GoSealFindings(d, seals) ==
  UNION {LET have == Cardinality(FilesOf(d, dir)) IN
         CASE dir \notin DOMAIN seals -> {<<dir, None, "unregistered-session">>}
           [] dir \in DOMAIN seals /\ have < seals[dir] -> {<<dir, None, "tail-rollback">>}
           [] dir \in DOMAIN seals /\ have > seals[dir] -> {<<dir, None, "count-exceeds-seal">>}
           [] OTHER -> {} : dir \in Dirs(d)}
  \cup {<<s, None, "sealed-session-missing">> : s \in DOMAIN seals \ Dirs(d)}

(* topLevelSignature: a file's one signature, whatever else it holds. *)
GoResolves(d, c) ==
  LET p == Place(c[1], Plain(c[2])) IN
  /\ p \in DOMAIN d.files
  /\ d.files[p].sig = c[3] /\ d.files[p].body.faults \cap {"json", "signature"} = {}

(* reconciliationMatches. *)
GoMatches(read, action) ==
  /\ action.body.delivery = "uncertain"
  /\ read.body.recon.action[3] = action.sig
  /\ action.body.source = "write" /\ read.body.source = "live"
  /\ read.body.who = action.body.who

GoReconciliations(w, d, keys) ==
  LET valid == GoValid(w, d, keys)
      target(c) == {p \in valid : /\ d.files[p].body.kind = "action"
                                  /\ <<d.files[p].body.session, d.files[p].body.index, d.files[p].sig>> = c} IN
  {<<p.dir, <<"index", d.files[p].body.index>>, "action-reconciliation-unresolved">> :
     p \in {q \in valid : /\ d.files[q].body.recon # None
                          /\ ~\E t \in target(d.files[q].body.recon.action) : GoMatches(d.files[q], d.files[t])}}

(* deliveryObservations: an uncertain action is committed by a read-back    *)
(* that matches it and says so, and mismatched by one that does not match.  *)
GoObservations(w, d, keys) ==
  LET valid == GoValid(w, d, keys)
      reads(p) == {q \in valid : /\ d.files[q].body.recon # None
                                 /\ SubSeq(d.files[q].body.recon.action, 1, 2) = <<d.files[p].body.session, d.files[p].body.index>>} IN
  {<<p.dir, <<"index", d.files[p].body.index>>,
     CASE \E q \in reads(p) : ~GoMatches(d.files[q], d.files[p]) -> "action-mismatch"
       [] \E q \in reads(p) : d.files[q].body.recon.outcome = "committed" -> "action-committed"
       [] OTHER -> "action-uncertain">> :
     p \in {q \in valid : d.files[q].body.kind = "action" /\ d.files[q].body.delivery = "uncertain"}}

(* Step 5, 6 and 8: each action that passed, its citations and its record   *)
(* (walkDecisionRecords, recordClaimsOf, sameCitations).                    *)
GoActionFindings(w, d, keys) ==
  UNION {LET b == d.files[p].body
             of == {r \in d.records : r.digest = b.record}
             note(status) == <<p.dir, <<"index", b.index>>, status>>
             claims == CHOOSE r \in of : TRUE IN
         (IF \A c \in b.cites : GoResolves(d, c) THEN {} ELSE {note("citation-unresolved")})
         \cup
         (IF of = {} THEN {note("decision-record-mismatch")}
          ELSE IF ~claims.understood THEN {}
          ELSE {note(status) : status \in
                  {x \in {"decision-pack-mismatch", "decision-cites-mismatch", "decision-trail-mismatch"} :
                     CASE x = "decision-pack-mismatch" -> claims.pack # b.pack
                       [] x = "decision-cites-mismatch" -> claims.cites # b.cites
                       [] OTHER -> b.trail # None /\ claims.trail # b.trail}}) :
         p \in {q \in GoValid(w, d, keys) : d.files[q].body.kind = "action"}}

(* Step 7: the citations of each record there is (recordCitations). *)
GoRecordFindings(d) ==
  {<<None, r.digest, "record-citation-unresolved">> :
     r \in {x \in d.records : \E c \in x.cites : ~GoResolves(d, c)}}

GoFinding(w, d, keys, p) ==
  LET status == GoCheckReceipt(w, d, keys, p) IN
  <<p.dir, IF status = "malformed" THEN <<"file", p.stem>> ELSE <<"index", d.files[p].body.index>>, status>>

(* verifyAgainst. *)
GoFindings(w, d) ==
  LET walk == GoWalkRegistry(w, d) IN
  {GoFinding(w, d, walk.keys, p) : p \in DOMAIN d.files}
  \cup UNION {GoChain(w, d, walk.keys, dir) : dir \in Dirs(d)}
  \cup GoReconciliations(w, d, walk.keys)
  \cup (IF walk.finding = None THEN {} ELSE {<<None, walk.finding[2], walk.finding[1]>>})
  \cup GoSealFindings(d, walk.seals)
  \cup GoActionFindings(w, d, walk.keys)
  \cup GoRecordFindings(d)

GoOK(w, d) == \A f \in GoFindings(w, d) : f[3] = "ok"
=============================================================================
