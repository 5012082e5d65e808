--------------------------- MODULE ServingProofs ----------------------------
(* Proofs about what the gateway does for a caller, for every limit and size: *)
(* the source it runs, the write its decision policy admits, the paths its    *)
(* document engine holds, and the answers of its MCP server.                  *)
EXTENDS MCServing, WellFoundedInduction, FiniteSetTheorems, TLAPS

-----------------------------------------------------------------------------
(* A minimum over the naturals. *)

(* Every set of naturals that is not empty has a least element. *)
LEMMA Least ==
  ASSUME NEW T, T \subseteq Nat, T # {}
  PROVE  \E n \in T : \A m \in T : n <= m
<1>1. PICK R : R = OpToRel(<, Nat)
  OBVIOUS
<1>2. IsWellFoundedOn(R, Nat)
  BY <1>1, NatLessThanWellFounded
<1>3. PICK n \in T : \A m \in T : ~ (<<m, n>> \in R)
  BY <1>2, WFMin
<1>4. \A m \in T : ~ (m < n)
  <2> SUFFICES ASSUME NEW m \in T, m < n PROVE FALSE
    OBVIOUS
  <2>1. <<m, n>> \in R
    BY <1>1, <1>3 DEF OpToRel
  <2> QED BY <1>3, <2>1
<1> QED BY <1>3, <1>4


-----------------------------------------------------------------------------
(* The source.  One lemma per action; the conjuncts of SourceInv in order.    *)

(* What an envelope's acquisition is told apart as. *)
LEMMA EnvelopesPlain == Source!Plain \in [Source!Members -> Source!Classes]
<1>1. \A m \in Source!Members :
        (CASE m = "adapter" -> "object" [] m = "observedAt" -> "stamp"
           [] m \in {"transport", "server", "page", "descriptorProvenance", "unknown"} -> "absent"
           [] OTHER -> "null") \in Source!Classes
  BY DEF Source!Classes, Source!Strings
<1> QED BY <1>1 DEF Source!Plain

LEMMA EnvelopesTyped == Source!Envelopes \subseteq [Source!Members -> Source!Classes]
<1>1. Source!Plain \in [Source!Members -> Source!Classes]
  BY EnvelopesPlain
<1>2. Source!Remote \in [Source!Members -> Source!Classes]
  BY <1>1 DEF Source!Remote, Source!Classes, Source!Strings
<1> QED BY <1>1, <1>2 DEF Source!Envelopes

(* What is stamped of an envelope that was read, or of a command, verification takes. *)
LEMMA AcquisitionVerifies ==
  ASSUME spec \in Source!Specs,
         IF spec.shape = "command" THEN envelope = None
         ELSE envelope \in [Source!Members -> Source!Classes] /\ Source!ReadEnvelope(envelope, spec.shape)
  PROVE  Source!ValidateAcquisition(Source!Acquisition, spec.shape)
<1> DEFINE a == IF envelope = None THEN Source!CommandAcquisition ELSE Source!AdapterAcquisition(envelope)
<1>1. spec.pinned \in BOOLEAN /\ (spec.pinned => spec.shape = "mcp")
  BY DEF Source!Specs
<1>2. /\ a \in [Source!Members -> Source!Classes]
      /\ a["descriptorProvenance"] = "absent"
      /\ a["adapter"] = "object" /\ a["observedAt"] = "stamp" /\ a["page"] \in {"absent", "digest"}
      /\ \A m \in {"endpoint", "snapshot", "peerIdentity", "upstreamToken"} : a[m] \in Source!Strings \cup {"null"}
      /\ \A m \in {"statement", "schema"} : a[m] \in {"null", "digest"}
      /\ Source!RemoteMembersHold(a, spec.shape, FALSE)
  <2>1. CASE envelope = None
    <3>1. Source!Plain \in [Source!Members -> Source!Classes]
      BY EnvelopesPlain
    <3>2. a = Source!Plain
      BY <2>1 DEF Source!CommandAcquisition
    <3> QED BY <3>1, <3>2 DEF Source!Plain, Source!Members, Source!RemoteMembersHold
  <2>2. CASE envelope # None
    <3>1. envelope \in [Source!Members -> Source!Classes] /\ Source!ReadEnvelope(envelope, spec.shape)
      BY <2>2
    <3>2. /\ a \in [Source!Members -> Source!Classes]
          /\ \A m \in Source!Members \ {"statement", "page"} : a[m] = envelope[m]
          /\ a["statement"] = IF envelope["statement"] = "null" THEN "null" ELSE "digest"
          /\ a["page"] = IF envelope["page"] = "absent" THEN "absent" ELSE "digest"
      BY <2>2, <3>1 DEF Source!AdapterAcquisition, Source!Members, Source!Classes, Source!Strings
    <3> HIDE DEF a
    <3>3. \A m \in {"adapter", "observedAt", "descriptorProvenance", "endpoint", "snapshot", "peerIdentity",
                   "upstreamToken", "schema", "transport", "server"} : a[m] = envelope[m]
      BY <3>2 DEF Source!Members
    <3>4. Source!RemoteMembersHold(a, spec.shape, FALSE)
      BY <3>1, <3>3 DEF Source!ReadEnvelope, Source!ParseEnvelope, Source!RemoteMembersHold, Source!RemoteMembersOnShape
    <3> QED BY <3>1, <3>2, <3>3, <3>4 DEF Source!ReadEnvelope, Source!ParseEnvelope, Source!NullableString
  <2> QED BY <2>1, <2>2
<1>3. /\ Source!Acquisition \in [Source!Members -> Source!Classes]
      /\ \A m \in Source!Members \ {"descriptorProvenance"} : Source!Acquisition[m] = a[m]
      /\ Source!Acquisition["descriptorProvenance"] = IF spec.pinned THEN "object" ELSE a["descriptorProvenance"]
  BY <1>2 DEF Source!Acquisition, Source!Members, Source!Classes
<1> HIDE DEF a
<1>4. \A m \in {"adapter", "observedAt", "page", "endpoint", "snapshot", "peerIdentity", "upstreamToken",
               "statement", "schema", "transport", "server"} : Source!Acquisition[m] = a[m]
  BY <1>3 DEF Source!Members
<1>5. Source!RemoteMembersHold(Source!Acquisition, spec.shape, FALSE)
  BY <1>2, <1>4 DEF Source!RemoteMembersHold
<1> QED BY <1>1, <1>2, <1>3, <1>4, <1>5 DEF Source!ValidateAcquisition, Source!NullableString, Source!Strings

LEMMA SourceInitially == Source!Init => Source!SourceInv
<1> SUFFICES ASSUME Source!Init PROVE Source!SourceInv
  OBVIOUS
<1>a. unix \in BOOLEAN /\ spec \in Source!Specs /\ pc = "admit" /\ grouped \in SUBSET Source!Procs /\ writers \in SUBSET Source!Procs
  BY DEF Source!Init
<1>b. proc \in [Source!Procs -> {"none", "alive", "dead"}] /\ proc["source"] = "none" /\ proc["child"] = "none"
  BY DEF Source!Init, Source!Procs
<1>1. Source!TypeOK
  <2>1. overflowed \in BOOLEAN /\ cancelled \in BOOLEAN /\ retained \in BOOLEAN /\ strayKill \in BOOLEAN
    BY DEF Source!Init
  <2>2. written \in Nat /\ copied \in Nat
    BY DEF Source!Init
  <2> QED BY <1>a, <1>b, <2>1, <2>2 DEF Source!Init, Source!TypeOK, Source!Before
<1>2. Source!PhaseInv
  BY SMTT(40), <1>a, <1>b, SourceAssumption DEF Source!Init, Source!PhaseInv, Source!Started, Source!Before, Source!Collected, Source!Piped, Source!Reaped, Source!Procs, Source!Reasons
<1>3. Source!ExitInv
  BY SMTT(40), <1>a, <1>b, SourceAssumption DEF Source!Init, Source!ExitInv, Source!Started, Source!Before, Source!Collected, Source!Piped, Source!Reaped, Source!Procs, Source!Reasons
<1>4. Source!WatchInv
  BY SMTT(40), <1>a, <1>b, SourceAssumption DEF Source!Init, Source!WatchInv, Source!Started, Source!Before, Source!Collected, Source!Piped, Source!Reaped, Source!Procs, Source!Reasons
<1>5. Source!OutputInv
  BY SMTT(40), <1>a, <1>b, SourceAssumption DEF Source!Init, Source!OutputInv, Source!Started, Source!Before, Source!Collected, Source!Piped, Source!Reaped, Source!Procs, Source!Reasons
<1>6. Source!GroupInv
  BY SMTT(40), <1>a, <1>b, SourceAssumption DEF Source!Init, Source!GroupInv, Source!Started, Source!Before, Source!Collected, Source!Piped, Source!Reaped, Source!Procs, Source!Reasons
<1>7. Source!ReadInv
  BY SMTT(40), <1>a, <1>b, SourceAssumption DEF Source!Init, Source!ReadInv, Source!Started, Source!Before, Source!Collected, Source!Piped, Source!Reaped, Source!Procs, Source!Reasons
<1>8. Source!EndingIsTrue
  BY SMTT(40), <1>a, <1>b, SourceAssumption DEF Source!Init, Source!EndingIsTrue, Source!Started, Source!Before, Source!Collected, Source!Piped, Source!Reaped, Source!Procs, Source!Reasons
<1>9. Source!StampedVerifies
  BY SMTT(40), <1>a, <1>b, SourceAssumption DEF Source!Init, Source!StampedVerifies, Source!Started, Source!Before, Source!Collected, Source!Piped, Source!Reaped, Source!Procs, Source!Reasons
<1> QED BY <1>1, <1>2, <1>3, <1>4, <1>5, <1>6, <1>7, <1>8, <1>9 DEF Source!SourceInv

(* A signal ends the living among ps, and says how the source ended. *)
LEMMA Killed ==
  ASSUME Source!TypeOK, NEW ps \in SUBSET Source!Procs, NEW who \in {"itself", "gateway"}, Source!Die(ps, who)
  PROVE  /\ proc' \in [Source!Procs -> {"none", "alive", "dead"}]
         /\ \A p \in Source!Procs : proc'[p] = IF p \in ps /\ proc[p] = "alive" THEN "dead" ELSE proc[p]
         /\ proc'["source"] = IF "source" \in ps /\ proc["source"] = "alive" THEN "dead" ELSE proc["source"]
         /\ proc'["child"] = "none" <=> proc["child"] = "none"
         /\ writers' \in SUBSET Source!Procs /\ writers' \subseteq writers
         /\ status' \in {None, "zero", "nonzero", "signal"} /\ endedBy' \in {None, "itself", "gateway"}
         /\ IF "source" \in ps /\ proc["source"] = "alive"
              THEN status' = "signal" /\ endedBy' = who
              ELSE status' = status /\ endedBy' = endedBy
<1>1. "source" \in Source!Procs /\ "child" \in Source!Procs
  BY DEF Source!Procs
<1>2. proc \in [Source!Procs -> {"none", "alive", "dead"}]
  BY DEF Source!TypeOK
<1>3. /\ proc' = [p \in Source!Procs |-> IF p \in ps /\ proc[p] = "alive" THEN "dead" ELSE proc[p]]
      /\ writers' = writers \ ps
      /\ IF "source" \in ps /\ proc["source"] = "alive"
           THEN status' = "signal" /\ endedBy' = who
           ELSE status' = status /\ endedBy' = endedBy
  BY DEF Source!Die
<1>4. /\ proc' \in [Source!Procs -> {"none", "alive", "dead"}]
      /\ \A p \in Source!Procs : proc'[p] = IF p \in ps /\ proc[p] = "alive" THEN "dead" ELSE proc[p]
  BY <1>2, <1>3
<1> QED BY <1>1, <1>2, <1>3, <1>4 DEF Source!TypeOK

(* What is refused before the source runs leaves it unstarted. *)
LEMMA AdmitStep ==
  ASSUME Source!SourceInv, Source!Admit
  PROVE  Source!SourceInv'
<1>1. Source!TypeOK'
  BY SMTT(40), SourceAssumption DEF Source!SourceInv, Source!TypeOK, Source!Before, Source!Collected, Source!Reasons, Source!Procs, Source!Admit, Source!Refuse, Source!config, Source!processes, Source!output, Source!waiting, Source!outcome
<1>2. Source!PhaseInv'
  BY SMTT(40), SourceAssumption DEF Source!SourceInv, Source!PhaseInv, Source!TypeOK, Source!Started, Source!Collected, Source!Before, Source!Reasons, Source!Procs, Source!Admit, Source!Refuse, Source!config, Source!processes, Source!output, Source!waiting, Source!outcome
<1>3. Source!ExitInv'
  BY SMTT(40), SourceAssumption DEF Source!SourceInv, Source!ExitInv, Source!TypeOK, Source!PhaseInv, Source!Started, Source!Collected, Source!Procs, Source!Admit, Source!Refuse, Source!config, Source!processes, Source!output, Source!waiting, Source!outcome
<1>4. Source!WatchInv'
  BY SMTT(40), SourceAssumption DEF Source!SourceInv, Source!WatchInv, Source!TypeOK, Source!PhaseInv, Source!ExitInv, Source!Started, Source!Collected, Source!Piped, Source!Procs, Source!Admit, Source!Refuse, Source!config, Source!processes, Source!output, Source!waiting, Source!outcome
<1>5. Source!OutputInv'
  BY SMTT(40), SourceAssumption DEF Source!SourceInv, Source!OutputInv, Source!TypeOK, Source!PhaseInv, Source!ExitInv, Source!WatchInv, Source!Started, Source!Collected, Source!Piped, Source!Procs, Source!Admit, Source!Refuse, Source!config, Source!processes, Source!output, Source!waiting, Source!outcome
<1>6. Source!GroupInv'
  BY SMTT(40), SourceAssumption DEF Source!SourceInv, Source!GroupInv, Source!TypeOK, Source!PhaseInv, Source!ExitInv, Source!Started, Source!Collected, Source!Reaped, Source!Procs, Source!Before, Source!Reasons, Source!Admit, Source!Refuse, Source!config, Source!processes, Source!output, Source!waiting, Source!outcome
<1>7. Source!ReadInv'
  BY SMTT(40), SourceAssumption DEF Source!SourceInv, Source!ReadInv, Source!TypeOK, Source!PhaseInv, Source!Reasons, Source!OutputInv, Source!Piped, Source!Collected, Source!Admit, Source!Refuse, Source!config, Source!processes, Source!output, Source!waiting, Source!outcome
<1>8. Source!EndingIsTrue'
  BY SMTT(40), SourceAssumption DEF Source!SourceInv, Source!EndingIsTrue, Source!TypeOK, Source!PhaseInv, Source!Started, Source!Collected, Source!ExitInv, Source!Before, Source!Reasons, Source!WatchInv, Source!Procs, Source!Admit, Source!Refuse, Source!config, Source!processes, Source!output, Source!waiting, Source!outcome
<1>9. Source!StampedVerifies'
  BY SMTT(40), SourceAssumption DEF Source!SourceInv, Source!StampedVerifies, Source!TypeOK, Source!PhaseInv, Source!Admit, Source!Refuse, Source!config, Source!processes, Source!output, Source!waiting, Source!outcome
<1> QED BY <1>1, <1>2, <1>3, <1>4, <1>5, <1>6, <1>7, <1>8, <1>9 DEF Source!SourceInv

(* Nothing is started while the command is resolved. *)
LEMMA ResolveStep ==
  ASSUME Source!SourceInv, Source!Resolve
  PROVE  Source!SourceInv'
<1>1. Source!TypeOK'
  BY SMTT(40), SourceAssumption DEF Source!SourceInv, Source!TypeOK, Source!Before, Source!Collected, Source!Reasons, Source!Procs, Source!Resolve, Source!Refuse, Source!NotStarted, Source!config, Source!processes, Source!output, Source!waiting, Source!outcome
<1>2. Source!PhaseInv'
  BY SMTT(40), SourceAssumption DEF Source!SourceInv, Source!PhaseInv, Source!TypeOK, Source!Started, Source!Collected, Source!Before, Source!Reasons, Source!Procs, Source!Resolve, Source!Refuse, Source!NotStarted, Source!config, Source!processes, Source!output, Source!waiting, Source!outcome
<1>3. Source!ExitInv'
  BY SMTT(40), SourceAssumption DEF Source!SourceInv, Source!ExitInv, Source!TypeOK, Source!PhaseInv, Source!Started, Source!Collected, Source!Procs, Source!Resolve, Source!Refuse, Source!NotStarted, Source!config, Source!processes, Source!output, Source!waiting, Source!outcome
<1>4. Source!WatchInv'
  BY SMTT(40), SourceAssumption DEF Source!SourceInv, Source!WatchInv, Source!TypeOK, Source!PhaseInv, Source!ExitInv, Source!Started, Source!Collected, Source!Piped, Source!Procs, Source!Resolve, Source!Refuse, Source!NotStarted, Source!config, Source!processes, Source!output, Source!waiting, Source!outcome
<1>5. Source!OutputInv'
  BY SMTT(40), SourceAssumption DEF Source!SourceInv, Source!OutputInv, Source!TypeOK, Source!PhaseInv, Source!ExitInv, Source!WatchInv, Source!Started, Source!Collected, Source!Piped, Source!Procs, Source!Resolve, Source!Refuse, Source!NotStarted, Source!config, Source!processes, Source!output, Source!waiting, Source!outcome
<1>6. Source!GroupInv'
  BY SMTT(40), SourceAssumption DEF Source!SourceInv, Source!GroupInv, Source!TypeOK, Source!PhaseInv, Source!ExitInv, Source!Started, Source!Collected, Source!Reaped, Source!Procs, Source!Before, Source!Reasons, Source!Resolve, Source!Refuse, Source!NotStarted, Source!config, Source!processes, Source!output, Source!waiting, Source!outcome
<1>7. Source!ReadInv'
  BY SMTT(40), SourceAssumption DEF Source!SourceInv, Source!ReadInv, Source!TypeOK, Source!PhaseInv, Source!Reasons, Source!OutputInv, Source!Piped, Source!Collected, Source!Resolve, Source!Refuse, Source!NotStarted, Source!config, Source!processes, Source!output, Source!waiting, Source!outcome
<1>8. Source!EndingIsTrue'
  BY SMTT(40), SourceAssumption DEF Source!SourceInv, Source!EndingIsTrue, Source!TypeOK, Source!PhaseInv, Source!Started, Source!Collected, Source!ExitInv, Source!Before, Source!Reasons, Source!WatchInv, Source!Procs, Source!Resolve, Source!Refuse, Source!NotStarted, Source!config, Source!processes, Source!output, Source!waiting, Source!outcome
<1>9. Source!StampedVerifies'
  BY SMTT(40), SourceAssumption DEF Source!SourceInv, Source!StampedVerifies, Source!TypeOK, Source!PhaseInv, Source!Resolve, Source!Refuse, Source!NotStarted, Source!config, Source!processes, Source!output, Source!waiting, Source!outcome
<1> QED BY <1>1, <1>2, <1>3, <1>4, <1>5, <1>6, <1>7, <1>8, <1>9 DEF Source!SourceInv

(* The anchor is the group's leader before the source is. *)
LEMMA PrepareStep ==
  ASSUME Source!SourceInv, Source!PrepareSourceProcess
  PROVE  Source!SourceInv'
<1>1. Source!TypeOK'
  BY SMTT(40), SourceAssumption DEF Source!SourceInv, Source!TypeOK, Source!Before, Source!Collected, Source!Reasons, Source!Procs, Source!PrepareSourceProcess, Source!Refuse, Source!NotStarted, Source!config, Source!processes, Source!output, Source!waiting, Source!outcome
<1>2. Source!PhaseInv'
  BY SMTT(40), SourceAssumption DEF Source!SourceInv, Source!PhaseInv, Source!TypeOK, Source!Started, Source!Collected, Source!Before, Source!Reasons, Source!Procs, Source!PrepareSourceProcess, Source!Refuse, Source!NotStarted, Source!config, Source!processes, Source!output, Source!waiting, Source!outcome
<1>3. Source!ExitInv'
  BY SMTT(40), SourceAssumption DEF Source!SourceInv, Source!ExitInv, Source!TypeOK, Source!PhaseInv, Source!Started, Source!Collected, Source!Procs, Source!PrepareSourceProcess, Source!Refuse, Source!NotStarted, Source!config, Source!processes, Source!output, Source!waiting, Source!outcome
<1>4. Source!WatchInv'
  BY SMTT(40), SourceAssumption DEF Source!SourceInv, Source!WatchInv, Source!TypeOK, Source!PhaseInv, Source!ExitInv, Source!Started, Source!Collected, Source!Piped, Source!Procs, Source!PrepareSourceProcess, Source!Refuse, Source!NotStarted, Source!config, Source!processes, Source!output, Source!waiting, Source!outcome
<1>5. Source!OutputInv'
  BY SMTT(40), SourceAssumption DEF Source!SourceInv, Source!OutputInv, Source!TypeOK, Source!PhaseInv, Source!ExitInv, Source!WatchInv, Source!Started, Source!Collected, Source!Piped, Source!Procs, Source!PrepareSourceProcess, Source!Refuse, Source!NotStarted, Source!config, Source!processes, Source!output, Source!waiting, Source!outcome
<1>6. Source!GroupInv'
  BY SMTT(40), SourceAssumption DEF Source!SourceInv, Source!GroupInv, Source!TypeOK, Source!PhaseInv, Source!ExitInv, Source!Started, Source!Collected, Source!Reaped, Source!Procs, Source!Before, Source!Reasons, Source!PrepareSourceProcess, Source!Refuse, Source!NotStarted, Source!config, Source!processes, Source!output, Source!waiting, Source!outcome
<1>7. Source!ReadInv'
  BY SMTT(40), SourceAssumption DEF Source!SourceInv, Source!ReadInv, Source!TypeOK, Source!PhaseInv, Source!Reasons, Source!OutputInv, Source!Piped, Source!Collected, Source!PrepareSourceProcess, Source!Refuse, Source!NotStarted, Source!config, Source!processes, Source!output, Source!waiting, Source!outcome
<1>8. Source!EndingIsTrue'
  BY SMTT(40), SourceAssumption DEF Source!SourceInv, Source!EndingIsTrue, Source!TypeOK, Source!PhaseInv, Source!Started, Source!Collected, Source!ExitInv, Source!Before, Source!Reasons, Source!WatchInv, Source!Procs, Source!PrepareSourceProcess, Source!Refuse, Source!NotStarted, Source!config, Source!processes, Source!output, Source!waiting, Source!outcome
<1>9. Source!StampedVerifies'
  BY SMTT(40), SourceAssumption DEF Source!SourceInv, Source!StampedVerifies, Source!TypeOK, Source!PhaseInv, Source!PrepareSourceProcess, Source!Refuse, Source!NotStarted, Source!config, Source!processes, Source!output, Source!waiting, Source!outcome
<1> QED BY <1>1, <1>2, <1>3, <1>4, <1>5, <1>6, <1>7, <1>8, <1>9 DEF Source!SourceInv

(* A source that could not be started leaves a reaped anchor and nothing else. *)
LEMMA StartStep ==
  ASSUME Source!SourceInv, Source!Start
  PROVE  Source!SourceInv'
<1>1. pc = "start" /\ proc["source"] = "none" /\ proc["child"] = "none" /\ anchor # "reaped" /\ "source" \in Source!Procs
  BY DEF Source!Start, Source!SourceInv, Source!TypeOK, Source!PhaseInv, Source!GroupInv, Source!Started, Source!Collected, Source!Reaped, Source!Procs
<1>2. proc' \in [Source!Procs -> {"none", "alive", "dead"}] /\ proc'["child"] = "none"
  <2>1. proc' = proc \/ proc' = [proc EXCEPT !["source"] = "alive"]
    BY DEF Source!Start
  <2> QED BY <1>1, <2>1 DEF Source!SourceInv, Source!TypeOK, Source!Procs
<1>3. \/ /\ pc' = "wait" /\ watcher' = "watching" /\ copying' = "open" /\ proc'["source"] = "alive"
         /\ writers' = {"source"} /\ grouped' \in SUBSET {"source"} /\ UNCHANGED <<anchor, answer, strayKill>>
      \/ /\ pc' = "done" /\ answer' = "notStarted" /\ UNCHANGED <<proc, grouped, writers, watcher, copying, strayKill>>
         /\ anchor' \in {"none", "reaped"}
  BY <1>1 DEF Source!Start, Source!Refuse, Source!NotStarted, Source!outcome, Source!SourceInv, Source!TypeOK
<1>4. grouped' \in SUBSET Source!Procs /\ writers' \in SUBSET Source!Procs /\ strayKill' = strayKill
  BY <1>1, <1>3 DEF Source!SourceInv, Source!TypeOK, Source!Procs
<1>5. UNCHANGED <<unix, spec, ctx, status, endedBy, written, copied, overflowed, cancelled, waitErr, envelope, retained, stamped>>
  BY DEF Source!Start, Source!NotStarted, Source!config, Source!outcome
<1>6. Source!TypeOK'
  BY SMTT(40), <1>1, <1>2, <1>3, <1>4, <1>5, SourceAssumption DEF Source!SourceInv, Source!TypeOK, Source!Before, Source!Collected, Source!Reasons, Source!Procs, Source!config, Source!processes, Source!output, Source!waiting, Source!outcome
<1>7. Source!PhaseInv'
  BY SMTT(40), <1>1, <1>2, <1>3, <1>4, <1>5, SourceAssumption DEF Source!SourceInv, Source!PhaseInv, Source!TypeOK, Source!Started, Source!Collected, Source!Before, Source!Reasons, Source!Procs, Source!config, Source!processes, Source!output, Source!waiting, Source!outcome
<1>8. Source!ExitInv'
  BY SMTT(40), <1>1, <1>2, <1>3, <1>4, <1>5, SourceAssumption DEF Source!SourceInv, Source!ExitInv, Source!TypeOK, Source!PhaseInv, Source!Started, Source!Collected, Source!Procs, Source!config, Source!processes, Source!output, Source!waiting, Source!outcome
<1>9. Source!WatchInv'
  BY SMTT(40), <1>1, <1>2, <1>3, <1>4, <1>5, SourceAssumption DEF Source!SourceInv, Source!WatchInv, Source!TypeOK, Source!PhaseInv, Source!ExitInv, Source!Started, Source!Collected, Source!Piped, Source!Procs, Source!config, Source!processes, Source!output, Source!waiting, Source!outcome
<1>10. Source!OutputInv'
  BY SMTT(40), <1>1, <1>2, <1>3, <1>4, <1>5, SourceAssumption DEF Source!SourceInv, Source!OutputInv, Source!TypeOK, Source!PhaseInv, Source!ExitInv, Source!WatchInv, Source!Started, Source!Collected, Source!Piped, Source!Procs, Source!config, Source!processes, Source!output, Source!waiting, Source!outcome
<1>11. Source!GroupInv'
  BY SMTT(40), <1>1, <1>2, <1>3, <1>4, <1>5, SourceAssumption DEF Source!SourceInv, Source!GroupInv, Source!TypeOK, Source!PhaseInv, Source!ExitInv, Source!Started, Source!Collected, Source!Reaped, Source!Procs, Source!Before, Source!Reasons, Source!config, Source!processes, Source!output, Source!waiting, Source!outcome
<1>12. Source!ReadInv'
  BY SMTT(40), <1>1, <1>2, <1>3, <1>4, <1>5, SourceAssumption DEF Source!SourceInv, Source!ReadInv, Source!TypeOK, Source!PhaseInv, Source!Reasons, Source!OutputInv, Source!Piped, Source!Collected, Source!config, Source!processes, Source!output, Source!waiting, Source!outcome
<1>13. Source!EndingIsTrue'
  BY SMTT(40), <1>1, <1>2, <1>3, <1>4, <1>5, SourceAssumption DEF Source!SourceInv, Source!EndingIsTrue, Source!TypeOK, Source!PhaseInv, Source!Started, Source!Collected, Source!ExitInv, Source!Before, Source!Reasons, Source!WatchInv, Source!Procs, Source!config, Source!processes, Source!output, Source!waiting, Source!outcome
<1>14. Source!StampedVerifies'
  BY SMTT(40), <1>1, <1>2, <1>3, <1>4, <1>5, SourceAssumption DEF Source!SourceInv, Source!StampedVerifies, Source!TypeOK, Source!PhaseInv, Source!config, Source!processes, Source!output, Source!waiting, Source!outcome
<1> QED BY <1>6, <1>7, <1>8, <1>9, <1>10, <1>11, <1>12, <1>13, <1>14 DEF Source!SourceInv

(* The exit is an error where it is not success. *)
LEMMA CollectStep ==
  ASSUME Source!SourceInv, Source!Collect
  PROVE  Source!SourceInv'
<1>1. Source!TypeOK'
  BY SMTT(40), SourceAssumption DEF Source!SourceInv, Source!TypeOK, Source!Before, Source!Collected, Source!Reasons, Source!Procs, Source!Collect, Source!config, Source!processes, Source!output, Source!waiting, Source!outcome
<1>2. Source!PhaseInv'
  BY SMTT(40), SourceAssumption DEF Source!SourceInv, Source!PhaseInv, Source!TypeOK, Source!Started, Source!Collected, Source!Before, Source!Reasons, Source!Procs, Source!Collect, Source!config, Source!processes, Source!output, Source!waiting, Source!outcome
<1>3. Source!ExitInv'
  BY SMTT(40), SourceAssumption DEF Source!SourceInv, Source!ExitInv, Source!TypeOK, Source!PhaseInv, Source!Started, Source!Collected, Source!Procs, Source!Collect, Source!config, Source!processes, Source!output, Source!waiting, Source!outcome
<1>4. Source!WatchInv'
  BY SMTT(40), SourceAssumption DEF Source!SourceInv, Source!WatchInv, Source!TypeOK, Source!PhaseInv, Source!ExitInv, Source!Started, Source!Collected, Source!Piped, Source!Procs, Source!Collect, Source!config, Source!processes, Source!output, Source!waiting, Source!outcome
<1>5. Source!OutputInv'
  BY SMTT(40), SourceAssumption DEF Source!SourceInv, Source!OutputInv, Source!TypeOK, Source!PhaseInv, Source!ExitInv, Source!WatchInv, Source!Started, Source!Collected, Source!Piped, Source!Procs, Source!Collect, Source!config, Source!processes, Source!output, Source!waiting, Source!outcome
<1>6. Source!GroupInv'
  BY SMTT(40), SourceAssumption DEF Source!SourceInv, Source!GroupInv, Source!TypeOK, Source!PhaseInv, Source!ExitInv, Source!Started, Source!Collected, Source!Reaped, Source!Procs, Source!Before, Source!Reasons, Source!Collect, Source!config, Source!processes, Source!output, Source!waiting, Source!outcome
<1>7. Source!ReadInv'
  BY SMTT(40), SourceAssumption DEF Source!SourceInv, Source!ReadInv, Source!TypeOK, Source!PhaseInv, Source!Reasons, Source!OutputInv, Source!Piped, Source!Collected, Source!Collect, Source!config, Source!processes, Source!output, Source!waiting, Source!outcome
<1>8. Source!EndingIsTrue'
  BY SMTT(40), SourceAssumption DEF Source!SourceInv, Source!EndingIsTrue, Source!TypeOK, Source!PhaseInv, Source!Started, Source!Collected, Source!ExitInv, Source!Before, Source!Reasons, Source!WatchInv, Source!Procs, Source!Collect, Source!config, Source!processes, Source!output, Source!waiting, Source!outcome
<1>9. Source!StampedVerifies'
  BY SMTT(40), SourceAssumption DEF Source!SourceInv, Source!StampedVerifies, Source!TypeOK, Source!PhaseInv, Source!Collect, Source!config, Source!processes, Source!output, Source!waiting, Source!outcome
<1> QED BY <1>1, <1>2, <1>3, <1>4, <1>5, <1>6, <1>7, <1>8, <1>9 DEF Source!SourceInv

(* The watcher's answer is an error of a clean exit. *)
LEMMA HandOverStep ==
  ASSUME Source!SourceInv, Source!HandOver
  PROVE  Source!SourceInv'
<1>1. Source!TypeOK'
  BY SMTT(40), SourceAssumption DEF Source!SourceInv, Source!TypeOK, Source!Before, Source!Collected, Source!Reasons, Source!Procs, Source!HandOver, Source!config, Source!processes, Source!output, Source!waiting, Source!outcome
<1>2. Source!PhaseInv'
  BY SMTT(40), SourceAssumption DEF Source!SourceInv, Source!PhaseInv, Source!TypeOK, Source!Started, Source!Collected, Source!Before, Source!Reasons, Source!Procs, Source!HandOver, Source!config, Source!processes, Source!output, Source!waiting, Source!outcome
<1>3. Source!ExitInv'
  BY SMTT(40), SourceAssumption DEF Source!SourceInv, Source!ExitInv, Source!TypeOK, Source!PhaseInv, Source!Started, Source!Collected, Source!Procs, Source!HandOver, Source!config, Source!processes, Source!output, Source!waiting, Source!outcome
<1>4. Source!WatchInv'
  BY SMTT(40), SourceAssumption DEF Source!SourceInv, Source!WatchInv, Source!TypeOK, Source!PhaseInv, Source!ExitInv, Source!Started, Source!Collected, Source!Piped, Source!Procs, Source!HandOver, Source!config, Source!processes, Source!output, Source!waiting, Source!outcome
<1>5. Source!OutputInv'
  BY SMTT(40), SourceAssumption DEF Source!SourceInv, Source!OutputInv, Source!TypeOK, Source!PhaseInv, Source!ExitInv, Source!WatchInv, Source!Started, Source!Collected, Source!Piped, Source!Procs, Source!HandOver, Source!config, Source!processes, Source!output, Source!waiting, Source!outcome
<1>6. Source!GroupInv'
  BY SMTT(40), SourceAssumption DEF Source!SourceInv, Source!GroupInv, Source!TypeOK, Source!PhaseInv, Source!ExitInv, Source!Started, Source!Collected, Source!Reaped, Source!Procs, Source!Before, Source!Reasons, Source!HandOver, Source!config, Source!processes, Source!output, Source!waiting, Source!outcome
<1>7. Source!ReadInv'
  BY SMTT(40), SourceAssumption DEF Source!SourceInv, Source!ReadInv, Source!TypeOK, Source!PhaseInv, Source!Reasons, Source!OutputInv, Source!Piped, Source!Collected, Source!HandOver, Source!config, Source!processes, Source!output, Source!waiting, Source!outcome
<1>8. Source!EndingIsTrue'
  BY SMTT(40), SourceAssumption DEF Source!SourceInv, Source!EndingIsTrue, Source!TypeOK, Source!PhaseInv, Source!Started, Source!Collected, Source!ExitInv, Source!Before, Source!Reasons, Source!WatchInv, Source!Procs, Source!HandOver, Source!config, Source!processes, Source!output, Source!waiting, Source!outcome
<1>9. Source!StampedVerifies'
  BY SMTT(40), SourceAssumption DEF Source!SourceInv, Source!StampedVerifies, Source!TypeOK, Source!PhaseInv, Source!HandOver, Source!config, Source!processes, Source!output, Source!waiting, Source!outcome
<1> QED BY <1>1, <1>2, <1>3, <1>4, <1>5, <1>6, <1>7, <1>8, <1>9 DEF Source!SourceInv

(* The output ends, or is closed under its copy with an error. *)
LEMMA AwaitStep ==
  ASSUME Source!SourceInv, Source!AwaitGoroutines
  PROVE  Source!SourceInv'
<1>1. Source!TypeOK'
  BY SMTT(40), SourceAssumption DEF Source!SourceInv, Source!TypeOK, Source!Before, Source!Collected, Source!Reasons, Source!Procs, Source!AwaitGoroutines, Source!config, Source!processes, Source!output, Source!waiting, Source!outcome
<1>2. Source!PhaseInv'
  BY SMTT(40), SourceAssumption DEF Source!SourceInv, Source!PhaseInv, Source!TypeOK, Source!Started, Source!Collected, Source!Before, Source!Reasons, Source!Procs, Source!AwaitGoroutines, Source!config, Source!processes, Source!output, Source!waiting, Source!outcome
<1>3. Source!ExitInv'
  BY SMTT(40), SourceAssumption DEF Source!SourceInv, Source!ExitInv, Source!TypeOK, Source!PhaseInv, Source!Started, Source!Collected, Source!Procs, Source!AwaitGoroutines, Source!config, Source!processes, Source!output, Source!waiting, Source!outcome
<1>4. Source!WatchInv'
  BY SMTT(40), SourceAssumption DEF Source!SourceInv, Source!WatchInv, Source!TypeOK, Source!PhaseInv, Source!ExitInv, Source!Started, Source!Collected, Source!Piped, Source!Procs, Source!AwaitGoroutines, Source!config, Source!processes, Source!output, Source!waiting, Source!outcome
<1>5. Source!OutputInv'
  BY SMTT(40), SourceAssumption DEF Source!SourceInv, Source!OutputInv, Source!TypeOK, Source!PhaseInv, Source!ExitInv, Source!WatchInv, Source!Started, Source!Collected, Source!Piped, Source!Procs, Source!AwaitGoroutines, Source!config, Source!processes, Source!output, Source!waiting, Source!outcome
<1>6. Source!GroupInv'
  BY SMTT(40), SourceAssumption DEF Source!SourceInv, Source!GroupInv, Source!TypeOK, Source!PhaseInv, Source!ExitInv, Source!Started, Source!Collected, Source!Reaped, Source!Procs, Source!Before, Source!Reasons, Source!AwaitGoroutines, Source!config, Source!processes, Source!output, Source!waiting, Source!outcome
<1>7. Source!ReadInv'
  BY SMTT(40), SourceAssumption DEF Source!SourceInv, Source!ReadInv, Source!TypeOK, Source!PhaseInv, Source!Reasons, Source!OutputInv, Source!Piped, Source!Collected, Source!AwaitGoroutines, Source!config, Source!processes, Source!output, Source!waiting, Source!outcome
<1>8. Source!EndingIsTrue'
  BY SMTT(40), SourceAssumption DEF Source!SourceInv, Source!EndingIsTrue, Source!TypeOK, Source!PhaseInv, Source!Started, Source!Collected, Source!ExitInv, Source!Before, Source!Reasons, Source!WatchInv, Source!Procs, Source!AwaitGoroutines, Source!config, Source!processes, Source!output, Source!waiting, Source!outcome
<1>9. Source!StampedVerifies'
  BY SMTT(40), SourceAssumption DEF Source!SourceInv, Source!StampedVerifies, Source!TypeOK, Source!PhaseInv, Source!AwaitGoroutines, Source!config, Source!processes, Source!output, Source!waiting, Source!outcome
<1> QED BY <1>1, <1>2, <1>3, <1>4, <1>5, <1>6, <1>7, <1>8, <1>9 DEF Source!SourceInv

(* The group is killed while its leader is held. *)
LEMMA ReapStep ==
  ASSUME Source!SourceInv, Source!Reap
  PROVE  Source!SourceInv'
<1>1. grouped \in SUBSET Source!Procs /\ proc["source"] = "dead" /\ anchor # "reaped"
  BY DEF Source!Reap, Source!SourceInv, Source!TypeOK, Source!ExitInv, Source!GroupInv, Source!Collected, Source!Reaped
<1>2. /\ pc = "reap" /\ pc' = "judge"
      /\ UNCHANGED <<unix, spec, ctx, grouped, written, copied, overflowed, copying, watcher, cancelled, waitErr, envelope, retained, answer, stamped>>
  BY DEF Source!Reap, Source!config, Source!output, Source!waiting, Source!outcome
<1>3. /\ proc' \in [Source!Procs -> {"none", "alive", "dead"}]
      /\ proc'["source"] = IF unix /\ proc["source"] = "alive" THEN "dead" ELSE proc["source"]
      /\ proc'["child"] = "none" <=> proc["child"] = "none"
      /\ writers' \in SUBSET Source!Procs /\ writers' \subseteq writers
      /\ status' \in {None, "zero", "nonzero", "signal"} /\ endedBy' \in {None, "itself", "gateway"}
      /\ IF unix /\ proc["source"] = "alive" THEN status' = "signal" /\ endedBy' = "gateway"
         ELSE status' = status /\ endedBy' = endedBy
      /\ strayKill' = strayKill /\ anchor' \in {"none", "running", "zombie", "reaped"} /\ (unix => anchor' = "reaped" /\ \A p \in grouped : proc'[p] # "alive")
  <2>1. CASE unix
    <3>1. Source!Die(grouped, "gateway") /\ anchor' = "reaped" /\ strayKill' = strayKill
      BY <1>1, <2>1 DEF Source!Reap, Source!GroupKill, Source!SourceInv, Source!TypeOK
    <3>2. \A p \in Source!Procs : proc'[p] = IF p \in grouped /\ proc[p] = "alive" THEN "dead" ELSE proc[p]
      BY <1>1, <3>1, Killed DEF Source!SourceInv
    <3>3. \A p \in grouped : proc'[p] # "alive"
      BY <1>1, <3>2
    <3> QED BY <1>1, <2>1, <3>1, <3>3, Killed DEF Source!SourceInv
  <2>2. CASE ~unix
    BY <1>1, <2>2 DEF Source!Reap, Source!SourceInv, Source!TypeOK, Source!ExitInv
  <2> QED BY <2>1, <2>2
<1>4. Source!TypeOK'
  BY SMTT(40), <1>1, <1>2, <1>3, SourceAssumption DEF Source!SourceInv, Source!TypeOK, Source!Before, Source!Collected, Source!Reasons, Source!Procs, Source!config, Source!processes, Source!output, Source!waiting, Source!outcome
<1>5. Source!PhaseInv'
  BY SMTT(40), <1>1, <1>2, <1>3, SourceAssumption DEF Source!SourceInv, Source!PhaseInv, Source!TypeOK, Source!Started, Source!Collected, Source!Before, Source!Reasons, Source!Procs, Source!config, Source!processes, Source!output, Source!waiting, Source!outcome
<1>6. Source!ExitInv'
  BY SMTT(40), <1>1, <1>2, <1>3, SourceAssumption DEF Source!SourceInv, Source!ExitInv, Source!TypeOK, Source!PhaseInv, Source!Started, Source!Collected, Source!Procs, Source!config, Source!processes, Source!output, Source!waiting, Source!outcome
<1>7. Source!WatchInv'
  BY SMTT(40), <1>1, <1>2, <1>3, SourceAssumption DEF Source!SourceInv, Source!WatchInv, Source!TypeOK, Source!PhaseInv, Source!ExitInv, Source!Started, Source!Collected, Source!Piped, Source!Procs, Source!config, Source!processes, Source!output, Source!waiting, Source!outcome
<1>8. Source!OutputInv'
  BY SMTT(40), <1>1, <1>2, <1>3, SourceAssumption DEF Source!SourceInv, Source!OutputInv, Source!TypeOK, Source!PhaseInv, Source!ExitInv, Source!WatchInv, Source!Started, Source!Collected, Source!Piped, Source!Procs, Source!config, Source!processes, Source!output, Source!waiting, Source!outcome
<1>9. Source!GroupInv'
  BY SMTT(40), <1>1, <1>2, <1>3, SourceAssumption DEF Source!SourceInv, Source!GroupInv, Source!TypeOK, Source!PhaseInv, Source!ExitInv, Source!Started, Source!Collected, Source!Reaped, Source!Procs, Source!Before, Source!Reasons, Source!config, Source!processes, Source!output, Source!waiting, Source!outcome
<1>10. Source!ReadInv'
  BY SMTT(40), <1>1, <1>2, <1>3, SourceAssumption DEF Source!SourceInv, Source!ReadInv, Source!TypeOK, Source!PhaseInv, Source!Reasons, Source!OutputInv, Source!Piped, Source!Collected, Source!config, Source!processes, Source!output, Source!waiting, Source!outcome
<1>11. Source!EndingIsTrue'
  BY SMTT(40), <1>1, <1>2, <1>3, SourceAssumption DEF Source!SourceInv, Source!EndingIsTrue, Source!TypeOK, Source!PhaseInv, Source!Started, Source!Collected, Source!ExitInv, Source!Before, Source!Reasons, Source!WatchInv, Source!Procs, Source!config, Source!processes, Source!output, Source!waiting, Source!outcome
<1>12. Source!StampedVerifies'
  BY SMTT(40), <1>1, <1>2, <1>3, SourceAssumption DEF Source!SourceInv, Source!StampedVerifies, Source!TypeOK, Source!PhaseInv, Source!config, Source!processes, Source!output, Source!waiting, Source!outcome
<1> QED BY <1>4, <1>5, <1>6, <1>7, <1>8, <1>9, <1>10, <1>11, <1>12 DEF Source!SourceInv

(* The verdict is of an exit that was collected and a watcher that ended. *)
LEMMA JudgeStep ==
  ASSUME Source!SourceInv, Source!Judge
  PROVE  Source!SourceInv'
<1>1. Source!TypeOK'
  BY SMTT(40), SourceAssumption DEF Source!SourceInv, Source!TypeOK, Source!Before, Source!Collected, Source!Reasons, Source!Procs, Source!Judge, Source!Refuse, Source!Verdict, Source!SourceTimedOut, Source!ExitedOnItsOwn, Source!config, Source!processes, Source!output, Source!waiting, Source!outcome
<1>2. Source!PhaseInv'
  BY SMTT(40), SourceAssumption DEF Source!SourceInv, Source!PhaseInv, Source!TypeOK, Source!Started, Source!Collected, Source!Before, Source!Reasons, Source!Procs, Source!Judge, Source!Refuse, Source!Verdict, Source!SourceTimedOut, Source!ExitedOnItsOwn, Source!config, Source!processes, Source!output, Source!waiting, Source!outcome
<1>3. Source!ExitInv'
  BY SMTT(40), SourceAssumption DEF Source!SourceInv, Source!ExitInv, Source!TypeOK, Source!PhaseInv, Source!Started, Source!Collected, Source!Procs, Source!Judge, Source!Refuse, Source!Verdict, Source!SourceTimedOut, Source!ExitedOnItsOwn, Source!config, Source!processes, Source!output, Source!waiting, Source!outcome
<1>4. Source!WatchInv'
  BY SMTT(40), SourceAssumption DEF Source!SourceInv, Source!WatchInv, Source!TypeOK, Source!PhaseInv, Source!ExitInv, Source!Started, Source!Collected, Source!Piped, Source!Procs, Source!Judge, Source!Refuse, Source!Verdict, Source!SourceTimedOut, Source!ExitedOnItsOwn, Source!config, Source!processes, Source!output, Source!waiting, Source!outcome
<1>5. Source!OutputInv'
  BY SMTT(40), SourceAssumption DEF Source!SourceInv, Source!OutputInv, Source!TypeOK, Source!PhaseInv, Source!ExitInv, Source!WatchInv, Source!Started, Source!Collected, Source!Piped, Source!Procs, Source!Judge, Source!Refuse, Source!Verdict, Source!SourceTimedOut, Source!ExitedOnItsOwn, Source!config, Source!processes, Source!output, Source!waiting, Source!outcome
<1>6. Source!GroupInv'
  BY SMTT(40), SourceAssumption DEF Source!SourceInv, Source!GroupInv, Source!TypeOK, Source!PhaseInv, Source!ExitInv, Source!Started, Source!Collected, Source!Reaped, Source!Procs, Source!Before, Source!Reasons, Source!Judge, Source!Refuse, Source!Verdict, Source!SourceTimedOut, Source!ExitedOnItsOwn, Source!config, Source!processes, Source!output, Source!waiting, Source!outcome
<1>7. Source!ReadInv'
  BY SMTT(40), SourceAssumption DEF Source!SourceInv, Source!ReadInv, Source!TypeOK, Source!PhaseInv, Source!Reasons, Source!OutputInv, Source!Piped, Source!Collected, Source!Judge, Source!Refuse, Source!Verdict, Source!SourceTimedOut, Source!ExitedOnItsOwn, Source!config, Source!processes, Source!output, Source!waiting, Source!outcome
<1>8. Source!EndingIsTrue'
  BY SMTT(40), SourceAssumption DEF Source!SourceInv, Source!EndingIsTrue, Source!TypeOK, Source!PhaseInv, Source!Started, Source!Collected, Source!ExitInv, Source!Before, Source!Reasons, Source!WatchInv, Source!Procs, Source!Judge, Source!Refuse, Source!Verdict, Source!SourceTimedOut, Source!ExitedOnItsOwn, Source!config, Source!processes, Source!output, Source!waiting, Source!outcome
<1>9. Source!StampedVerifies'
  BY SMTT(40), SourceAssumption DEF Source!SourceInv, Source!StampedVerifies, Source!TypeOK, Source!PhaseInv, Source!Judge, Source!Refuse, Source!Verdict, Source!SourceTimedOut, Source!ExitedOnItsOwn, Source!config, Source!processes, Source!output, Source!waiting, Source!outcome
<1> QED BY <1>1, <1>2, <1>3, <1>4, <1>5, <1>6, <1>7, <1>8, <1>9 DEF Source!SourceInv

(* An envelope is read of an output that ended. *)
LEMMA ReadStep ==
  ASSUME Source!SourceInv, Source!ReadOutput
  PROVE  Source!SourceInv'
<1>1. \/ /\ pc' = "stamp" /\ UNCHANGED answer
         /\ IF spec.shape = "command" THEN envelope' = None
            ELSE envelope' \in Source!Envelopes /\ Source!ReadEnvelope(envelope', spec.shape)
      \/ /\ pc' = "done" /\ UNCHANGED envelope
         /\ answer' \in {"notEnvelope", "unproven", "unreturnable"}
  BY DEF Source!ReadOutput, Source!Refuse
<1>2. Source!Envelopes \subseteq [Source!Members -> Source!Classes]
  BY EnvelopesTyped
<1>3. pc = "read" /\ UNCHANGED <<unix, spec, ctx, anchor, proc, grouped, writers, status, endedBy, written, copied, overflowed, copying, watcher, cancelled, waitErr, retained, stamped, strayKill>>
  BY DEF Source!ReadOutput, Source!config, Source!processes, Source!output, Source!waiting
<1>4. Source!TypeOK'
  BY SMTT(40), <1>1, <1>2, <1>3, SourceAssumption DEF Source!SourceInv, Source!TypeOK, Source!Before, Source!Collected, Source!Reasons, Source!Procs, Source!config, Source!processes, Source!output, Source!waiting, Source!outcome
<1>5. Source!PhaseInv'
  BY SMTT(40), <1>1, <1>2, <1>3, SourceAssumption DEF Source!SourceInv, Source!PhaseInv, Source!TypeOK, Source!Started, Source!Collected, Source!Before, Source!Reasons, Source!Procs, Source!config, Source!processes, Source!output, Source!waiting, Source!outcome
<1>6. Source!ExitInv'
  BY SMTT(40), <1>1, <1>2, <1>3, SourceAssumption DEF Source!SourceInv, Source!ExitInv, Source!TypeOK, Source!PhaseInv, Source!Started, Source!Collected, Source!Procs, Source!config, Source!processes, Source!output, Source!waiting, Source!outcome
<1>7. Source!WatchInv'
  BY SMTT(40), <1>1, <1>2, <1>3, SourceAssumption DEF Source!SourceInv, Source!WatchInv, Source!TypeOK, Source!PhaseInv, Source!ExitInv, Source!Started, Source!Collected, Source!Piped, Source!Procs, Source!config, Source!processes, Source!output, Source!waiting, Source!outcome
<1>8. Source!OutputInv'
  BY SMTT(40), <1>1, <1>2, <1>3, SourceAssumption DEF Source!SourceInv, Source!OutputInv, Source!TypeOK, Source!PhaseInv, Source!ExitInv, Source!WatchInv, Source!Started, Source!Collected, Source!Piped, Source!Procs, Source!config, Source!processes, Source!output, Source!waiting, Source!outcome
<1>9. Source!GroupInv'
  BY SMTT(40), <1>1, <1>2, <1>3, SourceAssumption DEF Source!SourceInv, Source!GroupInv, Source!TypeOK, Source!PhaseInv, Source!ExitInv, Source!Started, Source!Collected, Source!Reaped, Source!Procs, Source!Before, Source!Reasons, Source!config, Source!processes, Source!output, Source!waiting, Source!outcome
<1>10. Source!ReadInv'
  BY SMTT(40), <1>1, <1>2, <1>3, SourceAssumption DEF Source!SourceInv, Source!ReadInv, Source!TypeOK, Source!PhaseInv, Source!Reasons, Source!OutputInv, Source!Piped, Source!Collected, Source!config, Source!processes, Source!output, Source!waiting, Source!outcome
<1>11. Source!EndingIsTrue'
  BY SMTT(40), <1>1, <1>2, <1>3, SourceAssumption DEF Source!SourceInv, Source!EndingIsTrue, Source!TypeOK, Source!PhaseInv, Source!Started, Source!Collected, Source!ExitInv, Source!Before, Source!Reasons, Source!WatchInv, Source!Procs, Source!config, Source!processes, Source!output, Source!waiting, Source!outcome
<1>12. Source!StampedVerifies'
  BY SMTT(40), <1>1, <1>2, <1>3, SourceAssumption DEF Source!SourceInv, Source!StampedVerifies, Source!TypeOK, Source!PhaseInv, Source!config, Source!processes, Source!output, Source!waiting, Source!outcome
<1> QED BY <1>4, <1>5, <1>6, <1>7, <1>8, <1>9, <1>10, <1>11, <1>12 DEF Source!SourceInv

(* What is stamped rests on what was read. *)
LEMMA StampStep ==
  ASSUME Source!SourceInv, Source!Stamp
  PROVE  Source!SourceInv'
<1>1. stamped' # None => Source!ValidateAcquisition(stamped', spec.shape)
  BY AcquisitionVerifies DEF Source!Stamp, Source!SourceInv, Source!TypeOK, Source!ReadInv, Source!StampedVerifies, Source!PhaseInv
<1>2. Source!TypeOK'
  BY SMTT(40), <1>1, SourceAssumption DEF Source!SourceInv, Source!TypeOK, Source!Before, Source!Collected, Source!Reasons, Source!Procs, Source!Stamp, Source!Refuse, Source!config, Source!processes, Source!output, Source!waiting, Source!outcome
<1>3. Source!PhaseInv'
  BY SMTT(40), <1>1, SourceAssumption DEF Source!SourceInv, Source!PhaseInv, Source!TypeOK, Source!Started, Source!Collected, Source!Before, Source!Reasons, Source!Procs, Source!Stamp, Source!Refuse, Source!config, Source!processes, Source!output, Source!waiting, Source!outcome
<1>4. Source!ExitInv'
  BY SMTT(40), <1>1, SourceAssumption DEF Source!SourceInv, Source!ExitInv, Source!TypeOK, Source!PhaseInv, Source!Started, Source!Collected, Source!Procs, Source!Stamp, Source!Refuse, Source!config, Source!processes, Source!output, Source!waiting, Source!outcome
<1>5. Source!WatchInv'
  BY SMTT(40), <1>1, SourceAssumption DEF Source!SourceInv, Source!WatchInv, Source!TypeOK, Source!PhaseInv, Source!ExitInv, Source!Started, Source!Collected, Source!Piped, Source!Procs, Source!Stamp, Source!Refuse, Source!config, Source!processes, Source!output, Source!waiting, Source!outcome
<1>6. Source!OutputInv'
  BY SMTT(40), <1>1, SourceAssumption DEF Source!SourceInv, Source!OutputInv, Source!TypeOK, Source!PhaseInv, Source!ExitInv, Source!WatchInv, Source!Started, Source!Collected, Source!Piped, Source!Procs, Source!Stamp, Source!Refuse, Source!config, Source!processes, Source!output, Source!waiting, Source!outcome
<1>7. Source!GroupInv'
  BY SMTT(40), <1>1, SourceAssumption DEF Source!SourceInv, Source!GroupInv, Source!TypeOK, Source!PhaseInv, Source!ExitInv, Source!Started, Source!Collected, Source!Reaped, Source!Procs, Source!Before, Source!Reasons, Source!Stamp, Source!Refuse, Source!config, Source!processes, Source!output, Source!waiting, Source!outcome
<1>8. Source!ReadInv'
  BY SMTT(40), <1>1, SourceAssumption DEF Source!SourceInv, Source!ReadInv, Source!TypeOK, Source!PhaseInv, Source!Reasons, Source!OutputInv, Source!Piped, Source!Collected, Source!Stamp, Source!Refuse, Source!config, Source!processes, Source!output, Source!waiting, Source!outcome
<1>9. Source!EndingIsTrue'
  BY SMTT(40), <1>1, SourceAssumption DEF Source!SourceInv, Source!EndingIsTrue, Source!TypeOK, Source!PhaseInv, Source!Started, Source!Collected, Source!ExitInv, Source!Before, Source!Reasons, Source!WatchInv, Source!Procs, Source!Stamp, Source!Refuse, Source!config, Source!processes, Source!output, Source!waiting, Source!outcome
<1>10. Source!StampedVerifies'
  BY SMTT(40), <1>1, SourceAssumption DEF Source!SourceInv, Source!StampedVerifies, Source!TypeOK, Source!PhaseInv, Source!Stamp, Source!Refuse, Source!config, Source!processes, Source!output, Source!waiting, Source!outcome
<1> QED BY <1>2, <1>3, <1>4, <1>5, <1>6, <1>7, <1>8, <1>9, <1>10 DEF Source!SourceInv

(* The context ends once. *)
LEMMA ContextStep ==
  ASSUME Source!SourceInv, NEW how \in {"deadline", "cancelled"}, Source!ContextEnds(how)
  PROVE  Source!SourceInv'
<1>1. Source!TypeOK'
  BY SMTT(40), SourceAssumption DEF Source!SourceInv, Source!TypeOK, Source!Before, Source!Collected, Source!Reasons, Source!Procs, Source!ContextEnds, Source!End, Source!config, Source!processes, Source!output, Source!waiting, Source!outcome
<1>2. Source!PhaseInv'
  BY SMTT(40), SourceAssumption DEF Source!SourceInv, Source!PhaseInv, Source!TypeOK, Source!Started, Source!Collected, Source!Before, Source!Reasons, Source!Procs, Source!ContextEnds, Source!End, Source!config, Source!processes, Source!output, Source!waiting, Source!outcome
<1>3. Source!ExitInv'
  BY SMTT(40), SourceAssumption DEF Source!SourceInv, Source!ExitInv, Source!TypeOK, Source!PhaseInv, Source!Started, Source!Collected, Source!Procs, Source!ContextEnds, Source!End, Source!config, Source!processes, Source!output, Source!waiting, Source!outcome
<1>4. Source!WatchInv'
  BY SMTT(40), SourceAssumption DEF Source!SourceInv, Source!WatchInv, Source!TypeOK, Source!PhaseInv, Source!ExitInv, Source!Started, Source!Collected, Source!Piped, Source!Procs, Source!ContextEnds, Source!End, Source!config, Source!processes, Source!output, Source!waiting, Source!outcome
<1>5. Source!OutputInv'
  BY SMTT(40), SourceAssumption DEF Source!SourceInv, Source!OutputInv, Source!TypeOK, Source!PhaseInv, Source!ExitInv, Source!WatchInv, Source!Started, Source!Collected, Source!Piped, Source!Procs, Source!ContextEnds, Source!End, Source!config, Source!processes, Source!output, Source!waiting, Source!outcome
<1>6. Source!GroupInv'
  BY SMTT(40), SourceAssumption DEF Source!SourceInv, Source!GroupInv, Source!TypeOK, Source!PhaseInv, Source!ExitInv, Source!Started, Source!Collected, Source!Reaped, Source!Procs, Source!Before, Source!Reasons, Source!ContextEnds, Source!End, Source!config, Source!processes, Source!output, Source!waiting, Source!outcome
<1>7. Source!ReadInv'
  BY SMTT(40), SourceAssumption DEF Source!SourceInv, Source!ReadInv, Source!TypeOK, Source!PhaseInv, Source!Reasons, Source!OutputInv, Source!Piped, Source!Collected, Source!ContextEnds, Source!End, Source!config, Source!processes, Source!output, Source!waiting, Source!outcome
<1>8. Source!EndingIsTrue'
  BY SMTT(40), SourceAssumption DEF Source!SourceInv, Source!EndingIsTrue, Source!TypeOK, Source!PhaseInv, Source!Started, Source!Collected, Source!ExitInv, Source!Before, Source!Reasons, Source!WatchInv, Source!Procs, Source!ContextEnds, Source!End, Source!config, Source!processes, Source!output, Source!waiting, Source!outcome
<1>9. Source!StampedVerifies'
  BY SMTT(40), SourceAssumption DEF Source!SourceInv, Source!StampedVerifies, Source!TypeOK, Source!PhaseInv, Source!ContextEnds, Source!End, Source!config, Source!processes, Source!output, Source!waiting, Source!outcome
<1> QED BY <1>1, <1>2, <1>3, <1>4, <1>5, <1>6, <1>7, <1>8, <1>9 DEF Source!SourceInv

(* The limit is crossed once, by what was written. *)
LEMMA CopyStep ==
  ASSUME Source!SourceInv, Source!Copy
  PROVE  Source!SourceInv'
<1>1. /\ copied' = copied + 1 /\ copied' \in Nat /\ copied < written /\ written \in Nat
      /\ overflowed' = (overflowed \/ copied' > MaxSourceOutput)
  BY DEF Source!Copy, Source!SourceInv, Source!TypeOK
<1>2. overflowed' \in BOOLEAN /\ (overflowed' <=> copied' > MaxSourceOutput)
  <2>1. overflowed => copied' > MaxSourceOutput
    BY <1>1, SourceAssumption DEF Source!SourceInv, Source!OutputInv, Source!TypeOK
  <2>2. overflowed' \in BOOLEAN /\ (overflowed' <=> (overflowed \/ copied' > MaxSourceOutput))
    BY <1>1
  <2> QED BY <2>1, <2>2
<1>3. Source!TypeOK'
  BY SMTT(40), <1>1, <1>2, SourceAssumption DEF Source!SourceInv, Source!TypeOK, Source!Before, Source!Collected, Source!Reasons, Source!Procs, Source!Copy, Source!End, Source!config, Source!processes, Source!output, Source!waiting, Source!outcome
<1>4. Source!PhaseInv'
  BY SMTT(40), <1>1, <1>2, SourceAssumption DEF Source!SourceInv, Source!PhaseInv, Source!TypeOK, Source!Started, Source!Collected, Source!Before, Source!Reasons, Source!Procs, Source!Copy, Source!End, Source!config, Source!processes, Source!output, Source!waiting, Source!outcome
<1>5. Source!ExitInv'
  BY SMTT(40), <1>1, <1>2, SourceAssumption DEF Source!SourceInv, Source!ExitInv, Source!TypeOK, Source!PhaseInv, Source!Started, Source!Collected, Source!Procs, Source!Copy, Source!End, Source!config, Source!processes, Source!output, Source!waiting, Source!outcome
<1>6. Source!WatchInv'
  BY SMTT(40), <1>1, <1>2, SourceAssumption DEF Source!SourceInv, Source!WatchInv, Source!TypeOK, Source!PhaseInv, Source!ExitInv, Source!Started, Source!Collected, Source!Piped, Source!Procs, Source!Copy, Source!End, Source!config, Source!processes, Source!output, Source!waiting, Source!outcome
<1>7. Source!OutputInv'
  BY SMTT(40), <1>1, <1>2, SourceAssumption DEF Source!SourceInv, Source!OutputInv, Source!TypeOK, Source!PhaseInv, Source!ExitInv, Source!WatchInv, Source!Started, Source!Collected, Source!Piped, Source!Procs, Source!Copy, Source!End, Source!config, Source!processes, Source!output, Source!waiting, Source!outcome
<1>8. Source!GroupInv'
  BY SMTT(40), <1>1, <1>2, SourceAssumption DEF Source!SourceInv, Source!GroupInv, Source!TypeOK, Source!PhaseInv, Source!ExitInv, Source!Started, Source!Collected, Source!Reaped, Source!Procs, Source!Before, Source!Reasons, Source!Copy, Source!End, Source!config, Source!processes, Source!output, Source!waiting, Source!outcome
<1>9. Source!ReadInv'
  BY SMTT(40), <1>1, <1>2, SourceAssumption DEF Source!SourceInv, Source!ReadInv, Source!TypeOK, Source!PhaseInv, Source!Reasons, Source!OutputInv, Source!Piped, Source!Collected, Source!Copy, Source!End, Source!config, Source!processes, Source!output, Source!waiting, Source!outcome
<1>10. Source!EndingIsTrue'
  BY SMTT(40), <1>1, <1>2, SourceAssumption DEF Source!SourceInv, Source!EndingIsTrue, Source!TypeOK, Source!PhaseInv, Source!Started, Source!Collected, Source!ExitInv, Source!Before, Source!Reasons, Source!WatchInv, Source!Procs, Source!Copy, Source!End, Source!config, Source!processes, Source!output, Source!waiting, Source!outcome
<1>11. Source!StampedVerifies'
  BY SMTT(40), <1>1, <1>2, SourceAssumption DEF Source!SourceInv, Source!StampedVerifies, Source!TypeOK, Source!PhaseInv, Source!Copy, Source!End, Source!config, Source!processes, Source!output, Source!waiting, Source!outcome
<1> QED BY <1>3, <1>4, <1>5, <1>6, <1>7, <1>8, <1>9, <1>10, <1>11 DEF Source!SourceInv

(* The output's end is the end of all that was written. *)
LEMMA CopyEndsStep ==
  ASSUME Source!SourceInv, Source!CopyEnds
  PROVE  Source!SourceInv'
<1>1. Source!TypeOK'
  BY SMTT(40), SourceAssumption DEF Source!SourceInv, Source!TypeOK, Source!Before, Source!Collected, Source!Reasons, Source!Procs, Source!CopyEnds, Source!config, Source!processes, Source!output, Source!waiting, Source!outcome
<1>2. Source!PhaseInv'
  BY SMTT(40), SourceAssumption DEF Source!SourceInv, Source!PhaseInv, Source!TypeOK, Source!Started, Source!Collected, Source!Before, Source!Reasons, Source!Procs, Source!CopyEnds, Source!config, Source!processes, Source!output, Source!waiting, Source!outcome
<1>3. Source!ExitInv'
  BY SMTT(40), SourceAssumption DEF Source!SourceInv, Source!ExitInv, Source!TypeOK, Source!PhaseInv, Source!Started, Source!Collected, Source!Procs, Source!CopyEnds, Source!config, Source!processes, Source!output, Source!waiting, Source!outcome
<1>4. Source!WatchInv'
  BY SMTT(40), SourceAssumption DEF Source!SourceInv, Source!WatchInv, Source!TypeOK, Source!PhaseInv, Source!ExitInv, Source!Started, Source!Collected, Source!Piped, Source!Procs, Source!CopyEnds, Source!config, Source!processes, Source!output, Source!waiting, Source!outcome
<1>5. Source!OutputInv'
  BY SMTT(40), SourceAssumption DEF Source!SourceInv, Source!OutputInv, Source!TypeOK, Source!PhaseInv, Source!ExitInv, Source!WatchInv, Source!Started, Source!Collected, Source!Piped, Source!Procs, Source!CopyEnds, Source!config, Source!processes, Source!output, Source!waiting, Source!outcome
<1>6. Source!GroupInv'
  BY SMTT(40), SourceAssumption DEF Source!SourceInv, Source!GroupInv, Source!TypeOK, Source!PhaseInv, Source!ExitInv, Source!Started, Source!Collected, Source!Reaped, Source!Procs, Source!Before, Source!Reasons, Source!CopyEnds, Source!config, Source!processes, Source!output, Source!waiting, Source!outcome
<1>7. Source!ReadInv'
  BY SMTT(40), SourceAssumption DEF Source!SourceInv, Source!ReadInv, Source!TypeOK, Source!PhaseInv, Source!Reasons, Source!OutputInv, Source!Piped, Source!Collected, Source!CopyEnds, Source!config, Source!processes, Source!output, Source!waiting, Source!outcome
<1>8. Source!EndingIsTrue'
  BY SMTT(40), SourceAssumption DEF Source!SourceInv, Source!EndingIsTrue, Source!TypeOK, Source!PhaseInv, Source!Started, Source!Collected, Source!ExitInv, Source!Before, Source!Reasons, Source!WatchInv, Source!Procs, Source!CopyEnds, Source!config, Source!processes, Source!output, Source!waiting, Source!outcome
<1>9. Source!StampedVerifies'
  BY SMTT(40), SourceAssumption DEF Source!SourceInv, Source!StampedVerifies, Source!TypeOK, Source!PhaseInv, Source!CopyEnds, Source!config, Source!processes, Source!output, Source!waiting, Source!outcome
<1> QED BY <1>1, <1>2, <1>3, <1>4, <1>5, <1>6, <1>7, <1>8, <1>9 DEF Source!SourceInv

(* A cancellation kills the source, or the source had exited. *)
LEMMA CancelStep ==
  ASSUME Source!SourceInv, Source!Cancel
  PROVE  Source!SourceInv'
<1>1. /\ grouped \in SUBSET Source!Procs /\ {"source"} \in SUBSET Source!Procs /\ {} \in SUBSET Source!Procs
      /\ anchor # "reaped" /\ unix \in BOOLEAN /\ (pc = "watch" => proc["source"] = "dead") /\ ~cancelled
  BY DEF Source!Cancel, Source!SourceInv, Source!TypeOK, Source!ExitInv, Source!GroupInv, Source!Collected, Source!Reaped, Source!Procs, Source!WatchInv
<1>2. /\ watcher = "watching" /\ pc \in {"wait", "watch"} /\ ctx # "live"
      /\ UNCHANGED <<unix, spec, pc, ctx, grouped, written, copied, overflowed, copying, waitErr, envelope, retained, answer, stamped>>
  BY DEF Source!Cancel, Source!config, Source!output, Source!outcome
<1>3. \E ps \in SUBSET Source!Procs : Source!Die(ps, "gateway") /\ ("source" \in ps /\ proc["source"] = "alive" => cancelled') /\ (~unix => ps \subseteq {"source"})
  BY <1>1, <1>2 DEF Source!Cancel, Source!GroupKill, Source!RecordCancellation
<1>4. PICK ps \in SUBSET Source!Procs : Source!Die(ps, "gateway") /\ ("source" \in ps /\ proc["source"] = "alive" => cancelled')
  BY <1>3
<1>5. /\ proc' \in [Source!Procs -> {"none", "alive", "dead"}]
      /\ proc'["source"] = IF "source" \in ps /\ proc["source"] = "alive" THEN "dead" ELSE proc["source"]
      /\ proc'["child"] = "none" <=> proc["child"] = "none"
      /\ writers' \in SUBSET Source!Procs /\ writers' \subseteq writers
      /\ status' \in {None, "zero", "nonzero", "signal"} /\ endedBy' \in {None, "itself", "gateway"}
      /\ IF "source" \in ps /\ proc["source"] = "alive" THEN status' = "signal" /\ endedBy' = "gateway"
         ELSE status' = status /\ endedBy' = endedBy
  BY <1>4, Killed DEF Source!SourceInv
<1>6. /\ cancelled' \in BOOLEAN /\ watcher' \in {"interrupted", "refused"}
      /\ (watcher' = "refused" => ~unix /\ pc = "wait" /\ proc["source"] = "dead")
      /\ (watcher' = "interrupted" /\ pc = "wait" => cancelled')
      /\ strayKill' = strayKill /\ anchor' \in {"none", "running", "zombie"}
  <2>1. CASE unix
    BY <1>1, <1>2, <2>1 DEF Source!Cancel, Source!GroupKill, Source!RecordCancellation, Source!SourceInv, Source!TypeOK
  <2>2. CASE ~unix
    <3>1. PICK result \in {"done", "ok", "error"} :
            /\ Source!RecordCancellation(result)
            /\ pc = "wait" => result # "done"
            /\ result = "error" => pc = "wait" /\ proc["source"] = "dead"
      BY <1>1, <1>2, <2>2 DEF Source!Cancel
    <3> QED BY <1>1, <1>2, <2>2, <3>1 DEF Source!Cancel, Source!RecordCancellation, Source!SourceInv, Source!TypeOK, Source!GroupInv
  <2> QED BY <1>1, <2>1, <2>2
<1>7. Source!TypeOK'
  BY SMTT(40), <1>1, <1>2, <1>3, <1>4, <1>5, <1>6, SourceAssumption DEF Source!SourceInv, Source!TypeOK, Source!Before, Source!Collected, Source!Reasons, Source!Procs, Source!config, Source!processes, Source!output, Source!waiting, Source!outcome
<1>8. Source!PhaseInv'
  BY SMTT(40), <1>1, <1>2, <1>3, <1>4, <1>5, <1>6, SourceAssumption DEF Source!SourceInv, Source!PhaseInv, Source!TypeOK, Source!Started, Source!Collected, Source!Before, Source!Reasons, Source!Procs, Source!config, Source!processes, Source!output, Source!waiting, Source!outcome
<1>9. Source!ExitInv'
  BY SMTT(40), <1>1, <1>2, <1>3, <1>4, <1>5, <1>6, SourceAssumption DEF Source!SourceInv, Source!ExitInv, Source!TypeOK, Source!PhaseInv, Source!Started, Source!Collected, Source!Procs, Source!config, Source!processes, Source!output, Source!waiting, Source!outcome
<1>10. Source!WatchInv'
  BY SMTT(40), <1>1, <1>2, <1>3, <1>4, <1>5, <1>6, SourceAssumption DEF Source!SourceInv, Source!WatchInv, Source!TypeOK, Source!PhaseInv, Source!ExitInv, Source!Started, Source!Collected, Source!Piped, Source!Procs, Source!config, Source!processes, Source!output, Source!waiting, Source!outcome
<1>11. Source!OutputInv'
  BY SMTT(40), <1>1, <1>2, <1>3, <1>4, <1>5, <1>6, SourceAssumption DEF Source!SourceInv, Source!OutputInv, Source!TypeOK, Source!PhaseInv, Source!ExitInv, Source!WatchInv, Source!Started, Source!Collected, Source!Piped, Source!Procs, Source!config, Source!processes, Source!output, Source!waiting, Source!outcome
<1>12. Source!GroupInv'
  BY SMTT(40), <1>1, <1>2, <1>3, <1>4, <1>5, <1>6, SourceAssumption DEF Source!SourceInv, Source!GroupInv, Source!TypeOK, Source!PhaseInv, Source!ExitInv, Source!Started, Source!Collected, Source!Reaped, Source!Procs, Source!Before, Source!Reasons, Source!config, Source!processes, Source!output, Source!waiting, Source!outcome
<1>13. Source!ReadInv'
  BY SMTT(40), <1>1, <1>2, <1>3, <1>4, <1>5, <1>6, SourceAssumption DEF Source!SourceInv, Source!ReadInv, Source!TypeOK, Source!PhaseInv, Source!Reasons, Source!OutputInv, Source!Piped, Source!Collected, Source!config, Source!processes, Source!output, Source!waiting, Source!outcome
<1>14. Source!EndingIsTrue'
  BY SMTT(40), <1>1, <1>2, <1>3, <1>4, <1>5, <1>6, SourceAssumption DEF Source!SourceInv, Source!EndingIsTrue, Source!TypeOK, Source!PhaseInv, Source!Started, Source!Collected, Source!ExitInv, Source!Before, Source!Reasons, Source!WatchInv, Source!Procs, Source!config, Source!processes, Source!output, Source!waiting, Source!outcome
<1>15. Source!StampedVerifies'
  BY SMTT(40), <1>1, <1>2, <1>3, <1>4, <1>5, <1>6, SourceAssumption DEF Source!SourceInv, Source!StampedVerifies, Source!TypeOK, Source!PhaseInv, Source!config, Source!processes, Source!output, Source!waiting, Source!outcome
<1> QED BY <1>7, <1>8, <1>9, <1>10, <1>11, <1>12, <1>13, <1>14, <1>15 DEF Source!SourceInv

(* The delay kills a source that was cancelled and lived. *)
LEMMA DelayStep ==
  ASSUME Source!SourceInv, Source!WaitDelay
  PROVE  Source!SourceInv'
<1>1. {"source"} \in SUBSET Source!Procs /\ cancelled
  BY DEF Source!WaitDelay, Source!SourceInv, Source!WatchInv, Source!Procs
<1>2. /\ watcher \in {"interrupted", "refused"} /\ pc = "wait" /\ proc["source"] = "alive"
      /\ watcher' = "expired" /\ copying' = "closed"
      /\ UNCHANGED <<unix, spec, pc, ctx, anchor, grouped, written, copied, overflowed, cancelled, waitErr, envelope, retained, answer, stamped, strayKill>>
  BY DEF Source!WaitDelay, Source!config, Source!outcome
<1>3. /\ proc' \in [Source!Procs -> {"none", "alive", "dead"}]
      /\ proc'["source"] = IF TRUE /\ proc["source"] = "alive" THEN "dead" ELSE proc["source"]
      /\ proc'["child"] = "none" <=> proc["child"] = "none"
      /\ writers' \in SUBSET Source!Procs /\ writers' \subseteq writers
      /\ status' \in {None, "zero", "nonzero", "signal"} /\ endedBy' \in {None, "itself", "gateway"}
      /\ IF TRUE /\ proc["source"] = "alive" THEN status' = "signal" /\ endedBy' = "gateway"
         ELSE status' = status /\ endedBy' = endedBy
  BY <1>1, Killed DEF Source!WaitDelay, Source!SourceInv
<1>4. Source!TypeOK'
  BY SMTT(40), <1>1, <1>2, <1>3, SourceAssumption DEF Source!SourceInv, Source!TypeOK, Source!Before, Source!Collected, Source!Reasons, Source!Procs, Source!config, Source!processes, Source!output, Source!waiting, Source!outcome
<1>5. Source!PhaseInv'
  BY SMTT(40), <1>1, <1>2, <1>3, SourceAssumption DEF Source!SourceInv, Source!PhaseInv, Source!TypeOK, Source!Started, Source!Collected, Source!Before, Source!Reasons, Source!Procs, Source!config, Source!processes, Source!output, Source!waiting, Source!outcome
<1>6. Source!ExitInv'
  BY SMTT(40), <1>1, <1>2, <1>3, SourceAssumption DEF Source!SourceInv, Source!ExitInv, Source!TypeOK, Source!PhaseInv, Source!Started, Source!Collected, Source!Procs, Source!config, Source!processes, Source!output, Source!waiting, Source!outcome
<1>7. Source!WatchInv'
  BY SMTT(40), <1>1, <1>2, <1>3, SourceAssumption DEF Source!SourceInv, Source!WatchInv, Source!TypeOK, Source!PhaseInv, Source!ExitInv, Source!Started, Source!Collected, Source!Piped, Source!Procs, Source!config, Source!processes, Source!output, Source!waiting, Source!outcome
<1>8. Source!OutputInv'
  BY SMTT(40), <1>1, <1>2, <1>3, SourceAssumption DEF Source!SourceInv, Source!OutputInv, Source!TypeOK, Source!PhaseInv, Source!ExitInv, Source!WatchInv, Source!Started, Source!Collected, Source!Piped, Source!Procs, Source!config, Source!processes, Source!output, Source!waiting, Source!outcome
<1>9. Source!GroupInv'
  BY SMTT(40), <1>1, <1>2, <1>3, SourceAssumption DEF Source!SourceInv, Source!GroupInv, Source!TypeOK, Source!PhaseInv, Source!ExitInv, Source!Started, Source!Collected, Source!Reaped, Source!Procs, Source!Before, Source!Reasons, Source!config, Source!processes, Source!output, Source!waiting, Source!outcome
<1>10. Source!ReadInv'
  BY SMTT(40), <1>1, <1>2, <1>3, SourceAssumption DEF Source!SourceInv, Source!ReadInv, Source!TypeOK, Source!PhaseInv, Source!Reasons, Source!OutputInv, Source!Piped, Source!Collected, Source!config, Source!processes, Source!output, Source!waiting, Source!outcome
<1>11. Source!EndingIsTrue'
  BY SMTT(40), <1>1, <1>2, <1>3, SourceAssumption DEF Source!SourceInv, Source!EndingIsTrue, Source!TypeOK, Source!PhaseInv, Source!Started, Source!Collected, Source!ExitInv, Source!Before, Source!Reasons, Source!WatchInv, Source!Procs, Source!config, Source!processes, Source!output, Source!waiting, Source!outcome
<1>12. Source!StampedVerifies'
  BY SMTT(40), <1>1, <1>2, <1>3, SourceAssumption DEF Source!SourceInv, Source!StampedVerifies, Source!TypeOK, Source!PhaseInv, Source!config, Source!processes, Source!output, Source!waiting, Source!outcome
<1> QED BY <1>4, <1>5, <1>6, <1>7, <1>8, <1>9, <1>10, <1>11, <1>12 DEF Source!SourceInv

(* A write is of a live process, before the output's end. *)
LEMMA WriteStep ==
  ASSUME Source!SourceInv, NEW p \in Source!Procs, Source!Write(p)
  PROVE  Source!SourceInv'
<1>1. Source!TypeOK'
  BY SMTT(40), SourceAssumption DEF Source!SourceInv, Source!TypeOK, Source!Before, Source!Collected, Source!Reasons, Source!Procs, Source!Write, Source!config, Source!processes, Source!output, Source!waiting, Source!outcome
<1>2. Source!PhaseInv'
  BY SMTT(40), SourceAssumption DEF Source!SourceInv, Source!PhaseInv, Source!TypeOK, Source!Started, Source!Collected, Source!Before, Source!Reasons, Source!Procs, Source!Write, Source!config, Source!processes, Source!output, Source!waiting, Source!outcome
<1>3. Source!ExitInv'
  BY SMTT(40), SourceAssumption DEF Source!SourceInv, Source!ExitInv, Source!TypeOK, Source!PhaseInv, Source!Started, Source!Collected, Source!Procs, Source!Write, Source!config, Source!processes, Source!output, Source!waiting, Source!outcome
<1>4. Source!WatchInv'
  BY SMTT(40), SourceAssumption DEF Source!SourceInv, Source!WatchInv, Source!TypeOK, Source!PhaseInv, Source!ExitInv, Source!Started, Source!Collected, Source!Piped, Source!Procs, Source!Write, Source!config, Source!processes, Source!output, Source!waiting, Source!outcome
<1>5. Source!OutputInv'
  BY SMTT(40), SourceAssumption DEF Source!SourceInv, Source!OutputInv, Source!TypeOK, Source!PhaseInv, Source!ExitInv, Source!WatchInv, Source!Started, Source!Collected, Source!Piped, Source!Procs, Source!Write, Source!config, Source!processes, Source!output, Source!waiting, Source!outcome
<1>6. Source!GroupInv'
  BY SMTT(40), SourceAssumption DEF Source!SourceInv, Source!GroupInv, Source!TypeOK, Source!PhaseInv, Source!ExitInv, Source!Started, Source!Collected, Source!Reaped, Source!Procs, Source!Before, Source!Reasons, Source!Write, Source!config, Source!processes, Source!output, Source!waiting, Source!outcome
<1>7. Source!ReadInv'
  BY SMTT(40), SourceAssumption DEF Source!SourceInv, Source!ReadInv, Source!TypeOK, Source!PhaseInv, Source!Reasons, Source!OutputInv, Source!Piped, Source!Collected, Source!Write, Source!config, Source!processes, Source!output, Source!waiting, Source!outcome
<1>8. Source!EndingIsTrue'
  BY SMTT(40), SourceAssumption DEF Source!SourceInv, Source!EndingIsTrue, Source!TypeOK, Source!PhaseInv, Source!Started, Source!Collected, Source!ExitInv, Source!Before, Source!Reasons, Source!WatchInv, Source!Procs, Source!Write, Source!config, Source!processes, Source!output, Source!waiting, Source!outcome
<1>9. Source!StampedVerifies'
  BY SMTT(40), SourceAssumption DEF Source!SourceInv, Source!StampedVerifies, Source!TypeOK, Source!PhaseInv, Source!Write, Source!config, Source!processes, Source!output, Source!waiting, Source!outcome
<1> QED BY <1>1, <1>2, <1>3, <1>4, <1>5, <1>6, <1>7, <1>8, <1>9 DEF Source!SourceInv

(* A process closes its output. *)
LEMMA CloseStep ==
  ASSUME Source!SourceInv, NEW p \in Source!Procs, Source!CloseOutput(p)
  PROVE  Source!SourceInv'
<1>1. Source!TypeOK'
  BY SMTT(40), SourceAssumption DEF Source!SourceInv, Source!TypeOK, Source!Before, Source!Collected, Source!Reasons, Source!Procs, Source!CloseOutput, Source!config, Source!processes, Source!output, Source!waiting, Source!outcome
<1>2. Source!PhaseInv'
  BY SMTT(40), SourceAssumption DEF Source!SourceInv, Source!PhaseInv, Source!TypeOK, Source!Started, Source!Collected, Source!Before, Source!Reasons, Source!Procs, Source!CloseOutput, Source!config, Source!processes, Source!output, Source!waiting, Source!outcome
<1>3. Source!ExitInv'
  BY SMTT(40), SourceAssumption DEF Source!SourceInv, Source!ExitInv, Source!TypeOK, Source!PhaseInv, Source!Started, Source!Collected, Source!Procs, Source!CloseOutput, Source!config, Source!processes, Source!output, Source!waiting, Source!outcome
<1>4. Source!WatchInv'
  BY SMTT(40), SourceAssumption DEF Source!SourceInv, Source!WatchInv, Source!TypeOK, Source!PhaseInv, Source!ExitInv, Source!Started, Source!Collected, Source!Piped, Source!Procs, Source!CloseOutput, Source!config, Source!processes, Source!output, Source!waiting, Source!outcome
<1>5. Source!OutputInv'
  BY SMTT(40), SourceAssumption DEF Source!SourceInv, Source!OutputInv, Source!TypeOK, Source!PhaseInv, Source!ExitInv, Source!WatchInv, Source!Started, Source!Collected, Source!Piped, Source!Procs, Source!CloseOutput, Source!config, Source!processes, Source!output, Source!waiting, Source!outcome
<1>6. Source!GroupInv'
  BY SMTT(40), SourceAssumption DEF Source!SourceInv, Source!GroupInv, Source!TypeOK, Source!PhaseInv, Source!ExitInv, Source!Started, Source!Collected, Source!Reaped, Source!Procs, Source!Before, Source!Reasons, Source!CloseOutput, Source!config, Source!processes, Source!output, Source!waiting, Source!outcome
<1>7. Source!ReadInv'
  BY SMTT(40), SourceAssumption DEF Source!SourceInv, Source!ReadInv, Source!TypeOK, Source!PhaseInv, Source!Reasons, Source!OutputInv, Source!Piped, Source!Collected, Source!CloseOutput, Source!config, Source!processes, Source!output, Source!waiting, Source!outcome
<1>8. Source!EndingIsTrue'
  BY SMTT(40), SourceAssumption DEF Source!SourceInv, Source!EndingIsTrue, Source!TypeOK, Source!PhaseInv, Source!Started, Source!Collected, Source!ExitInv, Source!Before, Source!Reasons, Source!WatchInv, Source!Procs, Source!CloseOutput, Source!config, Source!processes, Source!output, Source!waiting, Source!outcome
<1>9. Source!StampedVerifies'
  BY SMTT(40), SourceAssumption DEF Source!SourceInv, Source!StampedVerifies, Source!TypeOK, Source!PhaseInv, Source!CloseOutput, Source!config, Source!processes, Source!output, Source!waiting, Source!outcome
<1> QED BY <1>1, <1>2, <1>3, <1>4, <1>5, <1>6, <1>7, <1>8, <1>9 DEF Source!SourceInv

(* A child is of a live source, in its group and with its output. *)
LEMMA ForkStep ==
  ASSUME Source!SourceInv, Source!Fork
  PROVE  Source!SourceInv'
<1>1. Source!TypeOK'
  BY SMTT(40), SourceAssumption DEF Source!SourceInv, Source!TypeOK, Source!Before, Source!Collected, Source!Reasons, Source!Procs, Source!Fork, Source!config, Source!processes, Source!output, Source!waiting, Source!outcome
<1>2. Source!PhaseInv'
  BY SMTT(40), SourceAssumption DEF Source!SourceInv, Source!PhaseInv, Source!TypeOK, Source!Started, Source!Collected, Source!Before, Source!Reasons, Source!Procs, Source!Fork, Source!config, Source!processes, Source!output, Source!waiting, Source!outcome
<1>3. Source!ExitInv'
  BY SMTT(40), SourceAssumption DEF Source!SourceInv, Source!ExitInv, Source!TypeOK, Source!PhaseInv, Source!Started, Source!Collected, Source!Procs, Source!Fork, Source!config, Source!processes, Source!output, Source!waiting, Source!outcome
<1>4. Source!WatchInv'
  BY SMTT(40), SourceAssumption DEF Source!SourceInv, Source!WatchInv, Source!TypeOK, Source!PhaseInv, Source!ExitInv, Source!Started, Source!Collected, Source!Piped, Source!Procs, Source!Fork, Source!config, Source!processes, Source!output, Source!waiting, Source!outcome
<1>5. Source!OutputInv'
  BY SMTT(40), SourceAssumption DEF Source!SourceInv, Source!OutputInv, Source!TypeOK, Source!PhaseInv, Source!ExitInv, Source!WatchInv, Source!Started, Source!Collected, Source!Piped, Source!Procs, Source!Fork, Source!config, Source!processes, Source!output, Source!waiting, Source!outcome
<1>6. Source!GroupInv'
  BY SMTT(40), SourceAssumption DEF Source!SourceInv, Source!GroupInv, Source!TypeOK, Source!PhaseInv, Source!ExitInv, Source!Started, Source!Collected, Source!Reaped, Source!Procs, Source!Before, Source!Reasons, Source!Fork, Source!config, Source!processes, Source!output, Source!waiting, Source!outcome
<1>7. Source!ReadInv'
  BY SMTT(40), SourceAssumption DEF Source!SourceInv, Source!ReadInv, Source!TypeOK, Source!PhaseInv, Source!Reasons, Source!OutputInv, Source!Piped, Source!Collected, Source!Fork, Source!config, Source!processes, Source!output, Source!waiting, Source!outcome
<1>8. Source!EndingIsTrue'
  BY SMTT(40), SourceAssumption DEF Source!SourceInv, Source!EndingIsTrue, Source!TypeOK, Source!PhaseInv, Source!Started, Source!Collected, Source!ExitInv, Source!Before, Source!Reasons, Source!WatchInv, Source!Procs, Source!Fork, Source!config, Source!processes, Source!output, Source!waiting, Source!outcome
<1>9. Source!StampedVerifies'
  BY SMTT(40), SourceAssumption DEF Source!SourceInv, Source!StampedVerifies, Source!TypeOK, Source!PhaseInv, Source!Fork, Source!config, Source!processes, Source!output, Source!waiting, Source!outcome
<1> QED BY <1>1, <1>2, <1>3, <1>4, <1>5, <1>6, <1>7, <1>8, <1>9 DEF Source!SourceInv

(* A process leaves the group. *)
LEMMA LeaveStep ==
  ASSUME Source!SourceInv, NEW p \in Source!Procs, Source!LeaveGroup(p)
  PROVE  Source!SourceInv'
<1>1. Source!TypeOK'
  BY SMTT(40), SourceAssumption DEF Source!SourceInv, Source!TypeOK, Source!Before, Source!Collected, Source!Reasons, Source!Procs, Source!LeaveGroup, Source!config, Source!processes, Source!output, Source!waiting, Source!outcome
<1>2. Source!PhaseInv'
  BY SMTT(40), SourceAssumption DEF Source!SourceInv, Source!PhaseInv, Source!TypeOK, Source!Started, Source!Collected, Source!Before, Source!Reasons, Source!Procs, Source!LeaveGroup, Source!config, Source!processes, Source!output, Source!waiting, Source!outcome
<1>3. Source!ExitInv'
  BY SMTT(40), SourceAssumption DEF Source!SourceInv, Source!ExitInv, Source!TypeOK, Source!PhaseInv, Source!Started, Source!Collected, Source!Procs, Source!LeaveGroup, Source!config, Source!processes, Source!output, Source!waiting, Source!outcome
<1>4. Source!WatchInv'
  BY SMTT(40), SourceAssumption DEF Source!SourceInv, Source!WatchInv, Source!TypeOK, Source!PhaseInv, Source!ExitInv, Source!Started, Source!Collected, Source!Piped, Source!Procs, Source!LeaveGroup, Source!config, Source!processes, Source!output, Source!waiting, Source!outcome
<1>5. Source!OutputInv'
  BY SMTT(40), SourceAssumption DEF Source!SourceInv, Source!OutputInv, Source!TypeOK, Source!PhaseInv, Source!ExitInv, Source!WatchInv, Source!Started, Source!Collected, Source!Piped, Source!Procs, Source!LeaveGroup, Source!config, Source!processes, Source!output, Source!waiting, Source!outcome
<1>6. Source!GroupInv'
  BY SMTT(40), SourceAssumption DEF Source!SourceInv, Source!GroupInv, Source!TypeOK, Source!PhaseInv, Source!ExitInv, Source!Started, Source!Collected, Source!Reaped, Source!Procs, Source!Before, Source!Reasons, Source!LeaveGroup, Source!config, Source!processes, Source!output, Source!waiting, Source!outcome
<1>7. Source!ReadInv'
  BY SMTT(40), SourceAssumption DEF Source!SourceInv, Source!ReadInv, Source!TypeOK, Source!PhaseInv, Source!Reasons, Source!OutputInv, Source!Piped, Source!Collected, Source!LeaveGroup, Source!config, Source!processes, Source!output, Source!waiting, Source!outcome
<1>8. Source!EndingIsTrue'
  BY SMTT(40), SourceAssumption DEF Source!SourceInv, Source!EndingIsTrue, Source!TypeOK, Source!PhaseInv, Source!Started, Source!Collected, Source!ExitInv, Source!Before, Source!Reasons, Source!WatchInv, Source!Procs, Source!LeaveGroup, Source!config, Source!processes, Source!output, Source!waiting, Source!outcome
<1>9. Source!StampedVerifies'
  BY SMTT(40), SourceAssumption DEF Source!SourceInv, Source!StampedVerifies, Source!TypeOK, Source!PhaseInv, Source!LeaveGroup, Source!config, Source!processes, Source!output, Source!waiting, Source!outcome
<1> QED BY <1>1, <1>2, <1>3, <1>4, <1>5, <1>6, <1>7, <1>8, <1>9 DEF Source!SourceInv

(* An exit of its own. *)
LEMMA ExitStep ==
  ASSUME Source!SourceInv, NEW p \in Source!Procs, NEW s \in {"zero", "nonzero", "signal"}, Source!Exit(p, s)
  PROVE  Source!SourceInv'
<1>1. Source!TypeOK'
  BY SMTT(40), SourceAssumption DEF Source!SourceInv, Source!TypeOK, Source!Before, Source!Collected, Source!Reasons, Source!Procs, Source!Exit, Source!config, Source!processes, Source!output, Source!waiting, Source!outcome
<1>2. Source!PhaseInv'
  BY SMTT(40), SourceAssumption DEF Source!SourceInv, Source!PhaseInv, Source!TypeOK, Source!Started, Source!Collected, Source!Before, Source!Reasons, Source!Procs, Source!Exit, Source!config, Source!processes, Source!output, Source!waiting, Source!outcome
<1>3. Source!ExitInv'
  BY SMTT(40), SourceAssumption DEF Source!SourceInv, Source!ExitInv, Source!TypeOK, Source!PhaseInv, Source!Started, Source!Collected, Source!Procs, Source!Exit, Source!config, Source!processes, Source!output, Source!waiting, Source!outcome
<1>4. Source!WatchInv'
  BY SMTT(40), SourceAssumption DEF Source!SourceInv, Source!WatchInv, Source!TypeOK, Source!PhaseInv, Source!ExitInv, Source!Started, Source!Collected, Source!Piped, Source!Procs, Source!Exit, Source!config, Source!processes, Source!output, Source!waiting, Source!outcome
<1>5. Source!OutputInv'
  BY SMTT(40), SourceAssumption DEF Source!SourceInv, Source!OutputInv, Source!TypeOK, Source!PhaseInv, Source!ExitInv, Source!WatchInv, Source!Started, Source!Collected, Source!Piped, Source!Procs, Source!Exit, Source!config, Source!processes, Source!output, Source!waiting, Source!outcome
<1>6. Source!GroupInv'
  BY SMTT(40), SourceAssumption DEF Source!SourceInv, Source!GroupInv, Source!TypeOK, Source!PhaseInv, Source!ExitInv, Source!Started, Source!Collected, Source!Reaped, Source!Procs, Source!Before, Source!Reasons, Source!Exit, Source!config, Source!processes, Source!output, Source!waiting, Source!outcome
<1>7. Source!ReadInv'
  BY SMTT(40), SourceAssumption DEF Source!SourceInv, Source!ReadInv, Source!TypeOK, Source!PhaseInv, Source!Reasons, Source!OutputInv, Source!Piped, Source!Collected, Source!Exit, Source!config, Source!processes, Source!output, Source!waiting, Source!outcome
<1>8. Source!EndingIsTrue'
  BY SMTT(40), SourceAssumption DEF Source!SourceInv, Source!EndingIsTrue, Source!TypeOK, Source!PhaseInv, Source!Started, Source!Collected, Source!ExitInv, Source!Before, Source!Reasons, Source!WatchInv, Source!Procs, Source!Exit, Source!config, Source!processes, Source!output, Source!waiting, Source!outcome
<1>9. Source!StampedVerifies'
  BY SMTT(40), SourceAssumption DEF Source!SourceInv, Source!StampedVerifies, Source!TypeOK, Source!PhaseInv, Source!Exit, Source!config, Source!processes, Source!output, Source!waiting, Source!outcome
<1> QED BY <1>1, <1>2, <1>3, <1>4, <1>5, <1>6, <1>7, <1>8, <1>9 DEF Source!SourceInv

(* The source's own signal to its group. *)
LEMMA SignalStep ==
  ASSUME Source!SourceInv, Source!SignalGroup
  PROVE  Source!SourceInv'
<1>1. Source!TypeOK'
  BY SMTT(40), SourceAssumption DEF Source!SourceInv, Source!TypeOK, Source!Before, Source!Collected, Source!Reasons, Source!Procs, Source!SignalGroup, Source!Die, Source!config, Source!processes, Source!output, Source!waiting, Source!outcome
<1>2. Source!PhaseInv'
  BY SMTT(40), SourceAssumption DEF Source!SourceInv, Source!PhaseInv, Source!TypeOK, Source!Started, Source!Collected, Source!Before, Source!Reasons, Source!Procs, Source!SignalGroup, Source!Die, Source!config, Source!processes, Source!output, Source!waiting, Source!outcome
<1>3. Source!ExitInv'
  BY SMTT(40), SourceAssumption DEF Source!SourceInv, Source!ExitInv, Source!TypeOK, Source!PhaseInv, Source!Started, Source!Collected, Source!Procs, Source!SignalGroup, Source!Die, Source!config, Source!processes, Source!output, Source!waiting, Source!outcome
<1>4. Source!WatchInv'
  BY SMTT(40), SourceAssumption DEF Source!SourceInv, Source!WatchInv, Source!TypeOK, Source!PhaseInv, Source!ExitInv, Source!Started, Source!Collected, Source!Piped, Source!Procs, Source!SignalGroup, Source!Die, Source!config, Source!processes, Source!output, Source!waiting, Source!outcome
<1>5. Source!OutputInv'
  BY SMTT(40), SourceAssumption DEF Source!SourceInv, Source!OutputInv, Source!TypeOK, Source!PhaseInv, Source!ExitInv, Source!WatchInv, Source!Started, Source!Collected, Source!Piped, Source!Procs, Source!SignalGroup, Source!Die, Source!config, Source!processes, Source!output, Source!waiting, Source!outcome
<1>6. Source!GroupInv'
  BY SMTT(40), SourceAssumption DEF Source!SourceInv, Source!GroupInv, Source!TypeOK, Source!PhaseInv, Source!ExitInv, Source!Started, Source!Collected, Source!Reaped, Source!Procs, Source!Before, Source!Reasons, Source!SignalGroup, Source!Die, Source!config, Source!processes, Source!output, Source!waiting, Source!outcome
<1>7. Source!ReadInv'
  BY SMTT(40), SourceAssumption DEF Source!SourceInv, Source!ReadInv, Source!TypeOK, Source!PhaseInv, Source!Reasons, Source!OutputInv, Source!Piped, Source!Collected, Source!SignalGroup, Source!Die, Source!config, Source!processes, Source!output, Source!waiting, Source!outcome
<1>8. Source!EndingIsTrue'
  BY SMTT(40), SourceAssumption DEF Source!SourceInv, Source!EndingIsTrue, Source!TypeOK, Source!PhaseInv, Source!Started, Source!Collected, Source!ExitInv, Source!Before, Source!Reasons, Source!WatchInv, Source!Procs, Source!SignalGroup, Source!Die, Source!config, Source!processes, Source!output, Source!waiting, Source!outcome
<1>9. Source!StampedVerifies'
  BY SMTT(40), SourceAssumption DEF Source!SourceInv, Source!StampedVerifies, Source!TypeOK, Source!PhaseInv, Source!SignalGroup, Source!Die, Source!config, Source!processes, Source!output, Source!waiting, Source!outcome
<1> QED BY <1>1, <1>2, <1>3, <1>4, <1>5, <1>6, <1>7, <1>8, <1>9 DEF Source!SourceInv

LEMMA SourceStutters ==
  ASSUME Source!SourceInv, UNCHANGED sourceVars
  PROVE  Source!SourceInv'
<1>1. Source!TypeOK'
  BY DEF sourceVars, Source!SourceInv, Source!TypeOK
<1>2. Source!PhaseInv'
  BY DEF sourceVars, Source!SourceInv, Source!PhaseInv, Source!Started
<1>3. Source!ExitInv'
  BY DEF sourceVars, Source!SourceInv, Source!ExitInv, Source!Started
<1>4. Source!WatchInv'
  BY DEF sourceVars, Source!SourceInv, Source!WatchInv, Source!Started
<1>5. Source!OutputInv'
  BY DEF sourceVars, Source!SourceInv, Source!OutputInv, Source!Started
<1>6. Source!GroupInv'
  BY DEF sourceVars, Source!SourceInv, Source!GroupInv
<1>7. Source!ReadInv'
  BY DEF sourceVars, Source!SourceInv, Source!ReadInv, Source!ReadEnvelope
<1>8. Source!EndingIsTrue'
  BY DEF sourceVars, Source!SourceInv, Source!EndingIsTrue
<1>9. Source!StampedVerifies'
  BY DEF sourceVars, Source!SourceInv, Source!StampedVerifies, Source!ValidateAcquisition, Source!RemoteMembersHold
<1> QED BY <1>1, <1>2, <1>3, <1>4, <1>5, <1>6, <1>7, <1>8, <1>9 DEF Source!SourceInv

LEMMA SourceStep ==
  ASSUME Source!SourceInv, Source!Next
  PROVE  Source!SourceInv'
<1>1. CASE Source!Gateway
  BY <1>1, AdmitStep, ResolveStep, PrepareStep, StartStep, CollectStep, HandOverStep, AwaitStep, ReapStep,
     JudgeStep, ReadStep, StampStep DEF Source!Gateway
<1>2. CASE \E how \in {"deadline", "cancelled"} : Source!ContextEnds(how)
  BY <1>2, ContextStep
<1>3. CASE \E p \in Source!Procs : Source!Write(p) \/ Source!CloseOutput(p) \/ Source!LeaveGroup(p)
  BY <1>3, WriteStep, CloseStep, LeaveStep
<1>4. CASE \E p \in Source!Procs, s \in {"zero", "nonzero", "signal"} : Source!Exit(p, s)
  BY <1>4, ExitStep
<1>5. CASE Source!Copy \/ Source!CopyEnds \/ Source!Cancel \/ Source!WaitDelay \/ Source!Fork \/ Source!SignalGroup
  BY <1>5, CopyStep, CopyEndsStep, CancelStep, DelayStep, ForkStep, SignalStep
<1> QED BY <1>1, <1>2, <1>3, <1>4, <1>5 DEF Source!Next

(* The invariant says what the run's property does. *)
LEMMA SourceSays ==
  ASSUME Source!SourceInv
  PROVE  Source!ResultIsWhole /\ Source!EndingIsTrue /\ Source!NothingSurvives /\ Source!StampedVerifies
<1>1. ASSUME retained \/ answer = "acquired"
      PROVE  /\ retained /\ waitErr = None /\ ~overflowed /\ pc = "done" /\ Source!Started
             /\ (spec.shape # "command" => spec.version = "3" /\ Source!ReadEnvelope(envelope, spec.shape))
  <2>1. pc = "done" /\ Source!Started
    BY <1>1, SourceAssumption DEF Source!SourceInv, Source!PhaseInv, Source!Started, Source!Reasons, Source!Collected
  <2>2. spec.shape # "command" => spec.version = "3"
    BY <2>1 DEF Source!SourceInv, Source!PhaseInv, Source!Started, Source!Collected
  <2>3. retained /\ waitErr = None /\ ~overflowed
    BY <1>1 DEF Source!SourceInv, Source!ReadInv
  <2>4. spec.shape # "command" => Source!ReadEnvelope(envelope, spec.shape)
    BY <1>1 DEF Source!SourceInv, Source!ReadInv
  <2> QED BY <2>1, <2>2, <2>3, <2>4
<1>2. Source!ResultIsWhole
  <2> SUFFICES ASSUME retained \/ answer = "acquired"
               PROVE  /\ retained /\ (spec.shape # "command" => spec.version = "3" /\ Source!ReadEnvelope(envelope, spec.shape))
                      /\ status = "zero" /\ endedBy = "itself" /\ ~cancelled
                      /\ copying = "eof" /\ copied = written /\ written <= MaxSourceOutput
    BY DEF Source!ResultIsWhole
  <2>1. status = "zero" /\ endedBy = "itself"
    BY <1>1, SourceAssumption DEF Source!SourceInv, Source!ExitInv, Source!TypeOK
  <2>2. ~cancelled
    BY <1>1 DEF Source!SourceInv, Source!WatchInv
  <2>3. copying = "eof" /\ copied = written
    BY <1>1 DEF Source!SourceInv, Source!OutputInv, Source!TypeOK
  <2>4. written <= MaxSourceOutput
    BY <1>1, <2>3, SourceAssumption DEF Source!SourceInv, Source!OutputInv, Source!TypeOK
  <2> QED BY <1>1, <2>1, <2>2, <2>3, <2>4
<1>3. Source!NothingSurvives
  BY DEF Source!SourceInv, Source!GroupInv, Source!NothingSurvives, Source!Reaped
<1> QED BY <1>2, <1>3 DEF Source!SourceInv

(* For every limit and every amount written: a result is retained and answered with only  *)
(* of a source that exited with success and whose whole output was read; what a source is *)
(* said to have done it did; nothing that stayed in its group outlives it; and what is    *)
(* stamped verifies (runSource, sourceGroup, validateAcquisition).                        *)
THEOREM SourceStaysTold == Spec => []SourceIsToldTrue
<1> DEFINE Inv == part = "source" => Source!SourceInv
<1>1. Init => Inv
  BY SourceInitially DEF Init
<1>2. Inv /\ [Next]_vars => Inv'
  <2> SUFFICES ASSUME Inv, [Next]_vars, part' = "source" PROVE Source!SourceInv'
    OBVIOUS
  <2>1. part' = part
    BY DEF Next, vars
  <2>2. Source!SourceInv
    BY <2>1
  <2>3. CASE Source!Next
    BY <2>2, <2>3, SourceStep
  <2>4. CASE UNCHANGED sourceVars
    BY <2>2, <2>4, SourceStutters
  <2> QED BY <2>1, <2>3, <2>4 DEF Next, vars
<1>3. Inv => SourceIsToldTrue
  BY SourceSays DEF SourceIsToldTrue
<1> QED BY <1>1, <1>2, <1>3, PTL DEF Spec

-----------------------------------------------------------------------------
(* The decision policy.  What is read at a path of a document is what the      *)
(* document says there; an admitted write was held to its whole policy.       *)

(* A prefix of a prefix is one; a prefix splits a path in two. *)
LEMMA PrefixSplits ==
  ASSUME NEW T, NEW n \in Seq(T), NEW at \in Seq(T), Decision!IsPrefix(n, at)
  PROVE  at = n \o SubSeq(at, Len(n) + 1, Len(at))
<1> DEFINE b == SubSeq(at, Len(n) + 1, Len(at))
<1>1. /\ Len(n) \in Nat /\ Len(at) \in Nat /\ Len(n) <= Len(at)
      /\ SubSeq(n, 1, Len(n)) = SubSeq(at, 1, Len(n))
  BY DEF Decision!IsPrefix
<1>2. b \in Seq(T) /\ Len(b) = Len(at) - Len(n) /\ \A i \in 1 .. Len(b) : b[i] = at[Len(n) + i]
  BY <1>1
<1>3. \A i \in 1 .. Len(n) : n[i] = at[i]
  <2> TAKE i \in 1 .. Len(n)
  <2>1. SubSeq(n, 1, Len(n))[i] = n[i] /\ SubSeq(at, 1, Len(n))[i] = at[i]
    BY <1>1
  <2> QED BY <1>1, <2>1
<1>4. n \o b \in Seq(T) /\ Len(n \o b) = Len(at)
  BY <1>1, <1>2
<1> HIDE DEF b
<1>5. \A i \in 1 .. Len(at) : (n \o b)[i] = at[i]
  BY <1>1, <1>2, <1>3, <1>4
<1> QED BY <1>4, <1>5 DEF b

LEMMA PrefixTransitive ==
  ASSUME NEW T, NEW n \in Seq(T), NEW q \in Seq(T), NEW at \in Seq(T),
         Decision!IsPrefix(n, q), Decision!IsPrefix(q, at)
  PROVE  Decision!IsPrefix(n, at)
<1>1. /\ Len(n) \in Nat /\ Len(q) \in Nat /\ Len(at) \in Nat
      /\ Len(n) <= Len(q) /\ Len(q) <= Len(at)
      /\ SubSeq(n, 1, Len(n)) = SubSeq(q, 1, Len(n))
      /\ SubSeq(q, 1, Len(q)) = SubSeq(at, 1, Len(q))
  BY DEF Decision!IsPrefix
<1>2. SubSeq(q, 1, Len(n)) \in Seq(T) /\ SubSeq(at, 1, Len(n)) \in Seq(T)
  BY <1>1
<1>3. Len(SubSeq(q, 1, Len(n))) = Len(n) /\ Len(SubSeq(at, 1, Len(n))) = Len(n)
  BY <1>1
<1>4. ASSUME NEW i \in 1 .. Len(n) PROVE SubSeq(q, 1, Len(n))[i] = SubSeq(at, 1, Len(n))[i]
  <2>1. SubSeq(q, 1, Len(q))[i] = q[i] /\ SubSeq(at, 1, Len(q))[i] = at[i]
    BY <1>1
  <2>2. SubSeq(q, 1, Len(n))[i] = q[i] /\ SubSeq(at, 1, Len(n))[i] = at[i]
    BY <1>1
  <2> QED BY <1>1, <2>1, <2>2
<1>5. SubSeq(q, 1, Len(n)) = SubSeq(at, 1, Len(n))
  BY <1>2, <1>3, <1>4
<1> QED BY <1>1, <1>5 DEF Decision!IsPrefix

(* A strict prefix is shorter. *)
LEMMA StrictIsShorter ==
  ASSUME NEW T, NEW q \in Seq(T), NEW at \in Seq(T), Decision!IsStrictPrefix(q, at)
  PROVE  Decision!IsPrefix(q, at) /\ Len(q) < Len(at)
<1>1. Decision!IsPrefix(q, at) /\ q # at
  BY DEF Decision!IsStrictPrefix
<1>2. Len(q) \in Nat /\ Len(at) \in Nat /\ Len(q) <= Len(at)
  BY <1>1 DEF Decision!IsPrefix
<1>3. ASSUME Len(q) = Len(at) PROVE FALSE
  <2>1. at = q \o SubSeq(at, Len(q) + 1, Len(at))
    BY <1>1, PrefixSplits
  <2>2. SubSeq(at, Len(q) + 1, Len(at)) = << >>
    BY <1>2, <1>3
  <2>3. q \o << >> = q
    OBVIOUS
  <2> QED BY <1>1, <2>1, <2>2, <2>3
<1> QED BY <1>1, <1>2, <1>3

(* What is under a pointer, by what is left of its path. *)
LEMMA AtHolds ==
  ASSUME NEW T, NEW v, DOMAIN v \subseteq Seq(T), NEW n \in Seq(T), NEW at \in DOMAIN v, Decision!IsPrefix(n, at)
  PROVE  LET left == SubSeq(at, Len(n) + 1, Len(at)) IN
         left \in DOMAIN Decision!At(v, n) /\ Decision!At(v, n)[left] = v[at]
<1> DEFINE left == SubSeq(at, Len(n) + 1, Len(at))
<1>1. at = n \o left
  BY PrefixSplits
<1> HIDE DEF left
<1>2. left \in {SubSeq(r, Len(n) + 1, Len(r)) : r \in {q \in DOMAIN v : Decision!IsPrefix(n, q)}}
  <2>1. at \in {q \in DOMAIN v : Decision!IsPrefix(n, q)}
    OBVIOUS
  <2> QED BY <2>1, Zenon DEF left
<1>3. left \in DOMAIN Decision!At(v, n) /\ Decision!At(v, n)[left] = v[n \o left]
  BY <1>2, Zenon DEF Decision!At
<1> QED BY <1>1, <1>3 DEF left

LEMMA AtComesFrom ==
  ASSUME NEW T, NEW v, DOMAIN v \subseteq Seq(T), NEW n \in Seq(T), NEW left \in DOMAIN Decision!At(v, n)
  PROVE  n \o left \in DOMAIN v /\ Decision!At(v, n)[left] = v[n \o left]
<1>1. PICK r \in DOMAIN v : Decision!IsPrefix(n, r) /\ left = SubSeq(r, Len(n) + 1, Len(r))
  BY DEF Decision!At
<1>2. r = n \o left
  BY <1>1, PrefixSplits
<1> QED BY <1>1, <1>2 DEF Decision!At

(* Of the values of an object, those no pointer reaches are refused: each   *)
(* scalar left is under an argument that is bound or fixed.                 *)
LEMMA ReachedIsNamed ==
  ASSUME NEW T, NEW arguments, NEW p, DOMAIN arguments \subseteq Seq(T),
         ~Decision!Unreached(arguments, p), <<>> \in DOMAIN arguments,
         NEW at \in DOMAIN arguments, at # <<>>, arguments[at] \notin Decision!Containers,
         Decision!Named(p) \subseteq Seq(T)
  PROVE  \E n \in Decision!Named(p) : Decision!IsPrefix(n, at)
<1> SUFFICES ASSUME \A n \in Decision!Named(p) : ~Decision!IsPrefix(n, at) PROVE FALSE
  OBVIOUS
<1> DEFINE Kept(q) == arguments[q] \in Decision!Containers /\ Decision!OnTheWay(p, q)
<1> DEFINE Lost == {q \in DOMAIN arguments : q # <<>> /\ Decision!IsPrefix(q, at) /\ ~Kept(q)}
<1>1. Decision!IsPrefix(at, at)
  BY DEF Decision!IsPrefix
<1>2. at \in Lost
  BY <1>1
<1>9. \A q \in Lost : q \in DOMAIN arguments /\ q \in Seq(T) /\ Len(q) \in Nat /\ q # <<>>
                        /\ Decision!IsPrefix(q, at) /\ ~Kept(q)
  OBVIOUS
<1>8. \A r \in DOMAIN arguments : r # <<>> /\ Decision!IsPrefix(r, at) /\ ~Kept(r) => r \in Lost
  OBVIOUS
<1> HIDE DEF Lost
<1>3. PICK k \in {Len(q) : q \in Lost} : \A m \in {Len(q) : q \in Lost} : k <= m
  <2>1. {Len(q) : q \in Lost} \subseteq Nat
    BY <1>9
  <2>2. {Len(q) : q \in Lost} # {}
    BY <1>2
  <2> QED BY <2>1, <2>2, Least
<1>4. PICK q \in Lost : k = Len(q)
  BY <1>3
<1>5. q \in DOMAIN arguments /\ q \in Seq(T) /\ q # <<>> /\ Decision!IsPrefix(q, at) /\ ~Kept(q)
  BY <1>9
<1>6. \A r \in DOMAIN arguments : Decision!IsPrefix(r, q) => ~Decision!Covered(p, r)
  <2> SUFFICES ASSUME NEW r \in DOMAIN arguments, Decision!IsPrefix(r, q),
                      NEW n \in Decision!Named(p), Decision!IsPrefix(n, r)
               PROVE  FALSE
    BY DEF Decision!Covered
  <2>1. Decision!IsPrefix(n, q)
    BY <1>5, PrefixTransitive
  <2>2. Decision!IsPrefix(n, at)
    BY <1>5, <2>1, PrefixTransitive
  <2> QED BY <2>2
<1>7. \A r \in DOMAIN arguments \ {<<>>} : Decision!IsStrictPrefix(r, q) => Kept(r)
  <2> SUFFICES ASSUME NEW r \in DOMAIN arguments, r # <<>>, Decision!IsStrictPrefix(r, q), ~Kept(r)
               PROVE  FALSE
    OBVIOUS
  <2>1. Decision!IsPrefix(r, q) /\ Len(r) < Len(q)
    BY <1>5, StrictIsShorter
  <2>2. Decision!IsPrefix(r, at)
    BY <1>5, <2>1, PrefixTransitive
  <2>3. r \in Lost
    BY <1>8, <2>2
  <2>4. Len(r) \in {Len(x) : x \in Lost} /\ Len(r) \in Nat /\ Len(q) \in Nat
    BY <1>9, <2>3
  <2>5. Len(q) <= Len(r)
    BY <1>3, <1>4, <2>4
  <2> QED BY <2>1, <2>4, <2>5
<1> QED BY <1>5, <1>6, <1>7 DEF Decision!Unreached

(* What ClosedIsDecided says of one value of an admitted write. *)
DecidedBy(arguments, facts, p, at) ==
  \/ \E b \in p.bind, q \in DOMAIN facts :
       /\ Decision!IsPrefix(b.argument, at)
       /\ q = b.fact \o SubSeq(at, Len(b.argument) + 1, Len(at))
       /\ facts[q] = arguments[at]
  \/ \E f \in p.fix :
       /\ Decision!IsPrefix(f.argument, at)
       /\ f.value[SubSeq(at, Len(f.argument) + 1, Len(at))] = arguments[at]

(* A write under a closed policy: the lemma the theorem rests on. *)
LEMMA ClosedDecides ==
  ASSUME NEW T, NEW arguments, NEW facts, NEW p, DOMAIN arguments \subseteq Seq(T),
         facts # None => DOMAIN facts \subseteq Seq(T),
         <<>> \in DOMAIN arguments, arguments[<<>>] \in Decision!Containers,
         Decision!HoldToBind(arguments, facts, p), Decision!HoldToFix(arguments, p),
         ~Decision!Unreached(arguments, p),
         NEW at \in DOMAIN arguments, arguments[at] \notin Decision!Containers
  PROVE  DecidedBy(arguments, facts, p, at)
<1>1. Decision!Named(p) \subseteq Seq(T)
  BY DEF Decision!Named, Decision!HoldToBind, Decision!HoldToFix, Decision!Resolves
<1>2. PICK n \in Decision!Named(p) : Decision!IsPrefix(n, at)
  BY <1>1, ReachedIsNamed
<1> DEFINE left == SubSeq(at, Len(n) + 1, Len(at))
<1>3. n \in Seq(T) /\ left \in DOMAIN Decision!At(arguments, n) /\ Decision!At(arguments, n)[left] = arguments[at]
  BY <1>1, <1>2, AtHolds
<1>4. CASE n \in {b.argument : b \in p.bind}
  <2>1. PICK b \in p.bind : n = b.argument
    BY <1>4
  <2>2. b.fact \in DOMAIN facts /\ b.fact \in Seq(T) /\ Decision!At(arguments, n) = Decision!At(facts, b.fact)
    BY <2>1 DEF Decision!HoldToBind, Decision!Resolves
  <2>3. left \in DOMAIN Decision!At(facts, b.fact)
    BY <1>3, <2>2
  <2>4. facts # None
    BY <2>1 DEF Decision!HoldToBind
  <2>5. DOMAIN facts \subseteq Seq(T)
    BY <2>4
  <2> HIDE DEF left
  <2>6. b.fact \o left \in DOMAIN facts /\ Decision!At(facts, b.fact)[left] = facts[b.fact \o left]
    BY <2>2, <2>3, <2>5, AtComesFrom
  <2>7. facts[b.fact \o left] = arguments[at]
    BY <1>3, <2>2, <2>6
  <2> QED BY <1>2, <2>1, <2>6, <2>7 DEF left, DecidedBy
<1>5. CASE n \in {f.argument : f \in p.fix}
  <2>1. PICK f \in p.fix : n = f.argument
    BY <1>5
  <2>2. Decision!At(arguments, n) = f.value
    BY <2>1 DEF Decision!HoldToFix
  <2> QED BY <1>2, <1>3, <2>1, <2>2 DEF DecidedBy
<1> QED BY <1>4, <1>5 DEF Decision!Named

(* The arguments and the facts of the instance are objects whose paths are  *)
(* sequences of names.                                                      *)
Tokens == {"a", "b", "c", "x", "y", "0"}

LEMMA MembersArePaths ==
  ASSUME NEW a, NEW k \in Tokens, DOMAIN a \subseteq Seq(Tokens)
  PROVE  MemberPaths(k, a) \subseteq Seq(Tokens)
<1>1. <<k>> \in Seq(Tokens)
  OBVIOUS
<1>2. \A q \in Seq(Tokens) : <<k>> \o q \in Seq(Tokens)
  BY <1>1
<1> QED BY <1>2 DEF MemberPaths

LEMMA ObjectsAreObjects ==
  ASSUME NEW m, DOMAIN m \subseteq Tokens, \A k \in DOMAIN m : DOMAIN m[k] \subseteq Seq(Tokens)
  PROVE  DOMAIN Object(m) \subseteq Seq(Tokens) /\ <<>> \in DOMAIN Object(m) /\ Object(m)[<<>>] = "object"
<1>1. \A k \in DOMAIN m : MemberPaths(k, m[k]) \subseteq Seq(Tokens)
  BY MembersArePaths
<1>2. DOMAIN Object(m) = {<<>>} \cup UNION {MemberPaths(k, m[k]) : k \in DOMAIN m}
  BY DEF Object
<1>3. <<>> \in {<<>>} \cup UNION {MemberPaths(k, m[k]) : k \in DOMAIN m} /\ <<>> \in Seq(Tokens)
  OBVIOUS
<1>4. Object(m)[<<>>] = "object"
  BY <1>3 DEF Object
<1> QED BY <1>1, <1>2, <1>3, <1>4

LEMMA ValuesArePaths ==
  /\ \A a \in Values : DOMAIN a \subseteq Seq(Tokens)
  /\ \A v : DOMAIN Scalar(v) \subseteq Seq(Tokens)
  /\ \A k, v : DOMAIN Below(k, "0", v) \subseteq Seq(Tokens)
<1>1. \A v : DOMAIN Scalar(v) = {<<>>}
  BY DEF Scalar
<1>2. \A k, t, v : DOMAIN Below(k, t, v) = {<<>>, <<t>>}
  BY DEF Below
<1>3. <<"0">> \in Seq(Tokens) /\ <<"c">> \in Seq(Tokens) /\ <<>> \in Seq(Tokens)
  BY DEF Tokens
<1>4. \A k, v : DOMAIN Below(k, "0", v) \subseteq Seq(Tokens) /\ DOMAIN Below(k, "c", v) \subseteq Seq(Tokens)
  BY <1>2, <1>3
<1>5. \A v : DOMAIN Scalar(v) \subseteq Seq(Tokens)
  BY <1>1, <1>3
<1>6. \A a \in Values : \E k, v : a = Scalar(v) \/ a = Below(k, "0", v) \/ a = Below(k, "c", v)
  BY DEF Values
<1> QED BY <1>4, <1>5, <1>6

LEMMA FactsArePaths == DOMAIN Facts \subseteq Seq(Tokens)
<1> DEFINE m == [x |-> Scalar("1"), y |-> Below("array", "0", "2")]
<1>1. DOMAIN m = {"x", "y"} /\ m["x"] = Scalar("1") /\ m["y"] = Below("array", "0", "2")
  OBVIOUS
<1>2. DOMAIN m \subseteq Tokens /\ \A k \in DOMAIN m : DOMAIN m[k] \subseteq Seq(Tokens)
  BY <1>1, ValuesArePaths DEF Tokens
<1>3. Facts = Object(m)
  BY DEF Facts
<1> HIDE DEF m
<1> QED BY <1>2, <1>3, ObjectsAreObjects

LEMMA RequestsAsk ==
  \A q \in PolicyRequests :
    /\ DOMAIN q.arguments \subseteq Seq(Tokens) /\ <<>> \in DOMAIN q.arguments
    /\ q.arguments[<<>>] = "object"
<1> DEFINE Asks(o) == DOMAIN o \subseteq Seq(Tokens) /\ <<>> \in DOMAIN o /\ o[<<>>] = "object"
<1>1. ASSUME NEW a, NEW b, DOMAIN a \subseteq Seq(Tokens), DOMAIN b \subseteq Seq(Tokens)
      PROVE  Asks(Object([a |-> a, b |-> b]))
  <2> DEFINE m == [a |-> a, b |-> b]
  <2>1. DOMAIN m = {"a", "b"} /\ m["a"] = a /\ m["b"] = b
    OBVIOUS
  <2>2. DOMAIN m \subseteq Tokens /\ \A k \in DOMAIN m : DOMAIN m[k] \subseteq Seq(Tokens)
    BY <1>1, <2>1 DEF Tokens
  <2> HIDE DEF m
  <2>3. Asks(Object(m))
    BY <2>2, ObjectsAreObjects
  <2> QED BY <2>3 DEF m
<1>2. ASSUME NEW a, DOMAIN a \subseteq Seq(Tokens)
      PROVE  Asks(Object([a |-> a]))
  <2> DEFINE m == [a |-> a]
  <2>1. DOMAIN m = {"a"} /\ m["a"] = a
    OBVIOUS
  <2>2. DOMAIN m \subseteq Tokens /\ \A k \in DOMAIN m : DOMAIN m[k] \subseteq Seq(Tokens)
    BY <1>2, <2>1 DEF Tokens
  <2> HIDE DEF m
  <2>3. Asks(Object(m))
    BY <2>2, ObjectsAreObjects
  <2> QED BY <2>3 DEF m
<1>3. \A o \in Objects : Asks(o)
  <2> HIDE DEF Asks
  <2> SUFFICES ASSUME NEW o \in Objects PROVE Asks(o)
    OBVIOUS
  <2>1. CASE \E a \in Values, b \in {Scalar("1"), Below("array", "0", "2")} : o = Object([a |-> a, b |-> b])
    BY <1>1, <2>1, ValuesArePaths
  <2>2. CASE \E a \in Values : o = Object([a |-> a])
    BY <1>2, <2>2, ValuesArePaths
  <2> QED BY <2>1, <2>2 DEF Objects
<1>4. Asks(Plain)
  <2> HIDE DEF Asks
  <2> QED BY <1>1, ValuesArePaths DEF Plain
<1>5. \A q \in PolicyRequests : q.arguments \in Objects \/ q.arguments = Plain
  BY DEF PolicyRequests, Request
<1> QED BY <1>3, <1>4, <1>5

LEMMA RecordsTyped == \A r \in DOMAIN Records : DOMAIN Records[r].facts \subseteq Seq(Tokens)
  BY FactsArePaths DEF Records, GoodRecord

(* What HoldToPolicy admitted it held to every part of the policy. *)
LEMMA AdmittedWasHeld ==
  ASSUME NEW lib, NEW q, NEW p, Decision!HoldToPolicy(lib, q, p) = "admitted"
  PROVE  /\ Decision!ReadRuntimeRecord(q.record)
         /\ p.signers # None => Decision!HoldToSignature(lib, q.record, p.signers)
         /\ Records[q.record].pack = q.pack /\ Decision!SameCitations(Records[q.record], q)
         /\ Decision!HoldToDisposition(Records[q.record], p)
         /\ Decision!HoldToBind(q.arguments, Records[q.record].facts, p)
         /\ Decision!HoldToFix(q.arguments, p)
         /\ p.closed => ~Decision!Unreached(q.arguments, p)
  BY DEF Decision!HoldToPolicy

-----------------------------------------------------------------------------
(* A write that is asked for is one of the requests; one that is admitted   *)
(* was found, and was held to the policy of its tool.                       *)
DecisionInv ==
  part = "decision" =>
    /\ request \in PolicyRequests
    /\ outcome = "admitted" => Decision!HoldToPolicy(library, request, policy) = "admitted"

LEMMA DecisionInitially == Init => DecisionInv
  BY DEF Init, DecisionInit, Decision!Init, DecisionInv

LEMMA DecisionSteps == DecisionInv /\ [Next]_vars => DecisionInv'
<1> SUFFICES ASSUME DecisionInv, [Next]_vars, part' = "decision" PROVE DecisionInv'
  BY DEF DecisionInv
<1>1. CASE Next
  <2>1. part = "decision" /\ Decision!Next
    BY <1>1 DEF Next
  <2>2. /\ UNCHANGED <<policy, library, request>>
        /\ outcome' = "admitted" => Decision!HoldToPolicy(library, request, policy) = "admitted"
    BY <2>1 DEF Decision!Next, Decision!Act
  <2> QED BY <2>1, <2>2 DEF DecisionInv
<1>2. CASE UNCHANGED vars
  BY <1>2 DEF vars, policyVars, DecisionInv
<1> QED BY <1>1, <1>2

LEMMA DecisionImplies == DecisionInv => AdmittedIsDecided
<1> SUFFICES ASSUME DecisionInv, part = "decision" PROVE Decision!ClosedIsDecided /\ Decision!AdmittedIsSigned
  BY DEF AdmittedIsDecided
<1> DEFINE record == Records[request.record]
<1>1. ASSUME outcome = "admitted", policy.closed PROVE Decision!ClosedIsDecided
  <2>1. Decision!HoldToPolicy(library, request, policy) = "admitted"
    BY <1>1 DEF DecisionInv
  <2>2. /\ request.record \in DOMAIN Records /\ record.cites = request.cites
        /\ record.outcome \in policy.outcomes
        /\ Decision!HoldToBind(request.arguments, record.facts, policy)
        /\ Decision!HoldToFix(request.arguments, policy)
        /\ ~Decision!Unreached(request.arguments, policy)
    BY <1>1, <2>1, AdmittedWasHeld DEF Decision!ReadRuntimeRecord, Decision!SameCitations, Decision!HoldToDisposition
  <2>3. /\ DOMAIN request.arguments \subseteq Seq(Tokens) /\ <<>> \in DOMAIN request.arguments
        /\ request.arguments[<<>>] \in Decision!Containers
    BY RequestsAsk DEF DecisionInv, Decision!Containers
  <2>4. DOMAIN record.facts \subseteq Seq(Tokens)
    BY <2>2, RecordsTyped
  <2> HIDE DEF record
  <2>5. \A at \in DOMAIN request.arguments :
          request.arguments[at] \notin Decision!Containers => DecidedBy(request.arguments, record.facts, policy, at)
    BY <2>2, <2>3, <2>4, ClosedDecides
  <2> QED BY <2>2, <2>5 DEF Decision!ClosedIsDecided, DecidedBy, record
<1>2. ASSUME outcome = "admitted", policy.signers # None PROVE Decision!AdmittedIsSigned
  <2>1. Decision!HoldToSignature(library, request.record, policy.signers)
    BY <1>2, AdmittedWasHeld DEF DecisionInv
  <2> QED BY <2>1, Zenon DEF Decision!AdmittedIsSigned, Decision!HoldToSignature, Decision!RecordDirs, Decision!SignaturesFor
<1> QED BY <1>1, <1>2 DEF Decision!ClosedIsDecided, Decision!AdmittedIsSigned

(* A write that a closed policy admitted says nothing but what its record    *)
(* and its policy say, and one that must be signed for rests on signed bytes *)
(* (holdToPolicy, holdToSignature).                                          *)
THEOREM AdmittedStaysDecided == Spec => []AdmittedIsDecided
<1>1. Init => DecisionInv
  BY DecisionInitially
<1>2. DecisionInv /\ [Next]_vars => DecisionInv'
  BY DecisionSteps
<1>3. DecisionInv => AdmittedIsDecided
  BY DecisionImplies
<1> QED BY <1>1, <1>2, <1>3, PTL DEF Spec

-----------------------------------------------------------------------------
(* The walk.  What the engine holds is a node that was never another's; one    *)
(* lemma per action, and per conjunct an action can disturb.                  *)

(* A path, and the paths above it. *)
PathNames == {"d", "e", "f", ".."}

LEMMA AbovePaths ==
  ASSUME NEW x \in Seq(PathNames)
  PROVE  /\ Path!Above(x) \subseteq Seq(PathNames)
         /\ \A d \in Path!Above(x) : Len(d) < Len(x) /\ d = SubSeq(x, 1, Len(d))
         /\ \A d \in Seq(PathNames) : Len(d) < Len(x) /\ d = SubSeq(x, 1, Len(d)) => d \in Path!Above(x)
<1>1. \A n \in 0 .. Len(x) - 1 : SubSeq(x, 1, n) \in Seq(PathNames) /\ Len(SubSeq(x, 1, n)) = n
  OBVIOUS
<1>2. \A d \in Seq(PathNames) : Len(d) < Len(x) => Len(d) \in 0 .. Len(x) - 1
  OBVIOUS
<1> QED BY <1>1, <1>2 DEF Path!Above

LEMMA SubSeqOfSubSeq ==
  ASSUME NEW x \in Seq(PathNames), NEW m \in Nat, NEW n \in Nat, m <= n, n <= Len(x)
  PROVE  SubSeq(SubSeq(x, 1, n), 1, m) = SubSeq(x, 1, m)
<1>1. SubSeq(x, 1, n) \in Seq(PathNames) /\ Len(SubSeq(x, 1, n)) = n /\ \A i \in 1 .. n : SubSeq(x, 1, n)[i] = x[i]
  OBVIOUS
<1>2. SubSeq(x, 1, m) \in Seq(PathNames) /\ Len(SubSeq(x, 1, m)) = m /\ \A i \in 1 .. m : SubSeq(x, 1, m)[i] = x[i]
  OBVIOUS
<1> DEFINE s == SubSeq(x, 1, n)
<1> HIDE DEF s
<1>3. SubSeq(s, 1, m) \in Seq(PathNames) /\ Len(SubSeq(s, 1, m)) = m /\ \A i \in 1 .. m : SubSeq(s, 1, m)[i] = s[i]
  BY <1>1 DEF s
<1>4. \A i \in 1 .. m : SubSeq(s, 1, m)[i] = SubSeq(x, 1, m)[i]
  BY <1>1, <1>2, <1>3 DEF s
<1>5. SubSeq(s, 1, m) = SubSeq(x, 1, m)
  BY <1>2, <1>3, <1>4
<1> QED BY <1>5 DEF s

LEMMA AboveChain ==
  ASSUME NEW x \in Seq(PathNames)
  PROVE  /\ x \notin Path!Above(x)
         /\ \A d \in Path!Above(x), e \in Path!Above(x) : d = e \/ d \in Path!Above(e) \/ e \in Path!Above(d)
         /\ \A d \in Path!Above(x) : Path!Above(d) \subseteq Path!Above(x) /\ x \notin Path!Above(d)
         /\ x = <<>> \/ <<>> \in Path!Above(x)
<1>1. x \notin Path!Above(x)
  BY AbovePaths
<1>2. ASSUME NEW d \in Path!Above(x), NEW e \in Path!Above(x), Len(d) < Len(e) PROVE d \in Path!Above(e)
  <2>1. d \in Seq(PathNames) /\ e \in Seq(PathNames) /\ d = SubSeq(x, 1, Len(d)) /\ e = SubSeq(x, 1, Len(e)) /\ Len(e) < Len(x)
        /\ Len(d) \in Nat /\ Len(e) \in Nat /\ Len(x) \in Nat
    BY AbovePaths
  <2>2. d = SubSeq(e, 1, Len(d))
    BY <1>2, <2>1, SubSeqOfSubSeq
  <2> QED BY <1>2, <2>1, <2>2, AbovePaths
<1>3. \A d \in Path!Above(x), e \in Path!Above(x) : d = e \/ d \in Path!Above(e) \/ e \in Path!Above(d)
  <2> TAKE d \in Path!Above(x), e \in Path!Above(x)
  <2>1. Len(d) \in Nat /\ Len(e) \in Nat /\ d = SubSeq(x, 1, Len(d)) /\ e = SubSeq(x, 1, Len(e))
    BY AbovePaths
  <2>2. Len(d) = Len(e) => d = e
    BY <2>1
  <2>3. Len(d) < Len(e) => d \in Path!Above(e)
    BY <1>2
  <2>4. Len(e) < Len(d) => e \in Path!Above(d)
    BY <1>2
  <2>5. Len(d) = Len(e) \/ Len(d) < Len(e) \/ Len(e) < Len(d)
    <3>1. Len(d) \in Nat /\ Len(e) \in Nat
      BY <2>1
    <3> QED BY <3>1
  <2> QED BY <2>2, <2>3, <2>4, <2>5, Zenon
<1>4. ASSUME NEW d \in Path!Above(x) PROVE Path!Above(d) \subseteq Path!Above(x) /\ x \notin Path!Above(d)
  <2>1. d \in Seq(PathNames) /\ d = SubSeq(x, 1, Len(d)) /\ Len(d) < Len(x) /\ Len(d) \in Nat /\ Len(x) \in Nat
    BY AbovePaths
  <2>2. ASSUME NEW e \in Path!Above(d) PROVE e \in Path!Above(x) /\ e # x
    <3>1. e \in Seq(PathNames) /\ Len(e) \in Nat /\ Len(e) < Len(d) /\ e = SubSeq(d, 1, Len(e))
      BY <2>1, AbovePaths
    <3>2. e = SubSeq(x, 1, Len(e))
      BY <2>1, <3>1, SubSeqOfSubSeq
    <3> QED BY <2>1, <3>1, <3>2, AbovePaths
  <2> QED BY <2>2
<1>5. x = <<>> \/ <<>> \in Path!Above(x)
  <2>1. <<>> \in Seq(PathNames) /\ Len(<<>>) = 0 /\ <<>> = SubSeq(x, 1, 0)
    OBVIOUS
  <2>2. x # <<>> => 0 < Len(x)
    OBVIOUS
  <2> QED BY <2>1, <2>2, AbovePaths
<1> QED BY <1>1, <1>3, <1>4, <1>5

LEMMA AboveNext ==
  ASSUME NEW x \in Seq(PathNames), NEW t \in PathNames
  PROVE  /\ Append(x, t) \in Seq(PathNames)
         /\ Path!Above(Append(x, t)) = Path!Above(x) \cup {x}
<1> DEFINE a == Append(x, t)
<1>1. a \in Seq(PathNames) /\ Len(a) = Len(x) + 1 /\ SubSeq(a, 1, Len(x)) = x /\ Len(x) \in Nat
  OBVIOUS
<1> HIDE DEF a
<1>2. x \in Path!Above(a)
  BY <1>1, AbovePaths
<1>3. Path!Above(x) \subseteq Path!Above(a)
  BY <1>1, <1>2, AboveChain
<1>4. ASSUME NEW d \in Path!Above(a) PROVE d = x \/ d \in Path!Above(x)
  <2>1. d \in Seq(PathNames) /\ Len(d) \in Nat /\ Len(d) < Len(a) /\ d = SubSeq(a, 1, Len(d))
    BY <1>1, AbovePaths
  <2>2. x \notin Path!Above(d)
    <3> SUFFICES ASSUME x \in Path!Above(d) PROVE FALSE
      OBVIOUS
    <3>1. Len(x) < Len(d)
      BY <2>1, AbovePaths
    <3> QED BY <1>1, <2>1, <3>1
  <2> QED BY <1>1, <1>2, <1>4, <2>2, AboveChain
<1> QED BY <1>1, <1>2, <1>3, <1>4 DEF a

LEMMA AboveParent ==
  ASSUME NEW x \in Seq(PathNames), x # <<>>
  PROVE  /\ Path!Parent(x) \in Path!Above(x)
         /\ Path!Above(x) = Path!Above(Path!Parent(x)) \cup {Path!Parent(x)}
<1> DEFINE p == SubSeq(x, 1, Len(x) - 1)
<1>1. Len(x) \in Nat /\ Len(x) > 0 /\ p \in Seq(PathNames) /\ Len(p) = Len(x) - 1 /\ p = SubSeq(x, 1, Len(p))
  <2>1. Len(x) \in Nat /\ Len(x) # 0
    OBVIOUS
  <2>2. p \in Seq(PathNames) /\ Len(p) = Len(x) - 1
    BY <2>1
  <2> QED BY <2>1, <2>2
<1>2. Path!Parent(x) = p
  BY DEF Path!Parent, Path!Front
<1> HIDE DEF p
<1>3. p \in Path!Above(x)
  BY <1>1, AbovePaths
<1>4. Path!Above(p) \subseteq Path!Above(x)
  BY <1>3, AboveChain
<1>5. ASSUME NEW d \in Path!Above(x) PROVE d = p \/ d \in Path!Above(p)
  <2>1. d \in Seq(PathNames) /\ Len(d) \in Nat /\ Len(d) < Len(x)
    BY AbovePaths
  <2>2. p \notin Path!Above(d)
    <3> SUFFICES ASSUME p \in Path!Above(d) PROVE FALSE
      OBVIOUS
    <3>1. Len(p) < Len(d)
      BY <2>1, AbovePaths
    <3> QED BY <1>1, <2>1, <3>1
  <2> QED BY <1>3, <1>5, <2>2, AboveChain
<1> QED BY <1>2, <1>3, <1>4, <1>5

(* The step from a directory towards what is beneath it. *)
LEMMA TowardsBeneath ==
  ASSUME NEW x \in Seq(PathNames), NEW c \in Path!Above(x)
  PROVE  \E y \in Path!Above(x) \cup {x} : y # <<>> /\ Path!Parent(y) = c /\ c \in Path!Above(y)
<1>1. c \in Seq(PathNames) /\ Len(c) \in Nat /\ Len(c) < Len(x) /\ c = SubSeq(x, 1, Len(c)) /\ Len(x) \in Nat
  BY AbovePaths
<1> DEFINE y == SubSeq(x, 1, Len(c) + 1)
<1>2. y \in Seq(PathNames) /\ Len(y) = Len(c) + 1 /\ y = SubSeq(x, 1, Len(y))
  BY <1>1
<1>3. y # <<>> /\ SubSeq(y, 1, Len(y) - 1) = SubSeq(x, 1, Len(c))
  <2>1. Len(c) + 1 \in Nat /\ Len(c) + 1 <= Len(x) /\ Len(c) <= Len(c) + 1
    BY <1>1
  <2>2. SubSeq(y, 1, Len(c)) = SubSeq(x, 1, Len(c))
    BY <1>1, <2>1, SubSeqOfSubSeq
  <2> QED BY <1>1, <1>2, <2>2
<1>4. Len(y) = Len(x) => y = x
  BY <1>2
<1> HIDE DEF y
<1>5. y \in Path!Above(x) \cup {x}
  <2>1. CASE Len(y) = Len(x)
    BY <1>4, <2>1
  <2>2. CASE Len(y) < Len(x)
    BY <1>2, <2>2, AbovePaths
  <2> QED BY <1>1, <1>2, <2>1, <2>2
<1>6. Path!Parent(y) = c
  BY <1>1, <1>2, <1>3 DEF Path!Parent, Path!Front
<1> QED BY <1>2, <1>3, <1>5, <1>6, AboveParent

LEMMA BeneathIsAbove ==
  ASSUME Paths \subseteq Seq(PathNames), NEW c \in Seq(PathNames)
  PROVE  Path!Beneath(c) = {x \in Paths : c \in Path!Above(x)}
<1>1. ASSUME NEW x \in Paths PROVE c \in Path!Above(x) <=> Len(x) > Len(c) /\ SubSeq(x, 1, Len(c)) = c
  <2>1. x \in Seq(PathNames) /\ Len(x) \in Nat /\ Len(c) \in Nat
    OBVIOUS
  <2> QED BY <2>1, AbovePaths
<1> QED BY <1>1 DEF Path!Beneath

-----------------------------------------------------------------------------
(* The instance: its names and its files. *)
Nodes == [kind : {"absent", "dir", "file", "link"}, owner : {"root", "self", "other"},
          mode : {"private", "closed", "open", "sticky"}, to : Seq(PathNames), abs : BOOLEAN]

LEMMA PathsNamed ==
  /\ Paths \subseteq Seq(PathNames) /\ <<>> \in Paths
  /\ \A x \in Paths : Path!Above(x) \subseteq Paths
<1>1. /\ <<>> \in Seq(PathNames)
      /\ \A t \in PathNames : <<t>> \in Seq(PathNames) /\ <<t>> = Append(<<>>, t)
      /\ \A t \in PathNames, u \in PathNames : <<t, u>> \in Seq(PathNames) /\ <<t, u>> = Append(<<t>>, u)
  OBVIOUS
<1>2. "d" \in PathNames /\ "e" \in PathNames /\ "f" \in PathNames
  BY DEF PathNames
<1>3. Paths \subseteq Seq(PathNames) /\ <<>> \in Paths
  <2>1. <<"d">> \in Seq(PathNames) /\ <<"e">> \in Seq(PathNames)
    BY <1>1, <1>2
  <2>2. <<"d", "f">> \in Seq(PathNames) /\ <<"e", "f">> \in Seq(PathNames)
    BY <1>1, <1>2
  <2> QED BY <1>1, <2>1, <2>2, Zenon DEF Paths
<1>4. Path!Above(<<>>) = {}
  <2>1. <<>> \in Seq(PathNames) /\ Len(<<>>) = 0
    OBVIOUS
  <2>2. \A d \in Path!Above(<<>>) : d \in Seq(PathNames) /\ Len(d) < 0
    BY <2>1, AbovePaths
  <2> QED BY <2>2
<1>5. \A t \in PathNames : Path!Above(<<t>>) = {<<>>}
  <2> TAKE t \in PathNames
  <2>1. <<>> \in Seq(PathNames) /\ <<t>> = Append(<<>>, t)
    BY <1>1
  <2>2. Path!Above(Append(<<>>, t)) = Path!Above(<<>>) \cup {<<>>}
    BY <2>1, AboveNext
  <2> QED BY <1>4, <2>1, <2>2
<1>6. \A t \in PathNames, u \in PathNames : Path!Above(<<t, u>>) = {<<>>, <<t>>}
  <2> TAKE t \in PathNames, u \in PathNames
  <2>1. <<t>> \in Seq(PathNames) /\ <<t, u>> = Append(<<t>>, u)
    BY <1>1
  <2>2. Path!Above(Append(<<t>>, u)) = Path!Above(<<t>>) \cup {<<t>>}
    BY <2>1, AboveNext
  <2> QED BY <1>5, <2>1, <2>2
<1>7. Path!Above(<<"d">>) = {<<>>} /\ Path!Above(<<"e">>) = {<<>>}
      /\ Path!Above(<<"d", "f">>) = {<<>>, <<"d">>} /\ Path!Above(<<"e", "f">>) = {<<>>, <<"e">>}
  BY <1>2, <1>5, <1>6
<1> QED BY <1>3, <1>4, <1>7 DEF Paths

LEMMA HostsTyped == Hosts \subseteq [Paths -> Nodes]
<1>1. /\ <<>> \in Seq(PathNames) /\ <<"e">> \in Seq(PathNames) /\ <<"d", "f">> \in Seq(PathNames)
      /\ <<"..", "e", "f">> \in Seq(PathNames)
  BY DEF PathNames
<1>2. Dirs \subseteq Nodes
  BY <1>1 DEF Dirs, Nodes
<1>3. Files \subseteq Nodes
  BY <1>1 DEF Files, Nodes
<1>4. NoFile \in Nodes /\ RootDir \in Nodes
  BY <1>1 DEF NoFile, RootDir, Nodes
<1>5. \A o \in {"root", "self", "other"}, a \in BOOLEAN, to \in Seq(PathNames) : Link(o, to, a) \in Nodes
  BY DEF Link, Nodes
<1>6. \A d \in Nodes, e \in Nodes, df \in Nodes, ef \in Nodes : Host(d, e, df, ef) \in [Paths -> Nodes]
  BY <1>4 DEF Paths, Host
<1>7. AllHosts \subseteq [Paths -> Nodes]
  <2> DEFINE D == Dirs \cup {Link(o, <<"e">>, FALSE) : o \in {"root", "self", "other"}}
             DF == {n \in Files : n.mode # "closed"} \cup {NoFile}
                     \cup {Link(o, <<"..", "e", "f">>, FALSE) : o \in {"root", "self", "other"}}
                     \cup {Link("root", <<"d", "f">>, TRUE)}
             EF == {n \in Files : n.mode = "private"} \cup {NoFile}
             E == {n \in Dirs : n.owner # "other"}
  <2>1. D \subseteq Nodes /\ E \subseteq Nodes
    BY <1>1, <1>2, <1>5
  <2>2. DF \subseteq Nodes /\ EF \subseteq Nodes
    BY <1>1, <1>3, <1>4, <1>5
  <2>3. AllHosts = {Host(d, e, df, ef) : d \in D, e \in E, df \in DF, ef \in EF}
    BY DEF AllHosts
  <2> HIDE DEF D, E, DF, EF, Nodes
  <2>4. \A d \in D, e \in E, df \in DF, ef \in EF : d \in Nodes /\ e \in Nodes /\ df \in Nodes /\ ef \in Nodes
    BY <2>1, <2>2
  <2> QED BY <1>6, <2>3, <2>4
<1> QED BY <1>7 DEF Hosts

LEMMA AboveNothing == Path!Above(<<>>) = {} /\ Path!Above(<<"d">>) = {<<>>}
<1>1. "d" \in PathNames /\ <<>> \in Seq(PathNames) /\ <<"d">> = Append(<<>>, "d")
  BY DEF PathNames
<1>2. Path!Above(<<>>) = {}
  <2>1. <<>> \in Seq(PathNames) /\ Len(<<>>) = 0
    OBVIOUS
  <2>2. \A d \in Path!Above(<<>>) : d \in Seq(PathNames) /\ Len(d) < 0
    BY <2>1, AbovePaths
  <2> QED BY <2>2
<1>3. Path!Above(Append(<<>>, "d")) = Path!Above(<<>>) \cup {<<>>}
  BY <1>1, AboveNext
<1> QED BY <1>1, <1>2, <1>3

LEMMA HostsFile == \A x \in Hosts : x[<<"d", "f">>].kind # "dir"
<1> DEFINE D == Dirs \cup {Link(o, <<"e">>, FALSE) : o \in {"root", "self", "other"}}
           E == {n \in Dirs : n.owner # "other"}
           DF == {n \in Files : n.mode # "closed"} \cup {NoFile}
                   \cup {Link(o, <<"..", "e", "f">>, FALSE) : o \in {"root", "self", "other"}}
                   \cup {Link("root", <<"d", "f">>, TRUE)}
           EF == {n \in Files : n.mode = "private"} \cup {NoFile}
<1>1. ASSUME NEW n \in DF PROVE n.kind # "dir"
  <2>1. CASE n \in Files
    BY <2>1 DEF Files
  <2>2. CASE n = NoFile
    BY <2>2 DEF NoFile
  <2>3. CASE n \notin Files /\ n # NoFile
    <3>1. \E o, to, abs : n = Link(o, to, abs)
      BY <2>3
    <3> QED BY <3>1 DEF Link
  <2> QED BY <2>1, <2>2, <2>3
<1>2. AllHosts = {Host(d, e, df, ef) : d \in D, e \in E, df \in DF, ef \in EF}
  BY DEF AllHosts
<1> HIDE DEF D, E, DF, EF
<1>3. ASSUME NEW d, NEW e, NEW df \in DF, NEW ef PROVE Host(d, e, df, ef)[<<"d", "f">>].kind # "dir"
  <2>1. Host(d, e, df, ef)[<<"d", "f">>] = df
    BY DEF Host, Paths
  <2> QED BY <1>1, <2>1
<1>4. \A x \in AllHosts : x[<<"d", "f">>].kind # "dir"
  BY <1>2, <1>3
<1> QED BY <1>4 DEF Hosts

-----------------------------------------------------------------------------
(* What the engine is to hold: a job as it was given, or the place of a      *)
(* directory of records not there yet.                                      *)
JobTyped(j) ==
  /\ j.path \in Seq(PathNames)
  /\ j.purpose \in {"seed", "credentials", "executable", "policy", "records", "place"}
  /\ j.purpose = "place" => j.name \in Paths /\ j.name # <<>> /\ j.path = Path!Parent(j.name)

LEMMA JobsLooked ==
  ASSUME fs \in Hosts, NEW j \in Jobs
  PROVE  /\ JobTyped(Path!Looked(j))
         /\ Path!ByName(Path!Looked(j).purpose) =>
              \/ Path!Looked(j).path \in {<<>>, <<"d">>}
              \/ Path!Looked(j).purpose = "records" /\ Path!Look(Path!Looked(j).path).kind # "dir"
         /\ Path!Looked(j).purpose = "place" => Path!Vacant(Path!Look(Path!Looked(j).name))
<1>1. "d" \in PathNames /\ "f" \in PathNames
  BY DEF PathNames
<1>2. <<"d">> \in Seq(PathNames) /\ <<"d", "f">> \in Seq(PathNames) /\ <<"d">> # <<>> /\ <<"d", "f">> # <<>>
      /\ <<"d", "f">> = Append(<<"d">>, "f")
  BY <1>1
<1>3. <<"d">> \in Paths /\ <<"d", "f">> \in Paths
  BY Zenon DEF Paths
<1>4. \/ \E u \in {"seed", "credentials", "executable", "policy"} : j = [purpose |-> u, path |-> <<"d", "f">>]
      \/ \E p \in {<<"d">>, <<"d", "f">>} : j = [purpose |-> "records", path |-> p]
  BY Zenon DEF Jobs
<1>5. /\ j.path \in {<<"d">>, <<"d", "f">>}
      /\ j.purpose \in {"seed", "credentials", "executable", "policy", "records"}
  BY <1>4
<1>6. /\ j.path \in Seq(PathNames) /\ j.path \in Paths /\ j.path # <<>>
      /\ j.path = <<"d">> \/ (j.path = <<"d", "f">> /\ Path!Look(j.path).kind # "dir")
  <2>1. Path!Look(<<"d", "f">>).kind # "dir"
    BY <1>3, HostsFile DEF Path!Look
  <2> QED BY <1>2, <1>3, <1>5, <2>1
<1>7. Path!Parent(j.path) \in {<<>>, <<"d">>}
  <2>1. Path!Above(<<"d", "f">>) = {<<>>, <<"d">>}
    BY <1>1, <1>2, AboveNext, AboveNothing
  <2>2. Path!Parent(j.path) \in Path!Above(j.path)
    BY <1>6, AboveParent
  <2> QED BY <1>5, <2>1, <2>2, AboveNothing
<1>8. CASE j.purpose = "records" /\ Path!Vacant(Path!Look(j.path))
  <2>1. Path!Looked(j) = [purpose |-> "place", path |-> Path!Parent(j.path), name |-> j.path]
    BY <1>8 DEF Path!Looked, Path!Place
  <2>2. <<>> \in Seq(PathNames)
    OBVIOUS
  <2> DEFINE l == Path!Looked(j)
  <2>3. l.purpose = "place" /\ l.path = Path!Parent(j.path) /\ l.name = j.path
    BY <2>1
  <2> HIDE DEF l
  <2>4. JobTyped(l)
    BY <1>2, <1>6, <1>7, <2>2, <2>3 DEF JobTyped
  <2>5. l.path \in {<<>>, <<"d">>} /\ Path!Vacant(Path!Look(l.name))
    BY <1>7, <1>8, <2>3
  <2> QED BY <2>4, <2>5 DEF l
<1>9. CASE ~(j.purpose = "records" /\ Path!Vacant(Path!Look(j.path)))
  <2>1. Path!Looked(j) = j
    BY <1>9 DEF Path!Looked
  <2> QED BY <1>5, <1>6, <2>1 DEF JobTyped, Path!ByName
<1> QED BY <1>8, <1>9

(* The walk.  Its state is typed; and the invariant, conjunct by conjunct. *)
PathTyped ==
  /\ fs \in [Paths -> Nodes]
  /\ JobTyped(job)
  /\ Path!ByName(job.purpose) /\ standing # "refused" => job.path \in {<<>>, <<"d">>}
  /\ cur \in Seq(PathNames) /\ rest \in Seq(PathNames)
  /\ standing \in {"parent", "walk", "judge", "list", "held", "refused"}

(* A directory of records, or its place: names, with nothing but the root above. *)
LEMMA NamedPath ==
  ASSUME NEW p \in {<<>>, <<"d">>}
  PROVE  p \in Paths /\ p \in Seq(PathNames) /\ Path!Above(p) \subseteq {<<>>} /\ <<>> \o p = p
<1>1. p \in Paths
  BY PathsNamed DEF Paths
<1> QED BY <1>1, PathsNamed, AboveNothing

LEMMA PathStarts ==
  ASSUME Path!Init
  PROVE  PathTyped /\ Path!PathInv
<1>0. /\ fs \in Hosts /\ cur = <<>> /\ rest = job.path /\ standing \in {"parent", "walk", "refused"}
      /\ standing # "refused" =>
           /\ Path!Holds(job.purpose, fs[<<>>])
           /\ job.purpose = "records" => Path!Look(job.path).kind = "dir" /\ ~Path!WritableBeyondOwner(Path!Look(job.path))
           /\ standing = (IF job.purpose = "place" THEN "parent" ELSE "walk")
  BY DEF Path!Init
<1>1. PICK j \in Jobs : job = Path!Looked(j)
  BY DEF Path!Init
<1>2. /\ JobTyped(job)
      /\ Path!ByName(job.purpose) /\ standing # "refused" => job.path \in {<<>>, <<"d">>}
      /\ job.purpose = "place" => Path!Vacant(Path!Look(job.name))
  BY <1>0, <1>1, JobsLooked DEF Path!ByName
<1>3. PathTyped
  <2>1. <<>> \in Seq(PathNames)
    OBVIOUS
  <2>2. job.path \in Seq(PathNames)
    BY <1>2 DEF JobTyped
  <2> QED BY <1>0, <1>2, <2>1, <2>2, HostsTyped DEF PathTyped
<1>4. Path!TaintInv
  BY DEF Path!Init, Path!TaintInv
<1>5. <<>> \in Paths
  BY PathsNamed
<1>6. standing # "refused" => Path!Kept(<<>>)
  BY <1>0, <1>5 DEF Path!Holds, Path!HoldDirectory, Path!HoldRecordAncestor, Path!Kept
<1>7. Path!WayInv
  BY <1>0, <1>6, AboveNothing DEF Path!WayInv
<1>8. Path!HeldInv /\ Path!ListInv /\ Path!PlaceInv
  BY <1>0, <1>2 DEF Path!HeldInv, Path!ListInv, Path!PlaceInv
<1>9. Path!RecordWayInv
  <2> SUFFICES ASSUME Path!ByName(job.purpose), standing # "refused" PROVE Path!RecordWayInv
    BY <1>0 DEF Path!RecordWayInv
  <2>1. CASE job.purpose = "place"
    BY <1>0, <2>1 DEF Path!RecordWayInv
  <2>2. CASE job.purpose # "place"
    <3>1. job.purpose = "records" /\ standing = "walk"
      BY <1>0, <2>2 DEF Path!ByName
    <3>2. job.path \in Paths /\ Path!Above(job.path) \subseteq {<<>>} /\ cur \o rest = job.path
      BY <1>0, <1>2, NamedPath
    <3>3. fs[job.path].kind = "dir" /\ ~Path!WritableBeyondOwner(fs[job.path])
      BY <1>0, <3>1, <3>2 DEF Path!Look
    <3>4. fs[<<>>].kind = "dir"
      BY <1>6 DEF Path!Kept
    <3> QED BY <1>5, <3>1, <3>2, <3>3, <3>4 DEF Path!RecordWayInv
  <2> QED BY <2>1, <2>2
<1> QED BY <1>3, <1>4, <1>7, <1>8, <1>9 DEF Path!PathInv

(* Where neither the host nor the job changes, a place stays vacant. *)
LEMMA PlaceUnchanged ==
  ASSUME UNCHANGED <<fs, job>>, Path!PlaceInv
  PROVE  Path!PlaceInv'
BY DEF Path!PlaceInv, Path!Kept, Path!WritableBeyondOwner, Path!Vacant, Path!Look

(* The look at the directory that records are to be made in. *)
LEMMA ParentKeeps ==
  ASSUME PathTyped, Path!PathInv, Path!LookAtParent
  PROVE  PathTyped' /\ Path!PathInv'
<1>0. /\ standing = "parent" /\ standing' \in {"walk", "refused"}
      /\ standing' = "walk" => Path!Look(job.path).kind = "dir" /\ ~Path!WritableBeyondOwner(Path!Look(job.path))
      /\ UNCHANGED <<fs, tainted, job, cur, rest, hops, listing, moves>>
  BY DEF Path!LookAtParent
<1>1. PathTyped'
  BY <1>0 DEF PathTyped
<1>2. Path!TaintInv' /\ Path!PlaceInv'
  BY <1>0, PlaceUnchanged DEF Path!PathInv, Path!TaintInv, Path!WritableBeyondOwner
<1>3. Path!HeldInv' /\ Path!ListInv'
  BY <1>0 DEF Path!HeldInv, Path!ListInv
<1>4. \A d : Path!Kept(d)' <=> Path!Kept(d)
  BY <1>0 DEF Path!Kept
<1>5. Path!Kept(cur) /\ \A d \in Path!Above(cur) : Path!Kept(d)
  BY <1>0 DEF Path!PathInv, Path!WayInv
<1>6. Path!WayInv'
  BY <1>0, <1>4, <1>5 DEF Path!WayInv
<1>7. Path!RecordWayInv'
  <2> SUFFICES ASSUME Path!ByName(job.purpose), standing' = "walk" PROVE Path!RecordWayInv'
    BY <1>0 DEF Path!RecordWayInv
  <2>1. cur = <<>> /\ rest = job.path /\ job.path \in {<<>>, <<"d">>}
    BY <1>0 DEF Path!PathInv, Path!RecordWayInv, PathTyped
  <2>2. job.path \in Paths /\ Path!Above(job.path) \subseteq {<<>>} /\ cur \o rest = job.path
    BY <2>1, NamedPath
  <2>3. fs[job.path].kind = "dir" /\ ~Path!WritableBeyondOwner(fs[job.path])
    BY <1>0, <2>2 DEF Path!Look
  <2>4. <<>> \in Paths /\ fs[<<>>].kind = "dir"
    BY <1>5, <2>1 DEF Path!Kept
  <2> QED BY <1>0, <2>2, <2>3, <2>4 DEF Path!RecordWayInv, Path!WritableBeyondOwner
<1> QED BY <1>1, <1>2, <1>3, <1>6, <1>7 DEF Path!PathInv

(* What Look finds, and what Holds lets the walk go on from. *)
LEMMA LookFinds ==
  ASSUME fs \in [Paths -> Nodes], NEW x
  PROVE  /\ Path!Look(x) \in Nodes
         /\ Path!Look(x).kind # "absent" => x \in Paths /\ Path!Look(x) = fs[x]
<1>1. <<>> \in Seq(PathNames)
  OBVIOUS
<1> QED BY <1>1 DEF Path!Look, Path!Absent, Nodes

LEMMA HoldsKeeps ==
  ASSUME fs \in [Paths -> Nodes], NEW x, NEW u, Path!Holds(u, Path!Look(x))
  PROVE  Path!Kept(x)
BY LookFinds DEF Path!Holds, Path!HoldDirectory, Path!HoldRecordAncestor, Path!Kept

(* One component of the path. *)
LEMMA WalkKeeps ==
  ASSUME PathTyped, Path!PathInv, Path!Walk
  PROVE  PathTyped' /\ Path!PathInv'
<1>0. /\ standing = "walk" /\ fs' = fs /\ tainted' = tainted /\ job' = job /\ listing' = listing
      /\ \A d \in Path!Above(cur) : Path!Kept(d)
      /\ Path!Kept(cur)
      /\ cur \in Seq(PathNames) /\ rest \in Seq(PathNames) /\ fs \in [Paths -> Nodes] /\ JobTyped(job)
      /\ Path!ByName(job.purpose) => job.path \in {<<>>, <<"d">>}
  BY DEF Path!Walk, Path!PathInv, Path!WayInv, PathTyped
<1>1. Path!TaintInv'
  BY <1>0 DEF Path!PathInv, Path!TaintInv, Path!WritableBeyondOwner
<1>2. standing' \in {"walk", "judge", "refused"}
  BY <1>0 DEF Path!Walk, Path!Component, Path!MoveTo, Path!EndAt, Path!Refuse
<1>3. Path!HeldInv' /\ Path!ListInv'
  BY <1>2 DEF Path!HeldInv, Path!ListInv
<1>4. \A d : Path!Kept(d)' <=> Path!Kept(d)
  BY <1>0 DEF Path!Kept
<1>5. /\ cur' \in Seq(PathNames) /\ rest' \in Seq(PathNames)
      /\ standing' # "refused" =>
           /\ \A d \in Path!Above(cur') : Path!Kept(d)
           /\ standing' = "walk" \/ Path!ByName(job.purpose) => Path!Kept(cur')
      /\ Path!ByName(job.purpose) =>
           /\ standing' = "walk" => cur' \o rest' = job.path
           /\ standing' = "judge" => cur' = job.path
  <2>1. CASE rest = <<>>
    <3>1. cur' = cur /\ rest' = <<>> /\ standing' = "judge"
      BY <1>0, <2>1 DEF Path!Walk, Path!EndAt
    <3>2. cur \o <<>> = cur
      BY <1>0
    <3> QED BY <1>0, <2>1, <3>1, <3>2 DEF Path!PathInv, Path!RecordWayInv
  <2>2. CASE rest # <<>>
    <3> DEFINE token == Head(rest)  left == Tail(rest)  next == Append(cur, token)  n == Path!Look(next)
               final == ~Path!ByName(job.purpose) /\ left = <<>>
    <3>1. token \in PathNames /\ left \in Seq(PathNames) /\ <<token>> \o left = rest
      BY <1>0, <2>2
    <3>2. next \in Seq(PathNames) /\ Path!Above(next) = Path!Above(cur) \cup {cur}
      BY <1>0, <3>1, AboveNext
    <3>3. next \o left = cur \o rest
      BY <1>0, <2>2
    <3>4. n \in Nodes
      BY <1>0, LookFinds
    <3>5. Path!Component
      BY <2>2 DEF Path!Walk
    <3>6. Path!ByName(job.purpose) => cur \o rest = job.path /\ next \in Path!Above(job.path) \cup {job.path} /\ token # ".."
      <4> SUFFICES ASSUME Path!ByName(job.purpose)
                   PROVE  cur \o rest = job.path /\ next \in Path!Above(job.path) \cup {job.path} /\ token # ".."
        OBVIOUS
      <4>0. cur \o rest = job.path /\ job.path \in {<<>>, <<"d">>}
        BY <1>0 DEF Path!PathInv, Path!RecordWayInv
      <4>1. cur \o rest = job.path /\ job.path = <<"d">>
        <5>1. Len(cur \o rest) # 0
          BY <1>0, <2>2
        <5> QED BY <4>0, <5>1
      <4>2. Len(cur) + Len(rest) = 1 /\ Len(rest) # 0 /\ Len(cur) \in Nat /\ Len(rest) \in Nat
        <5>1. Len(cur \o rest) = Len(cur) + Len(rest) /\ Len(cur) \in Nat /\ Len(rest) \in Nat /\ Len(rest) # 0
          BY <1>0, <2>2
        <5> QED BY <4>1, <5>1
      <4>3. cur = <<>>
        BY <1>0, <4>2
      <4>4. rest = <<"d">>
        <5>1. <<>> \o rest = rest
          BY <1>0
        <5> QED BY <4>1, <4>3, <5>1
      <4> QED BY <4>1, <4>3, <4>4
    <3>7. CASE token = ".."
      <4>1. cur' = Path!Parent(cur) /\ rest' = left /\ standing' = "walk"
        BY <1>0, <3>5, <3>7 DEF Path!Component, Path!MoveTo
      <4>2. CASE cur = <<>>
        BY <1>0, <3>1, <3>6, <3>7, <4>1, <4>2 DEF Path!Parent
      <4>3. CASE cur # <<>>
        <5>1. Path!Parent(cur) \in Path!Above(cur) /\ Path!Above(cur) = Path!Above(Path!Parent(cur)) \cup {Path!Parent(cur)}
          BY <1>0, <4>3, AboveParent
        <5>2. Path!Above(cur) \subseteq Seq(PathNames)
          BY <1>0, AbovePaths
        <5> QED BY <1>0, <3>1, <3>6, <3>7, <4>1, <5>1, <5>2
      <4> QED BY <4>2, <4>3
    <3>8. CASE token # ".." /\ n.kind = "absent"
      <4>1. IF final THEN cur' = next /\ rest' = <<>> /\ standing' = "judge"
            ELSE standing' = "refused" /\ cur' = cur /\ rest' = rest
        BY <3>5, <3>8 DEF Path!Component, Path!EndAt, Path!Refuse
      <4>2. <<>> \in Seq(PathNames)
        OBVIOUS
      <4>3. CASE final
        <5>1. cur' = next /\ rest' = <<>> /\ standing' = "judge" /\ ~Path!ByName(job.purpose)
          BY <4>1, <4>3
        <5> HIDE DEF next
        <5> QED BY <1>0, <3>2, <4>2, <5>1
      <4>4. CASE ~final
        <5>1. standing' = "refused" /\ cur' = cur /\ rest' = rest
          BY <4>1, <4>4
        <5> QED BY <1>0, <5>1
      <4> QED BY <4>3, <4>4
    <3>9. CASE token # ".." /\ n.kind = "link"
      <4>1. ~Path!ByName(job.purpose) \/ n.owner = "other"
        <5> SUFFICES ASSUME Path!ByName(job.purpose) PROVE n.owner = "other"
          OBVIOUS
        <5>1. next \in Paths /\ (fs[next].owner = "other" \/ fs[next].kind \in {"dir", "absent"})
          BY <1>0, <3>6 DEF Path!PathInv, Path!RecordWayInv
        <5>2. n = fs[next]
          BY <1>0, <3>9, LookFinds
        <5> HIDE DEF n, next
        <5> QED BY <3>9, <5>1, <5>2
      <4>2. \/ standing' = "refused" /\ cur' = cur /\ rest' = rest
            \/ /\ Path!LinkTrusted(job.purpose, n.owner)
               /\ cur' = (IF n.abs THEN <<>> ELSE cur) /\ rest' = n.to \o left /\ standing' = standing
        BY <3>5, <3>9 DEF Path!Component, Path!Refuse
      <4>3. Path!Kept(<<>>) /\ Path!Above(<<>>) = {} /\ <<>> \in Seq(PathNames)
        BY <1>0, AboveChain, AboveNothing
      <4>4. n.to \in Seq(PathNames) /\ n.abs \in BOOLEAN
        <5> HIDE DEF n
        <5> QED BY <3>4 DEF Nodes
      <4> HIDE DEF n, next, left, token
      <4>5. n.to \o left \in Seq(PathNames)
        BY <3>1, <4>4
      <4>6. CASE standing' = "refused" /\ cur' = cur /\ rest' = rest
        BY <1>0, <4>6
      <4>7. CASE /\ Path!LinkTrusted(job.purpose, n.owner)
                 /\ cur' = (IF n.abs THEN <<>> ELSE cur) /\ rest' = n.to \o left /\ standing' = standing
        <5>1. ~Path!ByName(job.purpose)
          BY <4>1, <4>7 DEF Path!LinkTrusted, Path!ByName
        <5> QED BY <1>0, <4>3, <4>5, <4>7, <5>1
      <4> QED BY <4>2, <4>6, <4>7
    <3>10. CASE token # ".." /\ n.kind \in {"dir", "file"}
      <4>1. \/ n.kind = "file" /\ final /\ cur' = next /\ rest' = <<>> /\ standing' = "judge"
            \/ Path!Holds(job.purpose, n) /\ cur' = next /\ rest' = left /\ standing' = standing
            \/ standing' = "refused" /\ cur' = cur /\ rest' = rest
        BY <3>5, <3>10 DEF Path!Component, Path!EndAt, Path!Refuse, Path!MoveTo
      <4>2. Path!Holds(job.purpose, n) => Path!Kept(next)
        BY <1>0, HoldsKeeps
      <4>3. <<>> \in Seq(PathNames)
        OBVIOUS
      <4>4. CASE n.kind = "file" /\ final /\ cur' = next /\ rest' = <<>> /\ standing' = "judge"
        <5>1. ~Path!ByName(job.purpose)
          BY <4>4
        <5> HIDE DEF n, next, left, token
        <5> QED BY <1>0, <3>2, <4>3, <4>4, <5>1
      <4>5. CASE Path!Holds(job.purpose, n) /\ cur' = next /\ rest' = left /\ standing' = standing
        <5>1. cur' \o rest' = cur \o rest
          BY <3>3, <4>5
        <5> HIDE DEF n, next, left, token
        <5> QED BY <1>0, <3>1, <3>2, <3>6, <4>2, <4>5, <5>1
      <4>6. CASE standing' = "refused" /\ cur' = cur /\ rest' = rest
        BY <1>0, <4>6
      <4> QED BY <4>1, <4>4, <4>5, <4>6
    <3> QED BY <3>4, <3>7, <3>8, <3>9, <3>10 DEF Nodes
  <2> QED BY <2>1, <2>2
<1>6. PathTyped'
  BY <1>0, <1>2, <1>5 DEF PathTyped
<1>7. Path!WayInv'
  BY <1>0, <1>2, <1>4, <1>5 DEF Path!WayInv
<1>8. Path!RecordWayInv'
  <2> SUFFICES ASSUME Path!ByName(job.purpose) PROVE Path!RecordWayInv'
    BY <1>0 DEF Path!RecordWayInv
  <2>1. /\ \A d \in Path!Above(job.path) \cup {job.path} :
              d \in Paths /\ (fs[d].owner = "other" \/ fs[d].kind \in {"dir", "absent"})
        /\ Path!Kept(job.path) => ~Path!WritableBeyondOwner(fs[job.path])
    BY <1>0 DEF Path!PathInv, Path!RecordWayInv
  <2>2. standing' = "judge" => ~Path!WritableBeyondOwner(fs[cur'])
    BY <1>5, <2>1
  <2> QED BY <1>0, <1>2, <1>4, <1>5, <2>1, <2>2 DEF Path!RecordWayInv, Path!WritableBeyondOwner
<1>9. Path!PlaceInv'
  BY <1>0, PlaceUnchanged DEF Path!PathInv
<1> QED BY <1>1, <1>3, <1>6, <1>7, <1>8, <1>9 DEF Path!PathInv

(* What is beneath the directory a walk for records ended at. *)
LEMMA BeneathDir ==
  ASSUME NEW c \in Seq(PathNames), NEW x
  PROVE  x \in Path!Beneath(c) <=> x \in Paths /\ c \in Path!Above(x)
BY PathsNamed, BeneathIsAbove

(* Of the entries of a directory one leads to each path beneath it. *)
LEMMA EntriesCover ==
  ASSUME fs \in [Paths -> Nodes], NEW c \in Seq(PathNames), NEW x \in Path!Beneath(c),
         \A d \in Path!Above(x) : c \in Path!Above(d) => fs[d].kind = "dir",
         fs[x].kind \in {"dir", "file"}
  PROVE  \E y \in Path!Entries(c) : y = x \/ y \in Path!Above(x)
<1>1. x \in Paths /\ x \in Seq(PathNames) /\ c \in Path!Above(x)
  BY PathsNamed, BeneathDir
<1>2. PICK y \in Path!Above(x) \cup {x} : y # <<>> /\ Path!Parent(y) = c /\ c \in Path!Above(y)
  BY <1>1, TowardsBeneath
<1>3. y \in Paths
  BY <1>1, <1>2, PathsNamed
<1>4. y \in Path!Beneath(c) /\ fs[y].kind \in {"dir", "file"}
  BY <1>1, <1>2, <1>3, BeneathDir
<1> QED BY <1>2, <1>4 DEF Path!Entries

LEMMA EntriesBeneath ==
  ASSUME NEW c \in Seq(PathNames), NEW y \in Path!Entries(c)
  PROVE  y \in Path!Beneath(c)
BY DEF Path!Entries

LEMMA ReachedMeans ==
  ASSUME NEW x \in Seq(PathNames), cur \in Path!Above(x)
  PROVE  Path!Reached(x) <=> fs[cur].kind = "dir" /\ \A d \in Path!Above(x) : cur \in Path!Above(d) => fs[d].kind = "dir"
<1>1. cur \notin Path!Above(cur)
  BY AboveChain, AbovePaths
<1>2. \A d \in Path!Above(x) : d = cur \/ d \in Path!Above(cur) \/ cur \in Path!Above(d)
  BY AboveChain
<1>3. \A d \in Path!Above(x) : cur \in Path!Above(d) => d \notin Path!Above(cur)
  BY AboveChain, AbovePaths
<1> QED BY <1>1, <1>2, <1>3 DEF Path!Reached

LEMMA JudgeKeeps ==
  ASSUME PathTyped, Path!PathInv, Path!Judge
  PROVE  PathTyped' /\ Path!PathInv'
<1>0. /\ standing = "judge" /\ job.purpose # "records"
      /\ standing' = IF Path!Acceptable(job.purpose, Path!Look(cur)) THEN "held" ELSE "refused"
      /\ UNCHANGED <<fs, tainted, job, cur, rest, hops, listing, moves>>
  BY DEF Path!Judge
<1>1. PathTyped'
  BY <1>0 DEF PathTyped
<1>2. Path!TaintInv'
  BY <1>0 DEF Path!PathInv, Path!TaintInv, Path!WritableBeyondOwner
<1>3. Path!WayInv'
  BY <1>0 DEF Path!PathInv, Path!WayInv, Path!Kept
<1>4. Path!RecordWayInv' /\ Path!ListInv' /\ Path!PlaceInv'
  BY <1>0, PlaceUnchanged DEF Path!PathInv, Path!RecordWayInv, Path!ListInv, Path!Kept, Path!WritableBeyondOwner
<1>5. Path!HeldInv'
  <2> SUFFICES ASSUME standing' = "held", job.purpose \in {"seed", "credentials", "executable"}
               PROVE  cur \in Paths /\ fs[cur].kind = "file" /\ fs[cur].owner # "other" /\ ~Path!WritableBeyondOwner(fs[cur])
    BY <1>0 DEF Path!HeldInv, Path!WritableBeyondOwner
  <2>2. Path!Look(cur).kind = "file" /\ Path!Look(cur).owner # "other" /\ ~Path!WritableBeyondOwner(Path!Look(cur))
    BY <1>0 DEF Path!Acceptable, Path!WritableBeyondOwner
  <2>3. Path!Look(cur) = fs[cur] /\ cur \in Paths
    BY <2>2, LookFinds DEF PathTyped
  <2> QED BY <2>2, <2>3
<1> QED BY <1>1, <1>2, <1>3, <1>4, <1>5 DEF Path!PathInv

LEMMA ListKeeps ==
  ASSUME PathTyped, Path!PathInv, Path!List
  PROVE  PathTyped' /\ Path!PathInv'
<1>0. /\ standing = "judge" /\ job.purpose = "records" /\ standing' = "list" /\ listing' = Path!Entries(cur)
      /\ UNCHANGED <<fs, tainted, job, cur, rest, hops, moves>>
      /\ fs \in [Paths -> Nodes] /\ cur \in Seq(PathNames)
  BY DEF Path!List, PathTyped
<1>1. PathTyped'
  BY <1>0 DEF PathTyped
<1>2. Path!TaintInv'
  BY <1>0 DEF Path!PathInv, Path!TaintInv, Path!WritableBeyondOwner
<1>3. Path!WayInv'
  BY <1>0 DEF Path!PathInv, Path!WayInv, Path!Kept, Path!ByName
<1>4. Path!RecordWayInv' /\ Path!HeldInv' /\ Path!PlaceInv'
  BY <1>0, PlaceUnchanged DEF Path!PathInv, Path!RecordWayInv, Path!HeldInv, Path!WritableBeyondOwner
<1>5. Path!ListInv'
  <2>1. Path!Entries(cur) \subseteq Path!Beneath(cur)
    BY <1>0, EntriesBeneath
  <2>2. ASSUME NEW x \in Path!Beneath(cur), Path!Reached(x), Path!Foreign(fs[x])
        PROVE  \E y \in Path!Entries(cur) : y = x \/ y \in Path!Above(x)
    <3>1. x \in Seq(PathNames) /\ cur \in Path!Above(x)
      BY <1>0, PathsNamed, BeneathDir
    <3>2. \A d \in Path!Above(x) : cur \in Path!Above(d) => fs[d].kind = "dir"
      BY <2>2, <3>1, ReachedMeans
    <3>3. fs[x].kind \in {"dir", "file"}
      BY <2>2 DEF Path!Foreign
    <3> QED BY <1>0, <3>2, <3>3, EntriesCover
  <2>3. \A x : (Path!Reached(x)' <=> Path!Reached(x)) /\ (Path!Foreign(fs[x])' <=> Path!Foreign(fs[x]))
    BY <1>0 DEF Path!Reached, Path!Foreign, Path!WritableBeyondOwner
  <2> QED BY <1>0, <2>1, <2>2, <2>3 DEF Path!ListInv
<1> QED BY <1>1, <1>2, <1>3, <1>4, <1>5 DEF Path!PathInv

LEMMA ListedKeeps ==
  ASSUME PathTyped, Path!PathInv, Path!Listed
  PROVE  PathTyped' /\ Path!PathInv'
<1>0. /\ standing = "list" /\ listing = {} /\ standing' = "held"
      /\ UNCHANGED <<fs, tainted, job, cur, rest, hops, listing, moves>>
  BY DEF Path!Listed
<1>1. PathTyped' /\ Path!TaintInv' /\ Path!WayInv' /\ Path!RecordWayInv'
  BY <1>0 DEF PathTyped, Path!PathInv, Path!TaintInv, Path!WayInv, Path!Kept, Path!RecordWayInv, Path!WritableBeyondOwner
<1>2. job.purpose = "records"
  BY <1>0 DEF Path!PathInv, Path!ListInv
<1>3. Path!HeldInv' /\ Path!PlaceInv'
  BY <1>0, <1>2, PlaceUnchanged DEF Path!PathInv, Path!HeldInv
<1>4. Path!ListInv'
  <2>1. \A x : (Path!Reached(x)' <=> Path!Reached(x)) /\ (Path!Foreign(fs[x])' <=> Path!Foreign(fs[x]))
    BY <1>0 DEF Path!Reached, Path!Foreign, Path!WritableBeyondOwner
  <2>2. Path!Beneath(cur)' = Path!Beneath(cur)
    BY <1>0 DEF Path!Beneath
  <2> QED BY <1>0, <1>2, <2>1, <2>2 DEF Path!PathInv, Path!ListInv
<1> QED BY <1>1, <1>3, <1>4 DEF Path!PathInv

LEMMA JudgeEntryKeeps ==
  ASSUME PathTyped, Path!PathInv, Path!JudgeEntry
  PROVE  PathTyped' /\ Path!PathInv'
<1>0. /\ standing = "list" /\ job.purpose = "records" /\ standing' \in {"list", "refused"}
      /\ UNCHANGED <<fs, tainted, job, cur, rest, hops, moves>>
      /\ fs \in [Paths -> Nodes] /\ cur \in Seq(PathNames)
      /\ listing \subseteq Path!Beneath(cur)
  BY DEF Path!JudgeEntry, PathTyped, Path!PathInv, Path!ListInv
<1>1. PathTyped'
  BY <1>0 DEF PathTyped
<1>2. Path!TaintInv' /\ Path!WayInv' /\ Path!RecordWayInv' /\ Path!HeldInv' /\ Path!PlaceInv'
  BY <1>0, PlaceUnchanged DEF Path!PathInv, Path!TaintInv, Path!WayInv, Path!Kept, Path!RecordWayInv, Path!HeldInv, Path!WritableBeyondOwner
<1>3. Path!ListInv'
  <2> SUFFICES ASSUME standing' = "list" PROVE Path!ListInv'
    BY <1>0 DEF Path!ListInv
  <2>1. \A x : (Path!Reached(x)' <=> Path!Reached(x)) /\ (Path!Foreign(fs[x])' <=> Path!Foreign(fs[x]))
    BY <1>0 DEF Path!Reached, Path!Foreign, Path!WritableBeyondOwner
  <2>2. PICK x \in listing :
          \/ fs[x].kind = "link" /\ listing' = listing \ {x}
          \/ /\ fs[x].kind \notin {"absent", "link"} /\ fs[x].owner # "other" /\ ~Path!WritableBeyondOwner(fs[x])
             /\ listing' = (listing \ {x}) \cup (IF fs[x].kind = "dir" THEN Path!Entries(x) ELSE {})
    BY <1>0 DEF Path!JudgeEntry
  <2>3. x \in Paths /\ x \in Seq(PathNames) /\ cur \in Path!Above(x)
    BY <1>0, PathsNamed, BeneathDir
  <2>4. listing' \subseteq Path!Beneath(cur)
    <3>1. ASSUME NEW y \in Path!Entries(x) PROVE y \in Path!Beneath(cur)
      <4>1. y \in Paths /\ x \in Path!Above(y) /\ y \in Seq(PathNames)
        BY <2>3, EntriesBeneath, BeneathDir, PathsNamed
      <4>2. cur \in Path!Above(y)
        BY <2>3, <4>1, AboveChain
      <4> QED BY <1>0, <4>1, <4>2, BeneathDir
    <3> QED BY <1>0, <2>2, <3>1
  <2>5. ASSUME NEW z \in Path!Beneath(cur), Path!Reached(z), Path!Foreign(fs[z])
        PROVE  \E y \in listing' : y = z \/ y \in Path!Above(z)
    <3>1. z \in Paths /\ z \in Seq(PathNames) /\ cur \in Path!Above(z)
      BY <1>0, PathsNamed, BeneathDir
    <3>2. \A d \in Path!Above(z) : cur \in Path!Above(d) => fs[d].kind = "dir"
      BY <2>5, <3>1, ReachedMeans
    <3>3. PICK y \in listing : y = z \/ y \in Path!Above(z)
      BY <1>0, <2>5 DEF Path!PathInv, Path!ListInv
    <3>4. CASE y # x
      BY <2>2, <3>3, <3>4
    <3>5. CASE y = x
      <4>1. x = z => FALSE
        BY <2>2, <2>5 DEF Path!Foreign
      <4>2. x \in Path!Above(z)
        BY <3>3, <3>5, <4>1
      <4>3. fs[x].kind = "dir"
        BY <2>3, <3>2, <4>2
      <4>4. z \in Path!Beneath(x)
        BY <2>3, <3>1, <4>2, BeneathDir
      <4>5. \A d \in Path!Above(z) : x \in Path!Above(d) => fs[d].kind = "dir"
        <5> SUFFICES ASSUME NEW d \in Path!Above(z), x \in Path!Above(d) PROVE fs[d].kind = "dir"
          OBVIOUS
        <5>1. d \in Seq(PathNames)
          BY <3>1, AbovePaths
        <5>2. cur \in Path!Above(d)
          BY <2>3, <5>1, AboveChain
        <5> QED BY <3>2, <5>2
      <4>6. fs[z].kind \in {"dir", "file"}
        BY <2>5 DEF Path!Foreign
      <4>7. \E w \in Path!Entries(x) : w = z \/ w \in Path!Above(z)
        BY <1>0, <2>3, <4>4, <4>5, <4>6, EntriesCover
      <4> QED BY <2>2, <4>3, <4>7
    <3> QED BY <3>4, <3>5
  <2>6. Path!Beneath(cur)' = Path!Beneath(cur)
    BY <1>0 DEF Path!Beneath
  <2> QED BY <1>0, <2>1, <2>4, <2>5, <2>6 DEF Path!ListInv
<1> QED BY <1>1, <1>2, <1>3 DEF Path!PathInv

-----------------------------------------------------------------------------
(* What another user does.  A name is replaced with what is under it, or    *)
(* what is theirs is written to or changed in mode.                         *)
Replaces(x) ==
  /\ Path!MayReplace(x) /\ x \in Paths
  /\ fs' \in [Paths -> Nodes]
  /\ fs'[x].owner = "other" \/ fs'[x].kind = "absent"
  /\ \A y \in Path!Beneath(x) : fs'[y].kind = "absent"
  /\ \A y \in Paths \ (Path!Beneath(x) \cup {x}) : fs'[y] = fs[y]
  /\ tainted' \subseteq (tainted \cup {x}) \ Path!Beneath(x)
  /\ fs'[x].kind = "absent" => x \notin tainted'

Writes(x) ==
  /\ x \in Paths /\ fs' = fs /\ tainted' = tainted \cup {x}
  /\ fs[x].kind = "file" /\ (fs[x].owner = "other" \/ Path!WritableBeyondOwner(fs[x]))

Chmods(x) ==
  /\ x \in Paths /\ fs' \in [Paths -> Nodes] /\ tainted' = tainted
  /\ fs[x].owner = "other" /\ fs[x].kind \in {"dir", "file"}
  /\ fs'[x].owner = "other" /\ fs'[x].kind = fs[x].kind
  /\ \A y \in Paths \ {x} : fs'[y] = fs[y]

LEMMA OtherMoves ==
  ASSUME fs \in [Paths -> Nodes], Path!Other
  PROVE  /\ UNCHANGED <<job, cur, rest, hops, listing, standing>>
         /\ \E x \in Paths : Replaces(x) \/ Writes(x) \/ Chmods(x)
<1>1. UNCHANGED <<job, cur, rest, hops, listing, standing>>
  BY DEF Path!Other, Path!walk
<1>2. PICK x \in Paths : Path!Plant(x) \/ Path!TakeAway(x) \/ Path!Write(x) \/ Path!Chmod(x)
  BY DEF Path!Other
<1>3. Path!Absent \in Nodes /\ Path!Absent.kind = "absent"
  <2>1. <<>> \in Seq(PathNames)
    OBVIOUS
  <2> QED BY <2>1 DEF Path!Absent, Nodes
<1>4. x \notin Path!Beneath(x)
  BY PathsNamed, BeneathDir, AboveChain
<1>5. CASE Path!Plant(x)
  <2>1. PICK n \in {Path!Their("file", <<>>), Path!Their("dir", <<>>)} \cup {Path!Their("link", y) : y \in Paths \ {<<>>}} :
          fs' = [y \in Paths |-> IF y = x THEN n ELSE IF y \in Path!Beneath(x) THEN Path!Absent ELSE fs[y]]
    BY <1>5 DEF Path!Plant
  <2>2. n \in Nodes /\ n.owner = "other" /\ n.kind # "absent"
    <3>1. <<>> \in Seq(PathNames) /\ \A y \in Paths : y \in Seq(PathNames)
      BY PathsNamed
    <3>2. PICK k \in {"file", "dir", "link"}, to \in Seq(PathNames) : n = Path!Their(k, to)
      BY <3>1
    <3> QED BY <3>2 DEF Path!Their, Nodes
  <2>3. Path!Beneath(x) \subseteq Paths
    BY DEF Path!Beneath
  <2>4. fs' \in [Paths -> Nodes]
    BY <1>3, <2>1, <2>2
  <2>5. Path!MayReplace(x) /\ tainted' = (tainted \cup {x}) \ Path!Beneath(x)
    BY <1>5 DEF Path!Plant
  <2>6. fs'[x] = n
    BY <2>1
  <2>7. \A y \in Path!Beneath(x) : fs'[y] = Path!Absent
    BY <1>4, <2>1, <2>3
  <2>8. \A y \in Paths \ (Path!Beneath(x) \cup {x}) : fs'[y] = fs[y]
    BY <2>1
  <2> QED BY <1>1, <1>3, <2>2, <2>4, <2>5, <2>6, <2>7, <2>8 DEF Replaces
<1>6. CASE Path!TakeAway(x)
  <2>1. /\ fs' = [y \in Paths |-> IF y \in Path!Beneath(x) \cup {x} THEN Path!Absent ELSE fs[y]]
        /\ Path!MayReplace(x) /\ tainted' = tainted \ (Path!Beneath(x) \cup {x})
    BY <1>6 DEF Path!TakeAway
  <2>2. Path!Beneath(x) \subseteq Paths
    BY DEF Path!Beneath
  <2>3. fs' \in [Paths -> Nodes]
    BY <1>3, <2>1
  <2>4. \A y \in Path!Beneath(x) \cup {x} : fs'[y] = Path!Absent
    BY <2>1, <2>2
  <2>5. \A y \in Paths \ (Path!Beneath(x) \cup {x}) : fs'[y] = fs[y]
    BY <2>1
  <2> QED BY <1>1, <1>3, <2>1, <2>3, <2>4, <2>5 DEF Replaces
<1>7. CASE Path!Write(x)
  BY <1>1, <1>7 DEF Path!Write, Writes
<1>8. CASE Path!Chmod(x)
  <2>1. PICK m \in {"private", "closed", "open"} : fs' = [fs EXCEPT ![x].mode = m]
    BY <1>8 DEF Path!Chmod
  <2>2. fs[x] \in Nodes
    OBVIOUS
  <2>3. fs' = [fs EXCEPT ![x] = [fs[x] EXCEPT !.mode = m]]
    BY <2>1
  <2>4. [fs[x] EXCEPT !.mode = m] \in Nodes
    BY <2>2 DEF Nodes
  <2>5. fs' \in [Paths -> Nodes] /\ fs'[x] = [fs[x] EXCEPT !.mode = m] /\ \A y \in Paths \ {x} : fs'[y] = fs[y]
    BY <2>3, <2>4
  <2>6. fs'[x].owner = fs[x].owner /\ fs'[x].kind = fs[x].kind
    BY <2>2, <2>5 DEF Nodes
  <2> QED BY <1>1, <1>8, <2>5, <2>6 DEF Path!Chmod, Chmods
<1> QED BY <1>2, <1>5, <1>6, <1>7, <1>8

(* What the walk has kept is out of their reach: it stays as it was. *)
LEMMA KeptStays ==
  ASSUME fs \in [Paths -> Nodes], Path!Other, NEW x \in Paths,
         \A d \in Path!Above(x) : Path!Kept(d),
         fs[x].kind # "absent", fs[x].owner # "other"
  PROVE  fs'[x] = fs[x]
<1>1. PICK y \in Paths : Replaces(y) \/ Writes(y) \/ Chmods(y)
  BY OtherMoves
<1>2. CASE Writes(y) \/ Chmods(y)
  BY <1>2 DEF Writes, Chmods
<1>3. CASE Replaces(y)
  <2> SUFFICES ASSUME y = x \/ y \in Path!Above(x) PROVE FALSE
    BY <1>1, <1>3, PathsNamed, BeneathDir DEF Replaces
  <2>1. y # <<>> /\ y \in Seq(PathNames) /\ x \in Seq(PathNames)
    BY <1>3, PathsNamed DEF Replaces, Path!MayReplace
  <2>2. Path!Parent(y) \in Path!Above(x)
    BY <2>1, AboveParent, AboveChain
  <2>3. Path!Kept(Path!Parent(y))
    BY <2>2
  <2>4. fs[Path!Parent(y)].mode = "sticky" /\ fs[Path!Parent(y)].owner # "other"
    BY <1>3, <2>3 DEF Replaces, Path!MayReplace, Path!MayWriteIn, Path!Kept, Path!WritableBeyondOwner
  <2>5. fs[y].kind # "absent" /\ fs[y].owner # "other"
    BY DEF Path!Kept
  <2> QED BY <1>3, <2>4, <2>5 DEF Replaces, Path!MayReplace
<1> QED BY <1>1, <1>2, <1>3

(* And nothing they make or change is root's or the engine's. *)
LEMMA OursIsOld ==
  ASSUME fs \in [Paths -> Nodes], Path!Other, NEW x \in Paths, fs'[x].kind # "absent", fs'[x].owner # "other"
  PROVE  fs'[x] = fs[x]
<1>1. PICK y \in Paths : Replaces(y) \/ Writes(y) \/ Chmods(y)
  BY OtherMoves
<1> QED BY <1>1 DEF Replaces, Writes, Chmods

LEMMA TaintStays ==
  ASSUME fs \in [Paths -> Nodes], Path!TaintInv, Path!Other
  PROVE  Path!TaintInv'
<1>1. PICK y \in Paths : Replaces(y) \/ Writes(y) \/ Chmods(y)
  BY OtherMoves
<1> SUFFICES ASSUME NEW x \in tainted'
             PROVE  /\ x \in Paths /\ fs'[x].kind # "absent"
                    /\ fs'[x].owner = "other" \/ (fs'[x].kind = "file" /\ Path!WritableBeyondOwner(fs'[x]))
  BY DEF Path!TaintInv, Path!WritableBeyondOwner
<1>2. CASE Replaces(y)
  <2>1. x \notin Path!Beneath(y) /\ (x = y \/ x \in tainted)
    BY <1>2 DEF Replaces
  <2>2. CASE x = y
    BY <1>2, <2>2 DEF Replaces
  <2>3. CASE x # y
    <3>1. x \in tainted /\ x \in Paths
      BY <2>1, <2>3 DEF Path!TaintInv
    <3>2. fs'[x] = fs[x]
      BY <1>2, <2>1, <2>3, <3>1 DEF Replaces
    <3> QED BY <3>1, <3>2 DEF Path!TaintInv
  <2> QED BY <2>2, <2>3
<1>3. CASE Writes(y)
  BY <1>3 DEF Writes, Path!TaintInv
<1>4. CASE Chmods(y)
  <2>1. x \in tainted /\ x \in Paths
    BY <1>4 DEF Chmods, Path!TaintInv
  <2>2. CASE x = y
    BY <1>4, <2>1, <2>2 DEF Chmods
  <2>3. CASE x # y
    <3>1. fs'[x] = fs[x]
      BY <1>4, <2>1, <2>3 DEF Chmods
    <3> QED BY <2>1, <3>1 DEF Path!TaintInv
  <2> QED BY <2>2, <2>3
<1> QED BY <1>1, <1>2, <1>3, <1>4

(* In a directory that is kept, and that nobody else may write in, nobody   *)
(* else makes a name.                                                       *)
LEMMA PlaceStays ==
  ASSUME fs \in [Paths -> Nodes], JobTyped(job), Path!PlaceInv, Path!Other
  PROVE  Path!PlaceInv'
<1>0. job' = job
  BY OtherMoves
<1>1. PICK y \in Paths : Replaces(y) \/ Writes(y) \/ Chmods(y)
  BY OtherMoves
<1> SUFFICES ASSUME job.purpose = "place", Path!Kept(job.path)', ~Path!WritableBeyondOwner(fs'[job.path])
             PROVE  Path!Vacant(Path!Look(job.name))'
  BY <1>0 DEF Path!PlaceInv, Path!WritableBeyondOwner
<1> DEFINE p == job.path  x == job.name
<1>2. x \in Paths /\ x # <<>> /\ p = Path!Parent(x) /\ x \in Seq(PathNames)
  BY PathsNamed DEF JobTyped
<1>3. p \in Paths /\ fs'[p].kind = "dir" /\ fs'[p].owner # "other" /\ fs'[p].mode # "open"
  BY <1>0 DEF Path!Kept
<1>4. fs'[p] = fs[p]
  BY <1>3, OursIsOld
<1>5. Path!Vacant(fs[x])
  BY <1>2, <1>3, <1>4 DEF Path!PlaceInv, Path!Kept, Path!Look
<1>6. fs'[x] = fs[x]
  <2>1. CASE Replaces(y)
    <3>1. y # x
      BY <1>2, <1>3, <1>4, <2>1 DEF Replaces, Path!MayReplace, Path!MayWriteIn
    <3>2. y # p
      BY <1>3, <2>1 DEF Replaces
    <3>3. y \notin Path!Above(p)
      BY <1>1, <1>3, <2>1, PathsNamed, BeneathDir DEF Replaces
    <3>4. y \notin Path!Above(x)
      BY <1>2, <3>2, <3>3, AboveParent
    <3> QED BY <1>1, <1>2, <2>1, <3>1, <3>4, PathsNamed, BeneathDir DEF Replaces
  <2>2. CASE Writes(y)
    BY <2>2 DEF Writes
  <2>3. CASE Chmods(y)
    BY <1>2, <1>5, <2>3 DEF Chmods, Path!Vacant
  <2> QED BY <1>1, <2>1, <2>2, <2>3
<1> QED BY <1>0, <1>2, <1>5, <1>6 DEF Path!Vacant, Path!Look

LEMMA OtherKeeps ==
  ASSUME PathTyped, Path!PathInv, Path!Other
  PROVE  PathTyped' /\ Path!PathInv'
<1>0. /\ UNCHANGED <<job, cur, rest, hops, listing, standing>>
      /\ fs \in [Paths -> Nodes] /\ cur \in Seq(PathNames)
  BY OtherMoves DEF PathTyped
<1>1. PICK y \in Paths : Replaces(y) \/ Writes(y) \/ Chmods(y)
  BY <1>0, OtherMoves
<1>2. PathTyped'
  <2>1. fs' \in [Paths -> Nodes]
    BY <1>0, <1>1 DEF Replaces, Writes, Chmods
  <2> QED BY <1>0, <2>1 DEF PathTyped
<1>3. Path!TaintInv'
  BY <1>0, TaintStays DEF Path!PathInv
<1>4. ASSUME NEW d, Path!Kept(d), \A e \in Path!Above(d) : Path!Kept(e) PROVE Path!Kept(d)'
  <2>1. d \in Paths /\ fs'[d] = fs[d]
    BY <1>0, <1>4, KeptStays DEF Path!Kept
  <2> QED BY <1>4, <2>1 DEF Path!Kept
<1>5. standing # "refused" => \A d \in Path!Above(cur) : Path!Kept(d) /\ \A e \in Path!Above(d) : Path!Kept(e)
  BY <1>0, AboveChain DEF Path!PathInv, Path!WayInv
<1>6. Path!WayInv'
  BY <1>0, <1>4, <1>5 DEF Path!PathInv, Path!WayInv
<1>7. Path!HeldInv'
  <2> SUFFICES ASSUME standing = "held", job.purpose \in {"seed", "credentials", "executable"} PROVE Path!HeldInv'
    BY <1>0 DEF Path!HeldInv
  <2>1. cur \in Paths /\ fs[cur].kind = "file" /\ fs[cur].owner # "other" /\ ~Path!WritableBeyondOwner(fs[cur])
    BY DEF Path!PathInv, Path!HeldInv
  <2>2. fs'[cur] = fs[cur]
    BY <1>0, <1>5, <2>1, KeptStays
  <2> QED BY <1>0, <2>1, <2>2 DEF Path!HeldInv, Path!WritableBeyondOwner
<1>8. Path!RecordWayInv'
  <2> SUFFICES ASSUME Path!ByName(job.purpose) PROVE Path!RecordWayInv'
    BY <1>0 DEF Path!RecordWayInv
  <2>1. ASSUME standing = "walk"
        PROVE  /\ \A d \in Path!Above(job.path) \cup {job.path} :
                    d \in Paths /\ (fs'[d].owner = "other" \/ fs'[d].kind \in {"dir", "absent"})
               /\ Path!Kept(job.path)' => ~Path!WritableBeyondOwner(fs'[job.path])
    <3>1. /\ \A d \in Path!Above(job.path) \cup {job.path} :
                    d \in Paths /\ (fs[d].owner = "other" \/ fs[d].kind \in {"dir", "absent"})
          /\ Path!Kept(job.path) => ~Path!WritableBeyondOwner(fs[job.path])
      BY <2>1 DEF Path!PathInv, Path!RecordWayInv
    <3>2. \A d \in Paths : fs'[d].owner = "other" \/ fs'[d].kind = "absent" \/ fs'[d] = fs[d]
      BY <1>0, OursIsOld
    <3>3. Path!Kept(job.path)' => fs'[job.path] = fs[job.path] /\ Path!Kept(job.path)
      BY <1>0, <3>1, <3>2 DEF Path!Kept
    <3> QED BY <3>1, <3>2, <3>3
  <2>2. ASSUME standing \in {"judge", "list", "held"} PROVE ~Path!WritableBeyondOwner(fs'[cur])
    <3>1. Path!Kept(cur) /\ ~Path!WritableBeyondOwner(fs[cur])
      BY <2>2 DEF Path!PathInv, Path!RecordWayInv, Path!WayInv
    <3>2. fs'[cur] = fs[cur]
      BY <1>0, <1>5, <2>2, <3>1, KeptStays DEF Path!Kept
    <3> QED BY <3>1, <3>2
  <2>3. /\ standing = "walk" => cur \o rest = job.path
        /\ standing = "parent" => job.purpose = "place" /\ cur = <<>> /\ rest = job.path
        /\ standing \in {"judge", "list", "held"} => cur = job.path
    BY DEF Path!PathInv, Path!RecordWayInv
  <2> QED BY <1>0, <2>1, <2>2, <2>3 DEF Path!RecordWayInv, Path!WritableBeyondOwner
<1>9. Path!ListInv'
  <2> SUFFICES ASSUME job.purpose = "records", standing \in {"list", "held"} PROVE Path!ListInv'
    BY <1>0 DEF Path!PathInv, Path!ListInv
  <2>1. /\ listing \subseteq Path!Beneath(cur) /\ (standing = "held" => listing = {})
        /\ \A x \in Path!Beneath(cur) :
             Path!Reached(x) /\ Path!Foreign(fs[x]) => \E z \in listing : z = x \/ z \in Path!Above(x)
    BY DEF Path!PathInv, Path!ListInv
  <2>2. Path!Kept(cur) /\ ~Path!WritableBeyondOwner(fs[cur]) /\ \A d \in Path!Above(cur) : Path!Kept(d)
    BY DEF Path!PathInv, Path!WayInv, Path!RecordWayInv, Path!ByName
  <2>3. fs'[cur] = fs[cur]
    BY <1>0, <2>2, KeptStays DEF Path!Kept
  <2>4. ASSUME NEW x \in Path!Beneath(cur), Path!Reached(x)', Path!Foreign(fs[x])'
        PROVE  \E z \in listing : z = x \/ z \in Path!Above(x)
    <3>1. x \in Paths /\ x \in Seq(PathNames) /\ cur \in Path!Above(x)
      BY <1>0, PathsNamed, BeneathDir
    <3>2. \A d \in Path!Above(x) \ Path!Above(cur) : fs'[d].kind = "dir"
      BY <1>0, <2>4 DEF Path!Reached
    <3>3. fs'[x].kind \in {"dir", "file"} /\ (fs'[x].owner = "other" \/ Path!WritableBeyondOwner(fs'[x]))
      BY <2>4 DEF Path!Foreign, Path!WritableBeyondOwner
    <3>4. CASE Replaces(y)
      <4>1. x \notin Path!Beneath(y)
        BY <3>3, <3>4 DEF Replaces
      <4>2. y \notin Path!Above(x)
        BY <3>1, <3>4, <4>1, PathsNamed, BeneathDir DEF Replaces
      <4>3. \A d \in Path!Above(x) : d \in Paths /\ d # y /\ d \notin Path!Beneath(y)
        <5> SUFFICES ASSUME NEW d \in Path!Above(x) PROVE d \in Paths /\ d # y /\ d \notin Path!Beneath(y)
          OBVIOUS
        <5>1. d \in Paths /\ d # y
          BY <3>1, <4>2, PathsNamed
        <5>2. y \notin Path!Above(d)
          BY <3>1, <4>2, AboveChain
        <5> QED BY <5>1, <5>2, PathsNamed, BeneathDir
      <4>4. \A d \in Path!Above(x) : fs'[d] = fs[d]
        BY <3>4, <4>3 DEF Replaces
      <4>5. Path!Reached(x)
        BY <3>2, <4>4 DEF Path!Reached
      <4>6. CASE x # y
        <5>1. fs'[x] = fs[x]
          BY <3>1, <3>4, <4>1, <4>6 DEF Replaces
        <5> QED BY <2>1, <3>3, <4>5, <5>1 DEF Path!Foreign
      <4>7. CASE x = y
        <5>1. x # <<>> /\ Path!MayWriteIn(Path!Parent(x))
          BY <3>4, <4>7 DEF Replaces, Path!MayReplace
        <5> DEFINE p == Path!Parent(x)
        <5>2. p \in Path!Above(x) /\ p \in Paths /\ p \in Seq(PathNames)
          BY <3>1, <5>1, AboveParent, PathsNamed
        <5>3. fs[p].kind = "dir" /\ (fs[p].owner = "other" \/ Path!WritableBeyondOwner(fs[p]))
          BY <5>1 DEF Path!MayWriteIn
        <5> HIDE DEF p
        <5>4. p # cur
          BY <2>2, <5>3 DEF Path!Kept
        <5>5. cur \in Path!Above(p)
          <6>1. Path!Above(x) = Path!Above(p) \cup {p}
            BY <3>1, <5>1, AboveParent DEF p
          <6> QED BY <3>1, <5>4, <6>1
        <5>6. p \in Path!Beneath(cur)
          BY <1>0, <5>2, <5>5, BeneathDir
        <5>7. Path!Reached(p)
          BY <3>1, <4>5, <5>2, AboveChain DEF Path!Reached
        <5>8. Path!Foreign(fs[p])
          BY <5>3 DEF Path!Foreign
        <5>9. PICK z \in listing : z = p \/ z \in Path!Above(p)
          BY <2>1, <5>6, <5>7, <5>8
        <5>10. z \in Path!Above(x)
          BY <3>1, <5>2, <5>9, AboveChain
        <5> QED BY <5>10
      <4> QED BY <4>6, <4>7
    <3>5. CASE Writes(y)
      BY <2>1, <3>2, <3>3, <3>5 DEF Writes, Path!Reached, Path!Foreign
    <3>6. CASE Chmods(y)
      <4>1. \A d \in Paths : fs'[d].kind = fs[d].kind
        BY <3>6 DEF Chmods
      <4>2. Path!Reached(x)
        BY <3>1, <3>2, <4>1, PathsNamed DEF Path!Reached
      <4>3. Path!Foreign(fs[x])
        BY <3>1, <3>3, <3>6 DEF Chmods, Path!Foreign
      <4> QED BY <2>1, <4>2, <4>3
    <3> QED BY <1>1, <3>4, <3>5, <3>6
  <2>5. Path!Beneath(cur)' = Path!Beneath(cur)
    BY <1>0 DEF Path!Beneath
  <2> QED BY <1>0, <2>1, <2>4, <2>5 DEF Path!ListInv
<1>10. Path!PlaceInv'
  BY PlaceStays DEF PathTyped, Path!PathInv
<1> QED BY <1>2, <1>3, <1>6, <1>7, <1>8, <1>9, <1>10 DEF Path!PathInv

(* What is held is nobody else's: the invariant says so. *)
LEMMA PathInvHolds ==
  ASSUME PathTyped, Path!PathInv
  PROVE  Path!HeldIsOurs /\ Path!RecordsAreOurs /\ Path!PlaceIsOurs
<1>1. Path!HeldIsOurs
  <2> SUFFICES ASSUME standing = "held", job.purpose \in {"seed", "credentials", "executable"}
               PROVE  /\ fs[cur].kind = "file" /\ cur \notin tainted
                      /\ \A d \in Path!Above(cur) : fs[d].kind = "dir" /\ d \notin tainted
    BY DEF Path!HeldIsOurs
  <2>1. fs[cur].kind = "file" /\ fs[cur].owner # "other" /\ ~Path!WritableBeyondOwner(fs[cur])
    BY DEF Path!PathInv, Path!HeldInv
  <2>2. \A d \in Path!Above(cur) : fs[d].kind = "dir" /\ fs[d].owner # "other"
    BY DEF Path!PathInv, Path!WayInv, Path!Kept
  <2> QED BY <2>1, <2>2 DEF Path!PathInv, Path!TaintInv
<1>2. Path!RecordsAreOurs
  <2> SUFFICES ASSUME standing = "held", job.purpose = "records", NEW x \in Path!Beneath(cur), x \in tainted,
                      fs[x].kind # "link", Path!Reached(x)
               PROVE  FALSE
    BY DEF Path!RecordsAreOurs, Path!Reached
  <2>1. fs[x].kind \in {"dir", "file"} /\ (fs[x].owner = "other" \/ Path!WritableBeyondOwner(fs[x]))
    BY DEF Path!PathInv, Path!TaintInv, PathTyped, Nodes
  <2> QED BY <2>1 DEF Path!PathInv, Path!ListInv, Path!Foreign
<1>3. Path!PlaceIsOurs
  <2> SUFFICES ASSUME standing = "held", job.purpose = "place" PROVE Path!PlaceIsOurs
    BY DEF Path!PlaceIsOurs
  <2>1. Path!Kept(cur) /\ cur = job.path /\ ~Path!WritableBeyondOwner(fs[cur])
    BY DEF Path!PathInv, Path!WayInv, Path!RecordWayInv, Path!ByName
  <2>2. Path!Vacant(Path!Look(job.name)) /\ cur = Path!Parent(job.name) /\ job.name \in Paths
    BY <2>1 DEF Path!PathInv, Path!PlaceInv, PathTyped, JobTyped
  <2>3. cur \notin tainted
    BY <2>1 DEF Path!PathInv, Path!TaintInv, Path!Kept
  <2>4. job.name \notin tainted
    BY <2>2 DEF Path!PathInv, Path!TaintInv, Path!Vacant, Path!Look
  <2> QED BY <2>1, <2>2, <2>3, <2>4 DEF Path!PlaceIsOurs, Path!Kept
<1> QED BY <1>1, <1>2, <1>3

-----------------------------------------------------------------------------
WalkInv == part = "path" => PathTyped /\ Path!PathInv

(* Whatever other users do, between two looks of the walk or after it, what *)
(* the engine holds they have not made, written or replaced, nor is a record *)
(* of theirs where a walk for a record goes, nor the directory of records    *)
(* theirs where it is made later (walkComponents, holdBeneath,               *)
(* holdDecisionRecordsParent).                                              *)
THEOREM HeldStaysOurs == Spec => []HeldIsOurs
<1>1. Init => WalkInv
  BY PathStarts DEF Init, WalkInv
<1>2. WalkInv /\ [Next]_vars => WalkInv'
  <2> SUFFICES ASSUME WalkInv, [Next]_vars, part' = "path" PROVE PathTyped' /\ Path!PathInv'
    BY DEF WalkInv
  <2>1. CASE Next
    <3>1. part = "path" /\ Path!Next
      BY <2>1 DEF Next
    <3> QED BY <3>1, ParentKeeps, WalkKeeps, JudgeKeeps, ListKeeps, JudgeEntryKeeps, ListedKeeps, OtherKeeps
            DEF WalkInv, Path!Next, Path!Engine
  <2>2. CASE UNCHANGED vars
    <3>1. part = "path" /\ UNCHANGED <<fs, tainted, job, cur, rest, hops, listing, standing>>
      BY <2>2 DEF vars, pathVars
    <3>2. PathTyped'
      BY <3>1 DEF WalkInv, PathTyped
    <3>3. Path!PathInv'
      BY <3>1, PlaceUnchanged
         DEF WalkInv, Path!PathInv, Path!TaintInv, Path!WayInv, Path!HeldInv, Path!RecordWayInv, Path!ListInv,
                  Path!Kept, Path!WritableBeyondOwner, Path!Reached, Path!Foreign, Path!Beneath
    <3> QED BY <3>2, <3>3
  <2> QED BY <2>1, <2>2
<1>3. WalkInv => HeldIsOurs
  BY PathInvHolds DEF WalkInv, HeldIsOurs
<1> QED BY <1>1, <1>2, <1>3, PTL DEF Spec

-----------------------------------------------------------------------------
(* The MCP server.  The tokens, the gate and what was lost are counted by the  *)
(* handlers; one lemma per action.                                            *)

(* The handlers that do one thing or another are counted. *)
LEMMA ServerCards ==
  ASSUME NEW S
  PROVE  Server!Cardinality(S) = Cardinality(S)
BY DEF Server!Cardinality, Cardinality

LEMMA OneMoved ==
  ASSUME NEW S, NEW T, NEW r, S \subseteq Handlers, T \subseteq Handlers, S \ {r} = T \ {r}
  PROVE  /\ Server!Cardinality(S) \in Nat /\ Server!Cardinality(T) \in Nat
         /\ (r \in S <=> r \in T) => Server!Cardinality(T) = Server!Cardinality(S)
         /\ r \notin S /\ r \in T => Server!Cardinality(T) = Server!Cardinality(S) + 1
         /\ r \in S /\ r \notin T => Server!Cardinality(T) = Server!Cardinality(S) - 1
<1>1. IsFiniteSet(S) /\ IsFiniteSet(T)
  BY ServerAssumption, FS_Subset
<1>2. Cardinality(S) \in Nat /\ Cardinality(T) \in Nat
  BY <1>1, FS_CardinalityType
<1>3. (r \in S <=> r \in T) => S = T
  OBVIOUS
<1>4. r \notin S /\ r \in T => T = S \cup {r} /\ Cardinality(S \cup {r}) = Cardinality(S) + 1
  BY <1>1, FS_AddElement
<1>5. r \in S /\ r \notin T => T = S \ {r} /\ Cardinality(S \ {r}) = Cardinality(S) - 1
  BY <1>1, FS_RemoveElement
<1> QED BY <1>2, <1>3, <1>4, <1>5, ServerCards

LEMMA NoneCounted ==
  ASSUME NEW S, S \subseteq Handlers
  PROVE  Server!Cardinality(S) \in Nat /\ (Server!Cardinality(S) = 0 <=> S = {})
<1>1. IsFiniteSet(S)
  BY ServerAssumption, FS_Subset
<1> QED BY <1>1, FS_CardinalityType, FS_EmptySet, ServerCards

States == {Server!Idle} \cup Server!Opened \cup Server!Calls

(* One handler goes from what it does to v. *)
Queued(v) == v.pc \in {"queued", "waiting"}
Slotted(v) == v.pc \in {"slot", "sending", "ended"}
Flying(v) == v.pc \in {"sending", "ended"} /\ ~v.seal
Losing(v) == Flying(v) /\ v.pc = "ended" /\ ~v.answered

LEMMA SetsByState ==
  /\ Server!InQueue = {x \in Handlers : Queued(h[x])}
  /\ Server!InSlot = {x \in Handlers : Slotted(h[x])}
  /\ Server!InFlight = {x \in Handlers : Flying(h[x])}
  /\ Server!LostInFlight = {x \in Handlers : Losing(h[x])}
BY DEF Server!InQueue, Server!InSlot, Server!InFlight, Server!LostInFlight, Queued, Slotted, Flying, Losing

LEMMA SetsByStateNext ==
  /\ Server!InQueue' = {x \in Handlers : Queued(h'[x])}
  /\ Server!InSlot' = {x \in Handlers : Slotted(h'[x])}
  /\ Server!InFlight' = {x \in Handlers : Flying(h'[x])}
  /\ Server!LostInFlight' = {x \in Handlers : Losing(h'[x])}
BY DEF Server!InQueue, Server!InSlot, Server!InFlight, Server!LostInFlight, Queued, Slotted, Flying, Losing

LEMMA OneStep ==
  ASSUME h \in [Handlers -> States], NEW x \in Handlers, NEW v \in States, h' = [h EXCEPT ![x] = v]
  PROVE  /\ h' \in [Handlers -> States] /\ h'[x] = v /\ \A y \in Handlers \ {x} : h'[y] = h[y]
         /\ Server!InFlight' = IF Flying(v) THEN Server!InFlight \cup {x} ELSE Server!InFlight \ {x}
         /\ x \in Server!InFlight <=> Flying(h[x])
         /\ Server!Cardinality(Server!InQueue) \in Nat /\ Server!Cardinality(Server!InSlot) \in Nat
         /\ Server!Cardinality(Server!InFlight) \in Nat /\ Server!Cardinality(Server!LostInFlight) \in Nat
         /\ Server!Cardinality(Server!InQueue') \in Nat /\ Server!Cardinality(Server!InSlot') \in Nat
         /\ Server!Cardinality(Server!InFlight') \in Nat /\ Server!Cardinality(Server!LostInFlight') \in Nat
         /\ (Queued(v) <=> Queued(h[x])) => Server!Cardinality(Server!InQueue') = Server!Cardinality(Server!InQueue)
         /\ ~Queued(h[x]) /\ Queued(v) => Server!Cardinality(Server!InQueue') = Server!Cardinality(Server!InQueue) + 1
         /\ Queued(h[x]) /\ ~Queued(v) => Server!Cardinality(Server!InQueue') = Server!Cardinality(Server!InQueue) - 1
         /\ (Slotted(v) <=> Slotted(h[x])) => Server!Cardinality(Server!InSlot') = Server!Cardinality(Server!InSlot)
         /\ ~Slotted(h[x]) /\ Slotted(v) => Server!Cardinality(Server!InSlot') = Server!Cardinality(Server!InSlot) + 1
         /\ Slotted(h[x]) /\ ~Slotted(v) => Server!Cardinality(Server!InSlot') = Server!Cardinality(Server!InSlot) - 1
         /\ (Flying(v) <=> Flying(h[x])) => Server!Cardinality(Server!InFlight') = Server!Cardinality(Server!InFlight)
         /\ ~Flying(h[x]) /\ Flying(v) => Server!Cardinality(Server!InFlight') = Server!Cardinality(Server!InFlight) + 1
         /\ Flying(h[x]) /\ ~Flying(v) => Server!Cardinality(Server!InFlight') = Server!Cardinality(Server!InFlight) - 1
         /\ (Losing(v) <=> Losing(h[x])) => Server!Cardinality(Server!LostInFlight') = Server!Cardinality(Server!LostInFlight)
         /\ ~Losing(h[x]) /\ Losing(v) => Server!Cardinality(Server!LostInFlight') = Server!Cardinality(Server!LostInFlight) + 1
         /\ Losing(h[x]) /\ ~Losing(v) => Server!Cardinality(Server!LostInFlight') = Server!Cardinality(Server!LostInFlight) - 1
<1>1. h' \in [Handlers -> States] /\ h'[x] = v /\ \A y \in Handlers \ {x} : h'[y] = h[y]
  BY Zenon
<1>2. /\ Server!InQueue \subseteq Handlers /\ Server!InQueue' \subseteq Handlers /\ Server!InQueue \ {x} = Server!InQueue' \ {x}
      /\ x \in Server!InQueue <=> Queued(h[x])
      /\ x \in Server!InQueue' <=> Queued(v)
  BY <1>1, SetsByState, SetsByStateNext
<1>3. /\ Server!InSlot \subseteq Handlers /\ Server!InSlot' \subseteq Handlers /\ Server!InSlot \ {x} = Server!InSlot' \ {x}
      /\ x \in Server!InSlot <=> Slotted(h[x])
      /\ x \in Server!InSlot' <=> Slotted(v)
  BY <1>1, SetsByState, SetsByStateNext
<1>4. /\ Server!InFlight \subseteq Handlers /\ Server!InFlight' \subseteq Handlers /\ Server!InFlight \ {x} = Server!InFlight' \ {x}
      /\ x \in Server!InFlight <=> Flying(h[x])
      /\ x \in Server!InFlight' <=> Flying(v)
  BY <1>1, SetsByState, SetsByStateNext
<1>5. /\ Server!LostInFlight \subseteq Handlers /\ Server!LostInFlight' \subseteq Handlers
      /\ Server!LostInFlight \ {x} = Server!LostInFlight' \ {x}
      /\ x \in Server!LostInFlight <=> Losing(h[x])
      /\ x \in Server!LostInFlight' <=> Losing(v)
  BY <1>1, SetsByState, SetsByStateNext
<1>6. Server!InFlight' = IF Flying(v) THEN Server!InFlight \cup {x} ELSE Server!InFlight \ {x}
  BY <1>4
<1>7. /\ Server!Cardinality(Server!InQueue) \in Nat /\ Server!Cardinality(Server!InQueue') \in Nat
      /\ (Queued(v) <=> Queued(h[x])) => Server!Cardinality(Server!InQueue') = Server!Cardinality(Server!InQueue)
      /\ ~Queued(h[x]) /\ Queued(v) => Server!Cardinality(Server!InQueue') = Server!Cardinality(Server!InQueue) + 1
      /\ Queued(h[x]) /\ ~Queued(v) => Server!Cardinality(Server!InQueue') = Server!Cardinality(Server!InQueue) - 1
  BY <1>2, OneMoved
<1>8. /\ Server!Cardinality(Server!InSlot) \in Nat /\ Server!Cardinality(Server!InSlot') \in Nat
      /\ (Slotted(v) <=> Slotted(h[x])) => Server!Cardinality(Server!InSlot') = Server!Cardinality(Server!InSlot)
      /\ ~Slotted(h[x]) /\ Slotted(v) => Server!Cardinality(Server!InSlot') = Server!Cardinality(Server!InSlot) + 1
      /\ Slotted(h[x]) /\ ~Slotted(v) => Server!Cardinality(Server!InSlot') = Server!Cardinality(Server!InSlot) - 1
  BY <1>3, OneMoved
<1>9. /\ Server!Cardinality(Server!InFlight) \in Nat /\ Server!Cardinality(Server!InFlight') \in Nat
      /\ (Flying(v) <=> Flying(h[x])) => Server!Cardinality(Server!InFlight') = Server!Cardinality(Server!InFlight)
      /\ ~Flying(h[x]) /\ Flying(v) => Server!Cardinality(Server!InFlight') = Server!Cardinality(Server!InFlight) + 1
      /\ Flying(h[x]) /\ ~Flying(v) => Server!Cardinality(Server!InFlight') = Server!Cardinality(Server!InFlight) - 1
  BY <1>4, OneMoved
<1>10. /\ Server!Cardinality(Server!LostInFlight) \in Nat /\ Server!Cardinality(Server!LostInFlight') \in Nat
       /\ (Losing(v) <=> Losing(h[x])) => Server!Cardinality(Server!LostInFlight') = Server!Cardinality(Server!LostInFlight)
       /\ ~Losing(h[x]) /\ Losing(v) => Server!Cardinality(Server!LostInFlight') = Server!Cardinality(Server!LostInFlight) + 1
       /\ Losing(h[x]) /\ ~Losing(v) => Server!Cardinality(Server!LostInFlight') = Server!Cardinality(Server!LostInFlight) - 1
  BY <1>5, OneMoved
<1> QED BY <1>1, <1>4, <1>6, <1>7, <1>8, <1>9, <1>10

(* What a step of one handler has to keep for the invariant to be kept. *)
One(b) == IF b THEN 1 ELSE 0
Gates == [closed : BOOLEAN, generation : Nat, pending : Nat, current : {None} \cup Server!Closures]
Reports == [generation : Nat, unresolved : Nat, lost : Nat]
Answers == [what : {"overload", "answered", "unknown"}, sent : BOOLEAN]

(* The call a handler is left with; the tokens; the gate; what was lost, or *)
(* a drain that reports it; and the answer.                                 *)
CallStep(x, v) ==
  /\ v \in States /\ h' = [h EXCEPT ![x] = v]
  /\ v \in Server!Calls => (v.sent => v.pc \in {"sending", "ended"}) /\ v.generation <= gate.generation
TokenStep(x, v) ==
  /\ queue' = queue + One(Queued(v)) - One(Queued(h[x]))
  /\ forwards' = forwards + One(Slotted(v)) - One(Slotted(h[x]))
GateStep(x, v) ==
  /\ gate' \in Gates /\ (gate'.closed => gate'.current \in Server!Closures)
  /\ gate'.generation = gate.generation
  /\ gate'.pending = gate.pending + One(Flying(v)) - One(Flying(h[x]))
  /\ unanswered' \in Nat /\ lost' \in Nat /\ reported' \in Reports
LossStep(x, v) ==
  \/ /\ lost' - unanswered' = lost - unanswered + One(Losing(v)) - One(Losing(h[x]))
     /\ reported' = reported
     /\ Flying(v) => (Flying(h[x]) /\ v.generation = h[x].generation) \/ v.generation = gate.generation
     /\ gate'.closed /\ gate'.current.drained =>
          gate.closed /\ gate.current.drained /\ (Flying(v) => Flying(h[x]))
  \/ /\ gate'.pending = 0 /\ lost' = unanswered'
     /\ reported'.generation = gate.generation /\ reported'.unresolved = reported'.lost
AnswerStep(x) ==
  \/ last' = last
  \/ last' = [last EXCEPT ![x] = None]
  \/ \E a \in Answers : last' = [last EXCEPT ![x] = a] /\ (a.what = "overload" => ~a.sent)

LEMMA HandlerStep ==
  ASSUME Server!McpInv, NEW x \in Handlers, NEW v,
         CallStep(x, v), TokenStep(x, v), GateStep(x, v), LossStep(x, v), AnswerStep(x)
  PROVE  Server!McpInv'
<1> USE DEF CallStep, TokenStep, GateStep, LossStep, AnswerStep
<1>0. /\ h \in [Handlers -> States] /\ gate \in Gates /\ unanswered \in Nat /\ lost \in Nat /\ reported \in Reports
      /\ last \in [Handlers -> {None} \cup Answers]
  BY DEF Server!McpInv, Server!TypeOK, States, Gates, Reports, Answers
<1>1. /\ h' \in [Handlers -> States] /\ h'[x] = v /\ \A y \in Handlers \ {x} : h'[y] = h[y]
      /\ Server!InFlight' = IF Flying(v) THEN Server!InFlight \cup {x} ELSE Server!InFlight \ {x}
      /\ x \in Server!InFlight <=> Flying(h[x])
  BY <1>0, OneStep
<1>2. /\ Server!Cardinality(Server!InQueue') = Server!Cardinality(Server!InQueue) + One(Queued(v)) - One(Queued(h[x]))
      /\ Server!Cardinality(Server!InSlot') = Server!Cardinality(Server!InSlot) + One(Slotted(v)) - One(Slotted(h[x]))
      /\ Server!Cardinality(Server!InFlight') = Server!Cardinality(Server!InFlight) + One(Flying(v)) - One(Flying(h[x]))
      /\ Server!Cardinality(Server!LostInFlight') = Server!Cardinality(Server!LostInFlight) + One(Losing(v)) - One(Losing(h[x]))
  <2>1. Server!Cardinality(Server!InQueue') = Server!Cardinality(Server!InQueue) + One(Queued(v)) - One(Queued(h[x]))
    <3>1. /\ Server!Cardinality(Server!InQueue) \in Nat /\ Server!Cardinality(Server!InQueue') \in Nat
          /\ (Queued(v) <=> Queued(h[x])) => Server!Cardinality(Server!InQueue') = Server!Cardinality(Server!InQueue)
          /\ ~Queued(h[x]) /\ Queued(v) => Server!Cardinality(Server!InQueue') = Server!Cardinality(Server!InQueue) + 1
          /\ Queued(h[x]) /\ ~Queued(v) => Server!Cardinality(Server!InQueue') = Server!Cardinality(Server!InQueue) - 1
      BY <1>0, OneStep
    <3> QED BY <3>1 DEF One
  <2>2. Server!Cardinality(Server!InSlot') = Server!Cardinality(Server!InSlot) + One(Slotted(v)) - One(Slotted(h[x]))
    <3>1. /\ Server!Cardinality(Server!InSlot) \in Nat /\ Server!Cardinality(Server!InSlot') \in Nat
          /\ (Slotted(v) <=> Slotted(h[x])) => Server!Cardinality(Server!InSlot') = Server!Cardinality(Server!InSlot)
          /\ ~Slotted(h[x]) /\ Slotted(v) => Server!Cardinality(Server!InSlot') = Server!Cardinality(Server!InSlot) + 1
          /\ Slotted(h[x]) /\ ~Slotted(v) => Server!Cardinality(Server!InSlot') = Server!Cardinality(Server!InSlot) - 1
      BY <1>0, OneStep
    <3> QED BY <3>1 DEF One
  <2>3. Server!Cardinality(Server!InFlight') = Server!Cardinality(Server!InFlight) + One(Flying(v)) - One(Flying(h[x]))
    <3>1. /\ Server!Cardinality(Server!InFlight) \in Nat /\ Server!Cardinality(Server!InFlight') \in Nat
          /\ (Flying(v) <=> Flying(h[x])) => Server!Cardinality(Server!InFlight') = Server!Cardinality(Server!InFlight)
          /\ ~Flying(h[x]) /\ Flying(v) => Server!Cardinality(Server!InFlight') = Server!Cardinality(Server!InFlight) + 1
          /\ Flying(h[x]) /\ ~Flying(v) => Server!Cardinality(Server!InFlight') = Server!Cardinality(Server!InFlight) - 1
      BY <1>0, OneStep
    <3> QED BY <3>1 DEF One
  <2>4. Server!Cardinality(Server!LostInFlight') = Server!Cardinality(Server!LostInFlight) + One(Losing(v)) - One(Losing(h[x]))
    <3>1. /\ Server!Cardinality(Server!LostInFlight) \in Nat /\ Server!Cardinality(Server!LostInFlight') \in Nat
          /\ (Losing(v) <=> Losing(h[x])) => Server!Cardinality(Server!LostInFlight') = Server!Cardinality(Server!LostInFlight)
          /\ ~Losing(h[x]) /\ Losing(v) => Server!Cardinality(Server!LostInFlight') = Server!Cardinality(Server!LostInFlight) + 1
          /\ Losing(h[x]) /\ ~Losing(v) => Server!Cardinality(Server!LostInFlight') = Server!Cardinality(Server!LostInFlight) - 1
      BY <1>0, OneStep
    <3> QED BY <3>1 DEF One
  <2> QED BY <2>1, <2>2, <2>3, <2>4
<1>3. Server!CountInv'
  BY <1>2 DEF Server!McpInv, Server!CountInv
<1>4. last' \in [Handlers -> {None} \cup Answers] /\ Server!RefusalInv'
  BY <1>0 DEF Server!McpInv, Server!RefusalInv, Answers
<1>5. Server!TypeOK'
  BY <1>0, <1>1, <1>4 DEF Server!TypeOK, States, Gates, Reports, Answers
<1>6. Server!CallInv'
  BY <1>0, <1>1 DEF Server!McpInv, Server!CallInv, Gates
<1>7. /\ Server!InFlight' \subseteq Handlers /\ Server!LostInFlight' \subseteq Server!InFlight'
      /\ Server!Cardinality(Server!InFlight') = gate'.pending
  BY <1>3, SetsByStateNext DEF Server!CountInv, Losing
<1>8. gate'.pending = 0 => Server!InFlight' = {} /\ Server!Cardinality(Server!LostInFlight') = 0
  <2>1. (Server!Cardinality(Server!InFlight') = 0 <=> Server!InFlight' = {})
    BY <1>7, NoneCounted
  <2>2. Server!Cardinality({}) = 0
    BY NoneCounted
  <2>3. Server!InFlight' = {} => Server!LostInFlight' = {}
    BY <1>7
  <2> QED BY <1>7, <2>1, <2>2, <2>3
<1>9. Server!LostInv'
  <2>1. Server!LostInFlight \subseteq Handlers /\ Server!LostInFlight' \subseteq Handlers
    BY SetsByState, SetsByStateNext
  <2>2. Server!Cardinality(Server!LostInFlight) \in Nat /\ Server!Cardinality(Server!LostInFlight') \in Nat
    BY <2>1, NoneCounted
  <2>3. lost = unanswered + Server!Cardinality(Server!LostInFlight)
    BY DEF Server!McpInv, Server!LostInv
  <2>4. One(Losing(v)) \in Nat /\ One(Losing(h[x])) \in Nat
    BY DEF One
  <2> HIDE DEF One, Losing, Flying
  <2>5. lost' = unanswered' + Server!Cardinality(Server!LostInFlight')
    BY <1>0, <1>2, <1>8, <2>2, <2>3, <2>4
  <2> QED BY <2>5 DEF Server!LostInv
<1>10. Server!GateInv'
  <2>1. /\ reported.generation <= gate.generation /\ reported.unresolved = reported.lost
        /\ \A y \in Server!InFlight : h[y].generation >= reported.generation
        /\ gate.closed /\ gate.current.drained => Server!InFlight = {}
        /\ reported.generation \in Nat /\ gate.generation \in Nat
    BY <1>0 DEF Server!McpInv, Server!GateInv, Reports, Gates
  <2>2. Server!InFlight \subseteq Handlers
    BY SetsByState
  <2> HIDE DEF Flying, Losing, Queued, Slotted
  <2>3. reported'.generation <= gate'.generation /\ reported'.unresolved = reported'.lost
    BY <2>1
  <2>4. \A y \in Server!InFlight' : h'[y].generation >= reported'.generation
    <3> SUFFICES ASSUME NEW y \in Server!InFlight' PROVE h'[y].generation >= reported'.generation
      OBVIOUS
    <3>1. gate'.pending # 0
      BY <1>8
    <3>2. CASE y # x
      <4>1. y \in Server!InFlight /\ h'[y] = h[y]
        BY <1>1, <2>2, <3>2
      <4> QED BY <2>1, <3>1, <4>1
    <3>3. CASE y = x
      <4>1. Flying(v) /\ h'[y] = v
        BY <1>1, <3>3
      <4>2. v.generation = gate.generation \/ (x \in Server!InFlight /\ v.generation = h[x].generation)
        BY <1>1, <3>1, <4>1
      <4> QED BY <2>1, <3>1, <4>1, <4>2
    <3> QED BY <3>2, <3>3
  <2>5. gate'.closed /\ gate'.current.drained => Server!InFlight' = {}
    BY <1>1, <1>8, <2>1
  <2> QED BY <2>3, <2>4, <2>5 DEF Server!GateInv
<1> QED BY <1>3, <1>4, <1>5, <1>6, <1>9, <1>10 DEF Server!McpInv


(* Where no handler and no part of the gate moves, nothing of it does. *)
LEMMA McpQuiet ==
  ASSUME Server!McpInv, UNCHANGED <<gate, unanswered, queue, forwards, h, last, lost, reported>>
  PROVE  Server!McpInv'
<1>1. /\ Server!InQueue' = Server!InQueue /\ Server!InSlot' = Server!InSlot
      /\ Server!InFlight' = Server!InFlight /\ Server!LostInFlight' = Server!LostInFlight
  BY DEF Server!InQueue, Server!InSlot, Server!InFlight, Server!LostInFlight
<1> QED BY <1>1 DEF Server!McpInv, Server!TypeOK, Server!CallInv, Server!CountInv, Server!LostInv, Server!GateInv, Server!RefusalInv

LEMMA McpTypes ==
  ASSUME Server!McpInv
  PROVE  /\ h \in [Handlers -> States] /\ gate \in Gates /\ unanswered \in Nat /\ lost \in Nat /\ reported \in Reports
         /\ (gate.closed => gate.current \in Server!Closures)
         /\ queue \in Nat /\ forwards \in Nat /\ gate.pending \in Nat
         /\ last \in [Handlers -> {None} \cup Answers]
<1>1. Server!InQueue \subseteq Handlers /\ Server!InSlot \subseteq Handlers
  BY SetsByState
<1> QED BY <1>1, NoneCounted DEF Server!McpInv, Server!TypeOK, Server!CountInv, States, Gates, Reports, Answers

(* A refusal, and a token of the queue. *)
LEMMA McpAdmits ==
  ASSUME Server!McpInv, NEW x \in Handlers, NEW m, NEW over, NEW stdio0 \in BOOLEAN, h[x] = Server!Idle,
         Server!AdmitCall(x, m, over, stdio0), UNCHANGED <<gate, unanswered, forwards, lost, reported>>
  PROVE  Server!McpInv'
<1>0. /\ h \in [Handlers -> States] /\ gate \in Gates /\ unanswered \in Nat /\ lost \in Nat /\ reported \in Reports
      /\ (gate.closed => gate.current \in Server!Closures)
      /\ queue \in Nat /\ forwards \in Nat /\ gate.pending \in Nat
  BY McpTypes
<1>1. ~Queued(h[x]) /\ ~Slotted(h[x]) /\ ~Flying(h[x]) /\ ~Losing(h[x])
  BY DEF Server!Idle, Queued, Slotted, Flying, Losing
<1>2. CASE UNCHANGED <<h, queue, last>>
  BY <1>2, McpQuiet
<1>3. CASE Server!Answer(x, "overload", FALSE) /\ UNCHANGED <<h, queue>>
  <2>1. CallStep(x, h[x])
    <3>1. h[x] \in States /\ h[x] \notin Server!Calls
      BY <1>0 DEF Server!Idle, Server!Calls
    <3>2. h' = [h EXCEPT ![x] = h[x]]
      BY <1>0, <1>3
    <3> QED BY <3>1, <3>2 DEF CallStep
  <2>2. AnswerStep(x)
    <3>1. [what |-> "overload", sent |-> FALSE] \in Answers
      BY DEF Answers
    <3> QED BY <1>3, <3>1 DEF Server!Answer, AnswerStep
  <2>3. TokenStep(x, h[x])
    BY <1>0, <1>1, <1>3 DEF TokenStep, One
  <2>4. GateStep(x, h[x])
    BY <1>0, <1>1 DEF GateStep, One
  <2>5. LossStep(x, h[x])
    BY <1>0, <1>1 DEF LossStep, One
  <2> QED BY <2>1, <2>2, <2>3, <2>4, <2>5, HandlerStep
<1>4. CASE /\ queue' = queue + 1
           /\ h' = [h EXCEPT ![x] = [pc |-> "queued", seal |-> m.tool = Server!SealName, generation |-> gate.generation,
                               stdio |-> stdio0, sent |-> FALSE, answered |-> FALSE]]
           /\ last' = [last EXCEPT ![x] = None]
  <2> DEFINE v == [pc |-> "queued", seal |-> m.tool = Server!SealName, generation |-> gate.generation,
                               stdio |-> stdio0, sent |-> FALSE, answered |-> FALSE]
  <2>1. v \in Server!Calls /\ v \in States /\ v.generation = gate.generation /\ ~v.sent /\ gate.generation \in Nat
    BY <1>0 DEF Server!Calls, States, Gates
  <2>2. Queued(v) /\ ~Slotted(v) /\ ~Flying(v) /\ ~Losing(v)
    BY DEF Queued, Slotted, Flying, Losing
  <2>3. h' = [h EXCEPT ![x] = v]
    BY <1>4
  <2> HIDE DEF v
  <2>4. CallStep(x, v)
    BY <2>1, <2>3 DEF CallStep
  <2>5. TokenStep(x, v) /\ AnswerStep(x)
    BY <1>0, <1>1, <1>4, <2>2 DEF TokenStep, AnswerStep, One
  <2>6. GateStep(x, v) /\ LossStep(x, v)
    BY <1>0, <1>1, <2>2 DEF GateStep, LossStep, One
  <2> QED BY <2>4, <2>5, <2>6, HandlerStep
<1> QED BY <1>2, <1>3, <1>4 DEF Server!AdmitCall

LEMMA McpOpens ==
  ASSUME Server!McpInv, NEW x \in Handlers, NEW r, NEW id \in SessionIds, Server!OpenFor(x, r, id)
  PROVE  Server!McpInv'
<1>0. /\ h \in [Handlers -> States] /\ gate \in Gates /\ unanswered \in Nat /\ lost \in Nat /\ reported \in Reports
      /\ (gate.closed => gate.current \in Server!Closures)
      /\ queue \in Nat /\ forwards \in Nat /\ gate.pending \in Nat
  BY McpTypes
<1>1. ~Queued(h[x]) /\ ~Slotted(h[x]) /\ ~Flying(h[x]) /\ ~Losing(h[x])
  BY DEF Server!OpenFor, Server!Idle, Queued, Slotted, Flying, Losing
<1>2. UNCHANGED <<gate, unanswered, queue, forwards, lost, reported>>
  BY DEF Server!OpenFor, Server!tokens
<1>3. CASE UNCHANGED <<h, last>>
  BY <1>2, <1>3, McpQuiet
<1>4. CASE ~UNCHANGED <<h, last>>
  <2> DEFINE v == [pc |-> "opened", id |-> id, ok |-> Server!InitializeOk(r.m)]
  <2>1. h' = [h EXCEPT ![x] = v] /\ last' = [last EXCEPT ![x] = None]
    BY <1>4 DEF Server!OpenFor
  <2>2. Server!InitializeOk(r.m) \in BOOLEAN
    BY DEF Server!InitializeOk
  <2>3. v \in States /\ v \notin Server!Calls /\ ~Queued(v) /\ ~Slotted(v) /\ ~Flying(v) /\ ~Losing(v)
    BY <2>2 DEF States, Server!Opened, Server!Calls, Queued, Slotted, Flying, Losing
  <2> HIDE DEF v
  <2>4. CallStep(x, v)
    BY <2>1, <2>3 DEF CallStep
  <2>5. TokenStep(x, v) /\ AnswerStep(x)
    BY <1>0, <1>1, <1>2, <2>1, <2>3 DEF TokenStep, AnswerStep, One
  <2>6. GateStep(x, v) /\ LossStep(x, v)
    BY <1>0, <1>1, <1>2, <2>3 DEF GateStep, LossStep, One
  <2> QED BY <2>4, <2>5, <2>6, HandlerStep
<1> QED BY <1>3, <1>4

LEMMA McpInitializes ==
  ASSUME Server!McpInv, NEW x \in Handlers, Server!Initialize(x)
  PROVE  Server!McpInv'
<1>0. /\ h \in [Handlers -> States] /\ gate \in Gates /\ unanswered \in Nat /\ lost \in Nat /\ reported \in Reports
      /\ (gate.closed => gate.current \in Server!Closures)
      /\ queue \in Nat /\ forwards \in Nat /\ gate.pending \in Nat
  BY McpTypes
<1>1. ~Queued(h[x]) /\ ~Slotted(h[x]) /\ ~Flying(h[x]) /\ ~Losing(h[x])
  BY DEF Server!Initialize, Queued, Slotted, Flying, Losing
<1>2. UNCHANGED <<gate, unanswered, queue, forwards, last, lost, reported>> /\ h' = [h EXCEPT ![x] = Server!Idle]
  BY DEF Server!Initialize, Server!tokens, Server!history
<1>3. CallStep(x, Server!Idle)
  BY <1>2 DEF CallStep, States, Server!Idle, Server!Calls
<1>4. ~Queued(Server!Idle) /\ ~Slotted(Server!Idle) /\ ~Flying(Server!Idle) /\ ~Losing(Server!Idle)
  BY DEF Server!Idle, Queued, Slotted, Flying, Losing
<1>5. TokenStep(x, Server!Idle) /\ AnswerStep(x)
  BY <1>0, <1>1, <1>2, <1>4 DEF TokenStep, AnswerStep, One
<1>6. GateStep(x, Server!Idle) /\ LossStep(x, Server!Idle)
  BY <1>0, <1>1, <1>2, <1>4 DEF GateStep, LossStep, One
<1> QED BY <1>3, <1>5, <1>6, HandlerStep

(* A call goes from one place to the next. *)
LEMMA CallMoves ==
  ASSUME h \in [Handlers -> States], NEW x \in Handlers, h[x].pc \in {"queued", "waiting", "slot", "sending", "ended"}
  PROVE  h[x] \in Server!Calls
BY DEF States, Server!Idle, Server!Opened

(* What a call is left with when it leaves a queue or a slot. *)
LEMMA IdleStep ==
  ASSUME NEW x, h' = [h EXCEPT ![x] = Server!Idle]
  PROVE  /\ CallStep(x, Server!Idle)
         /\ ~Queued(Server!Idle) /\ ~Slotted(Server!Idle) /\ ~Flying(Server!Idle) /\ ~Losing(Server!Idle)
<1>1. CallStep(x, Server!Idle)
  BY DEF CallStep, States, Server!Idle, Server!Calls
<1> QED BY <1>1 DEF Server!Idle, Queued, Slotted, Flying, Losing

(* An answer is true of a call that was not sent, or is no refusal. *)
LEMMA AnswersTruly ==
  ASSUME NEW x, NEW what \in {"overload", "answered", "unknown"}, NEW sent \in BOOLEAN,
         what = "overload" => ~sent, last' = [last EXCEPT ![x] = [what |-> what, sent |-> sent]]
  PROVE  AnswerStep(x)
<1>1. [what |-> what, sent |-> sent] \in Answers
  BY DEF Answers
<1> QED BY <1>1 DEF AnswerStep

LEMMA McpLeavesQueue ==
  ASSUME Server!McpInv, NEW x \in Handlers, h[x].pc \in {"queued", "waiting"}, Server!LeaveQueue(x, "overload")
  PROVE  Server!McpInv'
<1>0. /\ h \in [Handlers -> States] /\ gate \in Gates /\ unanswered \in Nat /\ lost \in Nat /\ reported \in Reports
      /\ (gate.closed => gate.current \in Server!Closures)
      /\ queue \in Nat /\ forwards \in Nat /\ gate.pending \in Nat
  BY McpTypes
<1>1. h[x] \in Server!Calls /\ ~h[x].sent /\ h[x].sent \in BOOLEAN
  BY <1>0, CallMoves DEF Server!McpInv, Server!CallInv, Server!Calls
<1>2. Queued(h[x]) /\ ~Slotted(h[x]) /\ ~Flying(h[x]) /\ ~Losing(h[x])
  BY DEF Queued, Slotted, Flying, Losing
<1>3. /\ UNCHANGED <<gate, unanswered, forwards, lost, reported>> /\ queue' = queue - 1
      /\ h' = [h EXCEPT ![x] = Server!Idle] /\ last' = [last EXCEPT ![x] = [what |-> "overload", sent |-> h[x].sent]]
  BY DEF Server!LeaveQueue, Server!Answer
<1>4. CallStep(x, Server!Idle) /\ ~Queued(Server!Idle) /\ ~Slotted(Server!Idle) /\ ~Flying(Server!Idle) /\ ~Losing(Server!Idle)
  BY <1>3, IdleStep
<1>5. AnswerStep(x)
  BY <1>1, <1>3, AnswersTruly
<1>6. TokenStep(x, Server!Idle)
  BY <1>0, <1>2, <1>3, <1>4 DEF TokenStep, One
<1>7. GateStep(x, Server!Idle) /\ LossStep(x, Server!Idle)
  BY <1>0, <1>2, <1>3, <1>4 DEF GateStep, LossStep, One
<1> QED BY <1>4, <1>5, <1>6, <1>7, HandlerStep

LEMMA McpLeavesSlot ==
  ASSUME Server!McpInv, NEW x \in Handlers, h[x].pc = "slot", Server!LeaveSlot(x, "overload"),
         UNCHANGED <<gate, unanswered, lost, reported>>
  PROVE  Server!McpInv'
<1>0. /\ h \in [Handlers -> States] /\ gate \in Gates /\ unanswered \in Nat /\ lost \in Nat /\ reported \in Reports
      /\ (gate.closed => gate.current \in Server!Closures)
      /\ queue \in Nat /\ forwards \in Nat /\ gate.pending \in Nat
  BY McpTypes
<1>1. h[x] \in Server!Calls /\ ~h[x].sent /\ h[x].sent \in BOOLEAN
  BY <1>0, CallMoves DEF Server!McpInv, Server!CallInv, Server!Calls
<1>2. ~Queued(h[x]) /\ Slotted(h[x]) /\ ~Flying(h[x]) /\ ~Losing(h[x])
  BY DEF Queued, Slotted, Flying, Losing
<1>3. /\ queue' = queue /\ forwards' = forwards - 1
      /\ h' = [h EXCEPT ![x] = Server!Idle] /\ last' = [last EXCEPT ![x] = [what |-> "overload", sent |-> h[x].sent]]
  BY DEF Server!LeaveSlot, Server!Answer
<1>4. CallStep(x, Server!Idle) /\ ~Queued(Server!Idle) /\ ~Slotted(Server!Idle) /\ ~Flying(Server!Idle) /\ ~Losing(Server!Idle)
  BY <1>3, IdleStep
<1>5. AnswerStep(x)
  BY <1>1, <1>3, AnswersTruly
<1>6. TokenStep(x, Server!Idle)
  BY <1>0, <1>2, <1>3, <1>4 DEF TokenStep, One
<1>7. GateStep(x, Server!Idle) /\ LossStep(x, Server!Idle)
  BY <1>0, <1>2, <1>3, <1>4 DEF GateStep, LossStep, One
<1> QED BY <1>4, <1>5, <1>6, <1>7, HandlerStep

LEMMA McpWaits ==
  ASSUME Server!McpInv, NEW x \in Handlers, h' = [h EXCEPT ![x].pc = "waiting"], h[x].pc = "queued", UNCHANGED <<gate, unanswered, queue, forwards, last, lost, reported>>
  PROVE  Server!McpInv'
<1>0. /\ h \in [Handlers -> States] /\ gate \in Gates /\ unanswered \in Nat /\ lost \in Nat /\ reported \in Reports
      /\ (gate.closed => gate.current \in Server!Closures)
      /\ queue \in Nat /\ forwards \in Nat /\ gate.pending \in Nat
  BY McpTypes
<1> DEFINE v == [h[x] EXCEPT !.pc = "waiting"]
<1>1. h[x] \in Server!Calls /\ h[x].pc = "queued" /\ (h[x].sent => h[x].pc \in {"sending", "ended"}) /\ h[x].generation <= gate.generation
  BY <1>0, CallMoves DEF Server!McpInv, Server!CallInv, One
<1>2. UNCHANGED <<gate, unanswered, queue, forwards, lost, reported>>
      /\ h' = [h EXCEPT ![x] = v] /\ last' = last
  BY <1>1 DEF One
<1>3. v \in Server!Calls /\ v.generation = h[x].generation /\ v.seal = h[x].seal /\ (v.sent => v.pc \in {"sending", "ended"})
      /\ v.pc = "waiting"
  BY <1>1 DEF Server!Calls
<1> HIDE DEF v
<1>4. CallStep(x, v) /\ AnswerStep(x)
  BY <1>1, <1>2, <1>3 DEF CallStep, AnswerStep, States
<1>5. TokenStep(x, v)
  BY <1>0, <1>1, <1>2, <1>3 DEF TokenStep, One, Queued, Slotted
<1>6. GateStep(x, v)
  BY <1>0, <1>1, <1>2, <1>3 DEF GateStep, One, Flying, Gates
<1>7. LossStep(x, v)
  BY <1>0, <1>1, <1>2, <1>3 DEF LossStep, One, Flying, Losing, Gates
<1> QED BY <1>4, <1>5, <1>6, <1>7, HandlerStep

LEMMA McpTakesSlot ==
  ASSUME Server!McpInv, NEW x \in Handlers, Server!TakeSlot(x)
  PROVE  Server!McpInv'
<1>0. /\ h \in [Handlers -> States] /\ gate \in Gates /\ unanswered \in Nat /\ lost \in Nat /\ reported \in Reports
      /\ (gate.closed => gate.current \in Server!Closures)
      /\ queue \in Nat /\ forwards \in Nat /\ gate.pending \in Nat
  BY McpTypes
<1> DEFINE v == [h[x] EXCEPT !.pc = "slot"]
<1>1. h[x] \in Server!Calls /\ h[x].pc = "waiting" /\ (h[x].sent => h[x].pc \in {"sending", "ended"}) /\ h[x].generation <= gate.generation
  BY <1>0, CallMoves DEF Server!McpInv, Server!CallInv, Server!TakeSlot, Server!tokens, Server!history, Server!table
<1>2. UNCHANGED <<gate, unanswered, lost, reported>> /\ queue' = queue - 1 /\ forwards' = forwards + 1
      /\ h' = [h EXCEPT ![x] = v] /\ last' = last
  BY <1>1 DEF Server!TakeSlot, Server!tokens, Server!history, Server!table
<1>3. v \in Server!Calls /\ v.generation = h[x].generation /\ v.seal = h[x].seal /\ (v.sent => v.pc \in {"sending", "ended"})
      /\ v.pc = "slot"
  BY <1>1 DEF Server!Calls
<1> HIDE DEF v
<1>4. CallStep(x, v) /\ AnswerStep(x)
  BY <1>1, <1>2, <1>3 DEF CallStep, AnswerStep, States
<1>5. TokenStep(x, v)
  BY <1>0, <1>1, <1>2, <1>3 DEF TokenStep, One, Queued, Slotted
<1>6. GateStep(x, v)
  BY <1>0, <1>1, <1>2, <1>3 DEF GateStep, One, Flying, Gates
<1>7. LossStep(x, v)
  BY <1>0, <1>1, <1>2, <1>3 DEF LossStep, One, Flying, Losing, Gates
<1> QED BY <1>4, <1>5, <1>6, <1>7, HandlerStep

LEMMA McpSends ==
  ASSUME Server!McpInv, NEW x \in Handlers, h' = [h EXCEPT ![x].pc = "sending"], h[x].pc = "slot", h[x].seal \/ ~Server!ClosedMeanwhile(x),
         gate' = IF h[x].seal THEN gate ELSE [gate EXCEPT !.pending = @ + 1],
         UNCHANGED <<unanswered, queue, forwards, last, lost, reported>>
  PROVE  Server!McpInv'
<1>0. /\ h \in [Handlers -> States] /\ gate \in Gates /\ unanswered \in Nat /\ lost \in Nat /\ reported \in Reports
      /\ (gate.closed => gate.current \in Server!Closures)
      /\ queue \in Nat /\ forwards \in Nat /\ gate.pending \in Nat
  BY McpTypes
<1> DEFINE v == [h[x] EXCEPT !.pc = "sending"]
<1>1. h[x] \in Server!Calls /\ h[x].pc = "slot" /\ (h[x].sent => h[x].pc \in {"sending", "ended"}) /\ h[x].generation <= gate.generation
  BY <1>0, CallMoves DEF Server!McpInv, Server!CallInv, One
<1>2. UNCHANGED <<unanswered, queue, forwards, lost, reported>>
      /\ h' = [h EXCEPT ![x] = v] /\ last' = last
  BY <1>1 DEF One
<1>3. v \in Server!Calls /\ v.generation = h[x].generation /\ v.seal = h[x].seal /\ (v.sent => v.pc \in {"sending", "ended"})
      /\ v.pc = "sending"
  BY <1>1 DEF Server!Calls
<1> HIDE DEF v
<1>4. CallStep(x, v) /\ AnswerStep(x)
  BY <1>1, <1>2, <1>3 DEF CallStep, AnswerStep, States
<1>5. TokenStep(x, v)
  BY <1>0, <1>1, <1>2, <1>3 DEF TokenStep, One, Queued, Slotted
<1>6. GateStep(x, v)
  BY <1>0, <1>1, <1>2, <1>3 DEF GateStep, One, Flying, Gates, Server!ClosedMeanwhile, Server!Calls
<1>7. LossStep(x, v)
  BY <1>0, <1>1, <1>2, <1>3 DEF LossStep, One, Flying, Losing, Gates, Server!ClosedMeanwhile, Server!Calls
<1> QED BY <1>4, <1>5, <1>6, <1>7, HandlerStep

LEMMA McpReaches ==
  ASSUME Server!McpInv, NEW x \in Handlers, Server!Reach(x)
  PROVE  Server!McpInv'
<1>0. /\ h \in [Handlers -> States] /\ gate \in Gates /\ unanswered \in Nat /\ lost \in Nat /\ reported \in Reports
      /\ (gate.closed => gate.current \in Server!Closures)
      /\ queue \in Nat /\ forwards \in Nat /\ gate.pending \in Nat
  BY McpTypes
<1> DEFINE v == [h[x] EXCEPT !.sent = TRUE]
<1>1. h[x] \in Server!Calls /\ h[x].pc = "sending" /\ (h[x].sent => h[x].pc \in {"sending", "ended"}) /\ h[x].generation <= gate.generation
  BY <1>0, CallMoves DEF Server!McpInv, Server!CallInv, Server!Reach, Server!tokens, Server!history, Server!table
<1>2. UNCHANGED <<gate, unanswered, queue, forwards, lost, reported>>
      /\ h' = [h EXCEPT ![x] = v] /\ last' = last
  BY <1>1 DEF Server!Reach, Server!tokens, Server!history, Server!table
<1>3. v \in Server!Calls /\ v.generation = h[x].generation /\ v.seal = h[x].seal /\ (v.sent => v.pc \in {"sending", "ended"})
      /\ v.pc = "sending"
  BY <1>1 DEF Server!Calls
<1> HIDE DEF v
<1>4. CallStep(x, v) /\ AnswerStep(x)
  BY <1>1, <1>2, <1>3 DEF CallStep, AnswerStep, States
<1>5. TokenStep(x, v)
  BY <1>0, <1>1, <1>2, <1>3 DEF TokenStep, One, Queued, Slotted
<1>6. GateStep(x, v)
  BY <1>0, <1>1, <1>2, <1>3 DEF GateStep, One, Flying, Gates
<1>7. LossStep(x, v)
  BY <1>0, <1>1, <1>2, <1>3 DEF LossStep, One, Flying, Losing, Gates
<1> QED BY <1>4, <1>5, <1>6, <1>7, HandlerStep

LEMMA McpForwards ==
  ASSUME Server!McpInv, NEW x \in Handlers, NEW answered \in BOOLEAN, Server!Forward(x, answered)
  PROVE  Server!McpInv'
<1>0. /\ h \in [Handlers -> States] /\ gate \in Gates /\ unanswered \in Nat /\ lost \in Nat /\ reported \in Reports
      /\ (gate.closed => gate.current \in Server!Closures)
      /\ queue \in Nat /\ forwards \in Nat /\ gate.pending \in Nat
  BY McpTypes
<1> DEFINE v == [h[x] EXCEPT !.pc = "ended", !.answered = answered]
<1>1. h[x] \in Server!Calls /\ h[x].pc = "sending" /\ (h[x].sent => h[x].pc \in {"sending", "ended"}) /\ h[x].generation <= gate.generation
  BY <1>0, CallMoves DEF Server!McpInv, Server!CallInv, Server!Forward, Server!tokens, Server!history, Server!table
<1>2. UNCHANGED <<gate, unanswered, queue, forwards, reported>> /\ lost' = (IF answered \/ h[x].seal THEN lost ELSE lost + 1)
      /\ h' = [h EXCEPT ![x] = v] /\ last' = last
  BY <1>1 DEF Server!Forward, Server!tokens, Server!history, Server!table
<1>3. v \in Server!Calls /\ v.generation = h[x].generation /\ v.seal = h[x].seal /\ (v.sent => v.pc \in {"sending", "ended"})
      /\ v.pc = "ended" /\ v.answered = answered
  BY <1>1 DEF Server!Calls
<1> HIDE DEF v
<1>4. CallStep(x, v) /\ AnswerStep(x)
  BY <1>1, <1>2, <1>3 DEF CallStep, AnswerStep, States
<1>5. TokenStep(x, v)
  BY <1>0, <1>1, <1>2, <1>3 DEF TokenStep, One, Queued, Slotted
<1>6. GateStep(x, v)
  BY <1>0, <1>1, <1>2, <1>3 DEF GateStep, One, Flying, Gates
<1>7. LossStep(x, v)
  BY <1>0, <1>1, <1>2, <1>3 DEF LossStep, One, Flying, Losing, Gates
<1> QED BY <1>4, <1>5, <1>6, <1>7, HandlerStep

LEMMA McpDispatches ==
  ASSUME Server!McpInv, NEW x \in Handlers, Server!Dispatch(x)
  PROVE  Server!McpInv'
<1>1. CASE ~h[x].seal /\ Server!ClosedMeanwhile(x)
  BY <1>1, McpLeavesSlot DEF Server!Dispatch
<1>2. CASE ~(~h[x].seal /\ Server!ClosedMeanwhile(x))
  BY <1>2, McpSends DEF Server!Dispatch, Server!tokens, Server!history
<1> QED BY <1>1, <1>2

LEMMA McpStarts ==
  ASSUME Server!McpInv, NEW x \in Handlers, Server!StartRun(x)
  PROVE  Server!McpInv'
<1>1. CASE ~h[x].seal /\ Server!ClosedMeanwhile(x)
  BY <1>1, McpLeavesQueue DEF Server!StartRun
<1>2. CASE ~(~h[x].seal /\ Server!ClosedMeanwhile(x))
  BY <1>2, McpWaits DEF Server!StartRun, Server!tokens, Server!history
<1> QED BY <1>1, <1>2

(* A call has ended: its slot is free, and the closure it was the last of   *)
(* drains.                                                                  *)
LEMMA McpFinishes ==
  ASSUME Server!McpInv, NEW x \in Handlers, Server!Finish(x)
  PROVE  Server!McpInv'
<1>0. /\ h \in [Handlers -> States] /\ gate \in Gates /\ unanswered \in Nat /\ lost \in Nat /\ reported \in Reports
      /\ (gate.closed => gate.current \in Server!Closures)
      /\ queue \in Nat /\ forwards \in Nat /\ gate.pending \in Nat
  BY McpTypes
<1> DEFINE ended == unanswered + (IF h[x].seal \/ h[x].answered THEN 0 ELSE 1)
           g == IF h[x].seal THEN gate ELSE [gate EXCEPT !.pending = @ - 1]
<1>1. /\ h[x] \in Server!Calls /\ h[x].pc = "ended" /\ h[x].sent \in BOOLEAN
      /\ h[x].seal \in BOOLEAN /\ h[x].answered \in BOOLEAN
  BY <1>0, CallMoves DEF Server!Finish, Server!Calls
<1>2. /\ ~Queued(h[x]) /\ Slotted(h[x]) /\ (Flying(h[x]) <=> ~h[x].seal)
      /\ (Losing(h[x]) <=> ~h[x].seal /\ ~h[x].answered)
  BY <1>1 DEF Queued, Slotted, Flying, Losing
<1>3. /\ queue' = queue /\ forwards' = forwards - 1 /\ h' = [h EXCEPT ![x] = Server!Idle]
      /\ last' = [last EXCEPT ![x] = [what |-> IF h[x].answered THEN "answered" ELSE "unknown", sent |-> h[x].sent]]
  BY DEF Server!Finish, Server!LeaveSlot, Server!Answer
<1>4. CallStep(x, Server!Idle) /\ ~Queued(Server!Idle) /\ ~Slotted(Server!Idle) /\ ~Flying(Server!Idle) /\ ~Losing(Server!Idle)
  BY <1>3, IdleStep
<1>5. AnswerStep(x)
  BY <1>1, <1>3, AnswersTruly
<1>6. TokenStep(x, Server!Idle)
  BY <1>0, <1>2, <1>3, <1>4 DEF TokenStep, One
<1>7. /\ Server!InFlight \subseteq Handlers /\ Server!LostInFlight \subseteq Server!InFlight
      /\ gate.pending = Server!Cardinality(Server!InFlight) /\ lost = unanswered + Server!Cardinality(Server!LostInFlight)
      /\ (x \in Server!InFlight <=> ~h[x].seal) /\ (x \in Server!LostInFlight <=> Losing(h[x]))
  BY <1>2, SetsByState DEF Losing, Server!McpInv, Server!CountInv, Server!LostInv
<1>8. ~h[x].seal => /\ Server!Cardinality(Server!InFlight \ {x}) = gate.pending - 1
                    /\ Server!Cardinality(Server!InFlight \ {x}) \in Nat
  <2>1. /\ Server!InFlight \ {x} \subseteq Handlers
        /\ (Server!InFlight \ {x}) \ {x} = Server!InFlight \ {x} /\ x \notin Server!InFlight \ {x}
    BY <1>7
  <2>2. /\ Server!Cardinality(Server!InFlight \ {x}) \in Nat
        /\ x \in Server!InFlight
           => Server!Cardinality(Server!InFlight \ {x}) = Server!Cardinality(Server!InFlight) - 1
    BY <1>7, <2>1, OneMoved
  <2> QED BY <1>7, <2>2
<1>9. g \in Gates /\ g.pending = gate.pending + One(Flying(Server!Idle)) - One(Flying(h[x])) /\ g.generation = gate.generation
      /\ g.closed = gate.closed /\ g.current = gate.current
  BY <1>0, <1>2, <1>4, <1>8 DEF Gates, One
<1>10. ended \in Nat /\ ended = unanswered + One(Losing(h[x]))
  BY <1>0, <1>1, <1>2 DEF One
<1>11. CASE ~h[x].seal /\ g.closed /\ g.pending = 0 /\ ~g.current.done
  <2>1. /\ gate' = [g EXCEPT !.current.done = TRUE, !.current.drained = TRUE] /\ unanswered' = 0 /\ lost' = 0
        /\ reported' = [generation |-> g.generation, unresolved |-> ended, lost |-> lost]
    BY <1>11 DEF Server!Finish, Server!Settle
  <2>2. gate.current \in Server!Closures
    BY <1>0, <1>9, <1>11
  <2> HIDE DEF g, ended
  <2>3. /\ gate' \in Gates /\ gate'.closed = gate.closed /\ gate'.current \in Server!Closures
        /\ gate'.generation = gate.generation /\ gate'.pending = g.pending
    BY <1>9, <2>1, <2>2 DEF Gates, Server!Closures
  <2>4. lost = ended
    <3>1. Server!Cardinality(Server!InFlight \ {x}) = 0
      BY <1>0, <1>2, <1>4, <1>8, <1>9, <1>11 DEF One
    <3>2. Server!InFlight \ {x} = {}
      BY <1>7, <3>1, NoneCounted
    <3>3. Server!LostInFlight \ {x} = {} /\ Server!LostInFlight \subseteq Handlers
      BY <1>7, <3>2
    <3>4. Server!Cardinality({}) = 0
      BY NoneCounted
    <3>5. Server!Cardinality(Server!LostInFlight) = One(Losing(h[x]))
      <4>1. CASE Losing(h[x])
        <5>1. x \in Server!LostInFlight /\ Server!LostInFlight \ {x} = {} \ {x}
          BY <1>7, <3>3, <4>1
        <5>2. Server!Cardinality(Server!LostInFlight) = Server!Cardinality({}) + 1
          BY <3>3, <5>1, OneMoved
        <5> QED BY <3>4, <4>1, <5>2 DEF One
      <4>2. CASE ~Losing(h[x])
        <5>1. Server!LostInFlight = {}
          BY <1>7, <3>3, <4>2
        <5> QED BY <3>4, <4>2, <5>1 DEF One
      <4> QED BY <4>1, <4>2
    <3> QED BY <1>7, <1>10, <3>5
  <2>5. GateStep(x, Server!Idle)
    BY <1>0, <1>9, <1>10, <2>1, <2>3 DEF GateStep, Reports, Gates
  <2>6. LossStep(x, Server!Idle)
    BY <1>9, <1>11, <2>1, <2>3, <2>4 DEF LossStep
  <2> QED BY <1>4, <1>5, <1>6, <2>5, <2>6, HandlerStep
<1>12. CASE ~(~h[x].seal /\ g.closed /\ g.pending = 0 /\ ~g.current.done)
  <2>1. gate' = g /\ unanswered' = ended /\ lost' = lost /\ reported' = reported
    BY <1>12 DEF Server!Finish
  <2> HIDE DEF g, ended
  <2>2. GateStep(x, Server!Idle)
    BY <1>0, <1>9, <1>10, <2>1 DEF GateStep
  <2>3. LossStep(x, Server!Idle)
    <3>1. One(Losing(h[x])) \in Nat /\ One(Losing(Server!Idle)) = 0
      BY <1>4 DEF One
    <3>2. lost' - unanswered' = lost - unanswered + One(Losing(Server!Idle)) - One(Losing(h[x]))
      BY <1>0, <1>10, <2>1, <3>1
    <3> QED BY <1>4, <1>9, <2>1, <3>2 DEF LossStep
  <2> QED BY <1>4, <1>5, <1>6, <2>2, <2>3, HandlerStep
<1> QED BY <1>11, <1>12

(* A closure, which drains at once where nothing is outstanding; and the    *)
(* gate opened.                                                             *)
LEMMA McpGate ==
  ASSUME Server!McpInv, UNCHANGED <<queue, forwards, h, last>>,
         gate' \in Gates, gate'.closed => gate'.current \in Server!Closures,
         gate'.pending = gate.pending, gate.generation <= gate'.generation,
         \/ UNCHANGED <<unanswered, lost, reported>> /\ ~(gate'.closed /\ gate'.current.drained)
         \/ /\ gate.pending = 0 /\ unanswered' = 0 /\ lost' = 0
            /\ reported' = [generation |-> gate'.generation, unresolved |-> unanswered, lost |-> lost]
  PROVE  Server!McpInv'
<1>0. /\ h \in [Handlers -> States] /\ gate \in Gates /\ unanswered \in Nat /\ lost \in Nat /\ reported \in Reports
      /\ last \in [Handlers -> {None} \cup Answers]
  BY McpTypes
<1>1. /\ Server!InQueue' = Server!InQueue /\ Server!InSlot' = Server!InSlot
      /\ Server!InFlight' = Server!InFlight /\ Server!LostInFlight' = Server!LostInFlight
  BY DEF Server!InQueue, Server!InSlot, Server!InFlight, Server!LostInFlight
<1>2. Server!InFlight \subseteq Handlers /\ Server!LostInFlight \subseteq Server!InFlight
  BY SetsByState DEF Losing
<1>3. gate.pending = 0 => Server!InFlight = {} /\ lost = unanswered
  <2> SUFFICES ASSUME gate.pending = 0 PROVE Server!InFlight = {} /\ lost = unanswered
    OBVIOUS
  <2>1. Server!InFlight = {}
    BY <1>2, NoneCounted DEF Server!McpInv, Server!CountInv
  <2>2. Server!LostInFlight = {} /\ Server!Cardinality({}) = 0
    BY <1>2, <2>1, NoneCounted
  <2> QED BY <1>0, <2>1, <2>2 DEF Server!McpInv, Server!LostInv
<1>4. reported' \in Reports /\ unanswered' \in Nat /\ lost' \in Nat
  BY <1>0 DEF Reports, Gates
<1>5. Server!TypeOK'
  BY <1>0, <1>4 DEF Server!TypeOK, States, Gates, Reports, Answers
<1>6. Server!CallInv'
  <2>1. \A x \in Handlers : h[x] \in Server!Calls => h[x].generation \in Nat
    BY DEF Server!Calls
  <2> QED BY <1>0, <2>1 DEF Server!McpInv, Server!CallInv, Gates
<1>7. Server!CountInv' /\ Server!RefusalInv'
  BY <1>1 DEF Server!McpInv, Server!CountInv, Server!RefusalInv
<1>8. Server!LostInv'
  <2>1. CASE UNCHANGED <<unanswered, lost>>
    BY <1>1, <2>1 DEF Server!McpInv, Server!LostInv
  <2>2. CASE gate.pending = 0 /\ unanswered' = 0 /\ lost' = 0
    <3>1. Server!LostInFlight' = {} /\ Server!Cardinality({}) = 0
      BY <1>1, <1>2, <1>3, <2>2, NoneCounted
    <3> QED BY <2>2, <3>1 DEF Server!LostInv
  <2> QED BY <2>1, <2>2
<1>9. Server!GateInv'
  <2>1. CASE UNCHANGED <<unanswered, lost, reported>> /\ ~(gate'.closed /\ gate'.current.drained)
    BY <1>0, <1>1, <2>1 DEF Server!McpInv, Server!GateInv, Gates, Reports
  <2>2. CASE /\ gate.pending = 0 /\ reported' = [generation |-> gate'.generation, unresolved |-> unanswered, lost |-> lost]
    BY <1>0, <1>1, <1>3, <2>2 DEF Server!GateInv, Gates
  <2> QED BY <2>1, <2>2
<1> QED BY <1>5, <1>6, <1>7, <1>8, <1>9 DEF Server!McpInv

LEMMA McpCloses ==
  ASSUME Server!McpInv, Server!CloseAdmission
  PROVE  Server!McpInv'
<1>0. gate \in Gates
  BY McpTypes
<1> DEFINE g == [gate EXCEPT !.closed = TRUE, !.generation = @ + 1, !.current = [done |-> FALSE, drained |-> FALSE]]
<1>1. /\ g \in Gates /\ g.closed /\ g.pending = gate.pending /\ g.generation = gate.generation + 1 /\ gate.generation \in Nat
      /\ g.current = [done |-> FALSE, drained |-> FALSE] /\ g.current \in Server!Closures
  <2> DEFINE c == [done |-> FALSE, drained |-> FALSE]
  <2>1. c \in Server!Closures
    BY DEF Server!Closures
  <2> HIDE DEF c
  <2>0. gate.generation \in Nat /\ gate.generation + 1 \in Nat /\ gate.pending \in Nat
    BY <1>0 DEF Gates
  <2>a. g = [gate EXCEPT !.closed = TRUE, !.generation = @ + 1, !.current = c]
    BY DEF c
  <2> HIDE DEF g
  <2>2. /\ g = [closed |-> TRUE, generation |-> gate.generation + 1, pending |-> gate.pending, current |-> c]
        /\ gate.generation \in Nat /\ gate.generation + 1 \in Nat /\ gate.pending \in Nat
    BY <1>0, <2>0, <2>a DEF Gates
  <2>3. g \in Gates
    BY <2>1, <2>2 DEF Gates
  <2>4. g.closed /\ g.pending = gate.pending /\ g.generation = gate.generation + 1 /\ g.current = c
    BY <2>2
  <2> QED BY <2>1, <2>2, <2>3, <2>4 DEF c
<1>2. UNCHANGED <<queue, forwards, h, last>>
  BY DEF Server!CloseAdmission, Server!tokens
<1>3. CASE g.pending = 0
  <2>1. /\ gate' = [g EXCEPT !.current.done = TRUE, !.current.drained = TRUE] /\ unanswered' = 0 /\ lost' = 0
        /\ reported' = [generation |-> g.generation, unresolved |-> unanswered, lost |-> lost]
    BY <1>3 DEF Server!CloseAdmission, Server!Settle
  <2> HIDE DEF g
  <2>2. /\ gate' \in Gates /\ gate'.current \in Server!Closures /\ gate'.pending = g.pending
        /\ gate'.generation = g.generation
    BY <1>1, <2>1 DEF Gates, Server!Closures
  <2> QED BY <1>1, <1>2, <1>3, <2>1, <2>2, McpGate
<1>4. CASE g.pending # 0
  <2>1. gate' = g /\ UNCHANGED <<unanswered, lost, reported>>
    BY <1>4 DEF Server!CloseAdmission
  <2> HIDE DEF g
  <2>2. gate'.current \in Server!Closures /\ ~gate'.current.drained
    BY <1>1, <2>1
  <2> QED BY <1>1, <1>2, <2>1, <2>2, McpGate
<1> QED BY <1>3, <1>4

LEMMA McpReopens ==
  ASSUME Server!McpInv, Server!OpenAdmission
  PROVE  Server!McpInv'
<1>0. gate \in Gates /\ gate.current \in Server!Closures
  BY McpTypes DEF Server!OpenAdmission
<1>1. gate' = [gate EXCEPT !.closed = FALSE, !.current.done = TRUE]
  BY DEF Server!OpenAdmission
<1>2. gate' \in Gates /\ ~gate'.closed /\ gate'.pending = gate.pending /\ gate'.generation = gate.generation /\ gate.generation \in Nat
  BY <1>0, <1>1 DEF Gates, Server!Closures
<1>3. UNCHANGED <<queue, forwards, h, last, unanswered, lost, reported>>
  BY DEF Server!OpenAdmission, Server!tokens, Server!history
<1> QED BY <1>2, <1>3, McpGate

LEMMA McpBegins ==
  ASSUME Server!Init
  PROVE  Server!McpInv
<1>1. /\ Server!InQueue = {} /\ Server!InSlot = {} /\ Server!InFlight = {} /\ Server!LostInFlight = {}
  BY DEF Server!Init, Server!Idle, Server!InQueue, Server!InSlot, Server!InFlight, Server!LostInFlight
<1>2. Server!Cardinality({}) = 0
  BY NoneCounted
<1>3. Server!TypeOK
  BY DEF Server!Init, Server!TypeOK, Server!NewAdmissionGate
<1>4. Server!CallInv
  BY DEF Server!Init, Server!CallInv, Server!Idle, Server!Calls
<1> QED BY <1>1, <1>2, <1>3, <1>4 DEF Server!McpInv, Server!Init, Server!NewAdmissionGate, Server!CountInv, Server!LostInv,
       Server!GateInv, Server!RefusalInv

LEMMA McpNext ==
  ASSUME Server!McpInv, Server!Next
  PROVE  Server!McpInv'
<1>1. CASE \E r \in Requests : Server!NoSession(r) \/ Server!EndSession(r) \/ Server!OnlyTouch(r)
  <2>1. UNCHANGED <<gate, unanswered, queue, forwards, h, last, lost, reported>>
    BY <1>1 DEF Server!NoSession, Server!EndSession, Server!OnlyTouch, Server!tokens, Server!history
  <2> QED BY <2>1, McpQuiet
<1>2. CASE Server!WriteFails \/ Server!Tick
  <2>1. UNCHANGED <<gate, unanswered, queue, forwards, h, last, lost, reported>>
    BY <1>2 DEF Server!WriteFails, Server!Tick, Server!tokens, Server!history
  <2> QED BY <2>1, McpQuiet
<1>3. ASSUME NEW x \in Handlers, NEW r \in Requests, Server!PostCall(x, r) PROVE Server!McpInv'
  <2>1. PICK over : Server!AdmitCall(x, r.m, over, FALSE)
    BY <1>3 DEF Server!PostCall
  <2>2. h[x] = Server!Idle /\ UNCHANGED <<gate, unanswered, forwards, lost, reported>>
    BY <1>3 DEF Server!PostCall
  <2> QED BY <2>1, <2>2, McpAdmits
<1>4. ASSUME NEW x \in Handlers, NEW m, Server!StdioLine(x, m) PROVE Server!McpInv'
  <2>1. h[x] = Server!Idle /\ UNCHANGED <<gate, unanswered, forwards, lost, reported>>
    BY <1>4 DEF Server!StdioLine
  <2>2. CASE UNCHANGED <<h, queue, last>>
    BY <2>1, <2>2, McpQuiet
  <2>3. CASE \E over : Server!AdmitCall(x, m, over, TRUE)
    BY <2>1, <2>3, McpAdmits
  <2> QED BY <1>4, <2>2, <2>3 DEF Server!StdioLine
<1>5. ASSUME NEW x \in Handlers, Server!GiveUp(x) PROVE Server!McpInv'
  BY <1>5, McpLeavesQueue DEF Server!GiveUp
<1>6. ASSUME NEW x \in Handlers, Server!SlotTooLate(x) PROVE Server!McpInv'
  BY <1>6, McpLeavesSlot DEF Server!SlotTooLate
<1> QED BY <1>1, <1>2, <1>3, <1>4, <1>5, <1>6, McpOpens, McpInitializes, McpStarts, McpTakesSlot, McpDispatches,
       McpReaches, McpForwards, McpFinishes, McpCloses, McpReopens DEF Server!Next

-----------------------------------------------------------------------------
ServingInv == part = "server" => Server!McpInv

(* Whatever the interleaving of handlers, closures and timers, a refusal for *)
(* overload was not forwarded, every token is given back, and a drained      *)
(* closure is not passed by an acquisition of before it and counted what was *)
(* lost (runCall, finishLocked, closeLocked).                                *)
THEOREM ServerStaysTrue == Spec => []ServerAnswersAreTrue
<1>1. Init => ServingInv
  BY McpBegins DEF Init, ServingInv
<1>2. ServingInv /\ [Next]_vars => ServingInv'
  <2> SUFFICES ASSUME ServingInv, [Next]_vars, part' = "server" PROVE Server!McpInv'
    BY DEF ServingInv
  <2>1. CASE Next
    BY <2>1, McpNext DEF Next, ServingInv
  <2>2. CASE UNCHANGED vars
    BY <2>2, McpQuiet DEF vars, serverVars, ServingInv
  <2> QED BY <2>1, <2>2
<1>3. ServingInv => ServerAnswersAreTrue
  BY DEF ServingInv, ServerAnswersAreTrue, Server!McpInv, Server!CountInv, Server!GateInv, Server!RefusalInv,
         Server!RefusalsAreTrue, Server!DrainIsTrue
<1> QED BY <1>1, <1>2, <1>3, PTL DEF Spec
=============================================================================
