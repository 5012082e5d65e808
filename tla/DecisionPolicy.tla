--------------------------- MODULE DecisionPolicy ---------------------------
(***************************************************************************)
(* The decision a write is held to: the record a request names, found by   *)
(* its digest under the decision-record directory, its signature, and the  *)
(* policy of the tool, which ties the request's arguments to the facts the *)
(* record was decided on (go/decision_policy.go, go/record_signature.go,   *)
(* actKeyed of go/act.go, walkDecisionRecords of go/verify_v3.go).         *)
(*                                                                         *)
(* A JSON value is a function from the paths in it to what is there:       *)
(* "object", "array" or a scalar.  A path is the sequence of a pointer's   *)
(* tokens; an index and a member of the same name are spelled alike, as in *)
(* a pointer.  A record is named by its bytes.                             *)
(***************************************************************************)
EXTENDS Naturals, Sequences, FiniteSets, SequencesExt

CONSTANTS
  Policies,   \* what a configuration may hold a tool to
  Records,    \* the bytes that may be found
  Libraries,  \* [directory -> [files, sidecar]]: what the directory may hold
  Requests,   \* [record, pack, cites, arguments]
  None

VARIABLES policy, library, request, outcome
vars == <<policy, library, request, outcome>>

-----------------------------------------------------------------------------
Containers == {"object", "array"}

(* resolvePointer. *)
Resolves(v, p) == p \in DOMAIN v
At(v, p) == LET below == {q \in DOMAIN v : IsPrefix(p, q)} IN
            [q \in {SubSeq(r, Len(p) + 1, Len(r)) : r \in below} |-> v[p \o q]]
Length(v, p) == Cardinality({q \in DOMAIN v : IsStrictPrefix(p, q) /\ Len(q) = Len(p) + 1})

(* policyList: the entries are distinct and there is one. *)
PolicyList(list) == list # {}

(* parseDecisionPolicy. *)
ParsePolicy(p) ==
  /\ PolicyList(p.outcomes)
  /\ p.packs # None => PolicyList(p.packs)
  /\ p.signers # None => PolicyList(p.signers) /\ p.version >= 5
  /\ p.fix # {} \/ p.closed => p.version >= 9
  /\ p.shape # {} => p.version >= 10
  /\ \A f, g \in p.fix : f.argument = g.argument => f = g
  /\ \A f \in p.fix : \A b \in p.bind : f.argument # b.argument
  /\ \A s, t \in p.shape : s.pointer = t.pointer => s = t
  /\ \A s \in p.shape : \A f \in p.fix : s.pointer # f.argument

-----------------------------------------------------------------------------
(* walkDecisionRecords: a file is a record, or the lines of a trail, each a *)
(* record but for the carriage return before its end; a trail as a whole is *)
(* found by its digest and is not one.  With signers the bytes are exact.   *)
Files(lib) == UNION {lib[d].files : d \in DOMAIN lib}
Spells(file, record) == file.record = record /\ ~file.cr
Found(lib, record, exact) ==
  {file \in Files(lib) : IF exact THEN Spells(file, record) ELSE file.record = record}

(* onWantedIn: the directories a copy lies in. *)
RecordDirs(lib, record) ==
  {d \in DOMAIN lib : \E file \in lib[d].files : file.kind # "trail" /\ Spells(file, record)}

(* recordSignaturesFor: the readable lines of a sidecar that name it. *)
SignaturesFor(sidecar, record) == {s \in sidecar : s.whole /\ s.record = record}

(* readRuntimeRecord. *)
ReadRuntimeRecord(r) == r \in DOMAIN Records /\ Records[r].version = "1" /\ Records[r].kind = "evaluation"

(* holdToSignature: at the record's own place of its trail, under a key     *)
(* that is trusted; unusableSigningKey has refused the keys that anyone can *)
(* sign under.                                                              *)
HoldToSignature(lib, r, signers) ==
  LET record == Records[r] IN
  /\ record.trail # None
  /\ \E d \in RecordDirs(lib, r) :
       /\ lib[d].sidecar # None
       /\ \E s \in SignaturesFor(lib[d].sidecar, r) :
            /\ s.trail = record.trail /\ s.sequence = record.sequence
            /\ s.key \in signers /\ s.signer = s.key

(* sameCitations. *)
SameCitations(record, q) == record.cites = q.cites

(* The disposition, the pack and the review. *)
HoldToDisposition(record, p) ==
  /\ record.disposition = "outcome" /\ record.outcome \in p.outcomes
  /\ record.handoff = "none"
  /\ p.packs # None => record.pack \in p.packs
  /\ p.reviewed => record.reviewed

(* bind, fix and shape. *)
HoldToBind(arguments, facts, p) ==
  \A b \in p.bind :
    /\ Resolves(arguments, b.argument) /\ facts # None /\ Resolves(facts, b.fact)
    /\ At(arguments, b.argument) = At(facts, b.fact)

HoldToFix(arguments, p) ==
  \A f \in p.fix : Resolves(arguments, f.argument) /\ At(arguments, f.argument) = f.value

HoldToShape(arguments, p) ==
  \A s \in p.shape :
    /\ Resolves(arguments, s.pointer) /\ arguments[s.pointer] = s.type
    /\ s.type = "array" => Length(arguments, s.pointer) <= s.max

(* namedArguments, shapedArguments. *)
Named(p) == {b.argument : b \in p.bind} \cup {f.argument : f \in p.fix}
Shaped(p) == {s.pointer : s \in p.shape}

(* unreachedArgument: from the root, every value is under a named pointer,  *)
(* or is a container on the way to a pointer, or a shaped one.              *)
(* Mutant: a shape covers what its container holds. *)
CoveredByShape(p, at) == \E n \in Named(p) \cup Shaped(p) : IsPrefix(n, at)

Covered(p, at) == \E n \in Named(p) : IsPrefix(n, at)
OnTheWay(p, at) ==
  \/ \E n \in Named(p) : IsStrictPrefix(at, n)
  \/ \E n \in Shaped(p) : IsPrefix(at, n)

Unreached(arguments, p) ==
  \E at \in DOMAIN arguments :
    /\ at # <<>>
    /\ \A q \in DOMAIN arguments : IsPrefix(q, at) => ~Covered(p, q)
    /\ \A q \in DOMAIN arguments \ {<<>>} :
         IsStrictPrefix(q, at) => arguments[q] \in Containers /\ OnTheWay(p, q)
    /\ ~(arguments[at] \in Containers /\ OnTheWay(p, at))

(* holdToPolicy: the step that refuses, or that the write is admitted. *)
HoldToPolicy(lib, q, p) ==
  LET record == Records[q.record] IN
  CASE ~ReadRuntimeRecord(q.record) -> "record"
    [] p.signers # None /\ ~HoldToSignature(lib, q.record, p.signers) -> "policy-signed"
    [] record.pack # q.pack \/ ~SameCitations(record, q) -> "consistency"
    [] ~HoldToDisposition(record, p) -> "policy"
    [] ~HoldToBind(q.arguments, record.facts, p) -> "policy-bind"
    [] ~HoldToFix(q.arguments, p) \/ ~HoldToShape(q.arguments, p) -> "policy-bind"
    [] p.closed /\ Unreached(q.arguments, p) -> "policy-bind"
    [] OTHER -> "admitted"

-----------------------------------------------------------------------------
Init ==
  /\ policy \in {p \in Policies : ParsePolicy(p)}
  /\ library \in Libraries
  /\ request \in Requests
  /\ outcome = "asked"

(* actKeyed, from the walk to the policy.  A trail found as a whole gives   *)
(* no record to hold the write to.                                          *)
Act ==
  LET found == Found(library, request.record, policy.signers # None) IN
  /\ outcome = "asked"
  /\ outcome' = IF found = {} THEN "decision"
                ELSE IF \A file \in found : file.kind = "trail" THEN "record"
                ELSE HoldToPolicy(library, request, policy)
  /\ UNCHANGED <<policy, library, request>>

Next == Act
Spec == Init /\ [][Next]_vars

(* Under a closed policy nothing of a write that is admitted was chosen by  *)
(* the one who asked for it: every scalar in its arguments, at whatever     *)
(* depth, is in the facts of the record that decided it, at the place the   *)
(* policy says, or in the policy; and that record says what it is held to   *)
(* (holdToPolicy, unreachedArgument).                                       *)
ClosedIsDecided ==
  outcome = "admitted" /\ policy.closed =>
    LET record == Records[request.record]
        arguments == request.arguments IN
    /\ record.outcome \in policy.outcomes /\ record.cites = request.cites
    /\ \A at \in {q \in DOMAIN arguments : arguments[q] \notin Containers} :
         \/ \E b \in policy.bind, q \in DOMAIN record.facts :
              /\ IsPrefix(b.argument, at)
              /\ q = b.fact \o SubSeq(at, Len(b.argument) + 1, Len(at))
              /\ record.facts[q] = arguments[at]
         \/ \E f \in policy.fix :
              /\ IsPrefix(f.argument, at)
              /\ f.value[SubSeq(at, Len(f.argument) + 1, Len(at))] = arguments[at]

(* A write that must be signed for rests on bytes that a trusted key has    *)
(* signed, as they lie in the directory, beside the line that signs them:   *)
(* never on a trail, another spelling or another place of the record        *)
(* (walkDecisionRecords, recordSignaturesFor, holdToSignature).             *)
AdmittedIsSigned ==
  outcome = "admitted" /\ policy.signers # None =>
    \E d \in DOMAIN library : \E file \in library[d].files :
      /\ file.kind # "trail" /\ Spells(file, request.record)
      /\ library[d].sidecar # None
      /\ \E s \in library[d].sidecar :
           /\ s.whole /\ s.record = request.record /\ s.signer \in policy.signers
           /\ s.trail = Records[request.record].trail
           /\ s.sequence = Records[request.record].sequence
=============================================================================
