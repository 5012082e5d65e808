----------------------------- MODULE SourceRun -----------------------------
(***************************************************************************)
(* One acquisition: the gateway's gate before its source, the source's run *)
(* and what is made of its output (acquireWithReconciliation).  runSource  *)
(* starts the program in a process group led by an anchor, reads its       *)
(* output up to a limit, waits for it as os/exec does (the context's       *)
(* watcher, the exit, the output pipes, each with its bound), kills what   *)
(* is left of the group and judges how it ended.  What it wrote is read as *)
(* an envelope, retained, and stamped as the receipt's acquisition, which  *)
(* verification reads again (validateAcquisition).                         *)
(*                                                                         *)
(* The source may fork, close its output, leave its group and exit or be   *)
(* ended by a signal at any moment; so may what it forks.                  *)
(***************************************************************************)
EXTENDS Naturals, FiniteSets

CONSTANTS
  MaxSourceOutput,               \* what the gateway takes of an output
  MaxWrites,                     \* bound: what a source and its children write
  None

VARIABLES
  unix,        \* the platform has process groups
  spec,        \* the source as configured, and the version of the receipts minted
  pc,          \* the acquisition, and the os/exec Wait it calls
  ctx,         \* "live", "deadline" or "cancelled": the first end of it counts
  anchor,      \* "none", "running", "zombie" or "reaped"
  proc,        \* the source and its child: "none", "alive" or "dead"
  grouped,     \* those still in the anchor's group
  writers,     \* those that hold the output pipe
  status,      \* how the source ended: "zero", "nonzero" or "signal"
  written, copied, overflowed,
  copying,     \* the goroutine that copies the output: "open", "eof" or "closed"
  watcher,     \* os/exec's watch of the context
  cancelled,   \* recordCancellation's flag
  waitErr,     \* Wait's error, or None
  envelope,    \* what parseEnvelope read of the output, or None
  retained,    \* the result is in the store
  answer,      \* what the acquisition is answered, or None
  stamped,     \* the acquisition stamped, or None
  endedBy,     \* history: who ended the source
  strayKill    \* history: a kill was sent to a group whose leader was reaped

vars == <<unix, spec, pc, ctx, anchor, proc, grouped, writers, status, written, copied, overflowed,
          copying, watcher, cancelled, waitErr, envelope, retained, answer, stamped, endedBy, strayKill>>
config == <<unix, spec>>
processes == <<anchor, proc, grouped, writers, status, endedBy>>
output == <<written, copied, overflowed, copying>>
waiting == <<watcher, cancelled, waitErr>>
outcome == <<envelope, retained, answer, stamped>>

Procs == {"source", "child"}

(* adapterShapes, and a bare command's; only an mcp source's provenance is pinned. *)
Shapes == {"command", "mcp", "http", "airbyte"}
Specs == {s \in [shape : Shapes, version : {"2", "3"}, pinned : BOOLEAN] : s.pinned => s.shape = "mcp"}

-----------------------------------------------------------------------------
(* The processes. *)

(* Those a signal ends, and what is known of the source's end. *)
Die(ps, who) ==
  /\ proc' = [p \in Procs |-> IF p \in ps /\ proc[p] = "alive" THEN "dead" ELSE proc[p]]
  /\ writers' = writers \ ps
  /\ IF "source" \in ps /\ proc["source"] = "alive"
       THEN status' = "signal" /\ endedBy' = who
       ELSE UNCHANGED <<status, endedBy>>

(* sourceGroup.kill: the anchor too, which stays a zombie until it is reaped. *)
GroupKill(then) ==
  /\ Die(grouped, "gateway")
  /\ anchor' = IF then = "reap" THEN "reaped" ELSE "zombie"
  /\ strayKill' = (strayKill \/ anchor = "reaped")

Write(p) ==
  /\ proc[p] = "alive" /\ p \in writers /\ written < MaxWrites /\ copying = "open"
  /\ written' = written + 1
  /\ UNCHANGED <<config, pc, ctx, processes, copied, overflowed, copying, waiting, outcome, strayKill>>

CloseOutput(p) ==
  /\ proc[p] = "alive" /\ p \in writers /\ writers' = writers \ {p}
  /\ UNCHANGED <<config, pc, ctx, anchor, proc, grouped, status, endedBy, output, waiting, outcome, strayKill>>

Fork ==
  /\ proc["source"] = "alive" /\ proc["child"] = "none"
  /\ proc' = [proc EXCEPT !["child"] = "alive"]
  /\ grouped' = IF "source" \in grouped THEN grouped \cup {"child"} ELSE grouped
  /\ writers' = IF "source" \in writers THEN writers \cup {"child"} ELSE writers
  /\ UNCHANGED <<config, pc, ctx, anchor, status, endedBy, output, waiting, outcome, strayKill>>

LeaveGroup(p) ==
  /\ proc[p] = "alive" /\ p \in grouped /\ grouped' = grouped \ {p}
  /\ UNCHANGED <<config, pc, ctx, anchor, proc, writers, status, endedBy, output, waiting, outcome, strayKill>>

Exit(p, s) ==
  /\ proc[p] = "alive" /\ proc' = [proc EXCEPT ![p] = "dead"] /\ writers' = writers \ {p}
  /\ IF p = "source" THEN status' = s /\ endedBy' = "itself" ELSE UNCHANGED <<status, endedBy>>
  /\ UNCHANGED <<config, pc, ctx, anchor, grouped, output, waiting, outcome, strayKill>>

(* A source may signal its own group, the anchor in it. *)
SignalGroup ==
  /\ proc["source"] = "alive" /\ "source" \in grouped
  /\ Die(grouped, "itself") /\ anchor' = IF anchor = "running" THEN "zombie" ELSE anchor
  /\ UNCHANGED <<config, pc, ctx, grouped, output, waiting, outcome, strayKill>>

-----------------------------------------------------------------------------
(* The gateway's goroutines beside Wait. *)

End(how) == ctx' = IF ctx = "live" THEN how ELSE ctx

(* The deadline runSource gave its context, or the end of the gateway's own. *)
ContextEnds(how) ==
  /\ ctx = "live" /\ pc \notin {"admit", "read", "stamp", "done"} /\ End(how)
  /\ UNCHANGED <<config, pc, processes, output, waiting, outcome, strayKill>>

(* boundedBuffer.Write: what does not fit is dropped, and the first of it cancels. *)
Copy ==
  /\ copying = "open" /\ copied < written /\ copied' = copied + 1
  /\ overflowed' = (overflowed \/ copied' > MaxSourceOutput)
  /\ IF overflowed' /\ ~overflowed THEN End("cancelled") ELSE UNCHANGED ctx
  /\ UNCHANGED <<config, pc, processes, written, copying, waiting, outcome, strayKill>>

CopyEnds ==
  /\ copying = "open" /\ pc \in {"wait", "watch", "pipes"} /\ writers = {} /\ copied = written
  /\ copying' = "eof"
  /\ UNCHANGED <<config, pc, ctx, processes, written, copied, overflowed, waiting, outcome, strayKill>>

(* recordCancellation: the flag is set where the cancellation it wraps succeeded, and     *)
(* an error of another kind than "already done" is the watcher's own.                    *)
RecordCancellation(result) ==
  /\ cancelled' = (cancelled \/ result = "ok")
  /\ watcher' = IF result = "error" THEN "refused" ELSE "interrupted"

(* watchCtx: the context ended before Wait took the exit, so Cancel.  Without groups it   *)
(* kills the direct child, and fails where the child's exit is collected; where it has    *)
(* exited and is not collected the platform says either.                                 *)
Cancel ==
  /\ watcher = "watching" /\ pc \in {"wait", "watch"} /\ ctx # "live"
  /\ IF unix
       THEN GroupKill("cancel") /\ RecordCancellation("ok")
       ELSE /\ Die(IF pc = "wait" THEN {"source"} ELSE {}, "gateway")
            /\ \E result \in IF pc = "watch" THEN {"done"}
                             ELSE IF proc["source"] = "dead" THEN {"ok", "error"} ELSE {"ok"} :
                 RecordCancellation(result)
            /\ UNCHANGED <<anchor, strayKill>>
  /\ UNCHANGED <<config, pc, ctx, grouped, output, waitErr, outcome>>

(* The delay passes and the source has not ended: the direct child, then the pipes. *)
WaitDelay ==
  /\ watcher \in {"interrupted", "refused"} /\ pc = "wait" /\ proc["source"] = "alive"
  /\ watcher' = "expired" /\ copying' = "closed" /\ Die({"source"}, "gateway")
  /\ UNCHANGED <<config, pc, ctx, anchor, grouped, written, copied, overflowed, cancelled, waitErr,
                 outcome, strayKill>>

-----------------------------------------------------------------------------
(* The acquisition, as far as the source's start. *)

Refuse(why) == pc' = "done" /\ answer' = why

(* What is refused before anything runs: an unknown source, a trail without a witness, an *)
(* adapter under version 2, the publisher policy, a pinned provenance that does not check *)
(* out, a session that is sealed, full or closed, a delegation that is not admitted.      *)
Admit ==
  /\ pc = "admit"
  /\ \/ /\ spec.shape # "command" => spec.version = "3"
        /\ pc' = "resolve" /\ UNCHANGED answer
     \/ Refuse("notAdmitted")
  /\ UNCHANGED <<config, ctx, processes, output, waiting, envelope, retained, stamped, strayKill>>

(* sourceNotStarted: nothing of the source ran. *)
NotStarted == Refuse("notStarted") /\ UNCHANGED <<envelope, retained, stamped>>

(* LookPath, executableDigest, sandboxSourceCommand: nothing is started yet. *)
Resolve ==
  /\ pc = "resolve"
  /\ \/ pc' = "prepare" /\ UNCHANGED outcome
     \/ NotStarted
  /\ UNCHANGED <<config, ctx, processes, output, waiting, strayKill>>

(* prepareSourceProcess: the anchor, reaped again where the named user is not one. *)
PrepareSourceProcess ==
  /\ pc = "prepare"
  /\ \/ pc' = "start" /\ anchor' = (IF unix THEN "running" ELSE "none") /\ UNCHANGED outcome
     \/ NotStarted /\ anchor' \in (IF unix THEN {"none", "reaped"} ELSE {"none"})
  /\ UNCHANGED <<config, ctx, proc, grouped, writers, status, endedBy, output, waiting, strayKill>>

(* sourceGroup.start: cmd.Start refuses a context that has ended. *)
Start ==
  /\ pc = "start"
  /\ \/ /\ ctx = "live" /\ pc' = "wait" /\ watcher' = "watching" /\ copying' = "open"
        /\ proc' = [proc EXCEPT !["source"] = "alive"] /\ writers' = {"source"}
        /\ grouped' = (IF unix THEN {"source"} ELSE {})
        /\ UNCHANGED <<anchor, outcome, strayKill>>
     \/ /\ NotStarted /\ anchor' = (IF unix THEN "reaped" ELSE "none")
        /\ strayKill' = (strayKill \/ anchor = "reaped")
        /\ UNCHANGED <<proc, grouped, writers, watcher, copying>>
  /\ UNCHANGED <<config, ctx, status, endedBy, written, copied, overflowed, cancelled, waitErr>>

-----------------------------------------------------------------------------
(* cmd.Wait. *)

(* The exit, as an error where it is not success. *)
Collect ==
  /\ pc = "wait" /\ proc["source"] = "dead" /\ pc' = "watch"
  /\ waitErr' = (IF status = "zero" THEN None ELSE "exit")
  /\ UNCHANGED <<config, ctx, processes, output, watcher, cancelled, outcome, strayKill>>

(* The watcher hands over: the context's error, or the cancellation's own, where the exit *)
(* was clean.                                                                            *)
HandOver ==
  /\ pc = "watch" /\ pc' = "pipes" /\ watcher' = "ended"
  /\ waitErr' = (IF waitErr # None THEN waitErr
                ELSE IF watcher = "refused" THEN "kill" ELSE IF cancelled THEN "context" ELSE None)
  /\ UNCHANGED <<config, ctx, processes, output, cancelled, outcome, strayKill>>

(* awaitGoroutines: the output's end, or the delay and the pipes closed under it. *)
AwaitGoroutines ==
  /\ pc = "pipes" /\ pc' = "reap"
  /\ \/ copying # "open" /\ UNCHANGED <<copying, waitErr>>
     \/ copying = "open" /\ copying' = "closed"
        /\ waitErr' = (IF waitErr = None THEN "delay" ELSE waitErr)
  /\ UNCHANGED <<config, ctx, processes, written, copied, overflowed, watcher, cancelled, outcome, strayKill>>

(* sourceGroup.reap: kill what remains of the group and only then reap the anchor. *)
Reap ==
  /\ pc = "reap" /\ pc' = "judge"
  /\ IF unix THEN GroupKill("reap") ELSE UNCHANGED <<anchor, proc, writers, status, endedBy, strayKill>>
  /\ UNCHANGED <<config, ctx, grouped, output, waiting, outcome>>

-----------------------------------------------------------------------------
(* What it wrote. *)

(* An envelope's acquisition, each member by what it is told apart as, "absent" included; *)
(* "page" is the envelope's own: "true" of an array of items, "number" of anything else.  *)
Members == {"adapter", "endpoint", "statement", "snapshot", "peerIdentity", "schema", "upstreamToken",
            "observedAt", "transport", "server", "page", "descriptorProvenance", "unknown"}
Strings == {"text", "digest", "stamp", "https", "loopback", "tls", "http"}
Classes == Strings \cup {"absent", "null", "object", "extended", "true", "number"}

Plain == [m \in Members |->
            CASE m = "adapter" -> "object" [] m = "observedAt" -> "stamp"
              [] m \in {"transport", "server", "page", "descriptorProvenance", "unknown"} -> "absent"
              [] OTHER -> "null"]
Remote == [Plain EXCEPT !["transport"] = "http", !["server"] = "object", !["endpoint"] = "https",
                        !["peerIdentity"] = "tls"]
Envelopes == {[e EXCEPT ![m] = c] : e \in {Plain, Remote}, m \in Members, c \in Classes}

NullableString(v, form) == v = "null" \/ v \in form

(* remoteMembersProblem, where it is nil. *)
RemoteMembersHold(e, shape, exact) ==
  \/ e["transport"] = "absent" /\ e["server"] = "absent"
  \/ /\ shape = "mcp" /\ e["transport"] = "http"
     /\ e["server"] = "object" \/ (~exact /\ e["server"] = "extended")
     /\ \/ e["endpoint"] = "https" /\ e["peerIdentity"] = "tls"
        \/ e["endpoint"] = "loopback" /\ e["peerIdentity"] = "null"

RemoteMembersOnShape(e, shape) ==
  shape # "mcp" => e["transport"] = "absent" /\ e["server"] = "absent"

(* parseEnvelope, where it refuses nothing: no member but an envelope's own. *)
ParseEnvelope(e) ==
  /\ e["unknown"] = "absent" /\ e["descriptorProvenance"] = "absent"
  /\ e["page"] \in {"absent", "true"} /\ e["adapter"] = "object"
  /\ \A m \in {"endpoint", "snapshot", "peerIdentity", "upstreamToken", "statement"} :
       NullableString(e[m], Strings)
  /\ NullableString(e["schema"], {"digest"})
  /\ RemoteMembersHold(e, "mcp", TRUE) /\ e["observedAt"] = "stamp"

ReadEnvelope(e, shape) == ParseEnvelope(e) /\ RemoteMembersOnShape(e, shape)

(* The envelope's members; a statement as its salted commitment, a page as its items'     *)
(* digests.                                                                              *)
AdapterAcquisition(e) ==
  [e EXCEPT !["statement"] = IF @ = "null" THEN "null" ELSE "digest",
            !["page"] = IF @ = "absent" THEN "absent" ELSE "digest"]

CommandAcquisition == Plain

(* Verification's own reading of a stamped acquisition. *)
ValidateAcquisition(a, shape) ==
  /\ a["adapter"] \in {"object", "extended"}
  /\ a["descriptorProvenance"] = "absent" \/ (shape = "mcp" /\ a["descriptorProvenance"] = "object")
  /\ \A m \in {"endpoint", "snapshot", "peerIdentity", "upstreamToken"} : NullableString(a[m], Strings)
  /\ \A m \in {"statement", "schema"} : NullableString(a[m], {"digest"})
  /\ a["page"] \in {"absent", "digest"} /\ a["observedAt"] \in Strings
  /\ RemoteMembersHold(a, shape, FALSE)

-----------------------------------------------------------------------------
(* runSource's verdict, and the caller's. *)

(* A status of its own, where the platform tells a kill from an exit. *)
ExitedOnItsOwn == unix /\ waitErr = "exit" /\ status # "signal"

SourceTimedOut == cancelled /\ ctx = "deadline" /\ ~ExitedOnItsOwn

(* Mutant: an output that was left open counts as ended. *)
VerdictDelayIgnored ==
  CASE overflowed -> "overlong"
    [] ~overflowed /\ waitErr \notin {"delay", None} /\ SourceTimedOut -> "timedOut"
    [] ~overflowed /\ waitErr \notin {"delay", None} /\ ~SourceTimedOut -> "failed"
    [] OTHER -> "ended"

Verdict ==
  CASE overflowed -> "overlong"
    [] ~overflowed /\ waitErr = "delay" -> "leftOpen"
    [] ~overflowed /\ waitErr \notin {"delay", None} /\ SourceTimedOut -> "timedOut"
    [] ~overflowed /\ waitErr \notin {"delay", None} /\ ~SourceTimedOut -> "failed"
    [] OTHER -> "ended"

(* An output that ended is parsed; parsing it may fail. *)
Judge ==
  /\ pc = "judge"
  /\ IF Verdict = "ended"
       THEN \/ pc' = "read" /\ UNCHANGED answer
            \/ Refuse("notCanonical")
       ELSE Refuse(Verdict)
  /\ UNCHANGED <<config, ctx, processes, output, waiting, envelope, retained, stamped, strayKill>>

(* A declared shape's output is read as an envelope, and a pinned provenance is checked   *)
(* again against the endpoint it reports; then the caller must be able to receive the     *)
(* result.  Nothing is retained yet.                                                     *)
ReadOutput ==
  /\ pc = "read"
  /\ \E e \in IF spec.shape = "command" THEN {None} ELSE Envelopes :
       \/ /\ spec.shape # "command" => ReadEnvelope(e, spec.shape)
          /\ pc' = "stamp" /\ envelope' = e /\ UNCHANGED answer
       \/ spec.shape # "command" /\ ~ReadEnvelope(e, spec.shape) /\ Refuse("notEnvelope") /\ UNCHANGED envelope
       \/ spec.pinned /\ Refuse("unproven") /\ UNCHANGED envelope
       \/ Refuse("unreturnable") /\ UNCHANGED envelope
  /\ UNCHANGED <<config, ctx, processes, output, waiting, retained, stamped, strayKill>>

(* The acquisition of a version 3 receipt, the operator's own pin set on it last. *)
Acquisition ==
  LET a == IF envelope = None THEN CommandAcquisition ELSE AdapterAcquisition(envelope)
  IN [a EXCEPT !["descriptorProvenance"] = IF spec.pinned THEN "object" ELSE @]

(* The result retained, the salts drawn and the receipt stamped: any of them may fail,    *)
(* and a result that was retained stays.                                                 *)
Stamp ==
  /\ pc = "stamp" /\ retained' \in BOOLEAN
  /\ \/ Refuse("notStored") /\ UNCHANGED stamped
     \/ /\ retained' /\ pc' = "done" /\ answer' = "acquired"
        /\ stamped' = IF spec.version = "3" THEN Acquisition ELSE None
  /\ UNCHANGED <<config, ctx, processes, output, waiting, envelope, strayKill>>

Init ==
  /\ unix \in BOOLEAN /\ spec \in Specs
  /\ pc = "admit" /\ ctx = "live" /\ anchor = "none" /\ proc = [p \in Procs |-> "none"]
  /\ grouped = {} /\ writers = {} /\ status = None
  /\ written = 0 /\ copied = 0 /\ overflowed = FALSE /\ copying = "none"
  /\ watcher = "none" /\ cancelled = FALSE /\ waitErr = None
  /\ envelope = None /\ retained = FALSE /\ answer = None /\ stamped = None /\ endedBy = None /\ strayKill = FALSE

Gateway ==
  \/ Admit \/ Resolve \/ PrepareSourceProcess \/ Start \/ Collect \/ HandOver \/ AwaitGoroutines
  \/ Reap \/ Judge \/ ReadOutput \/ Stamp

Next ==
  \/ Gateway \/ Copy \/ CopyEnds \/ Cancel \/ WaitDelay
  \/ \E how \in {"deadline", "cancelled"} : ContextEnds(how)
  \/ \E p \in Procs : Write(p) \/ CloseOutput(p) \/ LeaveGroup(p)
  \/ \E p \in Procs, s \in {"zero", "nonzero", "signal"} : Exit(p, s)
  \/ Fork \/ SignalGroup

(* The gateway's own goroutines run, its timers fire; nothing is asked of the source. *)
Spec ==
  /\ Init /\ [][Next]_vars
  /\ WF_vars(Gateway) /\ WF_vars(Cancel) /\ WF_vars(WaitDelay) /\ WF_vars(ContextEnds("deadline"))

-----------------------------------------------------------------------------
(* A result is retained, and an acquisition answered with it, only of a source that       *)
(* exited with success, was not cancelled, and whose whole output was read to its end:    *)
(* never of one that was cut short, by the limit, by the deadline, or by a delay that     *)
(* passed while a child held the pipe.                                                   *)
ResultIsWhole ==
  retained \/ answer = "acquired" =>
    /\ retained /\ (spec.shape # "command" => spec.version = "3" /\ ReadEnvelope(envelope, spec.shape))
    /\ status = "zero" /\ endedBy = "itself" /\ ~cancelled
    /\ copying = "eof" /\ copied = written /\ written <= MaxSourceOutput

(* What a source is said to have done it did: one that could not be started never ran;    *)
(* a timeout is a deadline that passed before the exit was taken, never the report of a   *)
(* source that returned a failure of its own; and one the deadline's kill ended is not    *)
(* said to have failed.                                                                   *)
EndingIsTrue ==
  /\ answer \in {"notAdmitted", "notStarted"} <=> (pc = "done" /\ proc["source"] = "none")
  /\ answer = "timedOut" => ctx = "deadline" /\ cancelled /\ (unix => status # "nonzero")
  /\ answer = "failed" => ~(endedBy = "gateway" /\ ctx = "deadline")

(* Where there are process groups nothing that stayed in the source's survives its        *)
(* acquisition, its leader is reaped, and no kill is sent once the leader is.             *)
NothingSurvives ==
  /\ ~strayKill
  /\ pc \in {"judge", "read", "stamp", "done"} /\ unix =>
       anchor # "running" /\ \A p \in grouped : proc[p] # "alive"

(* Every acquisition the gateway stamps is one its verifier reads as well formed. *)
StampedVerifies ==
  stamped # None => ValidateAcquisition(stamped, spec.shape)

-----------------------------------------------------------------------------
(* The inductive invariant the properties follow from. *)

Before == {"admit", "resolve", "prepare", "start"}
Collected == {"watch", "pipes", "reap", "judge", "read", "stamp"}
Piped == {"reap", "judge", "read", "stamp"}
Reaped == {"judge", "read", "stamp"}
Reasons == {"notAdmitted", "notStarted", "overlong", "leftOpen", "timedOut", "failed", "notCanonical",
            "notEnvelope", "unproven", "unreturnable", "notStored", "acquired"}

TypeOK ==
  /\ unix \in BOOLEAN /\ spec \in Specs
  /\ pc \in Before \cup {"wait", "done"} \cup Collected
  /\ ctx \in {"live", "deadline", "cancelled"} /\ anchor \in {"none", "running", "zombie", "reaped"}
  /\ proc \in [Procs -> {"none", "alive", "dead"}] /\ grouped \in SUBSET Procs /\ writers \in SUBSET Procs
  /\ status \in {None, "zero", "nonzero", "signal"} /\ endedBy \in {None, "itself", "gateway"}
  /\ written \in Nat /\ copied \in Nat /\ overflowed \in BOOLEAN
  /\ copying \in {"none", "open", "eof", "closed"}
  /\ watcher \in {"none", "watching", "interrupted", "refused", "expired", "ended"}
  /\ cancelled \in BOOLEAN /\ waitErr \in {None, "exit", "context", "kill", "delay"}
  /\ envelope \in {None} \cup [Members -> Classes] /\ retained \in BOOLEAN
  /\ answer \in {None} \cup Reasons /\ strayKill \in BOOLEAN

(* Whether the program was started is what the phase and the answer say. *)
Started ==
  \/ pc \in {"wait"} \cup Collected
  \/ pc = "done" /\ answer \notin {"notAdmitted", "notStarted"}

PhaseInv ==
  /\ answer = None <=> pc # "done"
  /\ Started <=> proc["source"] # "none"
  /\ ~Started => /\ proc["child"] = "none" /\ status = None /\ written = 0 /\ copied = 0
                 /\ writers = {} /\ grouped = {} /\ copying = "none" /\ watcher = "none" /\ ~overflowed
                 /\ ~cancelled /\ waitErr = None
  /\ retained \/ stamped # None => pc = "done" /\ Started
  /\ pc # "admit" /\ answer # "notAdmitted" => (spec.shape # "command" => spec.version = "3")

(* The status is the exit's, and the kills of the gateway are cancellations of it. *)
ExitInv ==
  /\ proc["source"] = "dead" <=> status # None
  /\ status = None <=> endedBy = None
  /\ endedBy = "gateway" => status = "signal" /\ cancelled
  /\ pc \in Collected \/ (pc = "done" /\ Started) =>
       /\ proc["source"] = "dead"
       /\ waitErr = "exit" <=> status # "zero"
  /\ pc = "wait" => waitErr = None
  /\ pc = "watch" => waitErr \in {None, "exit"}

(* The watcher stops with its answer, which a clean exit does not hide. *)
WatchInv ==
  /\ watcher = "refused" => proc["source"] = "dead"
  /\ watcher = "interrupted" /\ pc = "wait" => cancelled
  /\ watcher = "watching" => ~cancelled
  /\ watcher = "expired" => status = "signal"
  /\ pc \in {"pipes"} \cup Piped \/ (pc = "done" /\ Started) =>
       watcher = "ended" /\ (waitErr \in {None, "delay"} => ~cancelled)

(* The output read to its end is whole; one that was closed under its copy is an error. *)
OutputInv ==
  /\ copied <= written /\ (overflowed <=> copied > MaxSourceOutput)
  /\ copying = "eof" => writers = {} /\ copied = written
  /\ copying = "closed" => IF pc = "wait" THEN status = "signal" ELSE waitErr # None
  /\ Started => copying # "none"
  /\ pc \in Piped \cup {"done"} => copying # "open"

(* The group is killed while its leader is held, and nothing joins it afterwards. *)
GroupInv ==
  /\ ~strayKill
  /\ pc \in Before \ {"start"} => anchor = "none"
  /\ anchor = "reaped" => pc \in Reaped \cup {"done"}
  /\ pc \in Reaped \cup {"done"} /\ unix =>
       anchor # "running" /\ \A p \in grouped : proc[p] # "alive"

(* What is read, retained and stamped rests on an output that ended. *)
ReadInv ==
  /\ pc \in {"read", "stamp"} \/ retained \/ answer = "acquired" => waitErr = None /\ ~overflowed
  /\ pc = "stamp" \/ retained \/ answer = "acquired" =>
       IF spec.shape = "command" THEN envelope = None
       ELSE envelope \in [Members -> Classes] /\ ReadEnvelope(envelope, spec.shape)
  /\ answer = "acquired" => retained

SourceInv ==
  /\ TypeOK /\ PhaseInv /\ ExitInv /\ WatchInv /\ OutputInv /\ GroupInv /\ ReadInv
  /\ EndingIsTrue /\ StampedVerifies

(* A source that never ends, closes nothing and ignores everything is answered for. *)
Answered == <>(answer # None)
=============================================================================
