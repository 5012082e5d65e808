---------------------------- MODULE StoragePlans ----------------------------
(***************************************************************************)
(* Changes to a person's files (adapters/connections/storage*.go): a       *)
(* change is prepared against a revision, recorded as the custody's one    *)
(* intent, and committed by its ID.  Several brokers share the custody;    *)
(* each section under state.lock is one step, a broker may stop between    *)
(* any two steps, and what it asks of the provider may be done and its     *)
(* answer lost.                                                            *)
(*                                                                         *)
(* One file stands for the target.  A revision is a number; the connection *)
(* and its epoch are one number too, since a plan is held to both.  The    *)
(* grant a Drive change needs is Grants'.                                  *)
(***************************************************************************)
EXTENDS Naturals, FiniteSets

CONSTANTS
  Brokers,
  Providers,                     \* of "google-drive", "aws-s3", "obsidian"
  MaxPlans, MaxEpoch, MaxEdits,  \* bounds
  None

VARIABLES
  provider,
  epoch,        \* the connection and its epoch; it changes when either does
  intent,       \* storage-intent.json
  file,         \* the target: a revision, or None where there is none
  next,         \* the next revision a change makes
  kept,         \* revisions .jpack-history and .jpack-trash hold
  broker,       \* what each broker is doing
  plans, edits,
  applied,      \* history: each plan's changes, and the revision each replaced
  times,        \* history: how often each plan was applied
  told          \* history: the states a commit answered with, for each plan

store == <<epoch, intent>>
target == <<file, next, kept>>
history == <<applied, times, told>>
vars == <<provider, store, target, broker, plans, edits, history>>

Plan == 1 .. MaxPlans
Idle == [pc |-> "idle"]
Local == provider = "obsidian"

Goto(b, r) == broker' = [broker EXCEPT ![b] = r]
At(b, pc) == broker[b].pc = pc

-----------------------------------------------------------------------------
(* files-prepare, to storagePreflight: the file as it is, outside the lock. *)
Preflight(b, action) ==
  /\ At(b, "idle") /\ plans < MaxPlans
  /\ (action = "create") = (file = None)
  /\ Goto(b, [pc |-> "preflight", action |-> action, revision |-> file, epoch |-> epoch])
  /\ UNCHANGED <<provider, store, target, plans, edits, history>>

Uncertain(i) == i # None /\ i.state \in {"executing", "needs-attention"} /\ i.epoch = epoch

(* files-prepare, its lock. *)
Prepare(b) ==
  LET me == broker[b] IN
  /\ At(b, "preflight") /\ plans < MaxPlans
  /\ IF me.epoch = epoch /\ ~Uncertain(intent)
       THEN /\ plans' = plans + 1
            /\ intent' = [id |-> plans + 1, action |-> me.action, revision |-> me.revision,
                          epoch |-> epoch, state |-> "prepared", live |-> TRUE]
       ELSE UNCHANGED <<plans, intent>>
  /\ Goto(b, Idle)
  /\ UNCHANGED <<provider, epoch, target, edits, history>>

(* Five minutes go by. *)
Lapse ==
  /\ intent # None /\ intent.state = "prepared" /\ intent.live
  /\ intent' = [intent EXCEPT !.live = FALSE]
  /\ UNCHANGED <<provider, epoch, target, broker, plans, edits, history>>

(* storedPlan. *)
Stored(state) == IF state = "executing" THEN "needs-attention" ELSE state

Tell(id, state) == told' = [told EXCEPT ![id] = @ \cup {state}]

(* files-commit, its first lock: a plan that is not prepared is answered    *)
(* with what is stored of it.                                               *)
Commit(b) ==
  /\ At(b, "idle") /\ intent # None /\ intent.epoch = epoch
  /\ IF intent.state # "prepared"
       THEN Tell(intent.id, Stored(intent.state)) /\ UNCHANGED broker
       ELSE /\ intent.live /\ UNCHANGED told
            /\ Goto(b, [pc |-> "committing", plan |-> intent, epoch |-> epoch])
  /\ UNCHANGED <<provider, store, target, plans, edits, applied, times>>

(* Mutant: the plan read before is taken for the plan that is held. *)
ClaimBlind(b) ==
  LET me == broker[b] IN
  /\ At(b, "committing")
  /\ IF intent.id # me.plan.id
       THEN Goto(b, Idle) /\ UNCHANGED intent
       ELSE /\ intent' = [me.plan EXCEPT !.state = "executing"]
            /\ Goto(b, [me EXCEPT !.pc = "apply"])
  /\ UNCHANGED <<provider, epoch, target, plans, edits, history>>

(* files-commit, its claim: durable before anything is sent. *)
Claim(b) ==
  LET me == broker[b] IN
  /\ At(b, "committing")
  /\ IF me.epoch # epoch \/ intent.id # me.plan.id
       THEN Goto(b, Idle) /\ UNCHANGED <<intent, told>>
       ELSE IF intent.state # "prepared"
       THEN Goto(b, Idle) /\ Tell(me.plan.id, Stored(intent.state)) /\ UNCHANGED intent
       ELSE IF ~intent.live
       THEN Goto(b, Idle) /\ UNCHANGED <<intent, told>>
       ELSE /\ intent' = [me.plan EXCEPT !.state = "executing"]
            /\ Goto(b, [me EXCEPT !.pc = "apply"]) /\ UNCHANGED told
  /\ UNCHANGED <<provider, epoch, target, plans, edits, applied, times>>

-----------------------------------------------------------------------------
(* The change itself: what it replaces is recorded.  A create makes a       *)
(* revision, an update another, a delete none.                              *)
Change(p) ==
  /\ file' = IF p.action = "delete" THEN None ELSE next
  /\ next' = next + 1
  /\ applied' = [applied EXCEPT ![p.id] = @ \cup {[plan |-> p, was |-> file]}]
  /\ times' = [times EXCEPT ![p.id] = @ + 1]

NoChange == UNCHANGED <<file, next, applied, times>>

Outcome(b, o) ==
  Goto(b, [pc |-> "settle", plan |-> broker[b].plan, epoch |-> broker[b].epoch, outcome |-> o])

(* storageApply: the connection is asked again before anything is sent. *)
ApplyChecked(b) ==
  /\ At(b, "apply")
  /\ IF broker[b].epoch # epoch THEN Outcome(b, "refused")
     ELSE Goto(b, [broker[b] EXCEPT !.pc = IF Local THEN "local" ELSE
                     IF provider = "aws-s3" \/ broker[b].plan.action = "create" THEN "send" ELSE "inspect"])
  /\ UNCHANGED <<provider, store, target, plans, edits, history>>

(* driveStorageApply, to its request: the file is looked at again. *)
DriveInspect(b) ==
  /\ At(b, "inspect")
  /\ \/ file # broker[b].plan.revision /\ Outcome(b, "refused")
     \/ file = broker[b].plan.revision /\ Goto(b, [broker[b] EXCEPT !.pc = "send"])
     \/ Outcome(b, "needs-attention")                   \* ErrProvider
  /\ UNCHANGED <<provider, store, target, plans, edits, history>>

(* The provider's answer to a conditional request (If-Match on the          *)
(* revision, If-None-Match or an ID of its own for a create), which may be  *)
(* lost whether or not the change was made; 403 is refused too.             *)
Answers(b) ==
  LET p == broker[b].plan holds == file = p.revision IN
  \/ holds /\ Change(p) /\ \E o \in {"completed", "needs-attention"} : Outcome(b, o)
  \/ NoChange /\ Outcome(b, "needs-attention")
  \/ NoChange /\ Outcome(b, "refused")

(* driveStorageApply and s3StorageWrite, from the request on. *)
ConditionalWrite(b) ==
  /\ At(b, "send") /\ Answers(b)
  /\ UNCHANGED <<provider, store, kept, plans, edits, told>>

(* localStorageApply: a create is exclusive, its write or sync may fail     *)
(* once the file is there.                                                  *)
LocalCreate(b) ==
  /\ At(b, "local") /\ broker[b].plan.action = "create"
  /\ \/ file # None /\ NoChange /\ Outcome(b, "refused")
     \/ /\ file = None /\ Change(broker[b].plan)
        /\ \E o \in {"completed", "needs-attention"} : Outcome(b, o)
     \/ file = None /\ NoChange /\ Outcome(b, "needs-attention")
  /\ UNCHANGED <<provider, store, kept, plans, edits, told>>

(* localStorageApply, an update or a delete: the file is read and compared. *)
LocalRead(b) ==
  /\ At(b, "local") /\ broker[b].plan.action # "create"
  /\ IF file # broker[b].plan.revision THEN Outcome(b, "refused")
     ELSE Goto(b, [broker[b] EXCEPT !.pc = broker[b].plan.action])
  /\ UNCHANGED <<provider, store, target, plans, edits, history>>

(* localStorageTrash: whatever is there is moved, and its directories       *)
(* synced.                                                                  *)
LocalTrash(b) ==
  /\ At(b, "delete")
  /\ \/ /\ file # None /\ Change(broker[b].plan) /\ kept' = kept \cup {file}
        /\ \E o \in {"completed", "needs-attention"} : Outcome(b, o)
     \/ NoChange /\ UNCHANGED kept /\ \E o \in {"refused", "needs-attention"} : Outcome(b, o)
  /\ UNCHANGED <<provider, store, plans, edits, told>>

(* localStorageApply, an update: the bytes it read are kept first. *)
LocalBackup(b) ==
  /\ At(b, "update")
  /\ \/ kept' = kept \cup {broker[b].plan.revision} /\ Goto(b, [broker[b] EXCEPT !.pc = "recheck"])
     \/ UNCHANGED kept /\ \E o \in {"refused", "needs-attention"} : Outcome(b, o)
  /\ UNCHANGED <<provider, store, file, next, plans, edits, history>>

LocalRecheck(b) ==
  /\ At(b, "recheck")
  /\ IF file # broker[b].plan.revision THEN Outcome(b, "refused")
     ELSE Goto(b, [broker[b] EXCEPT !.pc = "rename"])
  /\ UNCHANGED <<provider, store, target, plans, edits, history>>

(* The rename replaces what is there, compared or not (storage_local.go:269). *)
LocalRename(b) ==
  /\ At(b, "rename")
  /\ \/ Change(broker[b].plan) /\ \E o \in {"completed", "needs-attention"} : Outcome(b, o)
     \/ NoChange /\ Outcome(b, "needs-attention")
  /\ UNCHANGED <<provider, store, kept, plans, edits, told>>

(* files-commit, its last lock: the outcome is recorded over the claim, if  *)
(* the claim is still what is held.                                         *)
Settle(b) ==
  LET me == broker[b] IN
  /\ At(b, "settle")
  /\ IF intent.id # me.plan.id THEN UNCHANGED <<intent, told>>
     ELSE \/ intent' = [me.plan EXCEPT !.state = me.outcome] /\ Tell(me.plan.id, me.outcome)
          \/ UNCHANGED intent /\ Tell(me.plan.id, "needs-attention")
  /\ Goto(b, Idle)
  /\ UNCHANGED <<provider, epoch, target, plans, edits, applied, times>>

-----------------------------------------------------------------------------
(* A broker stops; a connection is revoked, or made again; the person, or   *)
(* another program, edits the file.                                         *)
Stop(b) ==
  /\ ~At(b, "idle") /\ Goto(b, Idle)
  /\ UNCHANGED <<provider, store, target, plans, edits, history>>

Reconnect ==
  /\ epoch < MaxEpoch /\ epoch' = epoch + 1
  /\ UNCHANGED <<provider, intent, target, broker, plans, edits, history>>

Edit ==
  /\ edits < MaxEdits /\ edits' = edits + 1
  /\ file' \in {next, None} \ {file} /\ next' = next + 1
  /\ UNCHANGED <<provider, store, kept, broker, plans, history>>

Init ==
  /\ provider \in Providers /\ epoch = 1 /\ intent = None
  /\ file \in {None, 1} /\ next = 2 /\ kept = {}
  /\ broker = [b \in Brokers |-> Idle] /\ plans = 0 /\ edits = 0
  /\ applied = [p \in Plan |-> {}] /\ times = [p \in Plan |-> 0] /\ told = [p \in Plan |-> {}]

BrokerStep(b) ==
  \/ \E a \in {"create", "update", "delete"} : Preflight(b, a)
  \/ Prepare(b) \/ Commit(b) \/ Claim(b) \/ ApplyChecked(b) \/ DriveInspect(b)
  \/ ConditionalWrite(b) \/ LocalCreate(b) \/ LocalRead(b) \/ LocalTrash(b) \/ LocalBackup(b)
  \/ LocalRecheck(b) \/ LocalRename(b) \/ Settle(b) \/ Stop(b)

Next == (\E b \in Brokers : BrokerStep(b)) \/ Lapse \/ Reconnect \/ Edit

Spec == Init /\ [][Next]_vars

-----------------------------------------------------------------------------
(* What is said of a plan is so, whoever commits it, whoever stops, and     *)
(* whatever answer is lost: a plan is applied at most once; one answered    *)
(* as refused never was, nor ever will be, and one answered as completed    *)
(* was; a conditional provider's change replaced the very revision it was   *)
(* prepared against; and a local delete keeps what it took away.            *)
PlansAreTrue ==
  /\ \A p \in Plan :
       /\ times[p] <= 1
       /\ "refused" \in told[p] => times[p] = 0
       /\ "completed" \in told[p] => times[p] = 1
  /\ intent # None =>
       /\ intent.state = "refused" => times[intent.id] = 0
       /\ intent.state = "completed" => times[intent.id] = 1
  /\ \A p \in Plan : \A x \in applied[p] :
       IF Local THEN x.plan.action = "delete" => x.was \in kept
                ELSE x.was = x.plan.revision

-----------------------------------------------------------------------------
(* The inductive invariant behind it. *)

Actions == {"create", "update", "delete"}
Outcomes == {"completed", "refused", "needs-attention"}
Revisions == Nat \cup {None}
PlanRecords ==
  [id : Plan, action : Actions, revision : Revisions, epoch : Nat,
   state : {"prepared", "executing"} \cup Outcomes, live : BOOLEAN]

Remote == {"inspect", "send"}
Updating == {"update", "recheck", "rename"}
Applying == {"apply", "local", "delete"} \cup Remote \cup Updating

BrokerRecords ==
  [pc : {"idle"}]
    \cup [pc : {"preflight"}, action : Actions, revision : Revisions, epoch : Nat]
    \cup [pc : {"committing"} \cup Applying, plan : PlanRecords, epoch : Nat]
    \cup [pc : {"settle"}, plan : PlanRecords, epoch : Nat, outcome : Outcomes]

TypeOK ==
  /\ epoch \in Nat /\ next \in Nat /\ file \in Revisions /\ plans \in 0 .. MaxPlans
  /\ broker \in [Brokers -> BrokerRecords]
  /\ times \in [Plan -> Nat] /\ told \in [Plan -> SUBSET Outcomes]
  /\ applied \in [Plan -> SUBSET [plan : PlanRecords, was : Revisions]]

(* At work on a plan, from its claim to the record of its outcome. *)
WorksOn(r, p) == r.pc \in Applying \cup {"settle"} /\ r.plan.id = p
Unworked(p) == \A b \in Brokers : ~ WorksOn(broker[b], p)

(* The intent is the last plan there was, and as long as it is prepared     *)
(* nobody has begun it.                                                     *)
IntentInv ==
  /\ intent # None => plans > 0
  /\ plans > 0 => intent \in PlanRecords /\ intent.id = plans
  /\ plans > 0 /\ intent.state = "prepared" => Unworked(plans)
  /\ \A p \in Plan : p > plans \/ (p = plans /\ intent.state = "prepared")
                       => times[p] = 0 /\ told[p] = {}

(* What is final of a plan, said or recorded. *)
Final(p, o) == o \in told[p] \/ (p = plans /\ intent.state = o)

FinalInv ==
  \A p \in Plan :
    /\ times[p] <= 1
    /\ Final(p, "refused") => times[p] = 0 /\ Unworked(p)
    /\ Final(p, "completed") => times[p] = 1 /\ Unworked(p)

(* A broker works on a plan there was, and until it settles has changed     *)
(* nothing.                                                                 *)
BrokerOK(r) ==
  /\ r.pc \in {"committing", "settle"} \cup Applying => r.plan.id <= plans
  /\ r.pc \in Applying => times[r.plan.id] = 0
  /\ r.pc = "settle" /\ r.outcome = "refused" => times[r.plan.id] = 0
  /\ r.pc = "settle" /\ r.outcome = "completed" => times[r.plan.id] = 1
  /\ r.pc \in Remote => ~ Local
  /\ r.pc \in {"local", "delete"} \cup Updating => Local
  /\ r.pc = "delete" => r.plan.action = "delete"
  /\ r.pc \in Updating => r.plan.action = "update"

(* It works alone. *)
OneWorks ==
  \A p \in Plan : \A b, c \in Brokers :
    WorksOn(broker[b], p) /\ WorksOn(broker[c], p) => b = c

AppliedInv ==
  \A p \in Plan : \A x \in applied[p] :
    IF Local THEN x.plan.action = "delete" => x.was \in kept
             ELSE x.was = x.plan.revision

PlanInv ==
  TypeOK /\ IntentInv /\ FinalInv /\ (\A b \in Brokers : BrokerOK(broker[b])) /\ OneWorks /\ AppliedInv
=============================================================================
