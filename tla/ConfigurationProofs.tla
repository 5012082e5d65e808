------------------------- MODULE ConfigurationProofs -------------------------
(***************************************************************************)
(* What is proved of what an operator sets up (module MCConfiguration).    *)
(* Each theorem is about a part of it, which no step changes.              *)
(***************************************************************************)
EXTENDS MCConfiguration, FiniteSetTheorems, TLAPS

-----------------------------------------------------------------------------
(* The start. *)

(* Only an engine that was not refused runs anything; and what was read is  *)
(* the property itself, of each process that has run.                       *)
StartInv ==
  /\ "seed" \notin DOMAIN dep.platforms
  /\ phase = "running" => Start!Starts(dep)
  /\ phase # "running" => seen = {}
  /\ Start!Isolated

(* Every platform has a user of its own, and its files are that user's. *)
LEMMA UsersApart ==
  ASSUME Start!Starts(dep), NEW n \in DOMAIN dep.platforms
  PROVE  /\ dep.platforms[n].user \notin {"root", "frontend", dep.host.euid}
         /\ \A m \in DOMAIN dep.platforms : dep.platforms[m].user = dep.platforms[n].user => m = n
         /\ \A name \in DOMAIN dep.platforms[n].files :
              dep.platforms[n].files[name].owner = dep.platforms[n].user /\ dep.platforms[n].files[name].private
         /\ DOMAIN dep.platforms[n].files = Start!Offered(dep.platforms[n])
  BY DEF Start!Starts, Start!EngineRefusals, Start!UserRefusal, Start!FileRefusal, Start!Resolves

(* A file that can be read: the seed, or a platform's. *)
LEMMA FilesAre ==
  ASSUME Start!Starts(dep), "seed" \notin DOMAIN dep.platforms, NEW f \in Start!Files(dep)
  PROVE  \/ f[1] = "seed" /\ Start!File(dep, f).owner = dep.host.euid /\ Start!File(dep, f).private
         \/ /\ f[1] # "seed" /\ f[1] \in DOMAIN dep.platforms
            /\ Start!File(dep, f).owner = dep.platforms[f[1]].user /\ Start!File(dep, f).private
<1>1. CASE f = <<"seed", "seed">>
  BY <1>1 DEF Start!Starts, Start!EngineRefusals, Start!FileRefusal, Start!File
<1>2. CASE f \in Start!SourceNames(dep)
  <2>1. PICK n \in DOMAIN dep.platforms : f \in {<<n, name>> : name \in Start!Offered(dep.platforms[n])}
    BY <1>2 DEF Start!SourceNames
  <2>2. PICK name \in Start!Offered(dep.platforms[n]) : f = <<n, name>>
    BY <2>1
  <2>3. Start!File(dep, f) = dep.platforms[n].files[name] /\ f[1] = n
    BY <2>2 DEF Start!File
  <2> QED BY <2>2, <2>3, UsersApart
<1> QED BY <1>1, <1>2 DEF Start!Files

(* What a process comes to read is its own. *)
Own(who, f) ==
  \/ f[1] = "seed" /\ who = <<dep.host.euid, "own">>
  \/ f[1] # "seed" /\ who[1] = f[1]
  \/ who = <<"root", "own">> /\ dep.host.rootAccepted
  \/ dep.host.socket /\ dep.host.socketAccepted /\ who \in Start!SourceNames(dep)

LEMMA SourceReadsOwn ==
  ASSUME Start!Starts(dep), "seed" \notin DOMAIN dep.platforms, NEW s \in Start!SourceNames(dep),
         NEW f \in Start!Readable(dep, dep.platforms[s[1]].user, "source")
  PROVE  Own(s, f)
<1>1. PICK n \in DOMAIN dep.platforms : s \in {<<n, name>> : name \in Start!Offered(dep.platforms[n])}
  BY DEF Start!SourceNames
<1>2. s[1] = n
  BY <1>1
<1>3. f \in Start!Files(dep)
  BY DEF Start!Readable
<1>4. CASE dep.host.socket
  <2>1. dep.host.socketAccepted
    BY <1>4 DEF Start!Starts, Start!EngineRefusals
  <2> QED BY <1>4, <2>1 DEF Own
<1>5. CASE ~dep.host.socket
  <2>1. dep.host.euid = "root" \/ ~dep.host.ambient
    BY DEF Start!Starts, Start!EngineRefusals, Start!CapabilityRefusal
  <2>2. Start!File(dep, f).owner = dep.platforms[n].user \/ ~Start!File(dep, f).private
    BY <1>2, <1>5, <2>1, UsersApart DEF Start!Readable, Start!ReadsAll
  <2> QED BY <1>2, <1>3, <2>2, UsersApart, FilesAre DEF Own
<1> QED BY <1>4, <1>5

LEMMA StrayReadsOwn ==
  ASSUME Start!Starts(dep), "seed" \notin DOMAIN dep.platforms, NEW n \in DOMAIN dep.platforms,
         NEW f \in Start!Readable(dep, dep.platforms[n].user, "stray")
  PROVE  Own(<<n, "stray">>, f)
<1>1. f \in Start!Files(dep)
  BY DEF Start!Readable
<1>2. ~(dep.host.fileCaps /\ dep.host.othersExecute)
  BY DEF Start!Starts, Start!EngineRefusals, Start!BinaryRefusal
<1>3. Start!File(dep, f).owner = dep.platforms[n].user \/ ~Start!File(dep, f).private
  BY <1>2, UsersApart DEF Start!Readable, Start!ReadsAll
<1> QED BY <1>1, <1>3, UsersApart, FilesAre DEF Own

LEMMA OwnReadsOwn ==
  ASSUME Start!Starts(dep), "seed" \notin DOMAIN dep.platforms, NEW uid \in {dep.host.euid, "frontend"},
         NEW f \in Start!Readable(dep, uid, "own")
  PROVE  Own(<<uid, "own">>, f)
<1>1. f \in Start!Files(dep)
  BY DEF Start!Readable
<1>2. CASE uid = "root"
  BY <1>2 DEF Own, Start!Starts, Start!EngineRefusals
<1>3. CASE uid # "root"
  <2>1. ~(uid = dep.host.euid /\ dep.host.dac)
    BY <1>3 DEF Start!Starts, Start!EngineRefusals, Start!CapabilityRefusal
  <2>2. Start!File(dep, f).owner = uid \/ ~Start!File(dep, f).private
    BY <1>3, <2>1 DEF Start!Readable, Start!ReadsAll
  <2> QED BY <1>1, <2>2, UsersApart, FilesAre DEF Own
<1> QED BY <1>2, <1>3

LEMMA RunsKeep ==
  ASSUME NEW who, NEW uid, NEW how, StartInv, Start!Runs(who, uid, how),
         \A f \in Start!Readable(dep, uid, how) : Own(who, f)
  PROVE  StartInv'
<1>1. dep' = dep /\ phase' = phase /\ phase = "running" /\ seen' = seen \cup ({who} \X Start!Readable(dep, uid, how))
  BY DEF Start!Runs
<1>2. Start!Isolated'
  BY <1>1 DEF Start!Isolated, StartInv, Own, Start!SourceNames, Start!Offered
<1> QED BY <1>1, <1>2 DEF StartInv, Start!Starts, Start!ParseHeader

LEMMA StartMoves ==
  ASSUME StartInv, Start!Next
  PROVE  StartInv'
<1>1. CASE Start!Start
  BY <1>1 DEF Start!Start, StartInv, Start!Isolated, Start!Starts, Start!SourceNames, Start!Offered
<1>2. CASE Start!RunSource
  <2>1. PICK s \in Start!SourceNames(dep) : Start!Runs(s, dep.platforms[s[1]].user, "source")
    BY <1>2 DEF Start!RunSource
  <2>2. Start!Starts(dep) /\ "seed" \notin DOMAIN dep.platforms
    BY <2>1 DEF Start!Runs, StartInv
  <2>3. \A f \in Start!Readable(dep, dep.platforms[s[1]].user, "source") : Own(s, f)
    BY <2>2, SourceReadsOwn
  <2> QED BY <2>1, <2>3, RunsKeep
<1>3. CASE Start!RunStray
  <2>1. PICK n \in DOMAIN dep.platforms : Start!Runs(<<n, "stray">>, dep.platforms[n].user, "stray")
    BY <1>3 DEF Start!RunStray
  <2>2. Start!Starts(dep) /\ "seed" \notin DOMAIN dep.platforms
    BY <2>1 DEF Start!Runs, StartInv
  <2>3. \A f \in Start!Readable(dep, dep.platforms[n].user, "stray") : Own(<<n, "stray">>, f)
    BY <2>2, StrayReadsOwn
  <2> QED BY <2>1, <2>3, RunsKeep
<1>4. CASE Start!RunOwn
  <2>1. PICK uid \in {dep.host.euid, "frontend"} : Start!Runs(<<uid, "own">>, uid, "own")
    BY <1>4 DEF Start!RunOwn
  <2>2. Start!Starts(dep) /\ "seed" \notin DOMAIN dep.platforms
    BY <2>1 DEF Start!Runs, StartInv
  <2>3. \A f \in Start!Readable(dep, uid, "own") : Own(<<uid, "own">>, f)
    BY <2>2, OwnReadsOwn
  <2> QED BY <2>1, <2>3, RunsKeep
<1> QED BY <1>1, <1>2, <1>3, <1>4 DEF Start!Next

(* Whichever of the engine and a binding named the policy and the           *)
(* workspace, validateEngineSandbox has compared the two.                   *)
LEMMA PoliciesAreApart ==
  ASSUME Start!Starts(dep)
  PROVE  Start!Enclosed(dep) =>
           \A s, t \in Start!SourceNames(dep) : ~Start!Within(Start!Policy(dep, s), Start!Workspace(dep, t))
<1> SUFFICES ASSUME Start!Enclosed(dep), NEW s \in Start!SourceNames(dep), NEW t \in Start!SourceNames(dep)
             PROVE  ~Start!Within(Start!Policy(dep, s), Start!Workspace(dep, t))
  OBVIOUS
<1> DEFINE op(x) == dep.platforms[x[1]].binding.ops[x[2]]
           own == dep.sandbox.workspaces
           workspaces == {own[x] : x \in DOMAIN own} \cup {op(x).workspace : x \in Start!Commands(dep)}
           policies == {dep.sandbox.policy} \cup
             (IF dep.sandbox.policy = Start!NoPath THEN {op(x).policy : x \in Start!Commands(dep)} ELSE {})
<1>1. \A policy \in policies, workspace \in workspaces : ~Start!Within(policy, workspace)
  BY DEF Start!Starts, Start!SandboxValid
<1>2. Start!Policy(dep, s) \in policies
  BY DEF Start!Policy, Start!Commands
<1>3. Start!Workspace(dep, t) \in workspaces \/ Start!Workspace(dep, t) = Start!NoPath
  BY DEF Start!Workspace, Start!Commands
<1> QED BY <1>1, <1>2, <1>3 DEF Start!Within

LEMMA StartHolds ==
  ASSUME StartInv
  PROVE  Start!Isolated /\ Start!PolicyOutOfReach
BY PoliciesAreApart DEF StartInv, Start!PolicyOutOfReach

(* No adapter reads the seed or another platform's credentials, neither the *)
(* MCP server nor a signer that is not root reads any credentials, and no   *)
(* sandbox's policy lies in a workspace, whatever is deployed               *)
(* (engineRefusals, requireUserSwitching, validateEngineSandbox).           *)
THEOREM SourcesStayApart == Spec => []SourcesAreApart
<1> DEFINE Inv == part = "start" => StartInv
<1>1. Init => Inv
  BY StartAssumption DEF Init, Start!Init, StartInv, Start!Isolated
<1>2. Inv /\ [Next]_vars => Inv'
  <2> SUFFICES ASSUME Inv, [Next]_vars, part' = "start" PROVE StartInv'
    OBVIOUS
  <2>1. CASE UNCHANGED <<part, startVars>>
    BY <2>1 DEF startVars, StartInv, Start!Isolated, Start!Starts, Start!SourceNames, Start!Offered
  <2>2. CASE part = "start" /\ Start!Next
    BY <2>2, StartMoves
  <2> QED BY <2>1, <2>2 DEF Next, vars
<1>3. Inv => SourcesAreApart
  BY StartHolds DEF SourcesAreApart
<1> QED BY <1>1, <1>2, <1>3, PTL DEF Spec

-----------------------------------------------------------------------------
(* The configuration and its snapshots. *)

(* What a step of another, of the operator or of the catalog leaves a       *)
(* connect: its own fields, the lock, and the configuration it read or an   *)
(* edit it can tell of.                                                     *)
LEMMA Undisturbed ==
  ASSUME Connect!Shape, NEW d \in Connects, Connect!ConnectInv(d), proc'[d] = proc[d],
         proc[d].pc \in Connect!Locked => lock' = lock,
         durable \subseteq durable', snaps \subseteq snaps', edits' \in Nat, edits' >= edits,
         proc[d].pc = "checked" => config' = config \/ edits' > edits
  PROVE  Connect!ConnectInv(d)'
  BY DEF Connect!ConnectInv, Connect!Shape, Connect!Judged, Connect!Locked

(* A run that moves is still one. *)
LEMMA RunMoves ==
  ASSUME Connect!RunsShape, NEW c \in Connect!Procs, NEW q, Connect!IsRun(q), proc' = [proc EXCEPT ![c] = q]
  PROVE  Connect!RunsShape' /\ proc'[c] = q /\ \A d \in Connect!Procs \ {c} : proc'[d] = proc[d]
<1>1. proc = [d \in Connect!Procs |-> proc[d]] /\ \A d \in Connect!Procs : Connect!IsRun(proc[d])
  BY DEF Connect!RunsShape
<1>2. proc'[c] = q /\ \A d \in Connect!Procs \ {c} : proc'[d] = proc[d]
  BY <1>1
<1>3. proc' = [d \in Connect!Procs |-> proc'[d]]
  BY <1>1
<1>4. \A d \in Connect!Procs : Connect!IsRun(proc'[d])
  BY <1>1, <1>2
<1> QED BY <1>2, <1>3, <1>4 DEF Connect!RunsShape, Connect!IsRun, Connect!IsReading

(* A run at another step, and otherwise as it was. *)
LEMMA RunGoes ==
  ASSUME NEW q, Connect!IsRun(q), NEW pc, NEW m, m = [q EXCEPT !.pc = pc]
  PROVE  /\ Connect!IsRun(m) /\ m.pc = pc /\ m.req = q.req /\ m.reading = q.reading /\ m.read = q.read
         /\ m.entry = q.entry /\ m.seen = q.seen
  BY DEF Connect!IsRun, Connect!IsReading

LEMMA RunIdle == Connect!IsRun(Connect!Idle) /\ Connect!Idle.pc = "idle"
  BY DEF Connect!IsRun, Connect!Idle, Connect!IsReading, Connect!NoRecord

(* A step of one run that leaves the configuration as it is. *)
LEMMA RunStep ==
  ASSUME Connect!ConfigInv, NEW c \in Connect!Procs, NEW q, Connect!IsRun(q), proc' = [proc EXCEPT ![c] = q],
         \A d \in Connects \ {c} : proc[d].pc \in Connect!Locked => lock' = lock,
         UNCHANGED <<config, kept, edits>>, Connect!RecordsShape',
         durable \subseteq durable', snaps \subseteq snaps', durable' \subseteq snaps',
         c \in Connects => Connect!ConnectInv(c)'
  PROVE  Connect!ConfigInv'
<1>1. Connect!RunsShape' /\ \A d \in Connects \ {c} : proc'[d] = proc[d]
  BY RunMoves DEF Connect!ConfigInv, Connect!Shape, Connect!Procs
<1>2. Connect!Shape'
  BY <1>1 DEF Connect!ConfigInv, Connect!Shape, Connect!IsConfig, Connect!IsEntry
<1>3. Connect!KeptInv'
  BY DEF Connect!ConfigInv, Connect!KeptInv, Connect!Named, Connect!PinsOf
<1>4. ASSUME NEW d \in Connects PROVE Connect!ConnectInv(d)'
  <2>1. CASE d = c
    BY <2>1
  <2>2. CASE d # c
    <3>1. Connect!Shape /\ Connect!ConnectInv(d) /\ edits \in Nat /\ edits' >= edits
      BY DEF Connect!ConfigInv, Connect!Shape
    <3> QED BY <1>1, <2>2, <3>1, Undisturbed
  <2> QED BY <2>1, <2>2
<1> QED BY <1>2, <1>3, <1>4 DEF Connect!ConfigInv

(* One that ends lets the lock go, if it is its own. *)
LEMMA RunEnds ==
  ASSUME Connect!ConfigInv, NEW c \in Connect!Procs, Connect!End(c), UNCHANGED <<config, kept, edits, snaps, durable>>,
         Connect!RecordsShape'
  PROVE  Connect!ConfigInv'
<1>1. proc' = [proc EXCEPT ![c] = Connect!Idle] /\ lock' = IF lock = c THEN None ELSE lock
  BY DEF Connect!End
<1>2. \A d \in Connects \ {c} : proc[d].pc \in Connect!Locked => lock' = lock
  BY <1>1 DEF Connect!ConfigInv, Connect!ConnectInv
<1>3. c \in Connects => Connect!ConnectInv(c)'
  <2>1. proc'[c].pc = "idle"
    BY <1>1, RunIdle, RunMoves DEF Connect!ConfigInv, Connect!Shape
  <2> QED BY <2>1 DEF Connect!ConnectInv, Connect!Locked, Connect!Judged
<1>4. durable' \subseteq snaps'
  BY DEF Connect!ConfigInv, Connect!KeptInv
<1> QED BY <1>1, <1>2, <1>3, <1>4, RunIdle, RunStep


LEMMA ConnectGoes ==
  ASSUME Connect!ConfigInv, NEW c \in Connects, NEW pc, Connect!Becomes(c, pc)
  PROVE  \E m : /\ proc' = [proc EXCEPT ![c] = m] /\ Connect!IsRun(m) /\ proc'[c] = m
                /\ m.pc = pc /\ m.req = proc[c].req /\ m.reading = proc[c].reading /\ m.read = proc[c].read
                /\ m.entry = proc[c].entry /\ m.seen = proc[c].seen
<1>1. c \in Connect!Procs /\ Connect!IsRun(proc[c])
  BY DEF Connect!ConfigInv, Connect!Shape, Connect!RunsShape, Connect!Procs
<1>2. PICK m : m = [proc[c] EXCEPT !.pc = pc]
  OBVIOUS
<1>3. proc' = [proc EXCEPT ![c] = m]
  BY <1>2 DEF Connect!Becomes
<1>4. /\ Connect!IsRun(m) /\ m.pc = pc /\ m.req = proc[c].req /\ m.reading = proc[c].reading /\ m.read = proc[c].read
      /\ m.entry = proc[c].entry /\ m.seen = proc[c].seen
  BY <1>1, <1>2, RunGoes
<1>5. proc'[c] = m
  BY <1>1, <1>3, <1>4, RunMoves DEF Connect!ConfigInv, Connect!Shape
<1> QED BY <1>3, <1>4, <1>5

-----------------------------------------------------------------------------
(* A connect. *)

LEMMA AskKeeps ==
  ASSUME Connect!ConfigInv, NEW c \in Connects, NEW want, Connect!Ask(c, want)
  PROVE  Connect!ConfigInv'
<1>1. c \in Connect!Procs
  BY DEF Connect!Procs
<1>2. PICK m : Connect!IsRun(m) /\ m.pc = "asked" /\ proc' = [proc EXCEPT ![c] = m]
  <2>1. CASE catalog[want.platform].customer
    <3>1. PICK state \in Connect!States :
            proc' = [proc EXCEPT ![c] = [Connect!Idle EXCEPT !.pc = "asked", !.req = want,
                       !.reading = Connect!Reading(catalog[want.platform], state, clock + 1)]]
      BY <2>1 DEF Connect!Ask
    <3>2. Connect!IsReading(Connect!Reading(catalog[want.platform], state, clock + 1))
      BY DEF Connect!IsReading, Connect!Reading
    <3> PICK m : m = [Connect!Idle EXCEPT !.pc = "asked", !.req = want,
                        !.reading = Connect!Reading(catalog[want.platform], state, clock + 1)]
      OBVIOUS
    <3>3. Connect!IsRun(m) /\ m.pc = "asked"
      BY <3>2, RunIdle DEF Connect!IsRun
    <3> QED BY <3>1, <3>3
  <2>2. CASE ~catalog[want.platform].customer
    <3>1. proc' = [proc EXCEPT ![c] = [Connect!Idle EXCEPT !.pc = "asked", !.req = want]]
      BY <2>2 DEF Connect!Ask
    <3> PICK m : m = [Connect!Idle EXCEPT !.pc = "asked", !.req = want]
      OBVIOUS
    <3>3. Connect!IsRun(m) /\ m.pc = "asked"
      BY RunIdle DEF Connect!IsRun, Connect!IsReading
    <3> QED BY <3>1, <3>3
  <2> QED BY <2>1, <2>2
<1>4. proc'[c] = m
  BY <1>1, <1>2, RunMoves DEF Connect!ConfigInv, Connect!Shape
<1>5. Connect!ConnectInv(c)'
  BY <1>2, <1>4 DEF Connect!ConnectInv, Connect!Locked, Connect!Judged
<1>6. UNCHANGED <<config, kept, edits, snaps, durable, lock, records>> /\ durable \subseteq snaps
  BY DEF Connect!Ask, Connect!files, Connect!bounds, Connect!ConfigInv, Connect!KeptInv
<1>7. Connect!RecordsShape'
  BY <1>6 DEF Connect!ConfigInv, Connect!Shape, Connect!RecordsShape, Connect!IsReading
<1> QED BY <1>1, <1>2, <1>5, <1>6, <1>7, RunStep

LEMMA LockKeeps ==
  ASSUME Connect!ConfigInv, NEW c \in Connects, Connect!Lock(c)
  PROVE  Connect!ConfigInv'
<1>1. c \in Connect!Procs
  BY DEF Connect!Procs
<1>2. UNCHANGED <<config, kept, edits, snaps, durable, records>> /\ durable \subseteq snaps
  BY DEF Connect!Lock, Connect!files, Connect!bounds, Connect!ConfigInv, Connect!KeptInv
<1>3. Connect!RecordsShape'
  BY <1>2 DEF Connect!ConfigInv, Connect!Shape, Connect!RecordsShape, Connect!IsReading
<1>4. CASE lock = None /\ lock' = c /\ Connect!Becomes(c, "locked")
  <2>1. PICK m : /\ proc' = [proc EXCEPT ![c] = m] /\ Connect!IsRun(m) /\ proc'[c] = m /\ m.pc = "locked"
    BY <1>4, ConnectGoes
  <2>2. \A d \in Connects \ {c} : proc[d].pc \notin Connect!Locked
    BY <1>4, ConnectAssumption DEF Connect!ConfigInv, Connect!ConnectInv
  <2>3. Connect!ConnectInv(c)'
    BY <1>4, <2>1 DEF Connect!ConnectInv, Connect!Locked, Connect!Judged
  <2> QED BY <1>1, <1>2, <1>3, <2>1, <2>2, <2>3, RunStep
<1>5. CASE Connect!End(c)
  BY <1>1, <1>2, <1>3, <1>5, RunEnds
<1> QED BY <1>4, <1>5 DEF Connect!Lock

LEMMA ReadKeeps ==
  ASSUME Connect!ConfigInv, NEW c \in Connects, Connect!Read(c)
  PROVE  Connect!ConfigInv'
<1> DEFINE e == Connect!Entry(config, proc[c].req)
<1>1. c \in Connect!Procs /\ Connect!IsRun(proc[c])
  BY DEF Connect!Procs, Connect!ConfigInv, Connect!Shape, Connect!RunsShape
<1>2. UNCHANGED <<config, kept, edits, snaps, durable, lock, records>> /\ durable \subseteq snaps
  BY DEF Connect!Read, Connect!files, Connect!bounds, Connect!ConfigInv, Connect!KeptInv
<1>3. Connect!RecordsShape'
  BY <1>2 DEF Connect!ConfigInv, Connect!Shape, Connect!RecordsShape, Connect!IsReading
<1>4. PICK m : m = [proc[c] EXCEPT !.pc = "read", !.read = config, !.entry = e]
  OBVIOUS
<1>5. proc' = [proc EXCEPT ![c] = m]
  BY <1>4 DEF Connect!Read
<1>6. Connect!IsRun(m) /\ m.pc = "read" /\ m.read = config /\ m.entry = e /\ m.req = proc[c].req
  BY <1>1, <1>4 DEF Connect!IsRun, Connect!IsReading
<1>7. proc'[c] = m
  BY <1>1, <1>5, <1>6, RunMoves DEF Connect!ConfigInv, Connect!Shape
<1>8. /\ Connect!IsEntry(e)
      /\ proc[c].req.platform \in DOMAIN config.entries => e.policies = config.entries[proc[c].req.platform].policies
  BY DEF Connect!Entry, Connect!IsEntry
<1>9. Connect!IsConfig(config) /\ Connect!Named(config) \subseteq durable /\ lock = c
  BY DEF Connect!ConfigInv, Connect!Shape, Connect!KeptInv, Connect!ConnectInv, Connect!Locked, Connect!Read
<1>10. Connect!ConnectInv(c)'
  BY <1>2, <1>6, <1>7, <1>8, <1>9 DEF Connect!ConnectInv, Connect!Locked, Connect!Judged
<1> QED BY <1>1, <1>2, <1>3, <1>5, <1>6, <1>10, RunStep

LEMMA CaptureKeeps ==
  ASSUME Connect!ConfigInv, NEW c \in Connects, Connect!Capture(c)
  PROVE  Connect!ConfigInv'
<1>1. c \in Connect!Procs /\ Connect!IsRun(proc[c])
  BY DEF Connect!Procs, Connect!ConfigInv, Connect!Shape, Connect!RunsShape
<1>2. UNCHANGED <<config, kept, edits, snaps, durable, lock, records>> /\ durable \subseteq snaps
  BY DEF Connect!Capture, Connect!files, Connect!bounds, Connect!ConfigInv, Connect!KeptInv
<1>3. Connect!RecordsShape'
  BY <1>2 DEF Connect!ConfigInv, Connect!Shape, Connect!RecordsShape, Connect!IsReading
<1>4. PICK pins : proc' = [proc EXCEPT ![c].pc = "captured", ![c].entry.pins = pins]
  BY DEF Connect!Capture
<1>5. PICK e : e = [proc[c].entry EXCEPT !.pins = pins]
  OBVIOUS
<1>6. PICK m : m = [proc[c] EXCEPT !.pc = "captured", !.entry = e]
  OBVIOUS
<1>7. proc' = [proc EXCEPT ![c] = m]
  BY <1>1, <1>4, <1>5, <1>6 DEF Connect!IsRun
<1>8. Connect!IsRun(m) /\ m.pc = "captured" /\ m.read = proc[c].read /\ m.entry = e /\ m.req = proc[c].req
  BY <1>1, <1>6 DEF Connect!IsRun, Connect!IsReading
<1>9. proc'[c] = m
  BY <1>1, <1>7, <1>8, RunMoves DEF Connect!ConfigInv, Connect!Shape
<1>10. /\ Connect!ConnectInv(c) /\ proc[c].pc = "read"
  BY DEF Connect!ConfigInv, Connect!Capture
<1>11. Connect!IsEntry(e) /\ e.policies = proc[c].entry.policies
  BY <1>5, <1>10 DEF Connect!ConnectInv, Connect!IsEntry, Connect!Locked, Connect!Judged
<1>12. Connect!ConnectInv(c)'
  BY <1>2, <1>8, <1>9, <1>10, <1>11 DEF Connect!ConnectInv, Connect!Locked, Connect!Judged
<1> QED BY <1>1, <1>2, <1>3, <1>7, <1>8, <1>12, RunStep

LEMMA PublishKeeps ==
  ASSUME Connect!ConfigInv, NEW c \in Connects, Connect!Publish(c)
  PROVE  Connect!ConfigInv'
<1>1. /\ c \in Connect!Procs /\ Connect!ConnectInv(c) /\ proc[c].pc = "captured" /\ Connect!Becomes(c, "published")
      /\ UNCHANGED <<config, kept, edits, durable, lock, records>> /\ durable \subseteq snaps
      /\ snaps' = snaps \cup Connect!PinsOf(proc[c].entry)
  BY DEF Connect!Publish, Connect!Step, Connect!bounds, Connect!ConfigInv, Connect!KeptInv, Connect!Procs
<1>2. PICK m : /\ proc' = [proc EXCEPT ![c] = m] /\ Connect!IsRun(m) /\ proc'[c] = m /\ m.pc = "published"
               /\ m.req = proc[c].req /\ m.read = proc[c].read /\ m.entry = proc[c].entry
  BY <1>1, ConnectGoes
<1>3. Connect!RecordsShape'
  BY <1>1 DEF Connect!ConfigInv, Connect!Shape, Connect!RecordsShape, Connect!IsReading
<1>4. Connect!ConnectInv(c)'
  BY <1>1, <1>2 DEF Connect!ConnectInv, Connect!Locked, Connect!Judged
<1> QED BY <1>1, <1>2, <1>3, <1>4, RunStep

LEMMA SyncSnapshotsKeeps ==
  ASSUME Connect!ConfigInv, NEW c \in Connects, Connect!SyncSnapshots(c)
  PROVE  Connect!ConfigInv'
<1>1. /\ c \in Connect!Procs /\ Connect!ConnectInv(c) /\ proc[c].pc = "published" /\ Connect!Becomes(c, "synced")
      /\ UNCHANGED <<config, kept, edits, snaps, lock, records>> /\ durable \subseteq snaps
      /\ durable' = durable \cup Connect!PinsOf(proc[c].entry)
  BY DEF Connect!SyncSnapshots, Connect!Step, Connect!bounds, Connect!ConfigInv, Connect!KeptInv, Connect!Procs
<1>2. PICK m : /\ proc' = [proc EXCEPT ![c] = m] /\ Connect!IsRun(m) /\ proc'[c] = m /\ m.pc = "synced"
               /\ m.req = proc[c].req /\ m.read = proc[c].read /\ m.entry = proc[c].entry
  BY <1>1, ConnectGoes
<1>3. Connect!RecordsShape'
  BY <1>1 DEF Connect!ConfigInv, Connect!Shape, Connect!RecordsShape, Connect!IsReading
<1>4. Connect!ConnectInv(c)'
  BY <1>1, <1>2 DEF Connect!ConnectInv, Connect!Locked, Connect!Judged
<1>5. durable' \subseteq snaps'
  BY <1>1 DEF Connect!ConnectInv
<1> QED BY <1>1, <1>2, <1>3, <1>4, <1>5, RunStep

LEMMA ReadAgainKeeps ==
  ASSUME Connect!ConfigInv, NEW c \in Connects, Connect!ReadAgain(c)
  PROVE  Connect!ConfigInv'
<1>1. /\ c \in Connect!Procs /\ Connect!ConnectInv(c) /\ proc[c].pc = "synced" /\ Connect!IsRun(proc[c])
      /\ UNCHANGED <<config, kept, edits, snaps, durable, records>> /\ durable \subseteq snaps /\ edits \in Nat
  BY DEF Connect!ReadAgain, Connect!files, Connect!bounds, Connect!ConfigInv, Connect!KeptInv, Connect!Procs,
         Connect!Shape, Connect!RunsShape
<1>2. Connect!RecordsShape'
  BY <1>1 DEF Connect!ConfigInv, Connect!Shape, Connect!RecordsShape, Connect!IsReading
<1>3. CASE config = proc[c].read /\ lock' = lock /\ proc' = [proc EXCEPT ![c].pc = "checked", ![c].seen = edits]
  <2>1. PICK m : m = [proc[c] EXCEPT !.pc = "checked", !.seen = edits]
    OBVIOUS
  <2>2. proc' = [proc EXCEPT ![c] = m]
    BY <1>3, <2>1
  <2>3. /\ Connect!IsRun(m) /\ m.pc = "checked" /\ m.seen = edits /\ m.req = proc[c].req /\ m.read = proc[c].read
        /\ m.entry = proc[c].entry
    BY <1>1, <2>1 DEF Connect!IsRun, Connect!IsReading
  <2>4. proc'[c] = m
    BY <1>1, <2>2, <2>3, RunMoves DEF Connect!ConfigInv, Connect!Shape
  <2>5. proc'[c].seen \in Nat /\ proc'[c].seen <= edits' /\ (edits' > proc'[c].seen \/ config' = proc'[c].read)
    BY <1>1, <1>3, <2>3, <2>4
  <2>6. Connect!ConnectInv(c)'
    <3>1. lock = c /\ Connect!IsEntry(m.entry) /\ Connect!IsConfig(m.read) /\ Connect!Named(m.read) \subseteq durable
      BY <1>1, <2>3 DEF Connect!ConnectInv, Connect!Locked, Connect!Judged
    <3>2. /\ m.req.platform \in DOMAIN m.read.entries => m.entry.policies = m.read.entries[m.req.platform].policies
          /\ Connect!PinsOf(m.entry) \subseteq durable
      BY <1>1, <2>3 DEF Connect!ConnectInv, Connect!Locked, Connect!Judged
    <3> QED BY <1>1, <1>3, <2>3, <2>4, <2>5, <3>1, <3>2 DEF Connect!ConnectInv, Connect!Locked, Connect!Judged
  <2> QED BY <1>1, <1>2, <1>3, <2>2, <2>3, <2>6, RunStep
<1>4. CASE Connect!End(c)
  BY <1>1, <1>2, <1>4, RunEnds
<1> QED BY <1>3, <1>4 DEF Connect!ReadAgain

(* The configuration a connect writes. *)
LEMMA TextIs ==
  ASSUME NEW c \in Connects, Connect!ConnectInv(c), proc[c].pc \in Connect!Judged
  PROVE  /\ Connect!IsConfig(Connect!Text(c)) /\ Connect!Text(c).version >= proc[c].read.version
         /\ DOMAIN Connect!Text(c).entries = DOMAIN proc[c].read.entries \cup {proc[c].req.platform}
         /\ Connect!Text(c).entries[proc[c].req.platform] = proc[c].entry
         /\ \A q \in DOMAIN proc[c].read.entries \ {proc[c].req.platform} :
              Connect!Text(c).entries[q] = proc[c].read.entries[q]
         /\ Connect!Named(Connect!Text(c)) \subseteq
              Connect!Named(proc[c].read) \cup Connect!PinsOf(proc[c].entry)
<1>1. Connect!IsConfig(proc[c].read) /\ Connect!IsEntry(proc[c].entry)
  BY DEF Connect!ConnectInv
<1>2. proc[c].read.version \in Nat /\ \A q \in DOMAIN proc[c].read.entries : Connect!IsEntry(proc[c].read.entries[q])
  BY <1>1 DEF Connect!IsConfig
<1>3. Connect!Text(c).version \in Nat /\ Connect!Text(c).version >= proc[c].read.version
  BY <1>2 DEF Connect!Text, Connect!Rendered
<1>4. /\ DOMAIN Connect!Text(c).entries = DOMAIN proc[c].read.entries \cup {proc[c].req.platform}
      /\ Connect!Text(c).entries[proc[c].req.platform] = proc[c].entry
      /\ \A q \in DOMAIN proc[c].read.entries \ {proc[c].req.platform} :
           Connect!Text(c).entries[q] = proc[c].read.entries[q]
  BY DEF Connect!Text, Connect!Rendered
<1>5. \A q \in DOMAIN Connect!Text(c).entries : Connect!IsEntry(Connect!Text(c).entries[q])
  BY <1>1, <1>2, <1>4
<1>6. Connect!Text(c) \in [version : Nat, entries : {[q \in DOMAIN Connect!Text(c).entries |-> Connect!Text(c).entries[q]]}]
  BY <1>3 DEF Connect!Text, Connect!Rendered
<1>7. Connect!Named(Connect!Text(c)) \subseteq Connect!Named(proc[c].read) \cup Connect!PinsOf(proc[c].entry)
  BY <1>4 DEF Connect!Named
<1> QED BY <1>3, <1>4, <1>5, <1>6, <1>7 DEF Connect!IsConfig

(* A step of the run that holds the lock. *)
LEMMA HolderStep ==
  ASSUME Connect!ConfigInv, NEW c \in Connects, proc[c].pc \in Connect!Locked,
         NEW m, Connect!IsRun(m), proc' = [proc EXCEPT ![c] = m],
         Connect!IsConfig(config)', Connect!IsConfig(kept)', edits' = edits, Connect!RecordsShape', Connect!KeptInv',
         Connect!ConnectInv(c)'
  PROVE  Connect!ConfigInv'
<1>1. Connect!RunsShape' /\ \A d \in Connects \ {c} : proc'[d] = proc[d]
  BY RunMoves DEF Connect!ConfigInv, Connect!Shape, Connect!Procs
<1>2. Connect!Shape'
  BY <1>1 DEF Connect!ConfigInv, Connect!Shape
<1>3. \A d \in Connects \ {c} : proc[d].pc \notin Connect!Locked
  BY DEF Connect!ConfigInv, Connect!ConnectInv
<1>4. \A d \in Connects \ {c} : Connect!ConnectInv(d)'
  BY <1>1, <1>3 DEF Connect!ConnectInv, Connect!Locked, Connect!Judged
<1> QED BY <1>2, <1>4 DEF Connect!ConfigInv

LEMMA RenameKeeps ==
  ASSUME Connect!ConfigInv, NEW c \in Connects, Connect!Rename(c)
  PROVE  Connect!ConfigInv'
<1>1. /\ Connect!ConnectInv(c) /\ proc[c].pc = "checked" /\ Connect!Becomes(c, "renamed")
      /\ UNCHANGED <<edits, snaps, durable, lock, records>>
      /\ config' = Connect!Text(c) /\ kept' \in {kept, Connect!Text(c)}
  BY DEF Connect!Rename, Connect!Step, Connect!bounds, Connect!ConfigInv
<1>2. proc[c].pc \in Connect!Judged /\ proc[c].pc \in Connect!Locked
  BY <1>1 DEF Connect!Judged, Connect!Locked
<1>3. PICK m : /\ proc' = [proc EXCEPT ![c] = m] /\ Connect!IsRun(m) /\ proc'[c] = m /\ m.pc = "renamed"
               /\ m.req = proc[c].req /\ m.read = proc[c].read /\ m.entry = proc[c].entry
  BY <1>1, ConnectGoes
<1>4. Connect!IsConfig(Connect!Text(c)) /\ Connect!Named(Connect!Text(c)) \subseteq durable
  BY <1>1, <1>2, TextIs DEF Connect!ConnectInv
<1>5. Connect!IsConfig(kept) /\ durable \subseteq snaps /\ Connect!Named(kept) \subseteq durable
  BY DEF Connect!ConfigInv, Connect!Shape, Connect!KeptInv
<1>6. Connect!IsConfig(config') /\ Connect!IsConfig(kept')
  BY <1>1, <1>4, <1>5
<1>7. Connect!Named(config') \subseteq durable' /\ Connect!Named(kept') \subseteq durable' /\ durable' \subseteq snaps'
  BY <1>1, <1>4, <1>5
<1>8. Connect!KeptInv'
  BY <1>7 DEF Connect!KeptInv, Connect!Named, Connect!PinsOf
<1>9. Connect!IsConfig(config)' /\ Connect!IsConfig(kept)'
  BY <1>6 DEF Connect!IsConfig, Connect!IsEntry
<1>10. Connect!RecordsShape'
  BY <1>1 DEF Connect!ConfigInv, Connect!Shape, Connect!RecordsShape, Connect!IsReading
<1>11. Connect!ConnectInv(c)'
  BY <1>1, <1>2, <1>3 DEF Connect!ConnectInv, Connect!Locked, Connect!Judged
<1> QED BY <1>1, <1>2, <1>3, <1>8, <1>9, <1>10, <1>11, HolderStep

LEMMA SyncConfigKeeps ==
  ASSUME Connect!ConfigInv, NEW c \in Connects, Connect!SyncConfig(c)
  PROVE  Connect!ConfigInv'
<1>1. /\ Connect!ConnectInv(c) /\ proc[c].pc = "renamed" /\ Connect!Becomes(c, "written")
      /\ UNCHANGED <<config, edits, snaps, durable, lock, records>> /\ kept' = config
  BY DEF Connect!SyncConfig, Connect!Step, Connect!bounds, Connect!ConfigInv
<1>2. proc[c].pc \in Connect!Judged /\ proc[c].pc \in Connect!Locked
  BY <1>1 DEF Connect!Judged, Connect!Locked
<1>3. PICK m : /\ proc' = [proc EXCEPT ![c] = m] /\ Connect!IsRun(m) /\ proc'[c] = m /\ m.pc = "written"
               /\ m.req = proc[c].req /\ m.read = proc[c].read /\ m.entry = proc[c].entry
  BY <1>1, ConnectGoes
<1>4. Connect!IsConfig(config)' /\ Connect!IsConfig(kept)'
  BY <1>1 DEF Connect!ConfigInv, Connect!Shape, Connect!IsConfig, Connect!IsEntry
<1>5. Connect!KeptInv'
  BY <1>1 DEF Connect!ConfigInv, Connect!KeptInv, Connect!Named, Connect!PinsOf
<1>6. Connect!RecordsShape'
  BY <1>1 DEF Connect!ConfigInv, Connect!Shape, Connect!RecordsShape, Connect!IsReading
<1>7. Connect!ConnectInv(c)'
  BY <1>1, <1>2, <1>3 DEF Connect!ConnectInv, Connect!Locked, Connect!Judged
<1> QED BY <1>1, <1>2, <1>3, <1>4, <1>5, <1>6, <1>7, HolderStep

LEMMA RunsThatEnd ==
  ASSUME Connect!ConfigInv, NEW c \in Connect!Procs, Connect!Die(c)
  PROVE  Connect!ConfigInv'
<1>1. Connect!End(c) /\ UNCHANGED <<config, kept, edits, snaps, durable, records>>
  BY DEF Connect!Die, Connect!files, Connect!bounds
<1>2. Connect!RecordsShape'
  BY <1>1 DEF Connect!ConfigInv, Connect!Shape, Connect!RecordsShape, Connect!IsReading
<1> QED BY <1>1, <1>2, RunEnds

-----------------------------------------------------------------------------
(* The publishers' records. *)

LEMMA MergeIs ==
  ASSUME NEW prev, NEW reading, Connect!IsReading(prev), Connect!IsReading(reading)
  PROVE  /\ Connect!IsReading(Connect!Merge(prev, reading))
         /\ Connect!Conclusive(prev.state) /\ Connect!Merge(prev, reading).publisher = prev.publisher
              => Connect!Conclusive(Connect!Merge(prev, reading).state)
  BY DEF Connect!IsReading, Connect!Merge, Connect!Conclusive

(* A record that is merged with a reading. *)
LEMMA RecordsMerge ==
  ASSUME Connect!RecordsShape, NEW p, NEW reading, Connect!IsReading(reading),
         records' = [records EXCEPT !.of[p] = Connect!Merge(@, reading)]
  PROVE  /\ Connect!RecordsShape'
         /\ \A n \in Platforms : \/ records'.of[n] = records.of[n]
                                 \/ n = p /\ records'.of[n] = Connect!Merge(records.of[n], reading)
<1>1. /\ records \in [policy : {records.policy}, of : {[n \in Platforms |-> records.of[n]]}]
      /\ \A n \in Platforms : Connect!IsReading(records.of[n])
  BY DEF Connect!RecordsShape
<1>2. PICK of : of = [records.of EXCEPT ![p] = Connect!Merge(@, reading)]
  OBVIOUS
<1>3. records' = [records EXCEPT !.of = of]
  BY <1>1, <1>2
<1>4. records.of = [n \in Platforms |-> records.of[n]]
  BY <1>1
<1>5. of = [n \in Platforms |-> of[n]] /\ \A n \in Platforms : of[n] = IF n = p THEN Connect!Merge(records.of[n], reading) ELSE records.of[n]
  BY <1>2, <1>4
<1>6. records'.of = of /\ records' \in [policy : {records'.policy}, of : {of}]
  BY <1>1, <1>3
<1>7. \A n \in Platforms : Connect!IsReading(of[n])
  BY <1>1, <1>5, MergeIs
<1>8. Connect!RecordsShape'
  <2>1. records' \in [policy : {records'.policy}, of : {[n \in Platforms |-> records'.of[n]]}]
    BY <1>5, <1>6
  <2>2. \A n \in Platforms : Connect!IsReading(records'.of[n])
    BY <1>6, <1>7
  <2> QED BY <2>1, <2>2 DEF Connect!RecordsShape, Connect!IsReading
<1> QED BY <1>5, <1>6, <1>8

LEMMA AfterWriteKeeps ==
  ASSUME Connect!ConfigInv, NEW c \in Connects, Connect!AfterWrite(c)
  PROVE  Connect!ConfigInv'
<1>1. c \in Connect!Procs /\ Connect!IsReading(proc[c].reading) /\ Connect!RecordsShape
  BY DEF Connect!Procs, Connect!ConfigInv, Connect!Shape, Connect!RunsShape, Connect!IsRun
<1>2. Connect!End(c) /\ UNCHANGED <<config, kept, edits, snaps, durable>>
  BY DEF Connect!AfterWrite, Connect!files, Connect!bounds
<1>3. Connect!RecordsShape'
  <2>1. CASE records' = records
    BY <1>1, <2>1 DEF Connect!RecordsShape, Connect!IsReading
  <2>2. CASE records' = [records EXCEPT !.of[proc[c].req.platform] = Connect!Merge(@, proc[c].reading)]
    BY <1>1, <2>2, RecordsMerge
  <2> QED BY <2>1, <2>2 DEF Connect!AfterWrite
<1> QED BY <1>1, <1>2, <1>3, RunEnds

LEMMA ReadPublishersKeeps ==
  ASSUME Connect!ConfigInv, NEW c \in Checks, NEW p \in Platforms, Connect!ReadPublishers(c, p)
  PROVE  Connect!ConfigInv'
<1>1. c \in Connect!Procs /\ c \notin Connects
  BY ConnectAssumption DEF Connect!Procs
<1>2. UNCHANGED <<config, kept, edits, snaps, durable, lock, records>> /\ durable \subseteq snaps
  BY DEF Connect!ReadPublishers, Connect!files, Connect!bounds, Connect!ConfigInv, Connect!KeptInv
<1>3. Connect!RecordsShape'
  BY <1>2 DEF Connect!ConfigInv, Connect!Shape, Connect!RecordsShape, Connect!IsReading
<1>4. PICK state \in Connect!States :
        proc' = [proc EXCEPT ![c] =
          [Connect!Idle EXCEPT !.pc = "checked", !.req = [platform |-> p], !.read = records.of[p],
             !.reading = Connect!Reading(config.entries[p].binding, state, clock + 1)]]
  BY DEF Connect!ReadPublishers
<1>5. Connect!IsReading(Connect!Reading(config.entries[p].binding, state, clock + 1))
  BY DEF Connect!IsReading, Connect!Reading
<1>6. PICK m : m = [Connect!Idle EXCEPT !.pc = "checked", !.req = [platform |-> p], !.read = records.of[p],
                      !.reading = Connect!Reading(config.entries[p].binding, state, clock + 1)]
  OBVIOUS
<1>7. Connect!IsRun(m)
  BY <1>5, <1>6, RunIdle DEF Connect!IsRun
<1> QED BY <1>1, <1>2, <1>3, <1>4, <1>6, <1>7, RunStep

LEMMA WritePublishersKeeps ==
  ASSUME Connect!ConfigInv, NEW c \in Checks, Connect!WritePublishers(c)
  PROVE  Connect!ConfigInv'
<1>1. c \in Connect!Procs /\ c \notin Connects /\ Connect!IsReading(proc[c].reading) /\ Connect!RecordsShape
  BY ConnectAssumption DEF Connect!Procs, Connect!ConfigInv, Connect!Shape, Connect!RunsShape, Connect!IsRun
<1>2. UNCHANGED <<config, kept, edits, snaps, durable, lock>> /\ durable \subseteq snaps /\ proc' = [proc EXCEPT ![c] = Connect!Idle]
  BY DEF Connect!WritePublishers, Connect!files, Connect!bounds, Connect!ConfigInv, Connect!KeptInv
<1>3. Connect!RecordsShape'
  <2>1. CASE records' = records
    BY <1>1, <2>1 DEF Connect!RecordsShape, Connect!IsReading
  <2>2. CASE records' = [records EXCEPT !.of[proc[c].req.platform] = Connect!Merge(@, proc[c].reading)]
    BY <1>1, <2>2, RecordsMerge
  <2> QED BY <2>1, <2>2 DEF Connect!WritePublishers
<1> QED BY <1>1, <1>2, <1>3, RunIdle, RunStep

-----------------------------------------------------------------------------
(* The operator, the catalog and the servers; a crash of the host. *)

LEMMA ReleaseKeeps ==
  ASSUME Connect!ConfigInv, Connect!Release \/ Connect!Redeploy
  PROVE  Connect!ConfigInv'
<1>1. UNCHANGED <<config, kept, snaps, durable, lock, records, proc>> /\ edits' = edits + 1
  BY DEF Connect!Release, Connect!Redeploy, Connect!files
<1>2. Connect!Shape /\ edits \in Nat /\ edits' \in Nat /\ edits' > edits /\ edits' >= edits
  BY <1>1 DEF Connect!ConfigInv, Connect!Shape
<1>3. Connect!Shape'
  BY <1>1, <1>2 DEF Connect!Shape, Connect!IsConfig, Connect!IsEntry, Connect!RecordsShape, Connect!IsReading,
                    Connect!RunsShape, Connect!IsRun
<1>4. Connect!KeptInv'
  BY <1>1 DEF Connect!ConfigInv, Connect!KeptInv, Connect!Named, Connect!PinsOf
<1>5. ASSUME NEW d \in Connects PROVE Connect!ConnectInv(d)'
  BY <1>1, <1>2, Undisturbed DEF Connect!ConfigInv
<1> QED BY <1>3, <1>4, <1>5 DEF Connect!ConfigInv

(* What the editor saves names no more than was named. *)
LEMMA EditIs ==
  ASSUME Connect!IsConfig(config), Connect!Edit
  PROVE  Connect!IsConfig(config') /\ Connect!Named(config') \subseteq Connect!Named(config)
<1>1. PICK p \in DOMAIN config.entries :
        \/ config' = [config EXCEPT !.entries[p].policies = config.entries[p].binding.tools,
                                    !.version = IF @ >= 4 THEN @ ELSE 4]
        \/ config' = [config EXCEPT !.entries = [q \in DOMAIN config.entries \ {p} |-> config.entries[q]]]
  BY DEF Connect!Edit
<1>2. /\ config \in [version : Nat, entries : {[q \in DOMAIN config.entries |-> config.entries[q]]}]
      /\ \A q \in DOMAIN config.entries : Connect!IsEntry(config.entries[q])
  BY DEF Connect!IsConfig
<1>3. CASE config' = [config EXCEPT !.entries[p].policies = config.entries[p].binding.tools,
                                    !.version = IF @ >= 4 THEN @ ELSE 4]
  <2>1. PICK e : e = [config.entries[p] EXCEPT !.policies = config.entries[p].binding.tools]
    OBVIOUS
  <2>2. Connect!IsEntry(e) /\ e.pins = config.entries[p].pins
    BY <1>2, <2>1 DEF Connect!IsEntry
  <2>3. PICK entries : entries = [config.entries EXCEPT ![p] = e]
    OBVIOUS
  <2>4. entries = [q \in DOMAIN config.entries |-> IF q = p THEN e ELSE config.entries[q]]
    BY <1>2, <2>3
  <2>5. PICK v \in Nat : config' = [config EXCEPT !.entries = entries, !.version = v]
    <3>1. (IF config.version >= 4 THEN config.version ELSE 4) \in Nat
      BY <1>2
    <3> QED BY <1>2, <1>3, <2>1, <2>3, <3>1
  <2>6. config'.entries = entries /\ config' \in [version : Nat, entries : {entries}]
    BY <1>2, <2>5
  <2>7. /\ DOMAIN entries = DOMAIN config.entries /\ entries = [q \in DOMAIN entries |-> entries[q]]
        /\ \A q \in DOMAIN entries : Connect!IsEntry(entries[q]) /\ entries[q].pins = config.entries[q].pins
    BY <1>2, <2>2, <2>4
  <2>8. Connect!IsConfig(config')
    BY <2>6, <2>7 DEF Connect!IsConfig
  <2>9. Connect!Named(config') \subseteq Connect!Named(config)
    BY <2>6, <2>7 DEF Connect!Named, Connect!PinsOf
  <2> QED BY <2>8, <2>9
<1>4. CASE config' = [config EXCEPT !.entries = [q \in DOMAIN config.entries \ {p} |-> config.entries[q]]]
  <2>1. PICK entries : entries = [q \in DOMAIN config.entries \ {p} |-> config.entries[q]]
    OBVIOUS
  <2>2. config'.entries = entries /\ config' \in [version : Nat, entries : {entries}]
    BY <1>2, <1>4, <2>1
  <2>3. /\ entries = [q \in DOMAIN entries |-> entries[q]] /\ DOMAIN entries \subseteq DOMAIN config.entries
        /\ \A q \in DOMAIN entries : Connect!IsEntry(entries[q]) /\ entries[q] = config.entries[q]
    BY <1>2, <2>1
  <2>4. Connect!IsConfig(config')
    BY <2>2, <2>3 DEF Connect!IsConfig
  <2>5. Connect!Named(config') \subseteq Connect!Named(config)
    BY <2>2, <2>3 DEF Connect!Named, Connect!PinsOf
  <2> QED BY <2>4, <2>5
<1> QED BY <1>1, <1>3, <1>4

LEMMA EditKeeps ==
  ASSUME Connect!ConfigInv, Connect!Edit
  PROVE  Connect!ConfigInv'
<1>1. /\ UNCHANGED <<snaps, durable, lock, records, proc>> /\ edits' = edits + 1 /\ kept' = config'
      /\ Connect!Shape /\ edits \in Nat /\ edits' \in Nat /\ edits' > edits /\ edits' >= edits
  BY DEF Connect!Edit, Connect!ConfigInv, Connect!Shape
<1>2. Connect!IsConfig(config') /\ Connect!Named(config') \subseteq Connect!Named(config)
  BY EditIs DEF Connect!ConfigInv, Connect!Shape
<1>3. Connect!IsConfig(config)' /\ Connect!IsConfig(kept)'
  BY <1>1, <1>2 DEF Connect!IsConfig, Connect!IsEntry
<1>4. Connect!Shape'
  BY <1>1, <1>3 DEF Connect!Shape, Connect!RecordsShape, Connect!IsReading, Connect!RunsShape, Connect!IsRun
<1>5. Connect!KeptInv'
  <2>1. Connect!Named(config') \subseteq durable' /\ Connect!Named(kept') \subseteq durable' /\ durable' \subseteq snaps'
    BY <1>1, <1>2 DEF Connect!ConfigInv, Connect!KeptInv
  <2> QED BY <2>1 DEF Connect!KeptInv, Connect!Named, Connect!PinsOf
<1>6. ASSUME NEW d \in Connects PROVE Connect!ConnectInv(d)'
  BY <1>1, Undisturbed DEF Connect!ConfigInv
<1> QED BY <1>4, <1>5, <1>6 DEF Connect!ConfigInv

LEMMA CrashKeeps ==
  ASSUME Connect!ConfigInv, Connect!Crash
  PROVE  Connect!ConfigInv'
<1>1. /\ UNCHANGED <<kept, records, edits>> /\ config' = kept /\ snaps' \in {durable, snaps} /\ durable' = snaps'
      /\ proc' = [c \in Connect!Procs |-> Connect!Idle]
  BY DEF Connect!Crash
<1>2. Connect!IsConfig(config)' /\ Connect!IsConfig(kept)'
  BY <1>1 DEF Connect!ConfigInv, Connect!Shape, Connect!IsConfig, Connect!IsEntry
<1>3. Connect!RunsShape' /\ \A c \in Connects : proc'[c].pc = "idle"
  BY <1>1, RunIdle DEF Connect!RunsShape, Connect!Procs, Connect!IsRun, Connect!IsReading
<1>4. Connect!Shape'
  BY <1>1, <1>2, <1>3 DEF Connect!ConfigInv, Connect!Shape, Connect!RecordsShape, Connect!IsReading
<1>5. Connect!KeptInv'
  BY <1>1 DEF Connect!ConfigInv, Connect!KeptInv, Connect!Named, Connect!PinsOf
<1>6. \A c \in Connects : Connect!ConnectInv(c)'
  BY <1>3 DEF Connect!ConnectInv, Connect!Locked, Connect!Judged
<1> QED BY <1>4, <1>5, <1>6 DEF Connect!ConfigInv

-----------------------------------------------------------------------------
LEMMA FirstConfigsAre == \A c \in FirstConfigs : Connect!IsConfig(c)
<1>1. \A n, b, w : Connect!IsEntry(Captured(n, b, w))
  BY DEF Captured, Connect!IsEntry
<1>2. \A b : Connect!IsEntry(OldEntry(b))
  BY DEF OldEntry, Connect!IsEntry
<1>3. Connect!IsConfig([version |-> 13, entries |-> [n \in {pa} |-> Captured(pa, CustomerBinding, TRUE)]])
  BY <1>1 DEF Connect!IsConfig
<1>4. Connect!IsConfig([version |-> 1, entries |-> [n \in {pb} |-> OldEntry(OldBinding)]])
  BY <1>2 DEF Connect!IsConfig
<1> QED BY <1>3, <1>4 DEF FirstConfigs

LEMMA ConnectBegins ==
  ASSUME Connect!Init
  PROVE  Connect!ConfigInv
<1>1. Connect!IsConfig(config) /\ Connect!IsConfig(kept) /\ edits \in Nat
  BY FirstConfigsAre DEF Connect!Init
<1>2. Connect!RecordsShape
  BY DEF Connect!Init, Connect!RecordsShape, Connect!IsReading, Connect!NoRecord
<1>3. Connect!RunsShape /\ \A c \in Connects : proc[c].pc = "idle"
  BY RunIdle DEF Connect!Init, Connect!RunsShape, Connect!Procs
<1>4. Connect!KeptInv
  BY DEF Connect!Init, Connect!KeptInv
<1>5. \A c \in Connects : Connect!ConnectInv(c)
  BY <1>3 DEF Connect!ConnectInv, Connect!Locked, Connect!Judged
<1> QED BY <1>1, <1>2, <1>3, <1>4, <1>5 DEF Connect!ConfigInv, Connect!Shape

LEMMA ConnectMoves ==
  ASSUME Connect!ConfigInv, Connect!Next
  PROVE  Connect!ConfigInv'
<1>1. CASE \E c \in Connects : \E want \in Requests : Connect!Ask(c, want)
  BY <1>1, AskKeeps
<1>2. ASSUME NEW c \in Connects, Connect!Lock(c) \/ Connect!Read(c) \/ Connect!Capture(c)
      PROVE  Connect!ConfigInv'
  BY <1>2, LockKeeps, ReadKeeps, CaptureKeeps
<1>3. ASSUME NEW c \in Connects, Connect!Publish(c) \/ Connect!SyncSnapshots(c) \/ Connect!ReadAgain(c)
      PROVE  Connect!ConfigInv'
  BY <1>3, PublishKeeps, SyncSnapshotsKeeps, ReadAgainKeeps
<1>4. ASSUME NEW c \in Connects, Connect!Rename(c) \/ Connect!SyncConfig(c) \/ Connect!AfterWrite(c)
      PROVE  Connect!ConfigInv'
  BY <1>4, RenameKeeps, SyncConfigKeeps, AfterWriteKeeps
<1>5. CASE \E c \in Checks : Connect!WritePublishers(c) \/ \E p \in Platforms : Connect!ReadPublishers(c, p)
  BY <1>5, WritePublishersKeeps, ReadPublishersKeeps
<1>6. CASE \E c \in Connect!Procs : Connect!Die(c)
  BY <1>6, RunsThatEnd
<1>7. CASE Connect!Edit \/ Connect!Release \/ Connect!Redeploy \/ Connect!Crash
  BY <1>7, EditKeeps, ReleaseKeeps, CrashKeeps
<1> QED BY <1>1, <1>2, <1>3, <1>4, <1>5, <1>6, <1>7 DEF Connect!Next

(* A connect that has checked the file is about to write over what it was   *)
(* checked against, or over an edit made since.                             *)
LEMMA CommitKeeps ==
  ASSUME Connect!ConfigInv
  PROVE  Connect!NamedIsKept /\ Connect!CommitLosesNothing
<1>1. Connect!NamedIsKept
  BY DEF Connect!ConfigInv, Connect!KeptInv, Connect!NamedIsKept, Connect!FrontendStarts
<1>2. ASSUME NEW c \in Connects, proc[c].pc = "checked", ~(edits > proc[c].seen)
      PROVE  LET p == proc[c].req.platform IN
             /\ \A q \in DOMAIN config.entries \ {p} :
                  q \in DOMAIN Connect!Text(c).entries /\ Connect!Text(c).entries[q] = config.entries[q]
             /\ p \in DOMAIN config.entries =>
                  Connect!Text(c).entries[p].policies = config.entries[p].policies
             /\ Connect!Text(c).version >= config.version
  <2>1. Connect!ConnectInv(c) /\ proc[c].pc \in Connect!Judged
    BY <1>2 DEF Connect!ConfigInv, Connect!Judged, Connect!Locked
  <2>2. config = proc[c].read
    BY <1>2, <2>1 DEF Connect!ConnectInv
  <2>3. proc[c].req.platform \in DOMAIN proc[c].read.entries =>
          proc[c].entry.policies = proc[c].read.entries[proc[c].req.platform].policies
    BY <2>1 DEF Connect!ConnectInv
  <2> QED BY <2>1, <2>2, <2>3, TextIs
<1> QED BY <1>1, <1>2 DEF Connect!CommitLosesNothing

LEMMA ConfigInvHolds == Spec => [](part = "connect" => Connect!ConfigInv)
<1> DEFINE Inv == part = "connect" => Connect!ConfigInv
<1>1. Init => Inv
  BY ConnectBegins DEF Init
<1>2. Inv /\ [Next]_vars => Inv'
  <2> SUFFICES ASSUME Inv, [Next]_vars, part' = "connect" PROVE Connect!ConfigInv'
    OBVIOUS
  <2>1. CASE UNCHANGED <<part, connectVars>>
    <3>1. UNCHANGED <<config, kept, snaps, durable, lock, records, proc, edits>> /\ Connect!ConfigInv
      BY <2>1 DEF connectVars
    <3>2. Connect!Shape' /\ Connect!KeptInv'
      BY <3>1 DEF Connect!ConfigInv, Connect!KeptInv, Connect!Named, Connect!PinsOf, Connect!Shape, Connect!IsConfig,
                  Connect!IsEntry, Connect!RecordsShape, Connect!IsReading, Connect!RunsShape, Connect!IsRun
    <3>3. \A d \in Connects : Connect!ConnectInv(d)'
      <4>1. edits' \in Nat /\ edits' >= edits
        BY <3>1 DEF Connect!ConfigInv, Connect!Shape
      <4> QED BY <3>1, <4>1, Undisturbed DEF Connect!ConfigInv
    <3> QED BY <3>2, <3>3 DEF Connect!ConfigInv
  <2>2. CASE part = "connect" /\ Connect!Next
    BY <2>2, ConnectMoves
  <2> QED BY <2>1, <2>2 DEF Next, vars
<1> QED BY <1>1, <1>2, PTL DEF Spec

(* Every snapshot the configuration names, or a crash would leave it        *)
(* naming, is there and durable; and a connect's commit loses nothing but   *)
(* an edit made after the file was read again (publishSnapshot,             *)
(* configFile.replace).                                                     *)
THEOREM CommitStaysWhole == Spec => []CommitIsWhole
<1>1. (part = "connect" => Connect!ConfigInv) => CommitIsWhole
  BY CommitKeeps DEF CommitIsWhole
<1> QED BY <1>1, ConfigInvHolds, PTL

LEMMA RecordsMove ==
  ASSUME Connect!ConfigInv, Connect!Next, NEW p \in Platforms, Connect!Conclusive(records.of[p].state),
         records'.of[p].publisher = records.of[p].publisher
  PROVE  Connect!Conclusive(records'.of[p].state)
<1>1. \/ records' = records
      \/ \E c \in Connect!Procs : records' = [records EXCEPT !.of[proc[c].req.platform] = Connect!Merge(@, proc[c].reading)]
  BY DEF Connect!Next, Connect!Ask, Connect!Lock, Connect!Read, Connect!Capture, Connect!Publish, Connect!SyncSnapshots,
         Connect!ReadAgain, Connect!Rename, Connect!SyncConfig, Connect!AfterWrite, Connect!WritePublishers,
         Connect!ReadPublishers, Connect!Die, Connect!Edit, Connect!Release, Connect!Redeploy, Connect!Crash, Connect!Procs
<1>2. ASSUME NEW c \in Connect!Procs, records' = [records EXCEPT !.of[proc[c].req.platform] = Connect!Merge(@, proc[c].reading)]
      PROVE  Connect!Conclusive(records'.of[p].state)
  <2>1. Connect!RecordsShape /\ Connect!IsReading(proc[c].reading) /\ Connect!IsReading(records.of[p])
    BY DEF Connect!ConfigInv, Connect!Shape, Connect!RunsShape, Connect!IsRun, Connect!RecordsShape
  <2>2. \/ records'.of[p] = records.of[p]
        \/ records'.of[p] = Connect!Merge(records.of[p], proc[c].reading)
    BY <1>2, <2>1, RecordsMerge
  <2> QED BY <2>1, <2>2, MergeIs
<1> QED BY <1>1, <1>2

(* A conclusive reading of a publisher is never lifted by an inconclusive   *)
(* one of the same publisher, whoever writes the record (mergeReading).     *)
THEOREM ConclusiveReadingsStay == Spec => ConclusiveStays
<1>1. (part = "connect" => Connect!ConfigInv) /\ [Next]_vars =>
        [part = "connect" =>
           \A p \in Platforms :
             /\ Connect!Conclusive(records.of[p].state)
             /\ records'.of[p].publisher = records.of[p].publisher
             => Connect!Conclusive(records'.of[p].state)]_records
  <2> SUFFICES ASSUME part = "connect", Connect!ConfigInv, [Next]_vars, records' # records, NEW p \in Platforms,
                      Connect!Conclusive(records.of[p].state), records'.of[p].publisher = records.of[p].publisher
               PROVE  Connect!Conclusive(records'.of[p].state)
    OBVIOUS
  <2>1. CASE UNCHANGED connectVars
    BY <2>1 DEF connectVars
  <2>2. CASE Connect!Next
    BY <2>2, RecordsMove
  <2> QED BY <2>1, <2>2 DEF Next, vars
<1> QED BY <1>1, ConfigInvHolds, PTL DEF Spec, ConclusiveStays

-----------------------------------------------------------------------------
(* The delegations: credentials. *)

LEMMA CredentialsSame ==
  ASSUME Delegation!CredentialsInv, creds' \subseteq creds, UNCHANGED <<bound, ended, binding>>
  PROVE  Delegation!CredentialsInv'
  BY DEF Delegation!CredentialsInv, Delegation!ReadOnly, Delegation!Links

LEMMA StartBindKeeps ==
  ASSUME Delegation!CredentialsInv, NEW b \in {"b"}, NEW token, NEW chain \in Chains, NEW software, NEW key,
         Delegation!StartBind(b, token, chain, software, key)
  PROVE  Delegation!CredentialsInv'
<1>1. PICK x : x = [chain |-> chain, key |-> key, t |-> now]
  OBVIOUS
<1>2. binding' = [binding EXCEPT ![b] = x] /\ UNCHANGED <<creds, bound, ended>>
  BY <1>1 DEF Delegation!StartBind, Delegation!service, Delegation!history
<1>3. x.chain \in Chains /\ (x.key = None => Delegation!ReadOnly(x.chain))
  BY <1>1 DEF Delegation!StartBind
<1>4. \A d \in {"b"} : binding'[d] = binding[d] \/ binding'[d] = x
  BY <1>2
<1>5. \A d \in {"b"} : binding'[d] # Delegation!IdleBind =>
        binding'[d].chain \in Chains /\ (binding'[d].key = None => Delegation!ReadOnly(binding'[d].chain))
  BY <1>3, <1>4 DEF Delegation!CredentialsInv
<1> QED BY <1>2, <1>5 DEF Delegation!CredentialsInv, Delegation!ReadOnly, Delegation!Links, Delegation!IdleBind

LEMMA StoreBindKeeps ==
  ASSUME Delegation!CredentialsInv, NEW b \in {"b"}, Delegation!StoreBind(b)
  PROVE  Delegation!CredentialsInv'
<1> DEFINE x == Delegation!Credential(b)
<1>1. binding[b] # Delegation!IdleBind /\ binding' = [binding EXCEPT ![b] = Delegation!IdleBind] /\ ended' = ended
  BY DEF Delegation!StoreBind, Delegation!history
<1>2. x.chain \in Chains /\ (x.key = None => Delegation!ReadOnly(x.chain)) /\ x.id = bound + 1
  BY <1>1 DEF Delegation!CredentialsInv, Delegation!Credential
<1>3. \A d \in {"b"} : binding'[d] # Delegation!IdleBind =>
        binding'[d].chain \in Chains /\ (binding'[d].key = None => Delegation!ReadOnly(binding'[d].chain))
  <2>1. \A d \in {"b"} : binding'[d] = binding[d] \/ binding'[d] = Delegation!IdleBind
    BY <1>1
  <2> QED BY <2>1 DEF Delegation!CredentialsInv
<1>4. CASE creds' \subseteq creds /\ bound' = bound
  BY <1>1, <1>3, <1>4 DEF Delegation!CredentialsInv, Delegation!ReadOnly, Delegation!Links, Delegation!IdleBind
<1>5. CASE creds' \subseteq creds \cup {x} /\ bound' = bound + 1
  <2>1. bound' \in Nat /\ ended' \subseteq 1 .. bound' /\ bound + 1 \notin ended /\ bound + 1 \in 1 .. bound'
    BY <1>1, <1>5 DEF Delegation!CredentialsInv
  <2>2. ASSUME NEW c \in creds'
        PROVE  /\ c.chain \in Chains /\ (c.key = None => Delegation!ReadOnly(c.chain))
               /\ c.id \in (1 .. bound') \ ended'
               /\ \A d \in creds' : d.id = c.id => d = c
    <3>1. \A d \in creds : d.id # bound + 1 /\ d.id \in 1 .. bound'
      BY <1>5 DEF Delegation!CredentialsInv
    <3>2. CASE c \in creds
      BY <1>1, <1>2, <1>5, <3>1, <3>2 DEF Delegation!CredentialsInv
    <3>3. CASE c = x
      BY <1>1, <1>2, <1>5, <2>1, <3>1, <3>3
    <3> QED BY <1>5, <3>2, <3>3
  <2> QED BY <1>3, <2>1, <2>2 DEF Delegation!CredentialsInv, Delegation!ReadOnly, Delegation!Links, Delegation!IdleBind
<1> QED BY <1>4, <1>5 DEF Delegation!StoreBind, Delegation!LiveAt

LEMMA RevokeKeeps ==
  ASSUME Delegation!CredentialsInv, NEW token, Delegation!Revoke(token)
  PROVE  Delegation!CredentialsInv'
<1>1. PICK mine : mine \subseteq creds /\ creds' = creds \ mine /\ ended' = ended \cup {c.id : c \in mine}
  BY DEF Delegation!Revoke
<1>2. UNCHANGED <<bound, binding>>
  BY DEF Delegation!Revoke
<1>3. ended' \subseteq 1 .. bound
  BY <1>1 DEF Delegation!CredentialsInv
<1>4. \A c \in creds' : c.id \notin ended'
  BY <1>1 DEF Delegation!CredentialsInv
<1> QED BY <1>1, <1>2, <1>3, <1>4 DEF Delegation!CredentialsInv, Delegation!ReadOnly, Delegation!Links

LEMMA CredentialsMove ==
  ASSUME Delegation!CredentialsInv, Delegation!Next
  PROVE  Delegation!CredentialsInv'
<1>1. CASE \E b \in {"b"} : Delegation!StoreBind(b) \/ \E token \in Tokens, chain \in Chains,
         software \in {"run", "another"}, key \in {None, "own"} : Delegation!StartBind(b, token, chain, software, key)
  BY <1>1, StoreBindKeeps, StartBindKeeps
<1>2. CASE \E token \in Tokens : Delegation!Revoke(token)
  BY <1>2, RevokeKeeps
<1>3. CASE Delegation!Restart
  <2>1. creds' = {} /\ binding' = [b \in {"b"} |-> Delegation!IdleBind] /\ UNCHANGED <<bound, ended>>
    BY <1>3 DEF Delegation!Restart, Delegation!history
  <2> QED BY <2>1 DEF Delegation!CredentialsInv, Delegation!IdleBind
<1>4. CASE Delegation!Tick \/ Delegation!HostRevoke
  BY <1>4, CredentialsSame DEF Delegation!Tick, Delegation!HostRevoke, Delegation!service, Delegation!history
<1>5. ASSUME NEW r \in Callers,
             \/ \E c \in creds, scheme \in {"Bearer", "DPoP"}, ask \in Calls : \E proof \in Delegation!ProofsOf(c) :
                  Delegation!Present(r, c, scheme, proof, ask)
             \/ \E token \in Tokens, chain \in Chains, ask \in Calls : Delegation!PresentOther(r, token, chain, ask)
             \/ Delegation!VerifyProof(r) \/ Delegation!Admit(r) \/ Delegation!Ask(r) \/ Delegation!Send(r)
      PROVE  Delegation!CredentialsInv'
  <2>1. creds' \subseteq creds /\ UNCHANGED <<bound, ended, binding>>
    BY <1>5 DEF Delegation!Present, Delegation!PresentOther, Delegation!VerifyProof, Delegation!Admit, Delegation!Ask,
                Delegation!Send, Delegation!service, Delegation!history, Delegation!LiveAt
  <2> QED BY <2>1, CredentialsSame
<1> QED BY <1>1, <1>2, <1>3, <1>4, <1>5 DEF Delegation!Next

-----------------------------------------------------------------------------
(* The delegations: requests. *)

LEMMA RequestsSame ==
  ASSUME Delegation!RequestsInv, req' = req, hostRevoked \subseteq hostRevoked'
  PROVE  Delegation!RequestsInv'
<1>1. ASSUME NEW r \in Callers, req[r].pc \in {"ask", "send"} PROVE Delegation!AdmittedInv(req[r])'
  BY <1>1 DEF Delegation!RequestsInv, Delegation!AdmittedInv
<1> QED BY <1>1 DEF Delegation!RequestsInv

LEMMA RequestGoes ==
  ASSUME Delegation!RequestsInv, hostRevoked' = hostRevoked, NEW r \in Callers, NEW q, req' = [req EXCEPT ![r] = q],
         q.pc \in {"ask", "send"} => Delegation!AdmittedInv(q)
  PROVE  Delegation!RequestsInv' /\ req'[r] = q /\ \A x \in Callers \ {r} : req'[x] = req[x]
<1>1. req = [x \in Callers |-> req[x]]
  BY DEF Delegation!RequestsInv
<1>2. req' = [x \in Callers |-> req'[x]] /\ req'[r] = q /\ \A x \in Callers \ {r} : req'[x] = req[x]
  BY <1>1
<1>3. ASSUME NEW x \in Callers, req'[x].pc \in {"ask", "send"} PROVE Delegation!AdmittedInv(req'[x])
  BY <1>2, <1>3 DEF Delegation!RequestsInv
<1>4. ASSUME NEW x \in Callers, req'[x].pc \in {"ask", "send"} PROVE Delegation!AdmittedInv(req[x])'
  BY <1>3, <1>4 DEF Delegation!AdmittedInv
<1> QED BY <1>2, <1>4 DEF Delegation!RequestsInv

(* What an admission read, and the host's answer, leave of a request. *)
LEMMA AdmitIs ==
  ASSUME Delegation!CredentialsInv, Delegation!RequestsInv, NEW r \in Callers, Delegation!Admit(r)
  PROVE  \E q : req' = [req EXCEPT ![r] = q] /\ q.pc # "send" /\ (q.pc = "ask" => Delegation!AdmittedInv(q))
<1> DEFINE c == req[r].cred
           ok == c # None /\ Delegation!Live(c, now) /\ Delegation!VerifyChain(c.chain) /\ Delegation!TimeOk(c.chain, now)
<1>1. CASE ok
  <2>1. PICK q : q = [pc |-> "ask", cred |-> c, call |-> req[r].call, t |-> now, known |-> hostRevoked, gone |-> ended]
    OBVIOUS
  <2>2. req' = [req EXCEPT ![r] = q]
    BY <1>1, <2>1 DEF Delegation!Admit
  <2>3. c \in creds /\ now < c.expires
    BY <1>1 DEF Delegation!Live
  <2>4. c.chain \in Chains /\ (c.key = None => Delegation!ReadOnly(c.chain)) /\ c.id \notin ended
    BY <2>3 DEF Delegation!CredentialsInv
  <2>5. Delegation!AdmittedInv(q)
    BY <1>1, <2>1, <2>3, <2>4 DEF Delegation!AdmittedInv
  <2>6. q.pc # "send"
    BY <2>1
  <2> QED BY <2>2, <2>5, <2>6, Zenon
<1>2. CASE ~ok
  <2>1. PICK q : q = Delegation!Idle
    OBVIOUS
  <2>2. req' = [req EXCEPT ![r] = q]
    BY <1>2, <2>1 DEF Delegation!Admit
  <2>3. q.pc # "send" /\ q.pc # "ask"
    BY <2>1 DEF Delegation!Idle
  <2> QED BY <2>2, <2>3, Zenon
<1> QED BY <1>1, <1>2

LEMMA AnswerIs ==
  ASSUME Delegation!RequestsInv, NEW r \in Callers, Delegation!Ask(r)
  PROVE  /\ Delegation!AdmittedInv(req[r])
         /\ \E q : /\ req' = [req EXCEPT ![r] = q] /\ q.pc # "ask"
                   /\ q.pc = "send" =>
                        /\ Delegation!AdmittedInv(q) /\ q.cred = req[r].cred /\ q.call = req[r].call
                        /\ Delegation!CallsLeft(q.cred.chain, q.call)
                        /\ hostCount' = Delegation!Counted(q.cred.chain)
<1> DEFINE chain == req[r].cred.chain
           own == Delegation!InScope(chain, req[r].call)
           admits == Delegation!HostKnows(chain) /\ Delegation!CallsLeft(chain, req[r].call)
<1>1. Delegation!AdmittedInv(req[r])
  BY DEF Delegation!RequestsInv, Delegation!Ask
<1>2. CASE own /\ admits /\ req' = [req EXCEPT ![r].pc = "send"]
  <2>1. PICK q : q = [req[r] EXCEPT !.pc = "send"]
    OBVIOUS
  <2>2. req' = [req EXCEPT ![r] = q]
    BY <1>2, <2>1
  <2>3. /\ q \in [pc : {"send"}, cred : {req[r].cred}, call : {req[r].call}, t : {req[r].t}, known : {req[r].known}, gone : {req[r].gone}]
    BY <1>1, <2>1 DEF Delegation!AdmittedInv
  <2>4. {l.digest : l \in Delegation!Links(chain)} \cap req[r].known = {}
    BY <1>1, <1>2 DEF Delegation!AdmittedInv, Delegation!HostKnows
  <2>5. Delegation!AdmittedInv(q)
    BY <1>1, <1>2, <2>3, <2>4 DEF Delegation!AdmittedInv
  <2> QED BY <1>1, <1>2, <2>2, <2>3, <2>5 DEF Delegation!Ask
<1>3. CASE req' = [req EXCEPT ![r] = Delegation!Idle]
  <2>1. PICK q : q = Delegation!Idle
    OBVIOUS
  <2>2. req' = [req EXCEPT ![r] = q]
    BY <1>3, <2>1
  <2>3. q.pc # "send" /\ q.pc # "ask"
    BY <2>1 DEF Delegation!Idle
  <2> QED BY <1>1, <2>2, <2>3, Zenon
<1> QED BY <1>2, <1>3 DEF Delegation!Ask

-----------------------------------------------------------------------------
(* The delegations: what the hosts count. *)

(* A request the host has answered is counted like the call it is about to  *)
(* dispatch.                                                                *)
Sending == {r \in Callers : req[r].pc = "send"}
SentUnder(l) == {s \in sends : l \in Delegation!Links(s.cred.chain)}
SendingUnder(l) == {r \in Sending : l \in Delegation!Links(req[r].cred.chain)}
SentTo(l, source) == {s \in SentUnder(l) : s.call.source = source}
SendingTo(l, source) == {r \in SendingUnder(l) : req[r].call.source = source}

CountInv(l) ==
  Delegation!Limited(l) =>
    /\ Cardinality(SentUnder(l)) + Cardinality(SendingUnder(l)) <= hostCount[l.digest]
    /\ \A e \in l.entries : e.calls # None =>
         Cardinality(SentTo(l, e.source)) + Cardinality(SendingTo(l, e.source)) <= e.calls

SendsInv ==
  /\ hostCount \in [Delegation!Digests -> Nat]
  /\ IsFiniteSet(sends) /\ IsFiniteSet(Sending)
  /\ \A s \in sends : s.n \in Nat /\ s.n <= Cardinality(sends)
  /\ \A l \in UNION {Delegation!Links(c) : c \in Chains} : CountInv(l)

LinksThere == UNION {Delegation!Links(c) : c \in Chains}

(* The library's operators are the same ones within the instance. *)
LEMMA SetsAre ==
  ASSUME NEW S
  PROVE  Delegation!IsFiniteSet(S) = IsFiniteSet(S) /\ Delegation!Cardinality(S) = Cardinality(S)
BY DEF Delegation!IsFiniteSet, IsFiniteSet, Delegation!Cardinality, Cardinality

LEMMA CountsAre ==
  ASSUME SendsInv, NEW l, NEW source
  PROVE  /\ IsFiniteSet(SentUnder(l)) /\ IsFiniteSet(SendingUnder(l))
         /\ IsFiniteSet(SentTo(l, source)) /\ IsFiniteSet(SendingTo(l, source))
         /\ Cardinality(SentUnder(l)) \in Nat /\ Cardinality(SendingUnder(l)) \in Nat
         /\ Cardinality(SentTo(l, source)) \in Nat /\ Cardinality(SendingTo(l, source)) \in Nat
         /\ Cardinality(SentTo(l, source)) <= Cardinality(SentUnder(l))
         /\ Cardinality(SendingTo(l, source)) <= Cardinality(SendingUnder(l))
<1>1. /\ IsFiniteSet(sends) /\ IsFiniteSet(Sending)
      /\ SentUnder(l) \subseteq sends /\ SendingUnder(l) \subseteq Sending
      /\ SentTo(l, source) \subseteq SentUnder(l)
      /\ SendingTo(l, source) \subseteq SendingUnder(l)
  BY DEF SendsInv, SentUnder, SendingUnder, SentTo, SendingTo
<1>2. IsFiniteSet(SentUnder(l)) /\ IsFiniteSet(SendingUnder(l))
  BY <1>1, FS_Subset
<1>3. IsFiniteSet(SentTo(l, source)) /\ IsFiniteSet(SendingTo(l, source))
  BY <1>1, <1>2, FS_Subset
<1>4. /\ Cardinality(SentTo(l, source)) <= Cardinality(SentUnder(l))
      /\ Cardinality(SendingTo(l, source)) <= Cardinality(SendingUnder(l))
  BY <1>1, <1>2, FS_Subset
<1> QED BY <1>2, <1>3, <1>4, FS_CardinalityType

(* A link is counted under its digest. *)
LEMMA DigestCounts ==
  ASSUME NEW l \in LinksThere
  PROVE  l.digest \in Delegation!Digests
  BY DEF LinksThere, Delegation!Digests

(* Nothing is dispatched, and no more is about to be. *)
LEMMA CountsStand ==
  ASSUME SendsInv, sends' = sends, hostCount' \in [Delegation!Digests -> Nat],
         \A d \in Delegation!Digests : hostCount'[d] >= hostCount[d],
         \A x \in Callers : req'[x].pc = "send" => req[x].pc = "send" /\ req'[x] = req[x]
  PROVE  SendsInv'
<1>1. Sending' \subseteq Sending
  BY DEF Sending
<1>2. IsFiniteSet(Sending')
  BY <1>1, FS_Subset DEF SendsInv
<1>3. ASSUME NEW l \in LinksThere PROVE CountInv(l)'
  <2>1. CountInv(l) /\ l.digest \in Delegation!Digests
    BY DigestCounts DEF SendsInv, LinksThere
  <2>2. hostCount[l.digest] \in Nat /\ hostCount'[l.digest] \in Nat /\ hostCount'[l.digest] >= hostCount[l.digest]
    BY <2>1 DEF SendsInv
  <2>3. SentUnder(l)' = SentUnder(l) /\ SendingUnder(l)' \subseteq SendingUnder(l)
    BY <1>1 DEF SentUnder, SendingUnder, Sending
  <2>4. /\ Cardinality(SendingUnder(l)') <= Cardinality(SendingUnder(l))
        /\ Cardinality(SendingUnder(l)') \in Nat
    BY <2>3, CountsAre, FS_Subset, FS_CardinalityType
  <2>5. ASSUME NEW e \in l.entries, e.calls # None, Delegation!Limited(l)
        PROVE  Cardinality(SentTo(l, e.source)') + Cardinality(SendingTo(l, e.source)') <= e.calls
    <3>1. SentTo(l, e.source)' = SentTo(l, e.source)
      BY <2>3 DEF SentTo
    <3>2. SendingTo(l, e.source)' \subseteq SendingTo(l, e.source)
      BY <2>3 DEF SendingTo, SendingUnder, Sending
    <3>3. /\ Cardinality(SendingTo(l, e.source)') <= Cardinality(SendingTo(l, e.source))
          /\ Cardinality(SendingTo(l, e.source)') \in Nat
      BY <3>2, CountsAre, FS_Subset, FS_CardinalityType
    <3>4. e.calls \in Nat
      BY <2>5, ChainsAssumption DEF LinksThere
    <3>5. Cardinality(SentTo(l, e.source)) + Cardinality(SendingTo(l, e.source)) <= e.calls
      BY <2>1, <2>5 DEF CountInv
    <3> QED BY <3>1, <3>3, <3>4, <3>5, CountsAre
  <2>6. Delegation!Limited(l) => Cardinality(SentUnder(l)') + Cardinality(SendingUnder(l)') <= hostCount'[l.digest]
    BY <2>1, <2>2, <2>3, <2>4, CountsAre DEF CountInv
  <2> QED BY <2>5, <2>6 DEF CountInv, Delegation!Limited
<1> QED BY <1>2, <1>3 DEF SendsInv, LinksThere

(* The host admits a call, and counts it under each link that limits it.    *)
LEMMA CountsAnswer ==
  ASSUME SendsInv, NEW r \in Callers, NEW q, req[r].pc = "ask", q.pc = "send", q.cred.chain \in Chains,
         req'[r] = q, \A x \in Callers \ {r} : req'[x] = req[x], sends' = sends,
         Delegation!CallsLeft(q.cred.chain, q.call), hostCount' = Delegation!Counted(q.cred.chain)
  PROVE  SendsInv'
<1>1. r \notin Sending /\ Sending' = Sending \cup {r}
  BY DEF Sending
<1>2. IsFiniteSet(Sending')
  BY <1>1, FS_AddElement DEF SendsInv
<1>3. /\ hostCount \in [Delegation!Digests -> Nat] /\ hostCount' \in [Delegation!Digests -> Nat]
      /\ \A d \in Delegation!Digests : hostCount'[d] >= hostCount[d]
  BY DEF SendsInv, Delegation!Counted
<1>4. ASSUME NEW l \in LinksThere, Delegation!Limited(l) PROVE CountInv(l)'
  <2>1. CountInv(l) /\ l.digest \in Delegation!Digests
    BY DigestCounts DEF SendsInv, LinksThere
  <2>2. hostCount[l.digest] \in Nat /\ hostCount'[l.digest] \in Nat /\ hostCount'[l.digest] >= hostCount[l.digest]
    BY <1>3, <2>1
  <2>3. SentUnder(l)' = SentUnder(l) /\ \A e \in l.entries : SentTo(l, e.source)' = SentTo(l, e.source)
    BY DEF SentUnder, SentTo
  <2>4. CASE l \notin Delegation!Links(q.cred.chain)
    <3>1. SendingUnder(l)' = SendingUnder(l)
      BY <1>1, <2>4 DEF SendingUnder, Sending
    <3>2. \A e \in l.entries : SendingTo(l, e.source)' = SendingTo(l, e.source)
      BY <1>1, <3>1 DEF SendingTo, SendingUnder, Sending
    <3> QED BY <2>1, <2>2, <2>3, <3>1, <3>2, CountsAre DEF CountInv, Delegation!Limited
  <2>5. CASE l \in Delegation!Links(q.cred.chain)
    <3>1. hostCount'[l.digest] = hostCount[l.digest] + 1
      BY <1>3, <1>4, <2>1, <2>5 DEF Delegation!Counted
    <3>2. r \notin SendingUnder(l) /\ SendingUnder(l)' = SendingUnder(l) \cup {r}
      BY <1>1, <2>5 DEF SendingUnder, Sending
    <3>3. Cardinality(SendingUnder(l)') = Cardinality(SendingUnder(l)) + 1
      BY <3>2, CountsAre, FS_AddElement
    <3>4. Cardinality(SentUnder(l)') + Cardinality(SendingUnder(l)') <= hostCount'[l.digest]
      BY <1>4, <2>1, <2>2, <2>3, <3>1, <3>3, CountsAre DEF CountInv
    <3>5. ASSUME NEW e \in l.entries, e.calls # None
          PROVE  Cardinality(SentTo(l, e.source)') + Cardinality(SendingTo(l, e.source)') <= e.calls
      <4>1. e.calls \in Nat
        BY <3>5, ChainsAssumption DEF LinksThere
      <4>2. CASE q.call.source = e.source
        <5>1. SendingTo(l, e.source)' = SendingTo(l, e.source) \cup {r}
          BY <3>2, <4>2 DEF SendingTo, SendingUnder, Sending
        <5>2. r \notin SendingTo(l, e.source)
          BY <3>2 DEF SendingTo
        <5>3. Cardinality(SendingTo(l, e.source)') = Cardinality(SendingTo(l, e.source)) + 1
          BY <5>1, <5>2, CountsAre, FS_AddElement
        <5>4. hostCount[l.digest] < e.calls
          BY <2>5, <3>5, <4>2 DEF Delegation!CallsLeft
        <5>5. Cardinality(SentUnder(l)) + Cardinality(SendingUnder(l)) <= hostCount[l.digest]
          BY <1>4, <2>1 DEF CountInv
        <5> QED BY <2>2, <2>3, <4>1, <5>3, <5>4, <5>5, CountsAre
      <4>3. CASE q.call.source # e.source
        <5>1. SendingTo(l, e.source)' = SendingTo(l, e.source)
          BY <3>2, <4>3 DEF SendingTo, SendingUnder, Sending
        <5> QED BY <1>4, <2>1, <2>3, <3>5, <5>1 DEF CountInv
      <4> QED BY <4>2, <4>3
    <3> QED BY <3>4, <3>5 DEF CountInv
  <2> QED BY <2>4, <2>5
<1>5. \A l \in LinksThere : CountInv(l)'
  BY <1>4 DEF CountInv, Delegation!Limited
<1> QED BY <1>2, <1>3, <1>5 DEF SendsInv, LinksThere

(* A call that was counted is dispatched. *)
LEMMA CountsSend ==
  ASSUME SendsInv, NEW r \in Callers, NEW s, req[r].pc = "send", req'[r].pc # "send",
         \A x \in Callers \ {r} : req'[x] = req[x], sends' = sends \cup {s}, hostCount' = hostCount,
         s.n = Cardinality(sends) + 1, s.cred = req[r].cred, s.call = req[r].call
  PROVE  SendsInv'
<1>1. r \in Sending /\ Sending' = Sending \ {r}
  BY DEF Sending
<1>2. IsFiniteSet(Sending')
  BY <1>1, FS_RemoveElement DEF SendsInv
<1>3. IsFiniteSet(sends) /\ Cardinality(sends) \in Nat /\ s \notin sends
  BY FS_CardinalityType DEF SendsInv
<1>4. IsFiniteSet(sends') /\ Cardinality(sends') = Cardinality(sends) + 1
  BY <1>3, FS_AddElement
<1>5. \A x \in sends : x.n \in Nat /\ x.n <= Cardinality(sends)
  BY DEF SendsInv
<1>6. ASSUME NEW x \in sends' PROVE x.n \in Nat /\ x.n <= Cardinality(sends')
  <2>1. CASE x = s
    BY <1>3, <1>4, <2>1
  <2>2. CASE x \in sends
    BY <1>3, <1>4, <1>5, <2>2
  <2> QED BY <2>1, <2>2
<1>7. ASSUME NEW l \in LinksThere, Delegation!Limited(l) PROVE CountInv(l)'
  <2>1. CountInv(l)
    BY DEF SendsInv, LinksThere
  <2>2. CASE l \notin Delegation!Links(s.cred.chain)
    <3>1. SentUnder(l)' = SentUnder(l) /\ SendingUnder(l)' = SendingUnder(l)
      BY <1>1, <2>2 DEF SentUnder, SendingUnder, Sending
    <3>2. \A e \in l.entries : /\ SentTo(l, e.source)' = SentTo(l, e.source)
                               /\ SendingTo(l, e.source)' = SendingTo(l, e.source)
      BY <1>1, <3>1 DEF SentTo, SendingTo, SendingUnder, Sending
    <3> QED BY <2>1, <3>1, <3>2 DEF CountInv, Delegation!Limited
  <2>3. CASE l \in Delegation!Links(s.cred.chain)
    <3>1. SentUnder(l)' = SentUnder(l) \cup {s} /\ s \notin SentUnder(l)
      BY <1>3, <2>3 DEF SentUnder
    <3>2. r \in SendingUnder(l) /\ SendingUnder(l)' = SendingUnder(l) \ {r}
      BY <1>1, <2>3 DEF SendingUnder, Sending
    <3>3. /\ Cardinality(SentUnder(l)') = Cardinality(SentUnder(l)) + 1
          /\ Cardinality(SendingUnder(l)') = Cardinality(SendingUnder(l)) - 1
      BY <3>1, <3>2, CountsAre, FS_AddElement, FS_RemoveElement
    <3>4. Cardinality(SentUnder(l)') + Cardinality(SendingUnder(l)') <= hostCount'[l.digest]
      BY <1>7, <2>1, <3>3, CountsAre DEF CountInv
    <3>5. ASSUME NEW e \in l.entries, e.calls # None
          PROVE  Cardinality(SentTo(l, e.source)') + Cardinality(SendingTo(l, e.source)') <= e.calls
      <4>1. Cardinality(SentTo(l, e.source)) + Cardinality(SendingTo(l, e.source)) <= e.calls
        BY <1>7, <2>1, <3>5 DEF CountInv
      <4>2. CASE s.call.source = e.source
        <5>1. SentTo(l, e.source)' = SentTo(l, e.source) \cup {s} /\ s \notin SentTo(l, e.source)
          BY <3>1, <4>2 DEF SentTo
        <5>2. SendingTo(l, e.source)' = SendingTo(l, e.source) \ {r} /\ r \in SendingTo(l, e.source)
          BY <3>2, <4>2 DEF SendingTo, SendingUnder, Sending
        <5>3. Cardinality(SentTo(l, e.source)') = Cardinality(SentTo(l, e.source)) + 1
          BY <5>1, CountsAre, FS_AddElement
        <5>4. Cardinality(SendingTo(l, e.source)') = Cardinality(SendingTo(l, e.source)) - 1
          BY <5>2, CountsAre, FS_RemoveElement
        <5> QED BY <4>1, <5>3, <5>4, CountsAre
      <4>3. CASE s.call.source # e.source
        <5>1. SentTo(l, e.source)' = SentTo(l, e.source)
          BY <3>1, <4>3 DEF SentTo
        <5>2. SendingTo(l, e.source)' = SendingTo(l, e.source)
          BY <3>2, <4>3 DEF SendingTo, SendingUnder, Sending
        <5> QED BY <4>1, <5>1, <5>2
      <4> QED BY <4>2, <4>3
    <3> QED BY <3>4, <3>5 DEF CountInv
  <2> QED BY <2>2, <2>3
<1>8. \A l \in LinksThere : CountInv(l)'
  BY <1>7 DEF CountInv, Delegation!Limited
<1> QED BY <1>2, <1>4, <1>6, <1>8 DEF SendsInv, LinksThere

-----------------------------------------------------------------------------
(* The delegations: every step. *)

DelegationInv ==
  Delegation!CredentialsInv /\ Delegation!RequestsInv /\ SendsInv /\ Delegation!SendIsAdmitted

(* A request that is not dispatched by the step, nor about to be. *)
LEMMA RequestWaits ==
  ASSUME Delegation!RequestsInv, SendsInv, NEW r \in Callers, NEW q, req' = [req EXCEPT ![r] = q], q.pc # "send",
         q.pc = "ask" => Delegation!AdmittedInv(q), UNCHANGED <<hostRevoked, hostCount, sends>>
  PROVE  Delegation!RequestsInv' /\ SendsInv'
<1>1. Delegation!RequestsInv' /\ req'[r] = q /\ \A x \in Callers \ {r} : req'[x] = req[x]
  BY RequestGoes
<1>2. /\ hostCount' \in [Delegation!Digests -> Nat]
      /\ \A d \in Delegation!Digests : hostCount'[d] >= hostCount[d]
  BY DEF SendsInv
<1> QED BY <1>1, <1>2, CountsStand

LEMMA PresentKeeps ==
  ASSUME Delegation!RequestsInv, SendsInv, NEW r \in Callers,
         \/ \E c \in creds, scheme \in {"Bearer", "DPoP"}, ask \in Calls : \E proof \in Delegation!ProofsOf(c) :
              Delegation!Present(r, c, scheme, proof, ask)
         \/ \E token \in Tokens, chain \in Chains, ask \in Calls : Delegation!PresentOther(r, token, chain, ask)
         \/ Delegation!VerifyProof(r)
  PROVE  Delegation!RequestsInv' /\ SendsInv'
<1>1. UNCHANGED <<hostRevoked, hostCount, sends>>
  BY DEF Delegation!Present, Delegation!PresentOther, Delegation!VerifyProof, Delegation!hosts, Delegation!history
<1>2. \E q : req' = [req EXCEPT ![r] = q] /\ q.pc \in {"idle", "proof", "admit"}
  <2>1. CASE \E c \in creds, scheme \in {"Bearer", "DPoP"}, ask \in Calls : \E proof \in Delegation!ProofsOf(c) :
               Delegation!Present(r, c, scheme, proof, ask)
    <3>1. PICK c \in creds, scheme \in {"Bearer", "DPoP"}, ask \in Calls : \E proof \in Delegation!ProofsOf(c) :
                 Delegation!Present(r, c, scheme, proof, ask)
      BY <2>1
    <3>2. PICK proof \in Delegation!ProofsOf(c) : Delegation!Present(r, c, scheme, proof, ask)
      BY <3>1
    <3>3. PICK q : q = IF c.key = None THEN [pc |-> "admit", cred |-> c, call |-> ask]
                       ELSE [pc |-> "proof", cred |-> c, call |-> ask, proof |-> proof, t |-> now]
      OBVIOUS
    <3>4. req' = [req EXCEPT ![r] = q] /\ q.pc \in {"idle", "proof", "admit"}
      BY <3>2, <3>3 DEF Delegation!Present
    <3> QED BY <3>4, Zenon
  <2>2. CASE \E token \in Tokens, chain \in Chains, ask \in Calls : Delegation!PresentOther(r, token, chain, ask)
    <3>1. PICK ask \in Calls : req' = [req EXCEPT ![r] = [pc |-> "admit", cred |-> None, call |-> ask]]
      BY <2>2 DEF Delegation!PresentOther
    <3>2. PICK q : q = [pc |-> "admit", cred |-> None, call |-> ask]
      OBVIOUS
    <3>3. req' = [req EXCEPT ![r] = q] /\ q.pc \in {"idle", "proof", "admit"}
      BY <3>1, <3>2
    <3> QED BY <3>3, Zenon
  <2>3. CASE Delegation!VerifyProof(r)
    <3>1. \/ req' = [req EXCEPT ![r] = Delegation!Idle]
          \/ req' = [req EXCEPT ![r] = [pc |-> "admit", cred |-> req[r].cred, call |-> req[r].call]]
      BY <2>3 DEF Delegation!VerifyProof, Delegation!RequestsInv
    <3>2. PICK q : /\ q \in {Delegation!Idle, [pc |-> "admit", cred |-> req[r].cred, call |-> req[r].call]}
                   /\ req' = [req EXCEPT ![r] = q]
      BY <3>1
    <3>3. q.pc \in {"idle", "proof", "admit"}
      BY <3>2 DEF Delegation!Idle
    <3> QED BY <3>2, <3>3, Zenon
  <2> QED BY <2>1, <2>2, <2>3
<1>3. PICK q : req' = [req EXCEPT ![r] = q] /\ q.pc \in {"idle", "proof", "admit"}
  BY <1>2
<1> QED BY <1>1, <1>3, RequestWaits

LEMMA AdmitKeeps ==
  ASSUME Delegation!CredentialsInv, Delegation!RequestsInv, SendsInv, NEW r \in Callers, Delegation!Admit(r)
  PROVE  Delegation!RequestsInv' /\ SendsInv'
<1>1. PICK q : req' = [req EXCEPT ![r] = q] /\ q.pc # "send" /\ (q.pc = "ask" => Delegation!AdmittedInv(q))
  BY AdmitIs
<1>2. UNCHANGED <<hostRevoked, hostCount, sends>>
  BY DEF Delegation!Admit, Delegation!hosts, Delegation!history
<1> QED BY <1>1, <1>2, RequestWaits

LEMMA AnswerKeeps ==
  ASSUME Delegation!RequestsInv, SendsInv, NEW r \in Callers, Delegation!Ask(r)
  PROVE  Delegation!RequestsInv' /\ SendsInv'
<1>1. PICK q : /\ req' = [req EXCEPT ![r] = q] /\ q.pc # "ask"
               /\ q.pc = "send" =>
                    /\ Delegation!AdmittedInv(q) /\ q.cred = req[r].cred /\ q.call = req[r].call
                    /\ Delegation!CallsLeft(q.cred.chain, q.call)
                    /\ hostCount' = Delegation!Counted(q.cred.chain)
  BY AnswerIs
<1>2. UNCHANGED <<hostRevoked, sends>> /\ req[r].pc = "ask"
  BY DEF Delegation!Ask, Delegation!history
<1>3. Delegation!RequestsInv' /\ req'[r] = q /\ \A x \in Callers \ {r} : req'[x] = req[x]
  BY <1>1, <1>2, RequestGoes
<1>4. /\ hostCount' \in [Delegation!Digests -> Nat]
      /\ \A d \in Delegation!Digests : hostCount'[d] >= hostCount[d]
  BY DEF Delegation!Ask, Delegation!Counted, SendsInv
<1>5. CASE q.pc = "send"
  <2>1. q.cred.chain \in Chains
    BY <1>1, <1>5 DEF Delegation!AdmittedInv
  <2> QED BY <1>1, <1>2, <1>3, <1>5, <2>1, CountsAnswer
<1>6. CASE q.pc # "send"
  BY <1>2, <1>3, <1>4, <1>6, CountsStand
<1> QED BY <1>3, <1>5, <1>6

(* A verified chain is of one subject, at most MaxDepth links below the root. *)
LEMMA ChainIsOneSubject ==
  ASSUME NEW chain \in Chains, Delegation!VerifyChain(chain)
  PROVE  /\ Delegation!Leaf(chain).sub = Delegation!Root(chain).sub
         /\ Delegation!Root(chain) \in Delegation!Links(chain)
<1>1. chain \in Seq(Delegation!Links(chain)) /\ Len(chain) \in 1 .. 5
  BY ChainsAssumption DEF Delegation!VerifyChain
<1>2. \A k \in 2 .. Len(chain) : chain[k].sub = chain[k - 1].sub
  BY DEF Delegation!VerifyChain, Delegation!Narrows
<1>3. chain[Len(chain)].sub = chain[1].sub
  BY <1>1, <1>2
<1> QED BY <1>1, <1>3 DEF Delegation!Leaf, Delegation!Root, Delegation!Links

LEMMA SendKeeps ==
  ASSUME Delegation!RequestsInv, SendsInv, Delegation!SendIsAdmitted, NEW r \in Callers, Delegation!Send(r)
  PROVE  Delegation!RequestsInv' /\ SendsInv' /\ Delegation!SendIsAdmitted'
<1> DEFINE q == req[r]
<1>1. PICK s : s = [n |-> Cardinality(sends) + 1, cred |-> q.cred, t |-> q.t, call |-> q.call, known |-> q.known,
                    gone |-> q.gone, sub |-> Delegation!Leaf(q.cred.chain).sub]
  OBVIOUS
<1>2. /\ q.pc = "send" /\ sends' = sends \cup {s} /\ req' = [req EXCEPT ![r] = Delegation!Idle]
      /\ UNCHANGED <<hostRevoked, hostCount>>
  BY <1>1, SetsAre DEF Delegation!Send, Delegation!hosts
<1>3. Delegation!AdmittedInv(q)
  BY <1>2 DEF Delegation!RequestsInv
<1>4. PICK idle : idle = Delegation!Idle
  OBVIOUS
<1>5. idle.pc = "idle" /\ req' = [req EXCEPT ![r] = idle]
  BY <1>2, <1>4 DEF Delegation!Idle
<1>6. Delegation!RequestsInv' /\ req'[r] = idle /\ \A x \in Callers \ {r} : req'[x] = req[x]
  BY <1>2, <1>5, RequestGoes
<1>7. s.n = Cardinality(sends) + 1 /\ s.cred = q.cred /\ s.call = q.call
  BY <1>1
<1>8. SendsInv'
  BY <1>2, <1>5, <1>6, <1>7, CountsSend
<1>9. /\ s.t < s.cred.expires /\ s.cred.id \notin s.gone
      /\ Delegation!TimeOk(s.cred.chain, s.t) /\ Delegation!InScope(s.cred.chain, s.call)
      /\ {l.digest : l \in Delegation!Links(s.cred.chain)} \cap s.known = {}
      /\ s.cred.chain \in Chains /\ Delegation!VerifyChain(s.cred.chain)
      /\ s.cred.key = None => Delegation!ReadOnly(s.cred.chain)
      /\ s.sub = Delegation!Leaf(s.cred.chain).sub
  BY <1>1, <1>2, <1>3 DEF Delegation!AdmittedInv
<1>10. s.sub = Delegation!Root(s.cred.chain).sub /\ Delegation!Root(s.cred.chain) \in Delegation!Links(s.cred.chain)
  BY <1>9, ChainIsOneSubject
<1>11. s.cred.key = None => s.call.effect \notin {"propose", "act"}
  BY <1>9, <1>10 DEF Delegation!InScope, Delegation!ReadOnly
<1>12. Delegation!SendIsAdmitted'
  BY <1>2, <1>9, <1>10, <1>11 DEF Delegation!SendIsAdmitted
<1> QED BY <1>6, <1>8, <1>12

LEMMA DelegationMoves ==
  ASSUME DelegationInv, Delegation!Next
  PROVE  DelegationInv'
<1>1. Delegation!CredentialsInv' /\ Delegation!CredentialsInv /\ Delegation!RequestsInv /\ SendsInv /\ Delegation!SendIsAdmitted
  BY CredentialsMove DEF DelegationInv
<1>2. ASSUME sends' = sends PROVE Delegation!SendIsAdmitted'
  BY <1>1, <1>2 DEF Delegation!SendIsAdmitted
<1>3. CASE UNCHANGED <<req, hostCount, sends>> /\ hostRevoked \subseteq hostRevoked'
  <2>1. \A d \in Delegation!Digests : hostCount'[d] >= hostCount[d]
    BY <1>1, <1>3 DEF SendsInv
  <2>2. hostCount' \in [Delegation!Digests -> Nat]
    BY <1>1, <1>3 DEF SendsInv
  <2> QED BY <1>1, <1>2, <1>3, <2>1, <2>2, RequestsSame, CountsStand DEF DelegationInv
<1>4. CASE Delegation!Restart
  <2>1. UNCHANGED <<hostCount, sends, hostRevoked>> /\ req' = [r \in Callers |-> Delegation!Idle]
    BY <1>4 DEF Delegation!Restart, Delegation!hosts, Delegation!history
  <2>2. \A r \in Callers : req'[r].pc = "idle"
    BY <2>1 DEF Delegation!Idle
  <2>3. Delegation!RequestsInv'
    BY <2>1, <2>2 DEF Delegation!RequestsInv
  <2>4. /\ hostCount' \in [Delegation!Digests -> Nat]
        /\ \A d \in Delegation!Digests : hostCount'[d] >= hostCount[d]
    BY <1>1, <2>1 DEF SendsInv
  <2> QED BY <1>1, <1>2, <2>1, <2>2, <2>3, <2>4, CountsStand DEF DelegationInv
<1>5. ASSUME NEW r \in Callers,
             \/ \E c \in creds, scheme \in {"Bearer", "DPoP"}, ask \in Calls : \E proof \in Delegation!ProofsOf(c) :
                  Delegation!Present(r, c, scheme, proof, ask)
             \/ \E token \in Tokens, chain \in Chains, ask \in Calls : Delegation!PresentOther(r, token, chain, ask)
             \/ Delegation!VerifyProof(r)
      PROVE  DelegationInv'
  <2>1. sends' = sends
    BY <1>5 DEF Delegation!Present, Delegation!PresentOther, Delegation!VerifyProof, Delegation!history
  <2> QED BY <1>1, <1>2, <1>5, <2>1, PresentKeeps DEF DelegationInv
<1>6. ASSUME NEW r \in Callers, Delegation!Admit(r) \/ Delegation!Ask(r) \/ Delegation!Send(r)
      PROVE  DelegationInv'
  <2>1. CASE Delegation!Admit(r)
    BY <1>1, <1>2, <2>1, AdmitKeeps DEF DelegationInv, Delegation!Admit, Delegation!history
  <2>2. CASE Delegation!Ask(r)
    BY <1>1, <1>2, <2>2, AnswerKeeps DEF DelegationInv, Delegation!Ask, Delegation!history
  <2>3. CASE Delegation!Send(r)
    BY <1>1, <2>3, SendKeeps DEF DelegationInv
  <2> QED BY <1>6, <2>1, <2>2, <2>3
<1>7. CASE Delegation!Tick \/ Delegation!HostRevoke \/ \E token \in Tokens : Delegation!Revoke(token)
  BY <1>3, <1>7 DEF Delegation!Tick, Delegation!HostRevoke, Delegation!Revoke, Delegation!hosts, Delegation!history
<1>8. CASE \E b \in {"b"} : Delegation!StoreBind(b) \/ \E token \in Tokens, chain \in Chains,
         software \in {"run", "another"}, key \in {None, "own"} : Delegation!StartBind(b, token, chain, software, key)
  BY <1>3, <1>8 DEF Delegation!StoreBind, Delegation!StartBind, Delegation!hosts, Delegation!history
<1> QED BY <1>4, <1>5, <1>6, <1>7, <1>8 DEF Delegation!Next

LEMMA DelegationBegins ==
  ASSUME Delegation!Init
  PROVE  DelegationInv
<1>1. /\ creds = {} /\ bound = 0 /\ ended = {} /\ sends = {} /\ hostCount = [d \in Delegation!Digests |-> 0]
      /\ binding = [b \in {"b"} |-> Delegation!IdleBind] /\ req = [r \in Callers |-> Delegation!Idle]
  BY DEF Delegation!Init
<1>2. Delegation!CredentialsInv /\ Delegation!SendIsAdmitted
  BY <1>1 DEF Delegation!CredentialsInv, Delegation!SendIsAdmitted
<1>3. \A r \in Callers : req[r].pc = "idle"
  BY <1>1 DEF Delegation!Idle
<1>4. Delegation!RequestsInv
  BY <1>1, <1>3 DEF Delegation!RequestsInv
<1>5. Sending = {}
  BY <1>3 DEF Sending
<1>6. ASSUME NEW l \in LinksThere PROVE CountInv(l)
  <2>1. SentUnder(l) = {} /\ SendingUnder(l) = {} /\ \A e \in l.entries : SentTo(l, e.source) = {} /\ SendingTo(l, e.source) = {}
    BY <1>1, <1>5 DEF SentUnder, SendingUnder, SentTo, SendingTo
  <2>2. hostCount[l.digest] = 0 /\ \A e \in l.entries : e.calls # None => e.calls \in Nat
    BY <1>1, DigestCounts, ChainsAssumption DEF LinksThere
  <2> QED BY <2>1, <2>2, FS_EmptySet DEF CountInv
<1> QED BY <1>1, <1>2, <1>4, <1>5, <1>6, FS_EmptySet DEF DelegationInv, SendsInv, LinksThere

LEMMA SendsAreCounted ==
  ASSUME DelegationInv
  PROVE  Delegation!EverySendCounted
<1> SUFFICES ASSUME NEW l \in LinksThere, Delegation!Limited(l)
             PROVE  /\ Cardinality(SentUnder(l)) <= hostCount[l.digest]
                    /\ \A e \in l.entries : e.calls # None => Cardinality(SentTo(l, e.source)) <= e.calls
  BY SetsAre DEF Delegation!EverySendCounted, LinksThere, SentUnder, SentTo
<1>1. SendsInv /\ CountInv(l) /\ hostCount[l.digest] \in Nat
  BY DigestCounts DEF DelegationInv, SendsInv, LinksThere
<1>2. \A e \in l.entries : e.calls # None => e.calls \in Nat
  BY ChainsAssumption DEF LinksThere
<1> QED BY <1>1, <1>2, CountsAre DEF CountInv

(* A call is dispatched under a delegation only if, after it was asked for, *)
(* its credential was live, each link of its chain valid and unrevoked and  *)
(* the call in the scope of all; and its issuing host has counted it        *)
(* against each limit (bind, present, admitDelegated).                      *)
THEOREM SendStaysDelegated == Spec => []SendIsDelegated
<1> DEFINE Inv == part = "delegation" => DelegationInv
<1>1. Init => Inv
  BY DelegationBegins DEF Init
<1>2. Inv /\ [Next]_vars => Inv'
  <2> SUFFICES ASSUME Inv, [Next]_vars, part' = "delegation" PROVE DelegationInv'
    OBVIOUS
  <2>1. CASE UNCHANGED <<part, delegationVars>>
    <3>1. UNCHANGED <<creds, bound, ended, binding, req, hostRevoked, hostCount, sends>> /\ DelegationInv
      BY <2>1 DEF delegationVars
    <3>2. Delegation!CredentialsInv' /\ Delegation!RequestsInv'
      BY <3>1, CredentialsSame, RequestsSame DEF DelegationInv
    <3>3. Delegation!SendIsAdmitted'
      BY <3>1 DEF DelegationInv, Delegation!SendIsAdmitted
    <3>4. /\ hostCount' \in [Delegation!Digests -> Nat]
          /\ \A d \in Delegation!Digests : hostCount'[d] >= hostCount[d]
      BY <3>1 DEF DelegationInv, SendsInv
    <3> QED BY <3>1, <3>2, <3>3, <3>4, CountsStand DEF DelegationInv
  <2>2. CASE part = "delegation" /\ Delegation!Next
    BY <2>2, DelegationMoves
  <2> QED BY <2>1, <2>2 DEF Next, vars
<1>3. Inv => SendIsDelegated
  BY SendsAreCounted DEF SendIsDelegated, DelegationInv
<1> QED BY <1>1, <1>2, <1>3, PTL DEF Spec
=============================================================================
