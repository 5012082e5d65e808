------------------------------ MODULE Connect ------------------------------
(***************************************************************************)
(* The engine's configuration and the files beside it: `gateway connect`,  *)
(* which adds or replaces a platform's entry, `gateway publishers`, which  *)
(* records what a publisher's registry says of it, and the two processes   *)
(* that read the files when they start (go/connect.go,                     *)
(* go/operation_descriptors.go, go/publisher.go, go/descriptor_start.go).  *)
(*                                                                         *)
(* The configuration is replaced by a rename, and what its directory holds *)
(* reaches the disk when the directory is synced; a crash of the host      *)
(* loses what was not.  A process may die, or give up on a failed file     *)
(* operation, between any two effects.  The operator also edits the file   *)
(* with an editor, which takes no lock; and the catalog's binding, and the *)
(* server a platform is reached at, change when they like.                 *)
(***************************************************************************)
EXTENDS Naturals, FiniteSets

CONSTANTS
  Platforms,   \* names of platforms
  Connects,    \* runs of gateway connect, at one time
  Checks,      \* runs of gateway publishers
  Bindings,    \* what a file of the catalog may hold
  Requests,    \* what a connect may be asked
  FirstConfigs,\* configurations the operator starts from
  MaxServer,   \* bound: versions of what a server answers
  MaxEdits,    \* bound: saves of the editor, releases of the catalog or of a server
  MaxReadings, \* bound: readings of a publisher's state
  MaxCrashes,  \* bound: crashes of the host
  None

VARIABLES
  config, kept,   \* the configuration, and the one a crash of the host leaves
  snaps, durable, \* the snapshots beside it, and those a crash leaves
  lock,           \* who holds <config>.lock, or None
  records,        \* the publisher records: <config>.publishers
  catalog,        \* the binding the catalog's file of each platform holds
  server,         \* what the platforms' server answers now
  proc,           \* the runs of connect and of publishers
  clock,          \* readings made so far
  edits, crashes

files == <<config, kept, snaps, durable>>
world == <<catalog, server>>
bounds == <<edits, crashes>>
vars == <<files, lock, records, world, proc, clock, bounds>>

-----------------------------------------------------------------------------
(* enabledMCPOperations, describedOperation. *)
Enabled(b, write) == {"live"} \cup (IF write /\ b.tools # {} THEN {"write"} ELSE {})

(* publishSnapshot names a snapshot by its digest: by what it says. *)
Snapshot(p, b, op, s) == [platform |-> p, binding |-> b, op |-> op, server |-> s]

PinsOf(e) == {e.pins[op] : op \in DOMAIN e.pins}
Named(c) == UNION {PinsOf(c.entries[p]) : p \in DOMAIN c.entries}

(* parseEngineConfig: a member of an entry needs the version that brought   *)
(* it in.                                                                  *)
Parses(c) ==
  \A p \in DOMAIN c.entries :
    LET e == c.entries[p] IN
    /\ e.pins # <<>> => c.version >= 12
    /\ e.policies # {} => c.version >= 4
    /\ e.parameters # None => c.version >= 8

(* loadBinding: a pin is the digest of what the catalog must hold. *)
Loads(p, e) == e.binding = catalog[p]

(* policiesMatch. *)
PoliciesMatch(e) == e.policies \subseteq e.binding.tools

(* operationPinsMatch, descriptorStatementPinsMatch. *)
OperationPinsMatch(e) ==
  IF e.binding.owners THEN DOMAIN e.pins = Enabled(e.binding, e.write) ELSE e.pins = <<>>

(* resolveParameters: what the binding leaves open is given, and no more. *)
ParametersMatch(b, parameters) == (parameters # None) = b.open

(* resolveEngineConfig, of one entry. *)
Resolves(p, e) ==
  /\ Loads(p, e)
  /\ ParametersMatch(e.binding, e.parameters)
  /\ e.write => e.binding.tools # {}
  /\ PoliciesMatch(e)
  /\ OperationPinsMatch(e)

(* newPlatformEntry, and what --replace keeps of the entry before it.       *)
Entry(c, req) ==
  LET p == req.platform  replaces == p \in DOMAIN c.entries IN
  [binding |-> catalog[p], write |-> req.write, pins |-> <<>>,
   parameters |-> IF req.parameters = None /\ replaces THEN c.entries[p].parameters ELSE req.parameters,
   policies |-> IF replaces THEN c.entries[p].policies ELSE {}]

(* renderOperationPlatformEntry, renderDescriptorStatements: the version is *)
(* raised to what the entry needs, and never lowered.                       *)
Rendered(c, p, e) ==
  [version |-> IF c.version >= 12 THEN c.version ELSE 12,
   entries |-> [q \in DOMAIN c.entries \cup {p} |-> IF q = p THEN e ELSE c.entries[q]]]

-----------------------------------------------------------------------------
(* Publisher records. *)
Conclusive(state) == state \in {"maintained", "unmaintained"}

(* An unverifiable publisher is one more that is inconclusive. *)
States == {"maintained", "unmaintained", "unknown"}

NoRecord == [at |-> 0, state |-> "none", publisher |-> None, binding |-> None, tried |-> 0]

(* publisherChecker.read: what the registry answered at that time. *)
Reading(b, state, at) ==
  [at |-> at, state |-> state, publisher |-> b.publisher, binding |-> b, tried |-> 0]

(* Mutant: the last reading is the one kept. *)
MergeLatest(prev, reading) == reading

(* mergeReading: an inconclusive reading never replaces a conclusive one of *)
(* the same publisher; it is noted as the last attempt.                     *)
Merge(prev, reading) ==
  IF \/ Conclusive(reading.state) \/ ~Conclusive(prev.state)
     \/ reading.publisher # prev.publisher
    THEN reading
    ELSE [prev EXCEPT !.binding = reading.binding, !.tried = reading.at]

(* publisherRefusal: judged at every call, from the file as it is then. *)
Refuses(p, b) ==
  records.policy = "refuse" /\ records.of[p].binding = b /\ records.of[p].state = "unmaintained"

-----------------------------------------------------------------------------
(* `seen` is history: how many edits there were when the file was read again. *)
Idle == [pc |-> "idle", req |-> None, reading |-> NoRecord, read |-> None, entry |-> None,
         seen |-> 0]

Procs == Connects \cup Checks

Init ==
  /\ config \in FirstConfigs /\ kept = config
  /\ snaps = Named(config) /\ durable = snaps
  /\ lock = None
  /\ records \in [policy : {"report", "refuse"}, of : {[p \in Platforms |-> NoRecord]}]
  /\ catalog \in [Platforms -> Bindings] /\ server = 1
  /\ proc = [c \in Procs |-> Idle]
  /\ clock = 0 /\ edits = 0 /\ crashes = 0

Becomes(c, pc) == proc' = [proc EXCEPT ![c].pc = pc]
Step(c, from, to) == proc[c].pc = from /\ Becomes(c, to)

(* A run that ends, of itself or not, lets the lock go. *)
End(c) ==
  /\ proc' = [proc EXCEPT ![c] = Idle]
  /\ lock' = IF lock = c THEN None ELSE lock

(* connectPublisher: before the lock, the binding is pinned, the publisher  *)
(* is asked, and the operator's policy is applied to what it said.          *)
Ask(c, req) ==
  LET b == catalog[req.platform] IN
  /\ proc[c].pc = "idle"
  /\ \/ /\ b.customer /\ clock < MaxReadings
        /\ clock' = clock + 1
        /\ \E state \in States :
             LET reading == Reading(b, state, clock + 1)
                 merged == Merge(records.of[req.platform], reading) IN
             /\ ~(records.policy = "refuse" /\ merged.state = "unmaintained")
             /\ proc' = [proc EXCEPT ![c] = [Idle EXCEPT !.pc = "asked", !.req = req,
                                                         !.reading = reading]]
     \/ /\ ~b.customer
        /\ proc' = [proc EXCEPT ![c] = [Idle EXCEPT !.pc = "asked", !.req = req]]
        /\ UNCHANGED clock
  /\ UNCHANGED <<files, lock, records, world, bounds>>

(* openConfigFile: a connect that finds the lock held refuses.             *)
Lock(c) ==
  /\ proc[c].pc = "asked"
  /\ \/ lock = None /\ lock' = c /\ Becomes(c, "locked")
     \/ lock # None /\ End(c)
  /\ UNCHANGED <<files, records, world, clock, bounds>>

(* connect: the configuration is read and judged without the entry that is  *)
(* to be replaced, and the entry is made and judged with what it keeps.     *)
Read(c) ==
  LET req == proc[c].req
      p == req.platform
      b == catalog[p]
      e == Entry(config, req) IN
  /\ proc[c].pc = "locked"
  /\ Parses(config)
  /\ p \in DOMAIN config.entries => req.replace
  /\ \A q \in DOMAIN config.entries \ {p} : Resolves(q, config.entries[q])
  /\ b.owners                                  \* currentToolOwners
  /\ req.write => b.tools # {}                 \* credentialsMatch
  /\ ParametersMatch(b, e.parameters)
  /\ e.policies # {} => e.write
  /\ PoliciesMatch(e)
  /\ proc' = [proc EXCEPT ![c].pc = "read", ![c].read = config, ![c].entry = e]
  /\ UNCHANGED <<files, lock, records, world, clock, bounds>>

(* connectTaxonomyOperations: each source's check answers, with a snapshot  *)
(* of each operation that is described.                                     *)
Capture(c) ==
  LET e == proc[c].entry
      p == proc[c].req.platform IN
  /\ proc[c].pc = "read"
  /\ proc' = [proc EXCEPT ![c].pc = "captured",
       ![c].entry.pins = [op \in Enabled(e.binding, e.write) |-> Snapshot(p, e.binding, op, server)]]
  /\ UNCHANGED <<files, lock, records, world, clock, bounds>>

(* publishSnapshot: linked under its digest, never over a name, and the     *)
(* directory synced before anything names it.                               *)
Publish(c) ==
  /\ Step(c, "captured", "published")
  /\ snaps' = snaps \cup PinsOf(proc[c].entry)
  /\ UNCHANGED <<config, kept, durable, lock, records, world, clock, bounds>>

SyncSnapshots(c) ==
  /\ Step(c, "published", "synced")
  /\ durable' = durable \cup PinsOf(proc[c].entry)
  /\ UNCHANGED <<config, kept, snaps, lock, records, world, clock, bounds>>

Text(c) == Rendered(proc[c].read, proc[c].req.platform, proc[c].entry)

(* Mutant: the file is not read again before it is replaced. *)
ReadAgainNot(c) ==
  /\ proc[c].pc = "synced" /\ Parses(Text(c))
  /\ proc' = [proc EXCEPT ![c].pc = "checked", ![c].seen = edits]
  /\ UNCHANGED <<files, lock, records, world, clock, bounds>>

(* configFile.replace: the new file is written apart and synced, and the    *)
(* old one read again must be what the checks were run against.             *)
ReadAgain(c) ==
  /\ proc[c].pc = "synced"
  /\ Parses(Text(c))
  /\ \/ /\ config = proc[c].read
        /\ proc' = [proc EXCEPT ![c].pc = "checked", ![c].seen = edits]
        /\ UNCHANGED lock
     \/ config # proc[c].read /\ End(c)
  /\ UNCHANGED <<files, records, world, clock, bounds>>

(* The commit.  The rename may reach the disk before the directory is       *)
(* synced, so that a crash leaves the one or the other.                     *)
Rename(c) ==
  /\ Step(c, "checked", "renamed")
  /\ config' = Text(c)
  /\ kept' \in {kept, Text(c)}
  /\ UNCHANGED <<snaps, durable, lock, records, world, clock, bounds>>

(* syncDir, then afterWrite: the publisher's record is read again under the *)
(* lock, so that no other writer's change is lost.                          *)
SyncConfig(c) ==
  /\ Step(c, "renamed", "written")
  /\ kept' = config
  /\ UNCHANGED <<config, snaps, durable, lock, records, world, clock, bounds>>

AfterWrite(c) ==
  LET p == proc[c].req.platform IN
  /\ proc[c].pc = "written"
  /\ records' = IF proc[c].reading = NoRecord THEN records
                ELSE [records EXCEPT !.of[p] = Merge(@, proc[c].reading)]
  /\ End(c)
  /\ UNCHANGED <<files, world, clock, bounds>>

(* runPublishers: the records are read, then the configuration, and every   *)
(* customer binding it pins is asked about, before the lock is waited for.  *)
(* One platform's reading stands for each.                                  *)
ReadPublishers(c, p) ==
  /\ proc[c].pc = "idle" /\ clock < MaxReadings
  /\ Parses(config) /\ p \in DOMAIN config.entries
  /\ \A q \in DOMAIN config.entries : Loads(q, config.entries[q])
  /\ config.entries[p].binding.customer
  /\ clock' = clock + 1
  /\ \E state \in States :
       proc' = [proc EXCEPT ![c] =
         [Idle EXCEPT !.pc = "checked", !.req = [platform |-> p], !.read = records.of[p],
           !.reading = Reading(config.entries[p].binding, state, clock + 1)]]
  /\ UNCHANGED <<files, lock, records, world, bounds>>

(* Under the lock, a record another writer has made meanwhile is left.      *)
WritePublishers(c) ==
  LET p == proc[c].req.platform
      before == proc[c].read
      now == records.of[p] IN
  /\ c \in Checks /\ proc[c].pc = "checked" /\ lock = None
  /\ records' = IF /\ now # NoRecord
                   /\ \/ before = NoRecord \/ now.binding # before.binding \/ now.at # before.at
                      \/ now.tried # before.tried \/ now.binding # proc[c].reading.binding
                  THEN records
                  ELSE [records EXCEPT !.of[p] = Merge(@, proc[c].reading)]
  /\ proc' = [proc EXCEPT ![c] = Idle]
  /\ UNCHANGED <<files, lock, world, clock, bounds>>

(* A run refuses, fails or is killed.  What it has done stays done, but     *)
(* for the private directory of the new file, which nothing reads.          *)
Die(c) ==
  /\ proc[c].pc # "idle"
  /\ End(c)
  /\ UNCHANGED <<files, records, world, clock, bounds>>

-----------------------------------------------------------------------------
(* engineStart, currentBindingOwners: what a start holds a configuration to. *)
Starts(c) ==
  /\ Parses(c)
  /\ \A p \in DOMAIN c.entries : Resolves(p, c.entries[p]) /\ c.entries[p].binding.owners

(* buildListing: every pinned snapshot is read, and digests to its pin, or  *)
(* the frontend does not start.                                             *)
FrontendStarts(c) == Starts(c) /\ Named(c) \subseteq snaps

(* The operator's editor sets a decision policy, or takes an entry out, and *)
(* saves over the file whoever holds the lock.                              *)
Edit ==
  /\ edits < MaxEdits /\ edits' = edits + 1
  /\ \E p \in DOMAIN config.entries :
       \/ /\ config.entries[p].write
          /\ config' = [config EXCEPT !.entries[p].policies = config.entries[p].binding.tools,
                                      !.version = IF @ >= 4 THEN @ ELSE 4]
       \/ config' = [config EXCEPT !.entries =
                       [q \in DOMAIN config.entries \ {p} |-> config.entries[q]]]
  /\ kept' = config'
  /\ UNCHANGED <<snaps, durable, lock, records, world, proc, clock, crashes>>

(* The catalog is updated; a server answers otherwise than before. *)
Release ==
  /\ edits < MaxEdits /\ edits' = edits + 1
  /\ \E p \in Platforms : \E b \in Bindings \ {catalog[p]} : catalog' = [catalog EXCEPT ![p] = b]
  /\ UNCHANGED <<files, lock, records, server, proc, clock, crashes>>

Redeploy ==
  /\ edits < MaxEdits /\ edits' = edits + 1
  /\ server < MaxServer /\ server' = server + 1
  /\ UNCHANGED <<files, lock, records, catalog, proc, clock, crashes>>

(* The host crashes: what was not synced may be gone. *)
Crash ==
  /\ crashes < MaxCrashes /\ crashes' = crashes + 1
  /\ config' = kept /\ UNCHANGED kept
  /\ snaps' \in {durable, snaps} /\ durable' = snaps'
  /\ lock' = None
  /\ proc' = [c \in Procs |-> Idle]
  /\ UNCHANGED <<records, world, clock, edits>>

Next ==
  \/ \E c \in Connects :
       \/ \E req \in Requests : Ask(c, req)
       \/ Lock(c) \/ Read(c) \/ Capture(c) \/ Publish(c) \/ SyncSnapshots(c)
       \/ ReadAgain(c) \/ Rename(c) \/ SyncConfig(c) \/ AfterWrite(c)
  \/ \E c \in Checks : WritePublishers(c) \/ \E p \in Platforms : ReadPublishers(c, p)
  \/ \E c \in Procs : Die(c)
  \/ Edit \/ Release \/ Redeploy \/ Crash

Spec == Init /\ [][Next]_vars

-----------------------------------------------------------------------------
(* Every snapshot a configuration names, the one a crash would leave        *)
(* included, is beside it and survives the crash: publishSnapshot comes     *)
(* before the rename, and each of its syncs before what relies on it.  The  *)
(* frontend therefore starts wherever the signer does.                      *)
NamedIsKept ==
  /\ Named(config) \cup Named(kept) \subseteq durable
  /\ Starts(config) => FrontendStarts(config)

(* configFile.replace writes over nothing but what it was checked against:  *)
(* the one change it can lose is a save of an editor, which takes no lock,  *)
(* made after the file was read again.  What it commits keeps every other   *)
(* platform's entry and the decision policy of its own.                     *)
CommitLosesNothing ==
  \A c \in Connects :
    proc[c].pc = "checked" =>
      \/ edits > proc[c].seen
      \/ LET p == proc[c].req.platform IN
         /\ \A q \in DOMAIN config.entries \ {p} :
              q \in DOMAIN Text(c).entries /\ Text(c).entries[q] = config.entries[q]
         /\ p \in DOMAIN config.entries =>
              Text(c).entries[p].policies = config.entries[p].policies
         /\ Text(c).version >= config.version

(* What connect has written, with nothing changed since, is a configuration *)
(* `serve` starts on: engine-config.md says it passes every refusal that    *)
(* serve applies, the platforms it already names included.                  *)
WrittenStarts ==
  \A c \in Connects :
    /\ proc[c].pc = "written" /\ config = Text(c)
    /\ \A p \in DOMAIN config.entries : Loads(p, config.entries[p])
    => Starts(config)

(* A publisher's record is never taken back to an earlier reading of the    *)
(* same publisher: publisher.go says that every read-modify-write is made   *)
(* under the lock, so that no writer's change is lost to another's.         *)
ReadingsMoveForward ==
  [][\A p \in Platforms :
       records'.of[p].publisher = records.of[p].publisher
         => records'.of[p].at >= records.of[p].at]_records

-----------------------------------------------------------------------------
(* The inductive invariant, for its proof. *)

(* Fields and functions are as they were made. *)
IsEntry(e) ==
  e \in [binding : {e.binding}, write : {e.write}, pins : {e.pins}, parameters : {e.parameters}, policies : {e.policies}]
IsConfig(c) ==
  /\ c \in [version : Nat, entries : {[p \in DOMAIN c.entries |-> c.entries[p]]}]
  /\ \A p \in DOMAIN c.entries : IsEntry(c.entries[p])
IsReading(r) ==
  r \in [at : {r.at}, state : {r.state}, publisher : {r.publisher}, binding : {r.binding}, tried : {r.tried}]
IsRun(q) ==
  /\ q \in [pc : {q.pc}, req : {q.req}, reading : {q.reading}, read : {q.read}, entry : {q.entry}, seen : {q.seen}]
  /\ IsReading(q.reading)

RecordsShape ==
  /\ records \in [policy : {records.policy}, of : {[p \in Platforms |-> records.of[p]]}]
  /\ \A p \in Platforms : IsReading(records.of[p])
RunsShape == proc = [c \in Procs |-> proc[c]] /\ \A c \in Procs : IsRun(proc[c])
Shape == IsConfig(config) /\ IsConfig(kept) /\ edits \in Nat /\ RecordsShape /\ RunsShape

Locked == {"locked", "read", "captured", "published", "synced", "checked", "renamed", "written"}
Judged == Locked \ {"locked"}

(* What a connect holds the lock for: what it read is what a rename writes  *)
(* over, until an editor saves; what its entry names is there before it is  *)
(* named; and the entry has the policies of the one it replaces.            *)
ConnectInv(c) ==
  LET q == proc[c] p == q.req.platform IN
  /\ q.pc \in Locked => lock = c
  /\ q.pc \in Judged =>
       /\ IsEntry(q.entry) /\ IsConfig(q.read) /\ Named(q.read) \subseteq durable
       /\ p \in DOMAIN q.read.entries => q.entry.policies = q.read.entries[p].policies
  /\ q.pc \in {"published", "synced", "checked"} => PinsOf(q.entry) \subseteq snaps
  /\ q.pc \in {"synced", "checked"} => PinsOf(q.entry) \subseteq durable
  /\ q.pc = "checked" => q.seen \in Nat /\ q.seen <= edits /\ (edits > q.seen \/ config = q.read)

KeptInv == durable \subseteq snaps /\ Named(config) \cup Named(kept) \subseteq durable

ConfigInv == Shape /\ KeptInv /\ \A c \in Connects : ConnectInv(c)
=============================================================================
