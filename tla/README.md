# A TLA+ model of the Judgment Pack Gateway

This directory models the gateway under `src/`: a Go service (`src/go`) that runs
approved source programs and write actions for an agent, signs a receipt for each
into an append-only evidence store, seals sessions into a registry, and hands the
result to witnesses and verifiers; and its adapters (`src/adapters`). TLC checks
the modules on small instances; TLAPS proves the theorems listed below for every
value of the constants. `PROJECT.json` maps every definition to its source lines,
lists the runs, the mutants that show each property can fail, the hazards and the
findings.

## 1. Inventory

### Components

| Component | State it keeps | Operations | What makes it correct |
|---|---|---|---|
| **Keyed action journal** (`act.go`, `action_journal.go`, `action_key_index.go`, `action_execution.go`) | per scope: `intent.json`, `dispatch-<n>.json`, `not-dispatched-<n>.json`, `action.json`; per key: the first scope; per delegated subject: its first root actor | reserve, claim, release, close, record, replay, reconcile | one approved action is sent at most once, and every answer about it is true and stays true |
| **Session runtime and gate** (`serve.go`, `act.go`, `store.go`, `gate.go`) | `g.sessions`, `receipts/<session>`, the registry; closed, pending, drained | admit, run, stamp, release, seal, restart; close, open | a seal counts exactly the receipts there are; a write runs only where it can be receipted; a closure drains and then nothing is in flight |
| **Evidence store** (`store_contract.go`, `store_fs.go`) | series of entries, blobs, one log, documents, held pins | make once, append, compare-and-set, snapshot, put a pin | a document compares and sets; a cut holds everything it counts; a pinned name keeps its bytes |
| **Leases** (`store_leases.go`) | one document per lease: holder, token, expiry | acquire, renew, release, check | at most one live lease; a stale fence is refused |
| **Key rotation** (`rotate_key.go`, `rotation.go`, `registry_lock_unix.go`) | `<seed>` and the files beside it, the registry and its lock | rotate-key, --resume, start, seal | the seed of the current key is never lost; no gateway serves under a key rotated from |
| **Witness log and service** (`witness_log.go`, `witness_serve.go`, `witness_admin.go`) | a signed log, marks, registrations, bytes set aside; places in flight and minute windows | submit, retire, register, read, start-up checks, repair | readers never see two histories; crashes are repaired; every place comes back; roles stay apart |
| **Witness client and verdict** (`witness_fetch.go`, `witness.go`, `witness_named.go`) | a continuation per witness | key, head, pages, verdict | an honest witness is never accused, a credited one showed one whole history |
| **Receipt verification** (`verify.go`, `verify_v3.go`, `verify-ts`) | none | a ladder of checks over a store and a registry | both implementations find the same; "ok" means the signer's own store |
| **Decision policy** (`decision_policy.go`, `record_signature.go`) | none | find a record, its signature, judge the arguments | every scalar of an admitted write was decided |
| **Delegation and identity** (`delegation_*.go`, `identity.go`) | live credentials, remembered proofs, revocations | bind, present, admit at the host, revoke, restart | a call is dispatched only under live links that cover it, and is counted |
| **MCP server** (`mcp*.go`) | sessions, rate windows, queue and slot tokens, a gate | initialise, call, forward, time out, close, drain | an answer says what was forwarded; a token comes back; a closure drains |
| **Engine's start** (`engine.go`, `spawn_unix.go`, `source_sandbox.go`) | none after the start | parse, derive sources, refuse, hold paths | no adapter reaches the seed or another platform's credentials; a held path stays the engine's |
| **Connect bridge and publishers** (`connect*.go`, `publisher.go`, `descriptor_start.go`) | the configuration, snapshots, publisher records | connect, check a publisher, list at a start | nothing written between check and commit is lost; a named snapshot is there; a conclusive reading stays |
| **Source programs** (`serve.go` `runSource`, `spawn_unix.go`) | a process group, an output pipe | start, bound, time out, kill, judge, stamp | a verdict is of what happened, and an acquisition ends |
| **Export** (`export.go`) | an export in progress | cut, copy, publish, check | an export is closed under what it cites, or its check says what is missing |
| **Connections** (`adapters/connections`) | the custody: grants ledger, consents, bindings, a storage intent, search counts | consent, gate, refresh, sweep, plan and commit, search | a call was permitted; a plan is applied at most once; a limit holds |
| **Databricks and Azure DevOps connections** (`databricks*.go`, `azure_devops*.go`) | the connections, the tokens held for them, blocked names, the owner's policy | configure, disconnect, block, disable and enable; read, mint, test | a credential stays where it was given; what is kept of a read is of the connection as it still is |
| **MCP adapter** (`adapters/mcp`, `adapters/mcphttp`) | one invocation: a child, a client | measure, start, list, call, stop | only what was approved is called, its own answer is returned, nothing is left behind |
| **PDF reader** (`adapters/document/pdf`) | the table, cache and handler of one document | resolve, rebuild, extract under a deadline | a text is of one reading of the file |

The sandbox runner, host posture, canonical JSON, the render, attachment, airbyte
and http adapters, the command line, the conformance harness and packaging are not
modelled; `PROJECT.json` gives the reason for each.

### How they interact

A request (HTTP or MCP) passes the identity check and the admission gate, is
admitted into a session under the service's mutex, runs its source or action
*outside* the mutex, and is stamped into the session's chain under it again. A
keyed action also goes through the journal, which other gateway processes on the
same store share. A seal appends to the registry, which key rotation and witnesses
read. Everything that outlives the process goes through the store: files made once,
appends, and documents that compare and set, on which the leases are built.

### What is hard here

* **Interleavings between lock sections.** A session's state is read, a program
  runs for minutes, and the result is applied to a session that was sealed, reopened
  or replaced meanwhile.
* **Several processes on one directory.** The journal, the documents and the
  rotation have no common lock; they rely on exclusive creation, links and renames.
* **Deaths between any two file operations**, torn appends, and host crashes that
  keep a file and lose its name.
* **Answers that must stay true.** A caller told "retry is free" or "this was
  sent" acts on it.
* **Decisions made on what was read before.** A connect writes back a configuration
  it checked a while ago, a broker commits a plan prepared against a revision, a
  grant is gated by a host that was asked without the lock, an adapter starts a file
  it measured.
* **Lost answers.** An issuing host counts a call and its answer is lost; a provider
  changes a file and the broker dies.
* **Two implementations of one reading**, which must say the same of every store.
* **Waiting.** A closure of admission waits for programs; a source leaves a child
  that holds its output; a rotation that stopped must be finished by somebody.

## 2. Modules

| Module | Models | Notes |
|---|---|---|
| `ActionJournal` | the keyed section of `/act` on one action key | one step per file operation another process can see; `durable` is the set of names a host crash keeps |
| `ActionKey` | what an action key promises its callers | the abstract specification `ActionJournal` implements |
| `ActionJournalProofs` | the journal's theorems: its types, its safety and the refinement | |
| `Sessions` | session runtime, gate, seal | one step per section under `g.mu` or read outside it; `Restart` loses the memory and, with the host, unsynced registry lines |
| `SessionsProofs` | the theorems about `Sessions` | |
| `KeyRotation`, `KeyRotationProofs` | rotate-key, --resume, a gateway's start and its seals | keys are numbered in the order made; a rotation's record in the registry is whole or one of four parts |
| `DocumentSpace`, `Documents`, `DocumentsProofs` | one document of the store contract, and of the filesystem kind | one step per listing, read, link or truncation; the second implements the first |
| `Leases` | the leases of one name over such a document | reads of the document, reads of the clock and the write are separate steps |
| `WitnessLog`, `WitnessLogProofs` | a witness's log, marks, registrations and set-aside file | a file is whole lines and a tail, as read and as durable |
| `WitnessService` | the witness's endpoints | the log is an atomic step behind them |
| `WitnessRead` | a reader of a named witness, and both readers' verdict | a witness may fork and may answer anything it ever signed |
| `Evidence` | a store as its signer made it and as it was changed | a signature is a number no other body has |
| `VerifyGo`, `VerifyTs`, `Verify` | the two verifiers, and what they should agree on | pure operators over a store |
| `Export` | series, blobs and log while they are cut, exported and checked | a name is durable once its directory was synced |
| `Connect` | a connect, publisher checks and the two starts that read the files | `config` and `kept`: as read, and as a crash leaves it |
| `Pins` | the held snapshots and the MCP server's listing | |
| `Isolation` | the engine's start: parse, derived sources, refusals, and what each process then reads | one behaviour per deployment |
| `TrustedPath` | the walk of a path while other users change the tree | one step per component looked at |
| `Delegation` | bindings, presentations, admissions, revocations, proofs | one step per section under the lock, per reading of the clock and per exchange with the host |
| `DecisionPolicy` | the judgement of one write | a JSON value is a function from its paths |
| `McpServer` | the MCP server's calls, from the transport to the drained gate | one step per channel operation or section |
| `SourceRun` | one source program | the gateway, os/exec's goroutines, the source and its child interleave |
| `Grants` | the grants of one connection | one step per section under `state.lock` |
| `StoragePlans` | changes to a person's files | as `Grants`; a broker stops between any two |
| `WebSearch` | metered search connections | as `Grants` |
| `McpAdapter` | one invocation of adapter-mcp | the server and the files act between any two steps |
| `Workspaces` | Databricks and Azure DevOps connections and the reads of them | a read locks the store at each look at it; the peer answers anything |
| `PdfDocument` | one document read by the PDF reader | a read in progress is a stack of frames |
| `OutsideProofs` | the theorems about `Leases`, `StoragePlans`, `WebSearch`, `WitnessService`, `McpAdapter` and `Workspaces`, through `MCOutside` | |
| `ServingProofs` | the theorems about `SourceRun`, `DecisionPolicy`, `TrustedPath` and `McpServer`, through `MCServing` | |
| `ConfigurationProofs` | the theorems about `Connect`, `Isolation` and `Delegation`, through `MCConfiguration` | |

The `MC` modules are instances. `MCActionJournal`, `MCSessions`, `MCKeyRotation`,
`MCDocuments` and `MCWitnessLog` instantiate one module each. `MCServing` (MCP
server, source, path, decision), `MCConfiguration` (connect, pins, start,
delegation, grants), `MCEvidence` (verification, export, witness reading, document)
and `MCOutside` (leases, storage, search, witness service, adapter, workspaces) put several
components that share no state behind one specification: the variable `part`, chosen
in `Init` from the constant `Parts` and never changed, says which component a
behaviour is of, and the variables of the others stay at `None`. Each component can
be checked alone by giving `Parts` one member. Where a component's names are
exchangeable, two components share the same values (the lease's processes, the
brokers and two requests in `MCOutside`; connects and grant calls in
`MCConfiguration`), so that one permutation is a symmetry of every part. No run with
a liveness property uses symmetry.

### Compositions and refinements

`ActionJournal` implements `ActionKey` and `Documents` implements `DocumentSpace`
(both as `INSTANCE ... WITH` and a `PROPERTY`); `Leases` is built over what
`DocumentSpace` promises. `Verify` composes the two verifiers over `Evidence`. The
other seams are stated assumptions, and each is what another module checks:
`WitnessService` takes one call of the log as one step, which is `WitnessLog`'s
writer lock; `Sessions` runs a program that ends, which is `SourceRun`'s
`WhatIsBegunEnds`; `Delegation` leaves a keyed action at its dispatch marker to
`ActionJournal`; `StoragePlans` leaves the grant a Drive change needs to `Grants`.

### From the code to the actions

* **ActionJournal.** `pc[r]` is the position of a request in `actKeyed`; the steps
  follow the order of its calls (leaf admission, first scope, subject record,
  reservation, attempts, close or claim, start, answer of the program, release or
  receipt, sync of the evidence, record). Each exclusive creation is one action and
  the sync of its directory the next, because a crash between them keeps the file
  for every process and may lose it with the host. `Stop` is an I/O error, a refusal
  or the death of the process at any step. `sent` records every start of the write
  program and `told` every answer.
* **Sessions.** `Lookup` reads the registry before the lock (`sealedElsewhere`),
  `Admit` and `AdmitAction` are the sections under it, `Stamp` and `Release` the
  ones after the program, `SealSession` the seal with its append that may fail part
  way or fail to sync. `Appears` and `LosesReceipt` are what others do to the store.
* **KeyRotation.** One action per file operation of `rotateKey`, `switchSeed`,
  `resumeRotation` and `resumeWithoutRecord`, and the gateway's two looks at the
  seed around its lock. `WalkRegistry` is the walk a verifier makes, as a function
  of the registry's lines from the first to the last.
* **Documents.** `List`, `Read`, `Link`, `Empty` are the file operations of `state`
  and `write`; `Settle` is what each call makes of what it read.
* **WitnessLog.** `pc` is the step of the one process that holds the files' locks: a
  serving witness (whose writer lock makes a submission, a retirement or a
  registration one at a time), a repair or an offline registration. `Outcome` is the
  judgement of the start-up checks, in the order of its cases. `signAndKeep` is
  `AppendStatement`, `StatementDurable`, `AppendMark`, `Publish`; a repair goes
  through `EndLine` and `CompleteMark`, or through the set-aside steps to `Cut`, for
  the log and then for the registrations. `published` is every statement a read
  could have given, from the moment it is in the index. `WriteFails` leaves a part of
  the line and stops the writer; `HostCrash` leaves each file anywhere between
  `disk` and `file`; `Restore` puts an older copy of the log back, never of the
  marks.
* **Leases.** `Read`, the `Judge...` actions (which read the clock), `Stamp` (the
  second reading of the clock in `renewLease`) and `Put`.
* **WitnessService.** A submission passes `Arrive`, its token, the submitter's window
  and place, the witness's place, its body, and the log line by line; every refusal
  on the way is a disjunct with what it gives back. The operator's two acts and the
  open reads are the other paths.
* **WitnessRead.** The witness signs while a reading goes through key, head and pages;
  what answers may be any statement ever signed or none. `ReadWitness` and
  `TsReadWitness` are the two verdicts on what was read.
* **Evidence, VerifyGo, VerifyTs.** The signer acquires, acts, seals and rotates;
  then its files are edited, moved, dropped or put back. `GoFindings` and
  `TsFindings` are the two ladders rung by rung, each from its own source.
* **Export.** Writers put a record, an artifact and a receipt and then seal, while
  the exporter cuts the log first and the series after it, copies, syncs, renames.
* **Connect, Pins.** A connect locks, reads, judges, captures, publishes its snapshot,
  reads the file again and replaces it; the editor takes no lock. `Pins` opens the
  publishing of a snapshot into its file operations.
* **Isolation.** The refusals of `engineRefusals` and `validateEngineSandbox`, one
  conjunct each; once started every source runs as its user and reads what the
  kernel permits.
* **TrustedPath.** `walkComponents` one name at a time; `Other` is what the kernel
  lets another user do to the tree at that moment. For decision records the first look
  decides what is held (`Looked`): the directory that is there, or, where there is none
  yet or root's link stands for it, its place (`Place`), whose directory is looked at in
  a step of its own (`LookAtParent`) before the walk to it.
* **Delegation.** `req[x]` is a call's position in the handler: its time is read, its
  credential looked up, its proof judged and remembered, the host asked, the answer
  received or lost, the call dispatched.
* **McpServer.** A handler takes a queue token, then a slot (or its wait ends), passes
  the gate, forwards, and is answered, refused or times out; `Finish` and
  `LeaveSlot` are what every path out runs.
* **SourceRun.** `Gateway` is `runSource` and `Wait`; `Cancel`, `WaitDelay` and the
  deadline are os/exec's; the source and its child act as they like.
* **Grants, StoragePlans, WebSearch.** Each section under the custody's lock is one
  action, and what is asked of a provider or host happens between two of them. A search
  may meet a stored connection that is not valid (`Damaged`) until it is configured
  anew. `SetPolicy` is the owner's policy as the broker writes it (`broker.go:89-96`),
  in either direction: it leaves every connection and its revision as they are.
* **Workspaces.** `Configure`, `Disconnect`, `SetPolicy` and `Block` are the broker's
  sections under the store's lock. A read's `step` is its position: `Snapshot` and
  `Grant` read the store, `Screen` holds the request against custody, `Bearer` to
  `Keep` hold or mint a token, `Gate` looks at the connection again, `Send` and
  `Answered` go round once for each request of the read, and `Confirm` is the last
  look, after which the envelope is kept. `held` and `live` are history: the
  credentials that custody has held all along since the read began, and whether its connection
  has been neither changed nor disconnected since; `allowed` is what the policy was
  when the envelope was kept (in `WebSearch`, when the result was given). The last
  look asks what the policy is then and for the revision (`searchCurrent`,
  `databricksCurrent`, `azureDevOpsCurrent`), so that a connection disabled and
  enabled again while its answer is under way gives it, and the properties say no
  more: the comment at `databricks.go:695` ("changed, removed or blocked while it was
  asked") is read as what the last look finds.
* **McpAdapter.** The adapter's steps in order, with the replies of the server, the
  replacement of a file and the deadline as actions of their own.
* **PdfDocument.** `resolve` pushes a frame; a rebuild or a change of the security
  handler may happen below any frame; `Judge` is what a frame makes of what it read.

## 3. Runs

| Run | Instance | Shows |
|---|---|---|
| `journal` | 1 scope with 2 attempts, and 2 scopes with 1; 2 requests in flight | types, `AtMostOneSend`, `AnswersAreTrue` (a close stays unsent, a response was sent, a free retry is free, a record has its receipt), `OneScopeSends`, and that the journal implements `ActionKey` |
| `journal_delegated` | 2 root actors of a subject, the index may be lost | `OneRootActorSends` |
| `sessions` | 2 sessions of one signer, or 1 that others touch; 2 requests, 2 starts, 2 registry lines; fair | `SealsAreTrue`, `OnlyAdmittedRuns`, `ClosureDrains` |
| `rotation` | 2 processes, 3 keys, 1 seal, 2 deaths; fair | `RotationHolds`, `WholeRecordFinishes` |
| `rotation_overlap` | 2 processes, no deaths | finding: `CurrentSeedHeld` fails beside an unlocked `--resume` |
| `documents` | 2 callers, 3 revisions, 2 reads | `NewestIsWhole`, `ReadIsFresh`, and that the directory implements `DocumentSpace` |
| `witness_log` | 2 trails, 2 submitters, 3 statements, 2 registrations, 2 faults | `NoFork`, `ServedIsKept`, `RepairsAreSound` |
| `serving` | 2 handlers with 1 slot; a source and a child; walks with 2 link hops; policies and records; fair | `ServerAnswersAreTrue`, `SourceIsToldTrue`, `HeldIsOurs`, `AdmittedIsDecided`, `WhatIsBegunEnds` |
| `configuration` | 2 connects, 2 platforms, an edit, a crash; 2 pins; a set of deployments; 1 caller with lost answers; 2 grant calls | `CommitIsWhole`, `PinnedIsListed`, `SourcesAreApart`, `SendIsDelegated`, `GrantsHold`, `ConclusiveStays` |
| `delegation_proof` | 3 callers, one chain | finding: `ProofOnce` fails |
| `evidence` | 4 signatures and 2 edits; 2 sessions exported with a crash; 3 statements in pages of 1; damaged files | `LaddersAgree`, `OkMeansFaithful`, `ExportIsClosed`, `ReadingIsTrue` (what a reading says is so, and both readers say it), `TextIsOneReading` |
| `outside` | 2 processes, brokers or searches; 3 requests; the adapter's invocations; 1 connection and 1 read of it | `OneLiveLease`, `StaleFenceRefused`, `PlansAreTrue`, `SearchesAreAccounted`, `WitnessIsOrderly`, `AdapterIsTrue`, `ConnectionsHold` |

A property of a run is a conjunction of the named parts its comment lists, each
defined in the component's own module. Every property has a mutant in
`PROJECT.json`: a plausible bug in the code, under which the same run refutes it.

### Bounds, and why they are enough

Every bound is a constant named in its module. Two requests, callers, brokers or
processes in flight are enough for each hazard listed, since each is a race of two;
slots are reused, so any number follow one another. `delegation_proof` needs three,
since the loss of a remembered proof takes a third request to prune it.

* `MaxAttempts` is 2 so that an attempt is answered "not dispatched" and another
  follows it; the code has the same limit by name, 16.
* `Sessions`: `MaxIndex` 2 lets a chain have a link; `MaxRuns` 2 lets a session begun
  in one start be met by the next; `MaxSeals` 2 lets a seal fail in part and be
  retried.
* `KeyRotation`: `MaxKeys` 3 is two rotations, so that a seed kept aside by the first
  meets the second; `MaxStops` 2 lets a `--resume` die as well. `Overlap` and
  `TornRecord` switch the two behaviours behind its findings.
* `Documents`: `MaxRevs` 3 with `MaxReads` 2 (8 in the code) lets a call give up.
  `Leases`: `MaxTime` 3 and `MaxWrites` 3 let a lease expire, be granted anew and be
  renewed or released; the proofs cover every value.
* `WitnessLog`: `MaxSigns` 3 lets a conflict follow a checkpoint and be offered again;
  `MaxFaults` 2 lets a repair be interrupted and a crash be followed by a restored
  copy. `WitnessService`: one place and one submission a minute each, so that every
  limit is met by the second request; three tokens (a submitter's, an operator's, and
  one that is both and expires at the first hour), and a submission of two lines, so
  that the second follows from the first.
* `Evidence`: 4 statements are two receipts, a seal and a rotation or an action; 2
  edits let a change be hidden by another. `Export`: 2 calls, a seal, one sync that
  fails, one change of the export.
* `WitnessRead`: pages of 1 with 3 statements, so that a page boundary falls between
  any two, and 2 readings, so that one resumes.
* `Connect`: one save of the editor and one crash between any steps of two connects.
  `Pins`: a listing bound that fits one snapshot and not both.
* `Delegation`: one live credential and one remembered proof, so that both limits are
  met; the time runs past a window. `Grants`: `Init` includes a grant recorded with an
  owner and an idle expiry; two decisions of the owner's host, two connections and
  six tokens let a credential be refreshed under a decision that is made meanwhile.
* `McpServer`: one slot, a backlog of one, one call a minute, one closure.
  `SourceRun`: a limit of one unit of output and two writes. `TrustedPath`: two link
  hops, so that a circle ends, and one move by another user at any moment.
* `StoragePlans`: two plans, one edit by another, two epochs, over three providers.
  `WebSearch`: a limit of up to 2, two configurations, two days.
* `McpAdapter`: three pages (a cursor repeats), one event before the answer, one replaced file.
* `Workspaces`: one read, since reads meet only through the store, and one name; three
  credentials, so that a connection whose token was minted is configured again. A
  credential of another name, which a read must not send either, is beyond the run
  and within the theorem, which is for any names and reads.
* `PdfDocument`: files with up to two sections, three levels of reference, two pages.

`CHECK_DEADLOCK FALSE` is given where a behaviour ends by design (one reading, one
start, one invocation, a clock at its bound).

### Fairness

`Sessions` gives every request weak fairness: a source program is killed at its
timeout (`runSource`), and no section under the lock waits for another. Nothing is
assumed of the operator. `KeyRotation!FairSpec` says that a process goes on unless it
dies (weak fairness), deaths being bounded, and that an operator who finds a rotation
pending runs `--resume` again (strong fairness, since another tool may hold the lock
for a while) and does not keep a `rotate-key` running beside it for ever.
`WhatIsBegunEnds` assumes of the MCP server that a goroutine that can go on does, its
forward's timeout among its steps; of a source run that the gateway's goroutines, the
context's deadline, the kill it causes and os/exec's `WaitDelay` come (the timers are
the runtime's), and nothing of the source or its child; of the walk that the engine
goes on, and nothing of the other users.

## 4. Proofs

Each bullet names the inductive invariant and says why the property alone is not one.

* **The journal** (`ActionJournalProofs`). `JournalTypes` is
  `Spec => []TypeOK`; its invariant adds `Active`: a slot that is not idle has a
  request, and one about to write the record has synced its receipt. The safety
  theorems rest on `JournalInv`: what the files of a scope say of each other (an
  attempt has one marker, attempts follow one another, a marker is durable before
  anything relies on it), what a request knows at its step, that the marker of an
  attempt has one owner, and what each answer told. `AtMostOneSend` alone says
  nothing of a request that holds its marker and has not started the program yet:
  `OneOwner` does. From it: `AtMostOneSendAlways`, `AnswersStayTrue` and the
  refinement `JournalImplementsKey`. `ScopesInv` adds what the first-scope and
  first-root-actor records fix; from it `OneScopeAlways`, under the hypothesis
  `IndexLoss = FALSE` (that the index is not lost is what the code relies on, and
  `journal_delegated` has the other case), and `OneRootActorAlways`, without it.
* **The sessions** (`SessionsProofs`). `SessionInv` says, for every store, that the
  gate's and each session's counts are the numbers of requests admitted and not yet
  released, that every request not yet stamped still has an index in its session
  (`CountInv`), that an action runs only in a session this process made (`ActionInv`),
  and that what it stamped there is there (`OwnInv`). `StoreInv` adds, where nobody
  else touches the store, `SealInv`: receipts have no gap, the head is the last
  receipt, a sealed session has nothing in flight, and a request that looked the
  session up before it was sealed will find that out. A seal is exact only because of
  these last two. The counts are cardinalities; their lemmas rest on
  `FiniteSetTheorems`. From them: `SessionsAreSafe`, `SealsStayTrue`,
  `OnlyAdmittedRunsAlways`.
* **Rotation** (`KeyRotationProofs`). `RotationIsSafe` has the hypothesis `~Overlap`:
  no `--resume` runs beside a `rotate-key`. It is needed: `rotation_overlap` refutes
  `CurrentSeedHeld` without it. `RotationInv` says that a process at a step under the
  registry's lock holds it (`LockInv`); that the registry without the pending record
  walks without a finding, has every seal, and ends at the key whose seed is in place
  unless the record is whole (`TrunkInv`); that a kept record is the next of that walk
  and what the registry has of it is a part of it (`KeptInv`); and what each step of
  a tool relies on (`Relies`). The walk is a recursive function; that a line appended
  adds one step to it is proved by the induction described below (`Induct`, `Recursive`).
* **The witness's log** (`WitnessLogProofs`). `NoForkEver`: no two statements a reader
  may hold are at one index of a trail. `NoFork` is not inductive, since a signature
  that was never served may be cut away and its index signed again. `ForkInv` says
  that a signature tells statements apart; that every published statement has a mark
  that a host crash keeps; that of the marks, in the file and on the disk, there is
  one for an index; and (`StepInv`) that the step under way signs, or completes a
  mark for, an index no mark has. What remains is that the start-up checks let a
  process go on only where the log follows the marks, and it is shown from the
  definition of those checks and not assumed. It holds for `Restore` as well, since
  an older log stays below its marks. `MarksAssumption` says that `None` is not a
  file of marks.
* **Dealings outside** (`OutsideProofs`), each a theorem of `MCSpec` under the guard of
  its `part`, which no step changes.
  `PlansStayTrue` rests on `PlanInv`: the intent is the last plan's, at most one broker
  works on a plan, nothing of a plan was applied while its intent stands and nobody
  works on it, and a plan that was settled is never worked on again. `PlansAreTrue`
  alone does not say who may still apply a plan.
  `SearchesStayAccounted` rests on `SearchInv`: a connection's count covers what was
  let go that day, and a connection changed since a search read it stays changed, since
  no revision is drawn twice; the policy's switch is no part of that, since it goes both
  ways, and the policy is known of a result only from the moment it is given.
  `WitnessStaysOrderly` rests on `OrderInv`: the three counts are the numbers of
  requests at a step that has a place of that kind, and what each request was admitted
  for (its token's audience, the configured roles, the registration it read) is known
  of it until it is answered. A step moves one request, so each count changes by what
  that request has before and after (`RequestMoves`).
  `AdapterStaysTrue` rests on `AdapterInv`: what the digests so far say of the files at
  each step before the start; that what `listTools` holds is what was heard, each name
  once where tools are declared; that a call about to be made is of a tool that was
  listed, under an approval after all were and as approved; and that the outcome is
  true from the moment it is made, while the server is still being stopped.
  `ReadsStayHome` (the property `ConnectionsHold`) rests on `WorkspaceInv`. `CustodyInv`:
  what custody holds for a name was given for the place the name has now, and
  revisions are numbered by what was drawn. `ConnectionInv`: a name that still has a
  read's revision has its connection whole, and a read is live or its connection is
  never again the one it read, whatever the policy does meanwhile. `EarlyInv` and `LateInv`, before and after the request is
  let go: every credential that custody held all along is among those the request and
  each answer are held against. `KeptInv` is what remains of this when the envelope is
  kept. The property alone says nothing of a read before its last step.
  The leases are the sixth part: `LeaseInv` says that the record is the last grant,
  that tokens count the grants, that every grant but the last has expired, and that
  what a call read is the record there is for as long as the revision has not moved.
  From it: `LeasesExclude` (one live lease, growing tokens) and `StaleFencesRefused`.
  The clock is one clock that never goes back.
* **What runs while it serves** (`ServingProofs`), theorems of `MCServing`'s
  specification in the same way.
  `SourceStaysTold` rests on `SourceInv`: which processes there can be at each step of
  `runSource` (`PhaseInv`); that a status is an exit's and a kill by the gateway a
  cancellation (`ExitInv`); that the watcher's answer is not hidden by a clean exit
  (`WatchInv`); that an output read to its end is whole, and one closed under its copy
  an error (`OutputInv`); that nothing joins a group after its kill, the leader being
  held until then (`GroupInv`). `SourceIsToldTrue` speaks of the answer, and the answer
  is true only because of what each of these kept until it was given.
  `AdmittedStaysDecided` is for every record and request of `MCServing` and every list
  of members a policy may decide: what is admitted was held to the policy
  (`DecisionInv`), and every scalar left is then under an argument that is bound or
  fixed: were one not, the shortest prefix of its path that is neither would be one the
  check for unreached values refuses (`ReachedIsNamed`, on `Least`).
  `HeldStaysOurs` rests on `PathInv`: above the directory the walk is at, every
  directory is one that others cannot change (`WayInv`), so that a step of theirs
  leaves what was looked at as it was; a record's listing still has to judge whatever
  of theirs it reaches (`ListInv`); and in a directory that is ours and closed to others
  the name of the records yet to be made stays vacant (`PlaceInv`).
  `ServerStaysTrue` rests on `McpInv`: the queue's, the slots' and the gate's counts are
  the numbers of handlers at a step that has a token of that kind (`CountInv`), and a
  drained closure waits for every call of before it (`GateInv`).
* **What an operator sets up** (`ConfigurationProofs`), theorems of
  `MCConfiguration`'s specification in the same way.
  `CommitStaysWhole` and `ConclusiveReadingsStay` rest on `ConfigInv`: the snapshots
  named by the configuration, and by the one a crash would leave, are durable
  (`KeptInv`); a connect past its lock holds it, what it read names durable snapshots
  only, its entry's own are there before the file is read again and durable before
  they are named, and the configuration it is about to write over is the one it read,
  unless an editor saved since (`ConnectInv`). `CommitIsWhole` says this of the last
  step only. `Shape` says that records and functions keep their fields.
  `SourcesStayApart` rests on `StartInv`: whatever runs, runs after every refusal was
  passed, and what was read was one's own. The work is in the lemmas about the
  refusals: a platform's files are its user's and private, its user nobody else's, and
  no process of that user holds what would let it read more.
  `SendStaysDelegated` rests on three invariants: a credential's number is never drawn
  again, so that a revocation ends one credential (`CredentialsInv`); what a request
  was admitted with stands until it is sent (`RequestsInv`); and, for each link that
  limits calls, the dispatches *and the requests the host has answered and that are
  not dispatched yet* are together within the host's count and each limit
  (`SendsInv`): of the dispatches alone this is not inductive. That a chain is of one
  subject uses that it has at most five links.
* **Induction.** The library's induction rules take an operator, which the provers
  cannot instantiate; in `Induct` and `Recursive` the predicate is a set of naturals
  and the step of a recursive function a function, so that they can be cited
  (`KeyRotationProofs`, `WitnessLogProofs`).
* **`DocumentsProofs`.** The inductive invariant `DocumentInv` says that only
  revisions *below* the newest were emptied; that a call which listed revision `n`
  with `t` reads in vain began when the newest was at most `n - t`; that a writer
  about to link read the revision it expects, and that this revision is the one its
  number follows; and that an emptying writer is below its own revision. `TypeOK`
  and the properties are not inductive without these. `KnowledgeKept` states that
  what a call knows outlives any step of another: revisions are only added, and only
  at the end. From it: `NewestAlwaysWhole`, `ReadsAlwaysFresh` (with
  `GivesUpUnderWrites`), `DocumentTypes`, and the refinement
  `DirectoryImplementsContract` (`Spec => Contract!Spec`): a step that changes the
  revisions is a `Link`, and its expected revision is the current one because no
  number is ever made twice.

The proofs assume only the named assumptions on constants, which TLC evaluates on
the runs that extend those modules, and the two hypotheses named above. Out of the
prover's reach, and only model-checked: `ClosureDrains`, `WholeRecordFinishes` and
`WhatIsBegunEnds` (liveness under fairness), and what the verifiers' recursive walks
compute (`LaddersAgree`, `OkMeansFaithful`). Not proved, and model-checked:
`ServedIsKept` and `RepairsAreSound` of the witness's log, which need in addition the
whole order of the log's lines through a cut and a repair; `PinnedIsListed` and
`GrantsHold` of `MCConfiguration`; and the other components behind `MCEvidence`.

## 5. What the models leave out

* Data: contents, fingerprints, signatures and names are model values; a signature
  is unforgeable and names what it signs. Formatting and canonical JSON have their
  own conformance corpus.
* `ActionJournal` is about one key; keys share directories and nothing else. The
  per-key mutex inside one process only removes interleavings: every request here is
  of its own process.
* `KeyRotation` has no separate host crash: operations on the seed's directory are
  ordered and each sync precedes what relies on it, so a crash leaves a state some
  death leaves. A registry line is durable when its append answered. One case is beyond
  this. A run that dies after writing the record whole and before its sync leaves a
  record that `--resume` finds whole and takes without a sync of its own
  (`rotate_key.go:442`); were the host to crash after the switch, the registry might
  lose a rotation whose seed is in place. No crash of the registry's host is modelled,
  so the rotation's properties and theorems are about processes that die.
* `Sessions` keeps receipts through a host crash. The code syncs them best effort and
  `docs/design/store-contract.md:114` and `:255` name that limit; `Export` models it:
  a receipt of a sealed session that a crash took is missing from the cut and found
  by the check, one of a session never sealed cannot be missed by anybody. The action
  journal, which needs more, syncs its own evidence.
* `WitnessLog` is under one key: the walk of rotated keys (`reachedKey`) is not in
  it. Appended bytes reach the disk in order. The loss of the marks is not modelled;
  the code answers it with a new key.
* `Leases` takes the document as atomic reads and compare-and-sets, which is what
  `DirectoryImplementsContract` and `ReadsAlwaysFresh` give.
* `LaddersAgree` asks agreement where the stems are plain decimals and, below version
  3, of the members both ask about (`Settled`); section 6 has the other case.
* `StoragePlans` holds a local update to its recheck only, as the code says
  (`storage_local.go:268`: "a revision recheck, not POSIX CAS"), and takes a Drive
  conversion as one create.
* `PdfDocument`'s `EncryptedIsDecided` excepts a file that met a structure bound.
  Filters, fonts and content operators are not modelled.
* `Workspaces` leaves a grant's own life to `Grants` (here a name is blocked or not),
  has every MCP server give its session an identifier, and leaves out the paging of a
  server's list and of a query's identifiers; an Azure DevOps query names at most one
  item.
* `McpAdapter` states fairness, and its return is not in a run's liveness property.
* Not modelled at all, with the reasons in `PROJECT.json`: host posture, the sandbox
  runner (its effects are the kernel's), the single-shot adapters, canonical bytes,
  the command line and the conformance harness.

## 6. Findings

Two runs end in a violation, and `PROJECT.json` quotes the lines they contradict: an
unlocked `--resume` removes the next seed beside a running rotation
(`rotation_overlap`), and a proof of possession is accepted twice because its time is
read before the lock under which others' memory of it is pruned
(`delegation_proof`).

Further definitions state what a line of the repository says and are refuted when
they are added to the run of their module; they are kept beside the module they are
about:

* `ResponseIsKept` (`ActionJournal`): `docs/design/action-reconciliation.md:65` has
  "directory, file and final-name durability ... before a result is relied on"; a
  replay (`act.go:388-396`) returns the recorded answer before the name of its record
  is known to be durable.
* `ResumeFinishes` (`KeyRotation`, with `TornRecord`): `SPEC.md:994-995` has `--resume`
  finish a pending rotation; a kept record torn in its own write (`rotate_key.go:301`)
  is refused by every `--resume`.
* `WrittenStarts` (`Connect`): `docs/design/engine-config.md:743-745` and the comment
  at `connect.go:82-88` have the configuration a connect writes pass "every refusal
  `serve` applies"; the owners a start asks of every platform's bindings
  (`taxonomy.go:387`, called from `main.go:312`) are asked at the start only.
* `ReadingsMoveForward` (`Connect`): `publisher.go:250-253` has no writer's change lost
  to another's; a reading is made outside the lock and may be merged over a later one.
  What holds is `ConclusiveStays`.
* `WindowHolds` (`WitnessService`): `witness_serve.go:447-451` has one window a minute;
  the clock is read (453) before the lock (456), so a request of the minute before can
  turn the window back and both minutes' counts be forgotten.
* `StemIsIndex` (`Verify`): `SPEC.md:730` has `misfiled` where "the filename stem is not
  `callIndex`"; `verify.go:1103` parses the stem, and `07` passes for 7.

## 7. Plan

Done: the journal, sessions, rotation, documents, leases and the witness log first;
then the witness's service and readers, verification, export, configuration and
connect, pins, the start and its paths, delegation, the decision policy, the MCP
server and adapter, source programs, grants, storage plans, search and the PDF reader.

Proved: types, safety and refinement of the journal; the sessions; the rotation; the
documents and their refinement; the leases; that the witness's log never forks; storage
plans, metered searches, the places and roles of the witness's service, the MCP
adapter, and the workspaces' connections; source programs, the decision policy, the
walk of a path, and the MCP server; the start, connects and publishers' records, and
delegated calls.

Left, in this order:

1. **Proofs** of `ServedIsKept` and `RepairsAreSound`.
2. **Proofs** about `Grants` and `Pins`.
3. **Compositions**: the grant a Drive plan is committed under; a rotation read by a
   witness's walk of keys.
