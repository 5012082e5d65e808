------------------------------ MODULE MCOutside ------------------------------
(***************************************************************************)
(* What the gateway shares with others, on small instances: the leases of  *)
(* a name, and then its dealings with what is outside it: the plans of a   *)
(* storage change, metered searches, the calls of a witness, the MCP       *)
(* server an adapter runs, and the reads of a workspace's connections.  A  *)
(* behaviour is of one of the six, which `part` says; the leases of the    *)
(* others are those of the start, and the rest of their variables None.    *)
(***************************************************************************)
EXTENDS Leases, FiniteSets, TLC

CONSTANTS
  Parts, None,
  Brokers, MaxEpoch, MaxPlans, MaxEdits,
  Ids, MaxConnections, MaxLimit, MaxRevisions, MaxDays,
  Requests, Subjects, Trails, Tokens, Specs, Bodies, PerMinute, SubmitterInFlight, SubmissionsInFlight, ReadsInFlight, MaxRateSubmitters,
  MaxClock, MaxStatements,
  MaxToolPages, MaxEvents, MaxChanges,
  Readers, MaxCredentials

VARIABLES
  part,
  provider, generation, intent, file, next, kept, broker, plans, edits, applied, times,
  told,
  connections, off, revisions, today, calls, spent, most,
  spec, hour, req, flying, submitting, reading, minute, counts, reg, len, latest, retired,
  stopped, acts, taken,
  cfg, disk, changes, step, measured, holding, proc, kids, client, list, out, late, ran,
  heard, toolCalls,
  platform, links, minted, barred, quarantined, drawn, issued, time, reads, sent

storageVars ==
  <<provider, generation, intent, file, next, kept, broker, plans, edits,
    applied, times, told>>
searchVars ==
  <<connections, off, revisions, today, calls, spent, most>>
witnessVars ==
  <<spec, hour, req, flying, submitting, reading, minute, counts, reg,
    len, latest, retired, stopped, acts, taken>>
adapterVars ==
  <<cfg, disk, changes, step, measured, holding, proc, kids, client,
    list, out, late, ran, heard, toolCalls>>
workspaceVars ==
  <<platform, links, minted, barred, quarantined, drawn, issued, time,
    reads, sent>>
allVars ==
  <<part, vars, storageVars, searchVars, witnessVars, adapterVars,
    workspaceVars>>

(* The processes, the brokers and two of the requests are the same two      *)
(* values, so that one exchange of them is a symmetry of each.              *)
Symmetric == Permutations(Procs)

-----------------------------------------------------------------------------
Storage == INSTANCE StoragePlans WITH
  Providers <- {"google-drive", "aws-s3", "obsidian"}, epoch <- generation

NoStorage ==
  /\ provider = None /\ generation = None /\ intent = None /\ file = None /\ next = None /\ kept = None
  /\ broker = None /\ plans = None /\ edits = None /\ applied = None /\ times = None /\ told = None

-----------------------------------------------------------------------------
Search == INSTANCE WebSearch WITH Calls <- Procs, disabled <- off

NoSearch ==
  /\ connections = None /\ off = None /\ revisions = None /\ today = None /\ calls = None /\ spent = None
  /\ most = None

-----------------------------------------------------------------------------
(* The witness: a submitter, one whose token is also the engine's and soon  *)
(* expires, and an operator.                                                *)
SomeTokens ==
  {[sub |-> "a", auds |-> {"witness"}, exp |-> 1], [sub |-> "b", auds |-> {"witness", "engine"}, exp |-> 0],
   [sub |-> "o", auds |-> {"engine"}, exp |-> 1]}
SomeSpecs ==
  {[audience |-> "witness", submitters |-> None, operators |-> None, first |-> TRUE],
   [audience |-> "witness", submitters |-> {"a"}, operators |-> {"o"}, first |-> TRUE],
   [audience |-> "witness", submitters |-> {"a"}, operators |-> {"o"}, first |-> FALSE]}
SomeBodies ==
  LET line(t, n) == [trail |-> t, seq |-> n, ok |-> TRUE, whole |-> TRUE]
  IN  {<<line("t1", 1), line("t1", 2)>>}

Witness == INSTANCE WitnessService WITH now <- hour

NoWitness ==
  /\ spec = None /\ hour = None /\ req = None /\ flying = None /\ submitting = None /\ reading = None
  /\ minute = None /\ counts = None /\ reg = None /\ len = None /\ latest = None /\ retired = None
  /\ stopped = None /\ acts = None /\ taken = None

-----------------------------------------------------------------------------
(* The adapter: an invocation of each kind of server and of operation.      *)
Invocation(kind, op, approved, tools, tool) ==
  [server |-> kind, op |-> op, approved |-> approved, tools |-> tools, tool |-> tool]

Configs ==
  { Invocation("customer", "acquire", TRUE, {"t1", "t2"}, "t2"),
    Invocation("customer", "check", TRUE, {"t1", "t2"}, None),
    Invocation("customer", "capture", FALSE, {"t1", "t2"}, None),
    Invocation("command", "acquire", FALSE, {}, "t1"),
    Invocation("command", "acquire", TRUE, {"t1"}, "t1"),
    Invocation("remote", "acquire", TRUE, {"t1", "t2"}, "t2"),
    Invocation("remote", "acquire", FALSE, {"t1"}, "t2"),
    Invocation("remote", "check", TRUE, {"t1", "t2"}, "t1"),
    Invocation("remote", "check", TRUE, {"t1", "t2"}, "t2") }

Adapter == INSTANCE McpAdapter WITH
  pc <- step, held <- holding, conn <- client, calls <- toolCalls

NoAdapter ==
  /\ cfg = None /\ disk = None /\ changes = None /\ step = None /\ measured = None /\ holding = None
  /\ proc = None /\ kids = None /\ client = None /\ list = None /\ out = None /\ late = None
  /\ ran = None /\ heard = None /\ toolCalls = None

-----------------------------------------------------------------------------
Workspace == INSTANCE Workspaces WITH
  Reads <- Readers, MaxHours <- MaxClock,
  provider <- platform, connections <- links, tokens <- minted, disabled <- barred,
  blocked <- quarantined, revisions <- drawn, hour <- time

NoWorkspace ==
  /\ platform = None /\ links = None /\ minted = None /\ barred = None /\ quarantined = None
  /\ drawn = None /\ issued = None /\ time = None /\ reads = None /\ sent = None

-----------------------------------------------------------------------------
(* Bounds are numbers, and None is nothing that a search is answered with   *)
(* or sends.                                                                *)
ASSUME PlansAssumption == MaxPlans \in Nat
ASSUME SearchAssumption ==
  /\ MaxLimit \in Nat /\ MaxRevisions \in Nat
  /\ None \notin Search!Ends
  /\ \A p \in Search!Providers, o \in Search!Options : <<p, o>> # None
(* Finitely many requests; tokens are of subjects, submissions of trails. *)
ASSUME WitnessAssumption ==
  /\ IsFiniteSet(Requests)
  /\ \A t \in Tokens : t.sub \in Subjects
  /\ \A b \in Bodies : b # <<>> => b[1].trail \in Trails
(* None is no answer of a read and no request. *)
ASSUME WorkspaceAssumption == None \notin {"envelope", "list", "call", "items", "end"}

-----------------------------------------------------------------------------
MCInit ==
  /\ part \in Parts
  /\ Init
  /\ IF part = "storage" THEN Storage!Init ELSE NoStorage
  /\ IF part = "search" THEN Search!Init ELSE NoSearch
  /\ IF part = "witness" THEN Witness!Init ELSE NoWitness
  /\ IF part = "adapter" THEN Adapter!Init ELSE NoAdapter
  /\ IF part = "workspace" THEN Workspace!Init ELSE NoWorkspace

MCNext ==
  /\ UNCHANGED part
  /\ \/ part = "leases" /\ Next
        /\ UNCHANGED <<storageVars, searchVars, witnessVars, adapterVars, workspaceVars>>
     \/ part = "storage" /\ Storage!Next
        /\ UNCHANGED <<vars, searchVars, witnessVars, adapterVars, workspaceVars>>
     \/ part = "search" /\ Search!Next
        /\ UNCHANGED <<vars, storageVars, witnessVars, adapterVars, workspaceVars>>
     \/ part = "witness" /\ Witness!Next
        /\ UNCHANGED <<vars, storageVars, searchVars, adapterVars, workspaceVars>>
     \/ part = "adapter" /\ Adapter!Next
        /\ UNCHANGED <<vars, storageVars, searchVars, witnessVars, workspaceVars>>
     \/ part = "workspace" /\ Workspace!Next
        /\ UNCHANGED <<vars, storageVars, searchVars, witnessVars, adapterVars>>

MCSpec == MCInit /\ [][MCNext]_allVars

-----------------------------------------------------------------------------
(* A storage plan is applied at most once, whoever commits it, whoever      *)
(* stops and whatever answer is lost; what was answered of it is so; a      *)
(* conditional provider's change replaced the revision it was prepared      *)
(* against; and a local delete keeps what it took away (commitStorage).     *)
PlansAreTrue == part = "storage" => Storage!PlansAreTrue

(* No more searches of a connection are let go on a day than the largest    *)
(* limit it had that day; a refusal that says nothing was sent sent nothing; *)
(* and a result is given only where the connection was neither changed nor  *)
(* disconnected since its request was reserved, and while the policy allows *)
(* it (searchSnapshotWith, searchCurrent).                                  *)
SearchesAreAccounted == part = "search" => Search!SearchesAreAccounted

(* Every place at the witness is held by a request still being answered, on *)
(* every path out; and what the log took, it took from one allowed it: a    *)
(* statement from the trail's registrant at that moment, and no token for   *)
(* both a submission and an operator's act (submit, register, retire).      *)
WitnessIsOrderly == part = "witness" => Witness!PlacesAreHeld /\ Witness!RolesAreApart

(* A tool is called only as the configuration and the approval have it,     *)
(* what the adapter answers is its own call's answer and the server's own   *)
(* descriptors, and nothing it started is left behind unsaid (approval.go,  *)
(* client.go, stop).                                                        *)
AdapterIsTrue ==
  part = "adapter" =>
    Adapter!CalledAsApproved /\ Adapter!AnswersAreTrue /\ Adapter!NothingLeftBehind

(* However connections are configured again, blocked, disconnected and      *)
(* disabled while reads run and tokens are minted: a credential is sent     *)
(* only to the place it was given for or minted at; a token is held only    *)
(* for the connection its name has now; nothing that was sent or is kept    *)
(* spells a credential custody held all the while, or the read's own; and   *)
(* what is kept of a read is of its connection, neither changed nor         *)
(* disconnected since, kept while the policy allows it, with a tool it      *)
(* allows and the server offers, and items that the query named and one     *)
(* peer gave (configure,                                                    *)
(* databricksBearerHeld, carries, databricksCurrent, azureDevOpsCurrent,    *)
(* checkMCP, azureDevOpsItemsAnswer).                                       *)
ConnectionsHold == part = "workspace" => Workspace!CredentialsStayHome /\ Workspace!ReadsAreCurrent
=============================================================================
