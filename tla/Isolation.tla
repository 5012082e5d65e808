----------------------------- MODULE Isolation -----------------------------
(***************************************************************************)
(* The engine's start: what a configuration and the bindings it pins are   *)
(* parsed to, the sources derived from them, and the refusals that keep    *)
(* the signer, the MCP server and each platform's adapters apart           *)
(* (go/engine.go: parseEngineConfig, parseBinding, parseOperation,         *)
(* deriveSources, engineRefusals; go/source_sandbox.go; go/spawn_unix.go). *)
(*                                                                         *)
(* A host is judged once, at the start; then each source is run as its     *)
(* platform's user and does what the kernel lets it.  A uid is a name;     *)
(* "root" and "frontend" are the host's own.  A path is a sequence of      *)
(* names, so that one lies within another when it continues it.            *)
(***************************************************************************)
EXTENDS Naturals, FiniteSets, Sequences, SequencesExt

CONSTANT Deployments  \* [version, members, host, sandbox, platforms]: what is started

VARIABLES
  dep,
  phase,       \* "stopped", "running" or "refused"
  run, seen    \* who has run, and <<who, file>>: what each came to read
vars == <<dep, phase, run, seen>>

NoPath == <<>>

-----------------------------------------------------------------------------
(* parseEngineConfig: a member needs the version that brought it in. *)
MemberVersion ==
  [mcp |-> 2, descriptors |-> 3, decisionPolicy |-> 4, witness |-> 6, parameters |-> 8,
   operationDescriptors |-> 11, descriptorStatements |-> 12, sandbox |-> 13, identity |-> 1]

ParseHeader(d) ==
  /\ d.version \in 1 .. 15
  /\ \A m \in d.members : d.version >= MemberVersion[m]
  /\ "witness" \in d.members => "identity" \in d.members

ParsePlatform(version, p) ==
  /\ DOMAIN p.files # {}
  /\ \A m \in p.members : version >= MemberVersion[m]
  /\ ~({"descriptors", "operationDescriptors"} \subseteq p.members)
  /\ "decisionPolicy" \in p.members => p.write

(* parseOperation, parseRemoteServer: a container image, a remote endpoint  *)
(* or a customer's command; only the last has a workspace and a policy.     *)
ParseOperation(op) ==
  /\ op.shape \in {"airbyte", "mcp"}
  /\ op.shape = "airbyte" => op.server = "image" /\ ~op.probe
  /\ op.server = "command" <=> op.workspace # NoPath
  /\ op.policy # NoPath => op.server = "command"

(* parseBinding. *)
ParseBinding(b) ==
  /\ b.version \in 1 .. 3
  /\ b.customer => b.version >= 2
  /\ DOMAIN b.ops # {}
  /\ \A name \in DOMAIN b.ops :
       LET op == b.ops[name] IN
       /\ ParseOperation(op)
       /\ b.customer => op.shape = "mcp" /\ ~op.probe
       /\ op.server = "command" => b.customer
       /\ op.shape = (IF name = "history" THEN "airbyte" ELSE "mcp")
       /\ name = "write" => ~op.probe
  /\ b.recovery => b.version = 3
  /\ b.version = 3 /\ "write" \in DOMAIN b.ops => b.recovery

(* bindingOperations, credentialsMatch: a platform names a credentials file *)
(* for each operation it offers, and for no other.                          *)
Offered(p) == {name \in DOMAIN p.binding.ops : name = "write" => p.write}

Resolves(p) ==
  /\ ParseBinding(p.binding)
  /\ DOMAIN p.files = Offered(p)
  /\ p.write => "write" \in DOMAIN p.binding.ops
  /\ p.binding.version = 1 => "operationDescriptors" \notin p.members

-----------------------------------------------------------------------------
(* deriveSources: a source for each operation offered, run as the           *)
(* platform's user.  From version 13 on each is run in a sandbox, under the *)
(* engine's policy or, where the engine names none, a customer command's    *)
(* own; a customer's command brings its workspace.                          *)
Enclosed(d) == d.version >= 13

SourceNames(d) ==
  UNION {{<<n, name>> : name \in Offered(d.platforms[n])} : n \in DOMAIN d.platforms}

Workspace(d, s) ==
  LET op == d.platforms[s[1]].binding.ops[s[2]] IN
  IF op.server = "command" THEN op.workspace
  ELSE IF s \in DOMAIN d.sandbox.workspaces THEN d.sandbox.workspaces[s] ELSE NoPath

Policy(d, s) ==
  LET op == d.platforms[s[1]].binding.ops[s[2]] IN
  IF op.server = "command" /\ d.sandbox.policy = NoPath THEN op.policy ELSE d.sandbox.policy

(* pathWithin: a path is resolved first, where a link leads elsewhere. *)
Within(path, dir) == path # NoPath /\ dir # NoPath /\ IsPrefix(dir, path)

(* validateEngineSandbox. *)
Commands(d) == {s \in SourceNames(d) : d.platforms[s[1]].binding.ops[s[2]].server = "command"}

SandboxValid(d) ==
  Enclosed(d) =>
    LET own == d.sandbox.workspaces
        op(s) == d.platforms[s[1]].binding.ops[s[2]]
        workspaces == {own[s] : s \in DOMAIN own} \cup {op(s).workspace : s \in Commands(d)}
        policies == {d.sandbox.policy} \cup
                    (IF d.sandbox.policy = NoPath THEN {op(s).policy : s \in Commands(d)} ELSE {}) IN
    /\ DOMAIN own \subseteq SourceNames(d)
    /\ \A s \in Commands(d) :
         /\ s \in DOMAIN own => own[s] = op(s).workspace
         /\ d.sandbox.policy # NoPath /\ op(s).policy # NoPath => op(s).policy = d.sandbox.policy
    /\ \A policy \in policies, workspace \in workspaces : ~Within(policy, workspace)
    /\ \A n \in DOMAIN d.platforms : Offered(d.platforms[n]) # {} => ~d.platforms[n].loaderVariable

-----------------------------------------------------------------------------
(* capabilityRefusal, switchingRefusal: what a signer that is not root may  *)
(* hold, and must.                                                          *)
CapabilityRefusal(h) == h.dac \/ h.ambient \/ h.inheritable
SwitchingRefusal(h) == ~h.switch \/ (h.euid # "root" /\ CapabilityRefusal(h))

(* The gateway's binary carries file capabilities, and others execute it.   *)
BinaryRefusal(h) == h.fileCaps /\ h.othersExecute

(* Mutant: two platforms may have one user. *)
UserRefusalOwn(d) ==
  \E n \in DOMAIN d.platforms : d.platforms[n].user \in {"root", "frontend", d.host.euid}

(* Every platform's user is its own: not root's, not the signer's, not the  *)
(* MCP server's, not another platform's.                                    *)
UserRefusal(d) ==
  \E n \in DOMAIN d.platforms :
    LET u == d.platforms[n].user IN
    \/ u \in {"root", "frontend", d.host.euid}
    \/ \E m \in DOMAIN d.platforms \ {n} : d.platforms[m].user = u

(* What is asked of a credentials file, and of the seed (verifySeedInfo).   *)
FileRefusal(d) ==
  \/ d.host.seed.owner # d.host.euid \/ ~d.host.seed.private
  \/ \E n \in DOMAIN d.platforms : \E name \in DOMAIN d.platforms[n].files :
       LET file == d.platforms[n].files[name] IN
       file.owner # d.platforms[n].user \/ ~file.private

EngineRefusals(d) ==
  \/ DOMAIN d.platforms = {} /\ "witness" \notin d.members
  \/ d.host.euid = "root" /\ ~d.host.rootAccepted
  \/ d.host.euid # "root" /\ CapabilityRefusal(d.host)
  \/ BinaryRefusal(d.host)
  \/ UserRefusal(d)
  \/ FileRefusal(d)
  \/ d.host.socket /\ DOMAIN d.platforms # {} /\ ~d.host.socketAccepted

Starts(d) ==
  /\ ParseHeader(d)
  /\ \A n \in DOMAIN d.platforms :
       ParsePlatform(d.version, d.platforms[n]) /\ Resolves(d.platforms[n])
  /\ SandboxValid(d)
  /\ ~EngineRefusals(d)
  /\ SourceNames(d) # {} => ~SwitchingRefusal(d.host)

-----------------------------------------------------------------------------
(* What a process of the host comes to read, by the kernel's rules: a file  *)
(* of its own uid's, one that others may read, and any file for root or one *)
(* who becomes root.  A source is started with no new privileges            *)
(* (sourceGroup.start), so it takes up no file's capabilities and keeps     *)
(* what it was given, unless root's change of user clears it; a process a   *)
(* platform's user starts otherwise takes up those of a binary it can       *)
(* execute.                                                                 *)
Files(d) == {<<"seed", "seed">>} \cup SourceNames(d)
File(d, f) == IF f[1] = "seed" THEN d.host.seed ELSE d.platforms[f[1]].files[f[2]]

ReadsAll(d, uid, how) ==
  CASE how = "source" -> uid = "root" \/ (d.host.ambient /\ d.host.euid # "root") \/ d.host.socket
    [] how = "stray" -> uid = "root" \/ (d.host.fileCaps /\ d.host.othersExecute)
    [] how = "own" -> uid = "root" \/ (uid = d.host.euid /\ d.host.dac)

Readable(d, uid, how) ==
  {f \in Files(d) : ReadsAll(d, uid, how) \/ File(d, f).owner = uid \/ ~File(d, f).private}

Init == dep \in Deployments /\ phase = "stopped" /\ run = {} /\ seen = {}

Start ==
  /\ phase = "stopped"
  /\ phase' = IF Starts(dep) THEN "running" ELSE "refused"
  /\ UNCHANGED <<dep, run, seen>>

Runs(who, uid, how) ==
  /\ phase = "running" /\ who \notin run
  /\ run' = run \cup {who}
  /\ seen' = seen \cup ({who} \X Readable(dep, uid, how))
  /\ UNCHANGED <<dep, phase>>

(* prepareSourceProcess, start: a source is run, for a call or for a check. *)
RunSource == \E s \in SourceNames(dep) : Runs(s, dep.platforms[s[1]].user, "source")

(* A process of a platform's user that the gateway did not start. *)
RunStray == \E n \in DOMAIN dep.platforms : Runs(<<n, "stray">>, dep.platforms[n].user, "stray")

(* The signer and the MCP server. *)
RunOwn == \E uid \in {dep.host.euid, "frontend"} : Runs(<<uid, "own">>, uid, "own")

Next == Start \/ RunSource \/ RunStray \/ RunOwn
Spec == Init /\ [][Next]_vars

(* No adapter reads the seed or another platform's credentials, and neither *)
(* the MCP server nor a signer that is not root reads any credentials,      *)
(* under every configuration the engine starts on; unless the operator has  *)
(* accepted a root signer, or a runtime's socket, in so many words          *)
(* (engineRefusals, requireUserSwitching).                                  *)
Isolated ==
  \A pair \in seen :
    LET who == pair[1]  f == pair[2] IN
    \/ f[1] = "seed" /\ who = <<dep.host.euid, "own">>
    \/ f[1] # "seed" /\ who[1] = f[1]
    \/ who = <<"root", "own">> /\ dep.host.rootAccepted
    \/ dep.host.socket /\ dep.host.socketAccepted /\ who \in SourceNames(dep)

(* No source that runs in a sandbox can rewrite the policy that confines it *)
(* or any other source: no policy lies in the workspace of any of them,     *)
(* whichever of the engine and the binding named each (validateEngineSandbox *)
(* and deriveSources, which choose the policy and the workspace apart).     *)
PolicyOutOfReach ==
  phase = "running" /\ Enclosed(dep) =>
    \A s, t \in SourceNames(dep) : ~Within(Policy(dep, s), Workspace(dep, t))
=============================================================================
