--------------------------- MODULE MCConfiguration ---------------------------
(***************************************************************************)
(* What an operator sets up, on small instances: the configuration's files *)
(* and those who write them, the snapshots it pins, the start that judges  *)
(* it, the delegations it lets a host make, and the grants of a connection *)
(* it authorizes.  A behaviour is of one of the five, which `part` says;   *)
(* the variables of the others are None.                                   *)
(***************************************************************************)
EXTENDS Naturals, Sequences, FiniteSets, TLC

CONSTANTS
  Parts, None,
  c1, c2, k1, pa, pb, r1, r2, r3,
  Connects, MaxServer, MaxEdits, MaxReadings, MaxCrashes,
  Base, ListingBound, MaxRots, MaxPuts,
  Chains, Calls, Callers, Lifetime, Window, MaxLive, MaxProofs, MaxTime, MaxSends, MaxRestarts,
  RetiredKept, MaxTokens, MaxConns, MaxEpoch, MaxBegun, MaxDecisions

VARIABLES
  part,
  config, kept, snaps, durable, lock, records, catalog, server, proc, clock, edits, crashes,
  names, synced, pinned, connect, start, losses, rots, puts, spoiled,
  dep, phase, run, seen,
  now, creds, proofs, bound, binding, req, hostRevoked, hostCount, ended, accepted, sends, restarts,
  conn, epoch, disabled, consent, bindings, selections, ledger, removal, mu, flow, call,
  revoking, sweep, day, issued, made, begun, expired, gone, consents, confirmed, left

connectVars == <<config, kept, snaps, durable, lock, records, catalog, server, proc, clock, edits, crashes>>
pinsVars == <<names, synced, pinned, connect, start, losses, rots, puts, spoiled>>
startVars == <<dep, phase, run, seen>>
delegationVars ==
  <<now, creds, proofs, bound, binding, req, hostRevoked, hostCount, ended, accepted, sends, restarts>>
grantVars ==
  <<conn, epoch, disabled, consent, bindings, selections, ledger, removal, mu, flow, call,
    revoking, sweep, day, issued, made, begun, expired, gone, consents, confirmed, left>>
vars == <<part, connectVars, pinsVars, startVars, delegationVars, grantVars>>

(* The connects and the calls of a connection are the same two values. *)
Symmetric == Permutations(Connects) \cup Permutations(Callers)

-----------------------------------------------------------------------------
(* The configuration's files. *)
Platforms == {pa, pb}
Checks == {k1}

(* A binding without owner declarations, which a start no longer takes, and *)
(* one with them, of a customer, with a write tool.                         *)
OldBinding == [owners |-> FALSE, customer |-> FALSE, open |-> FALSE, tools |-> {}, publisher |-> None]

CustomerBinding ==
  [owners |-> TRUE, customer |-> TRUE, open |-> TRUE, tools |-> {"send"}, publisher |-> "maker"]

Bindings == {OldBinding, CustomerBinding}

Requests ==
  {[platform |-> pa, write |-> TRUE, replace |-> TRUE, parameters |-> "given"],
   [platform |-> pb, write |-> FALSE, replace |-> FALSE, parameters |-> None]}

OldEntry(b) == [binding |-> b, write |-> FALSE, pins |-> <<>>, parameters |-> None, policies |-> {}]
Captured(n, b, write) ==
  [binding |-> b, write |-> write, parameters |-> IF b.open THEN "given" ELSE None, policies |-> {},
   pins |-> [op \in {"live"} \cup (IF write THEN {"write"} ELSE {}) |-> [platform |-> n, binding |-> b, op |-> op, server |-> 1]]]

FirstConfigs ==
  {[version |-> 13, entries |-> [n \in {pa} |-> Captured(pa, CustomerBinding, TRUE)]],
   [version |-> 1, entries |-> [n \in {pb} |-> OldEntry(OldBinding)]]}

Connect == INSTANCE Connect

NoConnect ==
  /\ config = None /\ kept = None /\ snaps = None /\ durable = None /\ lock = None /\ records = None
  /\ catalog = None /\ server = None /\ proc = None /\ clock = None /\ edits = None /\ crashes = None

-----------------------------------------------------------------------------
(* The snapshots: three platforms, two of which pin one snapshot. *)
Pins == {"p", "q"}
Grow == ("p" :> 1 @@ "q" :> 2)
Pinned == {[p \in {"a", "b", "c"} |-> None], ("a" :> "q" @@ "b" :> "q" @@ "c" :> "p")}

Snapshots ==
  INSTANCE Pins WITH Platforms <- <<"a", "b", "c">>, Configurations <- Pinned,
    files <- names, kept <- synced, server <- start, crashes <- losses

NoPins ==
  /\ names = None /\ synced = None /\ pinned = None /\ connect = None /\ start = None
  /\ losses = None /\ rots = None /\ puts = None /\ spoiled = None

-----------------------------------------------------------------------------
(* The start: two platforms, each part of the host varied with the others   *)
(* as they should be.                                                       *)
Uids == {"root", "frontend", "signer", "a", "b"}
GoodHost ==
  [euid |-> "signer", dac |-> FALSE, switch |-> TRUE, ambient |-> FALSE, inheritable |-> FALSE,
   fileCaps |-> TRUE, othersExecute |-> FALSE, rootAccepted |-> FALSE, socket |-> FALSE,
   socketAccepted |-> FALSE, seed |-> [owner |-> "signer", private |-> TRUE]]

GoodHosts ==
  {[GoodHost EXCEPT !.dac = dac, !.switch = sw, !.ambient = amb, !.inheritable = inh, !.othersExecute = others] :
     dac, sw, amb, inh, others \in BOOLEAN}
  \cup {[GoodHost EXCEPT !.euid = e, !.seed = [owner |-> o, private |-> pr], !.rootAccepted = ra, !.ambient = amb] :
          e \in {"root", "signer"}, o \in {"root", "signer", "a"}, pr, ra, amb \in BOOLEAN}
  \cup {[GoodHost EXCEPT !.socket = TRUE, !.socketAccepted = sa] : sa \in BOOLEAN}

Op(shape, runs, probe, workspace, policy) ==
  [shape |-> shape, server |-> runs, probe |-> probe, workspace |-> workspace, policy |-> policy]

Outside == <<"etc">>
InWork == <<"work", "p">>
Live(policy) == Op("mcp", "command", FALSE, <<"work">>, policy)

StartBindings ==
  {[version |-> v, customer |-> FALSE, recovery |-> r,
    ops |-> [live |-> Op("mcp", "url", pr, <<>>, <<>>), write |-> Op("mcp", "image", FALSE, <<>>, <<>>)]] :
     v \in {1, 3}, r, pr \in BOOLEAN}
  \cup {[version |-> 2, customer |-> c, recovery |-> FALSE, ops |-> [live |-> Live(po)]] :
     c \in BOOLEAN, po \in {<<>>, Outside, InWork}}
  \cup {[version |-> 1, customer |-> FALSE, recovery |-> FALSE, ops |-> [history |-> Op("airbyte", "image", FALSE, <<>>, <<>>)]]}

PlatformOf(b, user, owner, write, members, loader) ==
  [binding |-> b, user |-> user, write |-> write, members |-> members, loaderVariable |-> loader,
   files |-> [name \in {x \in DOMAIN b.ops : x = "write" => write} |-> [owner |-> owner, private |-> TRUE]]]

Simple == CHOOSE b \in StartBindings : b.version = 1 /\ "live" \in DOMAIN b.ops /\ ~b.recovery
History == CHOOSE b \in StartBindings : "history" \in DOMAIN b.ops

Deployment(version, host, sandbox, platforms) ==
  [version |-> version, members |-> {"mcp"}, host |-> host, sandbox |-> sandbox, platforms |-> platforms]
NoSandbox == [policy |-> <<>>, workspaces |-> <<>>]

(* Hosts and users; then bindings and sandboxes. *)
Deployments ==
  {Deployment(2, h, NoSandbox, [pa |-> PlatformOf(Simple, u, "a", FALSE, {}, FALSE)]) : h \in GoodHosts, u \in Uids}
  \cup {Deployment(4, GoodHost, NoSandbox,
          [pa |-> PlatformOf(Simple, u, o, w, m, FALSE), pb |-> PlatformOf(History, "b", "b", FALSE, {}, FALSE)]) :
          u, o \in Uids, w \in BOOLEAN, m \in SUBSET {"decisionPolicy", "descriptors", "operationDescriptors"}}
  \cup {Deployment(v, GoodHost, [policy |-> po, workspaces |-> ws],
          [pa |-> PlatformOf(b, "a", "a", w, {}, l), pb |-> PlatformOf(b2, "b", "b", FALSE, {}, FALSE)]) :
          v \in {1, 12, 13}, b \in StartBindings, w, l \in BOOLEAN, po \in {<<>>, Outside, InWork},
          b2 \in {History, Simple} \cup {x \in StartBindings : x.customer},
          ws \in {<<>>} \cup [{<<"pb", "history">>} -> {<<"etc">>, <<"work">>}] \cup [{<<"pa", "live">>} -> {<<"etc">>, <<"work">>}]}

Start == INSTANCE Isolation

NoStart == dep = None /\ phase = None /\ run = None /\ seen = None

-----------------------------------------------------------------------------
(* The delegations of one host: a root, its child, and others that must not *)
(* be taken.                                                                *)

Delegations ==
  [hosts |-> [desk |-> [keys |-> {"k"}, requester |-> "desk"]], operators |-> {"op"}, bearerReadOnly |-> TRUE]
Identity ==
  [issuer |-> "idp", audience |-> "engine", witness |-> "witness", keys |-> [k1 |-> [kty |-> "OKP", alg |-> None, use |-> "sig", key |-> "idp"]]]
Token(sub, aud) ==
  [crit |-> FALSE, kid |-> "k1", alg |-> "EdDSA", signer |-> "idp", iss |-> "idp", aud |-> aud, sub |-> sub, exp |-> 9, nbf |-> 0]
Tokens == {Token("desk", {"engine"}), Token("ann", {"engine"}), Token("op", {"engine", "witness"})}

Entry(tools, effects, calls) == [source |-> "mail", tools |-> tools, effects |-> effects, calls |-> calls]
RootLink ==
  [digest |-> "d1", host |-> "desk", key |-> "k", signer |-> "k", sub |-> "ann", software |-> "run", mayDelegate |-> TRUE,
   entries |-> {Entry({"list", "send"}, {"read", "act"}, 1)}, from |-> 0, until |-> MaxTime + 1, parent |-> None, depth |-> 0]
Child == [RootLink EXCEPT !.digest = "d2", !.parent = "d1", !.depth = 1, !.mayDelegate = FALSE, !.until = MaxTime]
Reader == [RootLink EXCEPT !.digest = "d3", !.entries = {Entry({"list"}, {"read"}, None)}, !.until = 1]
Taken == [Child EXCEPT !.digest = "d4", !.sub = "bob"]

SomeChains == {<<RootLink, Child>>, <<Reader>>, <<RootLink, Taken>>}
OneChain == {<<RootLink, Child>>}
OneCall == {[source |-> "mail", tool |-> "send", effect |-> "act"]}
SomeCalls == {[source |-> "mail", tool |-> "list", effect |-> "read"], [source |-> "mail", tool |-> "send", effect |-> "act"]}
Proof(jti, iat, key) == [jti |-> jti, iat |-> iat, key |-> key, kty |-> "OKP", private |-> FALSE]
Proofs == {Proof("j", 1, "own"), Proof("i", 2, "own"), Proof("i", 2, "another")}


Delegation == INSTANCE Delegation WITH Config <- Delegations, Binders <- {"b"}, Requests <- Callers,
                MaxDepth <- 4, MaxBinds <- 2

NoDelegation ==
  /\ now = None /\ creds = None /\ proofs = None /\ bound = None /\ binding = None /\ req = None
  /\ hostRevoked = None /\ hostCount = None /\ ended = None /\ accepted = None /\ sends = None
  /\ restarts = None

-----------------------------------------------------------------------------
(* The grants of a connection: at most MaxDecisions decisions are made, and *)
(* all that follows from them.                                              *)
Grant == INSTANCE Grants WITH
  Calls <- Connects, CallKinds <- {"read", "observe", "search"}, Owners <- {"p"},
  IdleExpiries <- {1}, MaxTime <- 1, now <- day

NoGrant ==
  /\ conn = None /\ epoch = None /\ disabled = None /\ consent = None /\ bindings = None
  /\ selections = None /\ ledger = None /\ removal = None /\ mu = None /\ flow = None /\ call = None
  /\ revoking = None /\ sweep = None /\ day = None /\ issued = None /\ made = None /\ begun = None
  /\ expired = None /\ gone = None /\ consents = None /\ confirmed = None /\ left = None

GrantNext ==
  \/ left > 0 /\ Grant!Decide /\ left' = left - 1
  \/ Grant!GoOn /\ UNCHANGED left

-----------------------------------------------------------------------------
(* The lock is held by a connect or by no one, and a connect checks no publishers. *)
ASSUME ConnectAssumption == None \notin Connects /\ Connects \cap Checks = {}

(* A chain is a sequence of links, and a limit is a number. *)
ASSUME ChainsAssumption ==
  \A chain \in Chains :
    /\ chain \in Seq(Delegation!Links(chain))
    /\ \A l \in Delegation!Links(chain) : \A e \in l.entries : e.calls # None => e.calls \in Nat

(* The seed's name here is no platform's. *)
ASSUME StartAssumption == \A d \in Deployments : "seed" \notin DOMAIN d.platforms

-----------------------------------------------------------------------------
Init ==
  /\ part \in Parts
  /\ IF part = "connect" THEN Connect!Init ELSE NoConnect
  /\ IF part = "pins" THEN Snapshots!Init ELSE NoPins
  /\ IF part = "start" THEN Start!Init ELSE NoStart
  /\ IF part = "delegation" THEN Delegation!Init ELSE NoDelegation
  /\ IF part = "grants" THEN Grant!Init /\ left = MaxDecisions ELSE NoGrant

Next ==
  /\ UNCHANGED part
  /\ \/ part = "connect" /\ Connect!Next
        /\ UNCHANGED <<pinsVars, startVars, delegationVars, grantVars>>
     \/ part = "pins" /\ Snapshots!Next
        /\ UNCHANGED <<connectVars, startVars, delegationVars, grantVars>>
     \/ part = "start" /\ Start!Next
        /\ UNCHANGED <<connectVars, pinsVars, delegationVars, grantVars>>
     \/ part = "delegation" /\ Delegation!Next
        /\ UNCHANGED <<connectVars, pinsVars, startVars, grantVars>>
     \/ part = "grants" /\ GrantNext
        /\ UNCHANGED <<connectVars, pinsVars, startVars, delegationVars>>

Spec == Init /\ [][Next]_vars

-----------------------------------------------------------------------------
(* Every snapshot the configuration names, or would name after a crash, is  *)
(* beside it and durable, and the frontend starts wherever the signer does; *)
(* and a connect writes over nothing but what it was checked against, the   *)
(* other platforms' entries and the policies of its own kept                *)
(* (publishSnapshot, configFile.replace).                                   *)
CommitIsWhole == part = "connect" => Connect!NamedIsKept /\ Connect!CommitLosesNothing

(* A conclusive reading of a publisher is never lifted by an inconclusive   *)
(* one of the same publisher, whoever writes the record and in whatever     *)
(* order: a registry that cannot be reached changes nothing (mergeReading). *)
ConclusiveStays ==
  [][part = "connect" =>
       \A p \in Platforms :
         /\ Connect!Conclusive(records.of[p].state)
         /\ records'.of[p].publisher = records.of[p].publisher
         => Connect!Conclusive(records'.of[p].state)]_records

(* A pinned snapshot is there, whole, under its name: not lost by two       *)
(* connects that put the same one, by a step that fails, by a crash, nor    *)
(* taken from another file of the name (Put, linkNoReplace); and what a     *)
(* start lists fits its bound, the platforms it leaves out the later ones   *)
(* in the configuration's order (buildListing).                             *)
PinnedIsListed == part = "pins" => Snapshots!PinnedIsThere /\ Snapshots!ListingIsBounded

(* No adapter reads the seed or another platform's credentials, and neither *)
(* the MCP server nor the signer reads any, under every configuration the   *)
(* engine starts on; and no sandbox's policy lies in the workspace of a     *)
(* source (engineRefusals, validateEngineSandbox).                          *)
SourcesAreApart == part = "start" => Start!Isolated /\ Start!PolicyOutOfReach

(* A call is dispatched under a delegation only if, once it was asked for,  *)
(* its credential was live, each link of its chain valid and unrevoked, and *)
(* the call in the scope of all; and its issuing host counted it, whatever  *)
(* answers were lost (bind, present, admitDelegated).                       *)
SendIsDelegated == part = "delegation" => Delegation!SendIsAdmitted /\ Delegation!EverySendCounted

(* A call that reaches the provider was permitted: not begun after its      *)
(* grant was quarantined, revoked or outgrown, nor under an owner its host  *)
(* had removed, nor with a token of less than was asked; and the documents  *)
(* say what happened, whichever write was the last before a failure         *)
(* (grantPass, grantGate, callback, finish).                                *)
GrantsHold == part = "grants" => Grant!SentWasPermitted /\ Grant!RecordsAreTrue

(* SPEC.md: a proof of possession is taken once; its jti has not been seen  *)
(* before while a proof of its iat could still be accepted (present).       *)
ProofOnce == part = "delegation" => Delegation!ProofOnce
=============================================================================
