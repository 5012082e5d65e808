----------------------------- MODULE Workspaces -----------------------------
(***************************************************************************)
(* Databricks and Azure DevOps connections (adapters/connections/          *)
(* databricks.go, azure_devops.go and their _mcp.go): what the broker      *)
(* configures, disconnects, blocks and disables in a store that every      *)
(* adapter process locks, and a read: the connection as it stands, its     *)
(* grant, the request held against every credential in custody, a token    *)
(* held or minted for a service principal, the requests it makes, each     *)
(* answer held against those credentials, and the connection looked at     *)
(* again before anything is kept.  A read runs in a process of its own,    *)
(* which may stop at any step; a write of the store may fail, made or not. *)
(*                                                                         *)
(* A credential is known by a number and the place it was given for or     *)
(* minted at: a workspace or an organization, and whom it is used as.      *)
(* What a request or an answer spells is a credential or None.             *)
(***************************************************************************)
EXTENDS Naturals, FiniteSets, Sequences

CONSTANTS
  Reads,                          \* the reads and tests that run
  Ids, MaxConnections,            \* connections' names, and how many may be configured
  MaxRevisions, MaxCredentials, MaxHours,     \* bounds: what is configured, drawn, and passes
  None

VARIABLES
  provider,     \* which of the two
  connections,  \* each name's connection, or None
  tokens,       \* databricksState.Tokens: each name's token, or None
  disabled,     \* the owner's policy: whether a broker last ran with --disabled
  blocked,      \* names whose grant was quarantined or revoked
  revisions,    \* revisions drawn so far; each is fresh (randomID)
  issued,       \* every credential there has been
  hour,
  reads,
  sent          \* history: the credentials sent, each with the place it was sent to

store == <<connections, tokens, disabled, blocked>>
vars == <<provider, store, revisions, issued, hour, reads, sent>>

Places == {"w1", "w2"}
Tools == {"t1", "t2"}
Spells == issued \cup {None}
Credential(place) == [n |-> Cardinality(issued) + 1, place |-> place]

(* databricksActiveOf and azureDevOpsActiveOf: what custody holds. *)
Active(links, kept) ==
  {links[i].secret : i \in {j \in Ids : links[j] # None}}
  \cup {kept[i].access : i \in {j \in Ids : kept[j] # None}}
Custody == Active(connections, tokens)

Rest == [step |-> "idle", kind |-> None, id |-> None, c |-> None, text |-> None, tool |-> None,
         known |-> {}, bearer |-> None, asked |-> 0, request |-> None, listed |-> {}, ids |-> {}, peer |-> None,
         items |-> None, spelled |-> {}, out |-> None, live |-> FALSE, allowed |-> FALSE,
         held |-> {}]

-----------------------------------------------------------------------------
(* The broker's operations, each under the store's lock.  One that is refused, or whose *)
(* write fails unmade, changes nothing; one whose write fails made is as one that holds. *)

(* A connection that is changed is no longer the one a read began with, and a credential *)
(* that leaves custody no longer one custody held all along.                             *)
Watch(links, kept) ==
  [r \in Reads |->
     LET q == reads[r] IN
     IF q.step \in {"idle", "done"} THEN q
     ELSE [q EXCEPT !.held = @ \cap Active(links, kept),
                    !.live = @ /\ links[q.id] # None /\ links[q.id].revision = q.c.revision]]

(* databricksIsCurrent and azureDevOpsCurrent. *)
Current(q) == connections[q.id] # None /\ connections[q.id].revision = q.c.revision

(* Mutant: a blank secret keeps the saved one wherever it would be sent. *)
KeepsAnywhere(c, place, auth) == c # None /\ c.auth = auth

(* A blank secret keeps the saved one only where it would be sent to the same place, the *)
(* same way.                                                                             *)
Keeps(c, place, auth) == c # None /\ c.auth = auth /\ c.place = place

(* A name that is held is configured by its own revision, which a stale one is refused   *)
(* for; the connection's own text may spell no credential; an access token has the       *)
(* expiry given with it; and the tokens minted for what it was are dropped.              *)
Configure(id, place, auth, new, tools, text) ==
  LET c == connections[id]
      secret == IF new THEN Credential(place) ELSE c.secret
      q == [revision |-> revisions + 1, place |-> place, auth |-> auth, secret |-> secret, tools |-> tools,
            expires |-> IF auth # "bearer" THEN 0 ELSE IF new THEN hour + 1 ELSE c.expires]
  IN
  /\ revisions < MaxRevisions
  /\ IF new THEN Cardinality(issued) < MaxCredentials ELSE Keeps(c, place, auth)
  /\ c = None => Cardinality({i \in Ids : connections[i] # None}) < MaxConnections
  /\ text \notin Custody \cup {secret}
  /\ auth \in {"token", IF provider = "databricks" THEN "service-principal" ELSE "bearer"}
  /\ provider = "azure-devops" /\ tools # {} => auth = "bearer"
  /\ revisions' = revisions + 1
  /\ connections' = [connections EXCEPT ![id] = q]
  /\ tokens' = [tokens EXCEPT ![id] = None]
  /\ issued' = issued \cup {secret}
  /\ reads' = Watch(connections', tokens')
  /\ UNCHANGED <<provider, disabled, blocked, hour, sent>>

(* Deleting what custody holds revokes nothing where it is used. *)
Disconnect(id) ==
  /\ connections[id] # None
  /\ connections' = [connections EXCEPT ![id] = None] /\ tokens' = [tokens EXCEPT ![id] = None]
  /\ reads' = Watch(connections', tokens')
  /\ UNCHANGED <<provider, disabled, blocked, revisions, issued, hour, sent>>

(* A broker runs with --disabled or without, and writes that before anything else, in     *)
(* either direction: no connection has another revision for it, and no token is dropped.  *)
SetPolicy ==
  /\ disabled' = ~disabled
  /\ UNCHANGED <<provider, connections, tokens, blocked, revisions, issued, hour, reads, sent>>

(* The grant of a connection is quarantined or revoked (grant.go). *)
Block(id) ==
  /\ id \notin blocked /\ blocked' = blocked \cup {id}
  /\ UNCHANGED <<provider, connections, tokens, disabled, revisions, issued, hour, reads, sent>>

HourPasses ==
  /\ hour < MaxHours /\ hour' = hour + 1
  /\ UNCHANGED <<provider, store, revisions, issued, reads, sent>>

-----------------------------------------------------------------------------
(* A read. *)

At(r, step) == reads[r].step = step
Go(r, q) == reads' = [reads EXCEPT ![r] = q]
Outcome(out) == [Rest EXCEPT !.step = "done", !.out = out]
End(r, out) == Go(r, Outcome(out))
Keeping(r) == Go(r, [reads[r] EXCEPT !.step = "done", !.out = "envelope", !.allowed = ~disabled])
Kept == UNCHANGED <<provider, store, revisions, issued, hour, sent>>

(* The requests of a read: a query whose items are then read, a session with an MCP      *)
(* server and, where its end is a request like the others, that end; None where there is *)
(* no other.                                                                             *)
First(kind) ==
  CASE kind = "query-and-get" -> "query" [] kind \in {"mcp", "probe"} -> "initialize" [] OTHER -> "api"
Following(q) ==
  CASE q.request = "query" /\ q.ids # {} -> "items"
    [] q.request = "initialize" -> "list"
    [] q.request = "list" /\ q.kind = "mcp" -> "call"
    [] provider = "azure-devops" /\ (q.request = "call" \/ (q.request = "list" /\ q.kind = "probe")) -> "end"
    [] OTHER -> None
Kinds == {"api", "mcp", "test", "probe"} \cup (IF provider = "databricks" THEN {} ELSE {"query-and-get"})

(* azureDevOpsExpired: a token at or within its slack of the expiry given for it. *)
Expired(c) == c.auth = "bearer" /\ c.expires <= hour

(* check and checkMCP: the tool is on the connection's list. *)
Allowed(c, kind, tool) == kind = "mcp" => tool \in c.tools

(* databricksSnapshot and azureDevOpsSnapshot, under the lock, and what the request is   *)
(* held to there: a test's grant is asked for with its credential, and the test of a      *)
(* connection that enables no server reaches none.                                        *)
Snapshot(r, id, asked, kind, text, tool) ==
  LET c == connections[id]
      tests == kind \in {"test", "probe"}
      q == [Rest EXCEPT !.kind = kind, !.request = First(kind), !.id = id, !.c = c, !.text = text, !.tool = tool,
                        !.live = TRUE, !.held = Custody, !.known = IF provider = "databricks" THEN {} ELSE Custody,
                        !.step = IF provider = "databricks" /\ tests THEN "bearer" ELSE "grant"]
      refused == \/ disabled \/ c = None \/ id \in blocked \/ c.revision # asked
                 \/ ~tests /\ (~Allowed(c, kind, tool) \/ Expired(c))
  IN
  /\ At(r, "idle") /\ kind \in Kinds /\ (kind # "mcp" => tool = "t1") /\ (tests => text = None)
  /\ IF refused THEN End(r, "refused")
     ELSE IF kind = "probe" /\ c.tools = {} THEN End(r, "ok")
     ELSE Go(r, q)
  /\ Kept

(* grantUse, and for a test grantCredential: the grant as it is now. *)
Grant(r) ==
  /\ At(r, "grant")
  /\ IF reads[r].id \in blocked THEN End(r, "refused") ELSE Go(r, [reads[r] EXCEPT !.step = "screen"])
  /\ Kept

(* A read's own credentials: the connection's, and the one it is sent under. *)
Carried(q) == {q.c.secret} \cup (IF q.bearer = None THEN {} ELSE {q.bearer})

(* What a request is held against: for Databricks custody as it is, with the token held  *)
(* for the connection and, again, with the one it is sent under; for Azure DevOps custody *)
(* at the snapshot.                                                                       *)
Known(q) == (IF provider = "databricks" THEN Custody ELSE q.known) \cup Carried(q)

(* carries: the request spells a credential, in any form it is sent in. *)
Screen(r) ==
  LET q == reads[r]  known == Known(q) IN
  /\ At(r, "screen")
  /\ IF q.text \in known THEN End(r, "refused")
     ELSE Go(r, [q EXCEPT !.known = known,
                  !.bearer = IF provider = "databricks" THEN @ ELSE q.c.secret,
                  !.step = IF provider = "databricks" /\ q.bearer = None THEN "bearer" ELSE "send"])
  /\ Kept

-----------------------------------------------------------------------------
(* databricksBearer: the grant again, then the access token as configured, or a token    *)
(* held for a service principal while it is fresh; one that is not is dropped, and a     *)
(* write of that which fails refuses the read.                                           *)
Bearer(r) ==
  LET q == reads[r]  t == tokens[q.id]
      fresh == t # None /\ t.revision = q.c.revision /\ t.expires > hour
      refused == q.id \in blocked \/ (q.c.auth # "token" /\ (disabled \/ ~Current(q)))
      minted == q.c.auth # "token" /\ ~fresh
      dropped == IF minted THEN [tokens EXCEPT ![q.id] = None] ELSE tokens
  IN
  /\ At(r, "bearer")
  /\ \/ refused /\ End(r, "refused") /\ UNCHANGED tokens
     \/ /\ ~refused /\ minted /\ t # None
        /\ tokens' \in {tokens, dropped}
        /\ reads' = [Watch(connections, tokens') EXCEPT ![r] = Outcome("refused")]
     \/ /\ ~refused /\ tokens' = dropped
        /\ reads' = [Watch(connections, dropped) EXCEPT ![r] =
             [@ EXCEPT !.step = IF minted THEN "mint" ELSE "gate",
                       !.bearer = IF minted THEN None ELSE IF q.c.auth = "token" THEN q.c.secret ELSE t.access]]
  /\ UNCHANGED <<provider, connections, disabled, blocked, revisions, issued, hour, sent>>

(* databricksMint: the secret is sent to the workspace's token endpoint. *)
Mint(r) ==
  /\ At(r, "mint")
  /\ sent' = sent \cup {[credential |-> reads[r].c.secret, to |-> reads[r].c.place]}
  /\ Go(r, [reads[r] EXCEPT !.step = "minting", !.asked = hour])
  /\ UNCHANGED <<provider, store, revisions, issued, hour>>

(* Its answer: a token whose lifetime counts from the request, refused where it would    *)
(* not outlast its slack.                                                                *)
Minted(r) ==
  LET q == reads[r]  access == Credential(q.c.place) IN
  /\ At(r, "minting")
  /\ \/ End(r, "refused") /\ UNCHANGED issued
     \/ /\ Cardinality(issued) < MaxCredentials /\ q.asked + 1 > hour
        /\ issued' = issued \cup {access}
        /\ Go(r, [q EXCEPT !.step = "keep", !.bearer = access])
  /\ UNCHANGED <<provider, store, revisions, hour, sent>>

(* Mutant: the token minted is kept whatever the connection is now. *)
KeepAnyway(r) ==
  LET q == reads[r] IN
  /\ At(r, "keep")
  /\ tokens' = [tokens EXCEPT ![q.id] = [revision |-> q.c.revision, access |-> q.bearer, expires |-> q.asked + 1]]
  /\ reads' = [Watch(connections, tokens') EXCEPT ![r] = [@ EXCEPT !.step = "gate"]]
  /\ UNCHANGED <<provider, connections, disabled, blocked, revisions, issued, hour, sent>>

(* It is kept for the connection it was minted for, if that is still the one there is;   *)
(* a write that fails refuses the read.                                                  *)
Keep(r) ==
  LET q == reads[r]
      kept == [tokens EXCEPT ![q.id] = [revision |-> q.c.revision, access |-> q.bearer, expires |-> q.asked + 1]]
      refused == disabled \/ ~Current(q)
  IN
  /\ At(r, "keep")
  /\ \/ tokens' = tokens /\ End(r, "refused")
     \/ /\ ~refused /\ tokens' = kept
        /\ \/ reads' = [Watch(connections, kept) EXCEPT ![r] = [@ EXCEPT !.step = "gate"]]
           \/ reads' = [Watch(connections, kept) EXCEPT ![r] = Outcome("refused")]
  /\ UNCHANGED <<provider, connections, disabled, blocked, revisions, issued, hour, sent>>

(* The grant as it is once a token is had; the request is then held against it too. *)
Gate(r) ==
  LET q == reads[r] IN
  /\ At(r, "gate")
  /\ IF q.id \in blocked THEN End(r, "refused")
     ELSE Go(r, [q EXCEPT !.step = "screen"])
  /\ Kept

-----------------------------------------------------------------------------
(* The requests.  An access token is held to its expiry immediately before each. *)
Send(r) ==
  LET q == reads[r] IN
  /\ At(r, "send")
  /\ IF Expired(q.c) THEN End(r, "refused") /\ UNCHANGED sent
     ELSE /\ sent' = sent \cup {[credential |-> q.bearer, to |-> q.c.place]}
          /\ Go(r, [q EXCEPT !.step = "sent"])
  /\ UNCHANGED <<provider, store, revisions, issued, hour>>

(* After an answer that is read: the next request, or what is done with the last. *)
Onward(q) ==
  IF Following(q) # None THEN [q EXCEPT !.request = Following(q), !.step = "send"]
    ELSE IF q.kind \in {"test", "probe"} THEN Outcome("ok")
    ELSE [q EXCEPT !.step = "confirm"]

(* Every answer is held against what is known, save that of a warehouse's test, which is *)
(* only looked at.                                                                       *)
Held(q) == ~(q.kind = "test" /\ provider = "databricks")

(* A listing that has no such tool, and items that were not asked for or that came from  *)
(* another peer than the query's answer.                                                 *)
NotOffered(q, tools) == q.request = "list" /\ q.kind = "mcp" /\ q.tool \notin tools
NotAsked(q, ids, peer) == q.request = "items" /\ (~(ids \subseteq q.ids) \/ peer # q.peer)

(* What an answer gives is read of one that spells no credential known. *)
Answered(r, spelled, tools, ids, peer) ==
  LET q == reads[r] IN
  /\ At(r, "sent") /\ q.request \notin {"initialize", "end"}
  /\ (q.request # "list" => tools = {}) /\ (q.request \notin {"query", "items"} => ids = {} /\ peer = "p")
  /\ IF (spelled \in q.known /\ Held(q)) \/ NotOffered(q, tools) \/ NotAsked(q, ids, peer)
       THEN End(r, "refused")
       ELSE Go(r, Onward([q EXCEPT !.spelled = @ \cup ({spelled} \ {None}),
              !.listed = IF q.request = "list" THEN tools ELSE @,
              !.ids = IF q.request = "query" THEN ids ELSE @, !.peer = IF q.request = "query" THEN peer ELSE @,
              !.items = IF q.request = "items" THEN [ids |-> ids, peer |-> peer] ELSE @]))
  /\ Kept

(* The session's id is a secret of the session from then on; the answer that issues it   *)
(* is held against it too.                                                               *)
Initialized(r, spelled) ==
  LET q == reads[r]  session == Credential(q.c.place) IN
  /\ At(r, "sent") /\ q.request = "initialize"
  /\ \/ End(r, "refused") /\ UNCHANGED issued
     \/ spelled \in q.known /\ End(r, "refused") /\ UNCHANGED issued
     \/ /\ spelled \notin q.known /\ Cardinality(issued) < MaxCredentials
        /\ issued' = issued \cup {session}
        /\ Go(r, Onward([q EXCEPT !.known = @ \cup {session}, !.spelled = @ \cup ({spelled} \ {None})]))
  /\ UNCHANGED <<provider, store, revisions, hour, sent>>

(* No answer, one that is no 200, too large, encoded or not of its form: nothing is      *)
(* tried again.                                                                          *)
Unanswered(r) == At(r, "sent") /\ reads[r].request # "end" /\ End(r, "refused") /\ Kept

(* The end of a session, a request like the others: its answer is read by no one, and    *)
(* only one that is encoded is refused.                                                  *)
Ended(r) ==
  /\ At(r, "sent") /\ reads[r].request = "end"
  /\ End(r, "refused") \/ Go(r, Onward(reads[r]))
  /\ Kept

(* Mutant: the answer is kept without another look at the connection. *)
ConfirmBlindly(r) == At(r, "confirm") /\ Keeping(r) /\ Kept

(* databricksCurrent and azureDevOpsCurrent: the connection is still the one asked. *)
Confirm(r) ==
  /\ At(r, "confirm")
  /\ IF disabled \/ ~Current(reads[r]) THEN End(r, "refused") ELSE Keeping(r)
  /\ Kept

(* The process stops where it is. *)
Stop(r) == ~At(r, "idle") /\ ~At(r, "done") /\ End(r, "none") /\ Kept

-----------------------------------------------------------------------------
Init ==
  /\ provider \in {"databricks", "azure-devops"}
  /\ connections = [i \in Ids |-> None] /\ tokens = [i \in Ids |-> None]
  /\ disabled = FALSE /\ blocked = {} /\ revisions = 0 /\ issued = {} /\ hour = 0
  /\ reads = [r \in Reads |-> Rest] /\ sent = {}

Operate ==
  \/ \E i \in Ids, p \in Places, a \in {"token", "service-principal", "bearer"}, new \in BOOLEAN,
        t \in {{}, {"t1"}}, text \in Spells : Configure(i, p, a, new, t, text)
  \/ \E i \in Ids : Disconnect(i) \/ Block(i)
  \/ SetPolicy \/ HourPasses

Read(r) ==
  \/ \E i \in Ids, k \in Kinds, text \in Spells, t \in Tools :
       \E asked \in 1..revisions : Snapshot(r, i, asked, k, text, t)
  \/ Grant(r) \/ Screen(r) \/ Bearer(r) \/ Mint(r) \/ Minted(r) \/ Keep(r) \/ Gate(r) \/ Send(r)
  \/ \E spelled \in Spells, tools \in {{}, {"t1"}}, ids \in SUBSET {"i"}, peer \in {"p", "q"} :
       Answered(r, spelled, tools, ids, peer)
  \/ \E spelled \in Spells : Initialized(r, spelled)
  \/ Unanswered(r) \/ Ended(r) \/ Confirm(r) \/ Stop(r)

Next == Operate \/ \E r \in Reads : Read(r)

Spec == Init /\ [][Next]_vars

-----------------------------------------------------------------------------
(* However connections are configured again, blocked, disconnected and disabled while    *)
(* reads run and tokens are minted: a credential is sent only to the place it was given  *)
(* for or minted at; a token is held only for the connection its name has now; and no    *)
(* request that was sent, nor any answer that is kept, spells a credential custody held   *)
(* all the while, or the read's own (configure, databricksBearerHeld, carries).          *)
CredentialsStayHome ==
  /\ \A s \in sent : s.credential.place = s.to
  /\ \A i \in Ids : tokens[i] # None =>
       /\ connections[i] # None /\ tokens[i].revision = connections[i].revision
       /\ tokens[i].access.place = connections[i].place
  /\ \A r \in Reads :
       LET q == reads[r] IN
       /\ q.step \in {"sent", "confirm"} => q.text \notin q.held \cup {q.c.secret, q.bearer}
       /\ q.out = "envelope" => q.spelled \cap (q.held \cup {q.c.secret, q.bearer}) = {}

(* What is kept of a read is of its connection, neither changed nor disconnected since it *)
(* was read, and is kept while the policy allows it: one that was disabled meanwhile and  *)
(* is allowed again is kept.  It was asked of its own place, with a tool the connection   *)
(* allows and the server offers, and has the items that the query named and one peer gave *)
(* (databricksCurrent, azureDevOpsCurrent, checkMCP, azureDevOpsItemsAnswer).             *)
ReadsAreCurrent ==
  \A r \in Reads :
    LET q == reads[r] IN
    q.out = "envelope" =>
      /\ q.live /\ q.allowed /\ q.bearer.place = q.c.place
      /\ q.kind = "mcp" => q.tool \in q.c.tools \cap q.listed
      /\ q.items # None => q.items.ids \subseteq q.ids /\ q.items.peer = q.peer

-----------------------------------------------------------------------------
(* The inductive invariant, for its proof. *)

Credentials == [n : Nat, place : Places]
Connections ==
  [revision : Nat, place : Places, auth : {"token", "service-principal", "bearer"}, secret : Credentials,
   tools : SUBSET {"t1"}, expires : Nat]
HeldTokens == [revision : Nat, access : Credentials, expires : Nat]
Early == {"grant", "screen", "bearer", "mint", "minting", "keep", "gate"}
Late == {"send", "sent", "confirm"}
Asked == {None, "api", "initialize", "list", "call", "end", "query", "items"}
ReadRecords ==
  [step : {"idle", "done"} \cup Early \cup Late,
   kind : {None, "api", "mcp", "test", "probe", "query-and-get"},
   request : Asked,
   id : Ids \cup {None}, c : Connections \cup {None}, text : Credentials \cup {None}, tool : Tools \cup {None},
   known : SUBSET Credentials, bearer : Credentials \cup {None}, asked : Nat, listed : SUBSET {"t1"},
   ids : SUBSET {"i"}, peer : {"p", "q", None}, items : [ids : SUBSET {"i"}, peer : {"p", "q"}] \cup {None},
   spelled : SUBSET Credentials, out : {None, "ok", "refused", "envelope", "none"}, live : BOOLEAN,
   allowed : BOOLEAN, held : SUBSET Credentials]

TypeOK ==
  /\ provider \in {"databricks", "azure-devops"} /\ disabled \in BOOLEAN
  /\ revisions \in Nat /\ hour \in Nat
  /\ connections \in [Ids -> Connections \cup {None}] /\ tokens \in [Ids -> HeldTokens \cup {None}]
  /\ issued \subseteq Credentials /\ IsFiniteSet(issued)
  /\ reads \in [Reads -> ReadRecords]

(* What is in custody was given for where it is used, and is numbered by what was drawn. *)
CustodyInv ==
  /\ \A i \in Ids : connections[i] # None =>
       connections[i].secret.place = connections[i].place /\ connections[i].revision <= revisions
  /\ \A i \in Ids : tokens[i] # None =>
       /\ connections[i] # None /\ tokens[i].revision = connections[i].revision
       /\ tokens[i].access.place = connections[i].place
  /\ \A s \in sent : s.credential.place = s.to

(* A read's connection: a name that has its revision has it whole, and a read that is    *)
(* told of no change can still be kept.                                                  *)
ConnectionInv(q) ==
  /\ q.id \in Ids /\ q.c \in Connections /\ q.out = None
  /\ q.c.secret.place = q.c.place /\ q.c.revision <= revisions
  /\ Current(q) => connections[q.id] = q.c
  /\ q.live \/ ~Current(q)
  /\ q.held \subseteq Custody
  /\ q.kind = "mcp" => q.tool \in q.c.tools

(* A read's request before it is sent, and after: every credential that custody held all *)
(* along is known to it, and nothing read or sent spells one.                            *)
Sensitive(q) == q.held \cup {q.c.secret, q.bearer}
EarlyInv(q) ==
  /\ q.spelled = {} /\ q.items = None /\ q.request = First(q.kind)
  /\ provider = "azure-devops" => q.held \subseteq q.known
  /\ q.bearer # None => q.bearer.place = q.c.place
  /\ q.step \in {"keep", "gate"} => q.bearer \in Credentials /\ q.bearer.place = q.c.place
LateInv(q) ==
  /\ Sensitive(q) \subseteq q.known /\ q.text \notin Sensitive(q)
  /\ q.bearer.place = q.c.place
  /\ Held(q) => q.spelled \cap Sensitive(q) = {}
  /\ q.kind = "mcp" => /\ q.request \in {"initialize", "list", "call", "end"}
                       /\ q.step = "confirm" \/ q.request \in {"call", "end"} => q.tool \in q.listed
  /\ q.items # None => q.items.ids \subseteq q.ids /\ q.items.peer = q.peer
  /\ q.request \in {"query", "initialize", "list"} /\ q.step # "confirm" => q.items = None
  /\ q.step = "confirm" => q.kind \notin {"test", "probe"}
KeptInv(q) ==
  /\ q.c \in Connections /\ q.live /\ q.allowed /\ q.bearer.place = q.c.place
  /\ q.spelled \cap Sensitive(q) = {}
  /\ q.kind = "mcp" => q.tool \in q.c.tools \cap q.listed
  /\ q.items # None => q.items.ids \subseteq q.ids /\ q.items.peer = q.peer

ReadInv(q) ==
  /\ q.step \in Early \cup Late => ConnectionInv(q)
  /\ q.step \in Early => EarlyInv(q)
  /\ q.step \in Late => LateInv(q)
  /\ q.out = "envelope" => q.step = "done" /\ KeptInv(q)

WorkspaceInv == TypeOK /\ CustodyInv /\ \A r \in Reads : ReadInv(reads[r])
=============================================================================
