----------------------------- MODULE Delegation -----------------------------
(***************************************************************************)
(* Calls made under a delegation: a host binds a credential to a chain of  *)
(* signed links, a run presents it with proofs of possession, and each     *)
(* call is admitted by the issuing host immediately before it is           *)
(* dispatched (go/delegation_*.go, go/identity.go, and the handlers of     *)
(* go/serve.go).  A restart ends every credential.                         *)
(*                                                                         *)
(* A link's bytes are named by its digest.  What the delegation does to a  *)
(* keyed action, from its dispatch marker on, is ActionJournal's.          *)
(***************************************************************************)
EXTENDS Naturals, FiniteSets, Sequences

CONSTANTS
  Config,      \* [hosts, operators, bearerReadOnly]: the delegation member
  Identity,    \* [issuer, audience, witness, keys]: who is believed
  Tokens,      \* tokens a caller may present
  Chains,      \* chains a host may present
  Calls,       \* [source, tool, effect]
  Proofs,      \* [jti, iat, key, kty, private]: proofs a run may have made
  Binders, Requests, \* handlers of bindings and of calls, at one time
  Lifetime, Window,  \* credentialLifetime, proofWindow
  MaxDepth,    \* maxDelegationDepth
  MaxLive, MaxProofs, \* maxLiveCredentials, maxProofsRemembered
  MaxTime, MaxBinds, MaxSends, MaxRestarts, \* bounds
  None

VARIABLES
  now,
  creds, proofs, \* the live credentials, and [jti, until] of the proofs remembered
  bound,       \* credentials bound so far
  binding, req,\* the handlers
  hostRevoked, hostCount, \* the issuing host: links revoked, calls counted per link
  ended,       \* history: credentials revoked here
  accepted,    \* history: times each proof was accepted
  sends,       \* history: what was dispatched
  restarts

service == <<creds, proofs>>
hosts == <<hostRevoked, hostCount>>
history == <<ended, accepted, sends>>
vars == <<now, service, bound, binding, req, hosts, history, restarts>>

-----------------------------------------------------------------------------
(* parseKeySet: the algorithm a key is for is its kind's, whatever a token  *)
(* says; a key for another use, or that names another algorithm, is refused. *)
KeyAlg == [RSA |-> "RS256", EC |-> "ES256", OKP |-> "EdDSA"]

ParseKeySet(keys) ==
  /\ DOMAIN keys # {}
  /\ \A kid \in DOMAIN keys :
       /\ keys[kid].kty \in DOMAIN KeyAlg
       /\ keys[kid].use \in {None, "sig"}
       /\ keys[kid].alg \in {None, KeyAlg[keys[kid].kty]}

(* verifyTokenFor, for one audience. *)
VerifyTokenFor(token, audience, t) ==
  /\ ~token.crit
  /\ token.kid \in DOMAIN Identity.keys
  /\ token.alg = KeyAlg[Identity.keys[token.kid].kty]
  /\ token.signer = Identity.keys[token.kid].key
  /\ token.iss = Identity.issuer
  /\ audience \in token.aud
  /\ token.sub # None
  /\ t < token.exp + 1 /\ t + 1 >= token.nbf        \* a leeway either way

(* engineToken: a token for the witness is not one for the engine. *)
EngineToken(token, t) ==
  /\ VerifyTokenFor(token, Identity.audience, t)
  /\ Identity.witness \notin token.aud

(* parseDelegationConfig: hosts by name, each with a requester of its own,  *)
(* none of them an operator.                                                *)
ParseConfig(c) ==
  /\ DOMAIN c.hosts # {}
  /\ \A h \in DOMAIN c.hosts :
       /\ c.hosts[h].keys # {}
       /\ c.hosts[h].requester \notin c.operators
       /\ \A k \in DOMAIN c.hosts \ {h} : c.hosts[k].requester # c.hosts[h].requester

HostOf(token) == {h \in DOMAIN Config.hosts : Config.hosts[h].requester = token.sub}

-----------------------------------------------------------------------------
Root(chain) == chain[1]
Leaf(chain) == chain[Len(chain)]
Links(chain) == {chain[k] : k \in DOMAIN chain}

(* parseScopeEntry, parseLink. *)
ParseScopeEntry(e) == e.tools # {} /\ e.effects # {}

ParseLink(l) ==
  /\ l.entries # {} /\ \A e \in l.entries : ParseScopeEntry(e)
  /\ \A e, f \in l.entries : e.source = f.source => e = f
  /\ l.until > l.from
  /\ (l.parent = None) = (l.depth = 0)

(* narrows: what a child may not do to its parent. *)
Narrows(c, p) ==
  /\ c.sub = p.sub
  /\ c.from >= p.from /\ c.until <= p.until
  /\ \A e \in c.entries : \E pe \in p.entries :
       /\ pe.source = e.source
       /\ e.tools \subseteq pe.tools /\ e.effects \subseteq pe.effects
       /\ pe.calls # None => e.calls # None /\ e.calls <= pe.calls
  /\ p.mayDelegate

(* verifyDelegationChain. *)
VerifyChain(chain) ==
  /\ Len(chain) \in 1 .. MaxDepth + 1
  /\ \A l \in Links(chain) :
       /\ ParseLink(l)
       /\ l.host \in DOMAIN Config.hosts /\ l.key \in Config.hosts[l.host].keys
       /\ l.signer = l.key
  /\ Root(chain).parent = None
  /\ \A k \in 2 .. Len(chain) :
       LET c == chain[k] p == chain[k - 1] IN
       /\ c.parent = p.digest /\ c.depth = p.depth + 1 /\ c.host = p.host
       /\ Narrows(c, p)

TimeOk(chain, t) == \A l \in Links(chain) : l.from <= t /\ t < l.until

ReadOnly(chain) ==
  \A l \in Links(chain) : \A e \in l.entries : e.effects \cap {"propose", "act"} = {}

(* scopeCheck. *)
InScope(chain, call) ==
  \A l \in Links(chain) : \E e \in l.entries :
    e.source = call.source /\ call.tool \in e.tools /\ call.effect \in e.effects

-----------------------------------------------------------------------------
(* The issuing host's answer to an admission read: its revocations, then    *)
(* the calls each link has left.  A call is counted when it is admitted.    *)
HostKnows(chain) == {l.digest : l \in Links(chain)} \cap hostRevoked = {}

Limited(l) == \E e \in l.entries : e.calls # None

CallsLeft(chain, call) ==
  \A l \in Links(chain) : \A e \in l.entries :
    e.source = call.source /\ e.calls # None => hostCount[l.digest] < e.calls

Counted(chain) ==
  LET limited == {l.digest : l \in {x \in Links(chain) : Limited(x)}} IN
  [d \in DOMAIN hostCount |-> hostCount[d] + (IF d \in limited THEN 1 ELSE 0)]

-----------------------------------------------------------------------------
Digests == {l.digest : l \in UNION {Links(c) : c \in Chains}}
IdleBind == [chain |-> None]
Idle == [pc |-> "idle"]

Init ==
  /\ ParseConfig(Config) /\ ParseKeySet(Identity.keys)
  /\ now = 0 /\ creds = {} /\ proofs = {} /\ bound = 0 /\ restarts = 0
  /\ binding = [b \in Binders |-> IdleBind] /\ req = [r \in Requests |-> Idle]
  /\ hostRevoked = {} /\ hostCount = [d \in Digests |-> 0]
  /\ ended = {} /\ accepted = [p \in Proofs |-> 0] /\ sends = {}

Tick ==
  /\ now < MaxTime /\ now' = now + 1
  /\ UNCHANGED <<service, bound, binding, req, hosts, history, restarts>>

(* pruneLocked. *)
LiveAt(t) == {c \in creds : t < c.expires}
RememberedAt(t) == {p \in proofs : p.until >= t}

(* bind, as far as the admission read: it names no call. *)
StartBind(b, token, chain, software, key) ==
  /\ binding[b] = IdleBind /\ bound < MaxBinds
  /\ EngineToken(token, now)
  /\ VerifyChain(chain) /\ Root(chain).host \in HostOf(token)
  /\ TimeOk(chain, now)
  /\ Leaf(chain).software = software
  /\ HostKnows(chain)
  /\ key = None => Config.bearerReadOnly /\ ReadOnly(chain)
  /\ binding' = [binding EXCEPT ![b] = [chain |-> chain, key |-> key, t |-> now]]
  /\ UNCHANGED <<now, service, bound, req, hosts, history, restarts>>

Earlier(a, b) == IF a < b THEN a ELSE b

Credential(b) ==
  [id |-> bound + 1, host |-> Root(binding[b].chain).host, chain |-> binding[b].chain,
   key |-> binding[b].key,
   expires |-> Earlier(binding[b].t + Lifetime, Leaf(binding[b].chain).until)]

(* bind, under the lock. *)
StoreBind(b) ==
  /\ binding[b] # IdleBind
  /\ LET live == LiveAt(binding[b].t) IN
     IF Cardinality(live) >= MaxLive
       THEN creds' = live /\ UNCHANGED bound
       ELSE creds' = live \cup {Credential(b)} /\ bound' = bound + 1
  /\ proofs' = RememberedAt(binding[b].t)
  /\ binding' = [binding EXCEPT ![b] = IdleBind]
  /\ UNCHANGED <<now, req, hosts, history, restarts>>

(* revoke: of a credential, or of every one under a link or an agent. *)
Revoke(token) ==
  /\ EngineToken(token, now)
  /\ \E gone \in {{c \in creds : c.id = n} : n \in 1 .. bound}
              \cup {{c \in creds : d \in {l.digest : l \in Links(c.chain)}} : d \in Digests} :
       LET mine == {c \in gone : c.host \in HostOf(token)} IN
       /\ mine # {}
       /\ creds' = creds \ mine
       /\ ended' = ended \cup {c.id : c \in mine}
  /\ UNCHANGED <<now, proofs, bound, binding, req, hosts, accepted, sends, restarts>>

(* present, as far as the lookup of the credential. *)
Present(r, c, scheme, proof, call) ==
  /\ req[r].pc = "idle" /\ Cardinality(sends) < MaxSends
  /\ now < c.expires
  /\ scheme = IF c.key = None THEN "Bearer" ELSE "DPoP"
  /\ req' = [req EXCEPT ![r] =
       IF c.key = None THEN [pc |-> "admit", cred |-> c, call |-> call]
       ELSE [pc |-> "proof", cred |-> c, call |-> call, proof |-> proof, t |-> now]]
  /\ UNCHANGED <<now, service, bound, binding, hosts, history, restarts>>

(* proofKey: a public key, of a kind that is read, and its thumbprint. *)
Thumbprint(p) == IF p.kty \in {"OKP", "EC"} /\ ~p.private THEN p.key ELSE None

(* verifyProof: judged at the time the credential was looked up. *)
ProofHolds(r) ==
  LET p == req[r].proof t == req[r].t IN
  /\ Thumbprint(p) = req[r].cred.key
  /\ p.iat + Window >= t /\ p.iat <= t + Window

VerifyProof(r) ==
  LET p == req[r].proof
      t == req[r].t
      remembered == RememberedAt(t) IN
  /\ req[r].pc = "proof"
  /\ IF ~ProofHolds(r) THEN /\ req' = [req EXCEPT ![r] = Idle] /\ UNCHANGED <<service, accepted>>
     ELSE /\ creds' = LiveAt(t)
          /\ IF p.jti \in {q.jti : q \in remembered} \/ Cardinality(remembered) >= MaxProofs
               THEN /\ proofs' = remembered
                    /\ req' = [req EXCEPT ![r] = Idle]
                    /\ UNCHANGED accepted
               ELSE /\ proofs' = remembered \cup {[jti |-> p.jti, until |-> p.iat + Window]}
                    /\ req' = [req EXCEPT ![r] = [pc |-> "admit", cred |-> @.cred, call |-> @.call]]
                    /\ accepted' = [accepted EXCEPT ![p] = @ + 1]
  /\ UNCHANGED <<now, bound, binding, hosts, ended, sends, restarts>>

(* senderFor: another sender may reach a reserved action, and dispatches    *)
(* nothing.  The host answers a subject's standing.                         *)
SenderFor(token, host, sub, standing) ==
  CASE token.sub = sub -> IF standing = "current" THEN "subject" ELSE "none"
    [] token.sub = Config.hosts[host].requester -> "host"
    [] token.sub \in Config.operators -> "operator"
    [] OTHER -> "none"

PresentOther(r, token, chain, call) ==
  /\ req[r].pc = "idle"
  /\ EngineToken(token, now)
  /\ \E standing \in {"current", "removed", "unknown"} :
       SenderFor(token, Root(chain).host, Root(chain).sub, standing) # "none"
  /\ req' = [req EXCEPT ![r] = [pc |-> "admit", cred |-> None, call |-> call]]
  /\ UNCHANGED <<now, service, bound, binding, hosts, history, restarts>>

(* admitDelegated, as far as the admission read: the credential is live     *)
(* still, and its chain holds now.  What is revoked by then is kept as      *)
(* history.                                                                 *)
Live(c, t) == c \in creds /\ t < c.expires

Admit(r) ==
  LET c == req[r].cred IN
  /\ req[r].pc = "admit"
  /\ req' = IF c # None /\ Live(c, now) /\ VerifyChain(c.chain) /\ TimeOk(c.chain, now)
              THEN [req EXCEPT ![r] = [pc |-> "ask", cred |-> c, call |-> @.call, t |-> now,
                                       known |-> hostRevoked, gone |-> ended]]
              ELSE [req EXCEPT ![r] = Idle]
  /\ UNCHANGED <<now, service, bound, binding, hosts, history, restarts>>

(* Mutant: a revocation is asked for and the call is not counted. *)
HostAnswersBefore(r) ==
  /\ req[r].pc = "ask"
  /\ HostKnows(req[r].cred.chain)
  /\ req' = [req EXCEPT ![r].pc = IF InScope(req[r].cred.chain, req[r].call) THEN "send" ELSE "idle"]
  /\ UNCHANGED <<now, service, bound, binding, hosts, history, restarts>>

(* admissionReadAt: counted only when the call is in scope here; an answer  *)
(* that is lost, or is none of those known, refuses.                        *)
Ask(r) ==
  LET chain == req[r].cred.chain
      own == InScope(chain, req[r].call)
      admits == HostKnows(chain) /\ CallsLeft(chain, req[r].call) IN
  /\ req[r].pc = "ask"
  /\ hostCount' = IF own /\ admits THEN Counted(chain) ELSE hostCount
  /\ \E arrives \in BOOLEAN :
       req' = IF arrives /\ own /\ admits
                THEN [req EXCEPT ![r].pc = "send"]
                ELSE [req EXCEPT ![r] = Idle]
  /\ UNCHANGED <<now, service, bound, binding, hostRevoked, history, restarts>>

(* runSource. *)
Send(r) ==
  LET q == req[r] IN
  /\ q.pc = "send"
  /\ sends' = sends \cup
       {[n |-> Cardinality(sends) + 1, cred |-> q.cred, t |-> q.t, call |-> q.call,
         known |-> q.known, gone |-> q.gone, sub |-> Leaf(q.cred.chain).sub]}
  /\ req' = [req EXCEPT ![r] = Idle]
  /\ UNCHANGED <<now, service, bound, binding, hosts, ended, accepted, restarts>>

(* The host revokes a leaf in its own inventory. *)
HostRevoke ==
  /\ \E l \in {Leaf(c) : c \in Chains} :
       l.digest \notin hostRevoked /\ hostRevoked' = hostRevoked \cup {l.digest}
  /\ UNCHANGED <<now, service, bound, binding, req, hostCount, history, restarts>>

Restart ==
  /\ restarts < MaxRestarts /\ restarts' = restarts + 1
  /\ creds' = {} /\ proofs' = {}
  /\ binding' = [b \in Binders |-> IdleBind] /\ req' = [r \in Requests |-> Idle]
  /\ UNCHANGED <<now, bound, hosts, history>>

ProofsOf(c) == IF c.key = None THEN {None} ELSE Proofs

Next ==
  \/ Tick \/ HostRevoke \/ Restart
  \/ \E b \in Binders : StoreBind(b) \/ \E token \in Tokens, chain \in Chains,
       software \in {"run", "another"}, key \in {None, "own"} : StartBind(b, token, chain, software, key)
  \/ \E token \in Tokens : Revoke(token)
  \/ \E r \in Requests :
       \/ \E c \in creds, scheme \in {"Bearer", "DPoP"}, call \in Calls : \E proof \in ProofsOf(c) :
            Present(r, c, scheme, proof, call)
       \/ \E token \in Tokens, chain \in Chains, call \in Calls : PresentOther(r, token, chain, call)
       \/ VerifyProof(r) \/ Admit(r) \/ Ask(r) \/ Send(r)

Spec == Init /\ [][Next]_vars

-----------------------------------------------------------------------------
(* A call is dispatched under a delegation only if, after the request was   *)
(* made, its credential was live, every link of its chain was valid and     *)
(* admitted the call, and the issuing host had not revoked any of them: a   *)
(* request that comes after a revocation, here or at the host, dispatches   *)
(* nothing, whatever was being bound or presented meanwhile (bind, present, *)
(* admitDelegated).  The requester of record is the root's subject.         *)
SendIsAdmitted ==
  \A s \in sends :
    /\ s.t < s.cred.expires /\ s.cred.id \notin s.gone
    /\ TimeOk(s.cred.chain, s.t) /\ InScope(s.cred.chain, s.call)
    /\ {l.digest : l \in Links(s.cred.chain)} \cap s.known = {}
    /\ s.sub = Root(s.cred.chain).sub
    /\ s.cred.key = None => s.call.effect \notin {"propose", "act"}

(* Whatever answers are lost, the host has counted every dispatch made      *)
(* under a link that limits them, and none is used oftener than its limit   *)
(* (admitDelegated, admissionReadAt: `count`).                              *)
EverySendCounted ==
  \A l \in UNION {Links(c) : c \in Chains} :
    LET under == {s \in sends : l \in Links(s.cred.chain)} IN
    Limited(l) => /\ Cardinality(under) <= hostCount[l.digest]
                  /\ \A e \in l.entries : e.calls # None =>
                       Cardinality({s \in under : s.call.source = e.source}) <= e.calls

(* A proof of possession is taken once: SPEC.md has its jti not seen before *)
(* while a proof of its iat could still be accepted.                        *)
ProofOnce == \A p \in DOMAIN accepted : accepted[p] <= 1

-----------------------------------------------------------------------------
(* The inductive invariant, for its proof. *)

(* A credential's identifier is never used again, here or by a revocation. *)
CredentialsInv ==
  /\ bound \in Nat /\ ended \subseteq 1 .. bound
  /\ \A c \in creds :
       /\ c.chain \in Chains /\ (c.key = None => ReadOnly(c.chain))
       /\ c.id \in (1 .. bound) \ ended
       /\ \A d \in creds : d.id = c.id => d = c
  /\ \A b \in Binders :
       binding[b] # IdleBind =>
         binding[b].chain \in Chains /\ (binding[b].key = None => ReadOnly(binding[b].chain))

(* What a request was admitted with stands until it is sent. *)
AdmittedInv(q) ==
  LET chain == q.cred.chain IN
  /\ q \in [pc : {q.pc}, cred : {q.cred}, call : {q.call}, t : {q.t}, known : {q.known}, gone : {q.gone}]
  /\ chain \in Chains /\ VerifyChain(chain) /\ TimeOk(chain, q.t)
  /\ q.cred.key = None => ReadOnly(chain)
  /\ q.t < q.cred.expires /\ q.cred.id \notin q.gone
  /\ q.known \subseteq hostRevoked
  /\ q.pc = "send" => InScope(chain, q.call) /\ {l.digest : l \in Links(chain)} \cap q.known = {}

RequestsInv ==
  /\ req = [r \in Requests |-> req[r]]
  /\ \A r \in Requests : req[r].pc \in {"ask", "send"} => AdmittedInv(req[r])
=============================================================================
