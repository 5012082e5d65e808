------------------------------- MODULE Grants -------------------------------
(***************************************************************************)
(* A principal's Drive connection and the ledger of its grants             *)
(* (adapters/connections): the broker that connects, binds sources and     *)
(* disconnects under its mutex, read programs and operator commands beside *)
(* it, all over one custody directory.  Each section under state.lock is   *)
(* one step; what is asked of the provider or of the owner's host happens  *)
(* between two of them.  A step that writes two documents may leave only   *)
(* the first one written.                                                  *)
(*                                                                         *)
(* A token is [n, whole]: its number, and whether the person granted the   *)
(* whole-Drive scope when it was issued.  The custody names one            *)
(* connection, so the ledger's find is its last record.                    *)
(***************************************************************************)
EXTENDS Naturals, Sequences, SequencesExt, FiniteSets

CONSTANTS
  Calls,         \* calls at one time
  CallKinds,     \* a subset of "read" (a program's), "observe", "search" (the broker's)
  Owners,        \* principals a grant may be recorded to
  RetiredKept,   \* grantRetiredKept
  IdleExpiries,  \* idle expiries an operator may set
  MaxTime, MaxTokens, MaxConns, MaxEpoch, MaxBegun, \* bounds
  None

VARIABLES
  conn, epoch, disabled, \* state.json
  consent,       \* consent.json: [conn, access, refresh], always of the whole scope
  bindings,      \* source-bindings.json: [conn, epoch, revoked, consents]
  selections,    \* grant-*: connections a selection was made of
  ledger,        \* grants.json
  removal,       \* the removal policy of owner-reads.json
  mu, flow,      \* the broker: who holds its mutex, the authorization under way
  call,
  revoking,      \* generations whose provider revocation is under way
  sweep,         \* owner the sweep is about to read
  now, issued, made, begun,
  expired,       \* tokens past their time
  gone,          \* owners their host has removed
  consents,      \* history: interactive consents committed
  confirmed      \* history: generations whose revocation the provider confirmed

custody == <<conn, epoch, consent>>
outside == <<now, expired, gone, confirmed>>
counts == <<issued, made, begun>>
vars == <<custody, disabled, bindings, selections, ledger, removal, mu, flow, call,
          revoking, sweep, outside, counts, consents>>

Whole == {"drive"}
IdleCall == [pc |-> "idle"]

-----------------------------------------------------------------------------
(* recordConsent, consentedScope: a consent is of one connection and both   *)
(* of its tokens.                                                           *)
ConsentOf(c) == [conn |-> c.id, access |-> c.access, refresh |-> c.refresh]
Consented(c) == consent = ConsentOf(c)

Retire(r, reason) == [r EXCEPT !.state = "revoked", !.reason = reason, !.told = FALSE]

NewRecord == [gen |-> conn.id, owner |-> None, granted |-> None, since |-> now,
              idle |-> None, state |-> "active", reason |-> None, told |-> FALSE]

(* heldGrants, for Drive: known only by its recorded consent. *)
HeldScopes == IF Consented(conn) THEN Whole ELSE None

(* reconcileGrants. *)
Reconcile(l) ==
  LET kept == [i \in DOMAIN l |->
                 IF l[i].state # "revoked" /\ (conn = None \/ l[i].gen # conn.id)
                   THEN Retire(l[i], "disconnected") ELSE l[i]]
      known == kept # <<>> /\ Last(kept).state # "revoked"
      all == IF known THEN kept ELSE Append(kept, NewRecord)
  IN IF conn = None THEN kept
     ELSE [all EXCEPT ![Len(all)].granted = IF @ = None THEN HeldScopes ELSE @]

(* saveGrants: the newest retired records are kept. *)
Save(l) ==
  LET after(i) == Cardinality({j \in i .. Len(l) : l[j].state = "revoked"})
      kept == {i \in DOMAIN l : l[i].state # "revoked" \/ after(i) <= RetiredKept}
  IN [k \in 1 .. Cardinality(kept) |->
        l[CHOOSE i \in kept : Cardinality({j \in kept : j <= i}) = k]]

IdleExpired(r) == r.idle # None /\ now >= r.since + r.idle

(* excessOf. *)
Excess(r) == r.granted # None /\ r.granted # Whole

(* dropCredential: state.json first, then a consent whose removal may fail. *)
DropCredential ==
  /\ epoch < MaxEpoch
  /\ conn' = None /\ epoch' = epoch + 1 /\ consent' \in {None, consent}

(* revokeLocked and saveGrants: the write of the ledger may fail once the   *)
(* credential is gone.                                                      *)
RevokeLocked(l, reason) ==
  /\ DropCredential
  /\ \E saved \in BOOLEAN :
       /\ ledger' = IF saved THEN Save([l EXCEPT ![Len(l)] = Retire(@, reason)]) ELSE ledger
       /\ revoking' \in {revoking \cup {Last(l).gen}} \cup (IF saved THEN {} ELSE {revoking})

(* finish: the provider's answer, which may not come. *)
FinishRevoke(g) ==
  /\ g \in revoking /\ revoking' = revoking \ {g}
  /\ \E answered \in BOOLEAN :
       IF answered
         THEN /\ confirmed' = confirmed \cup {g}
              /\ ledger' = Save([i \in DOMAIN ledger |->
                   IF ledger[i].gen = g /\ ledger[i].state = "revoked"
                     THEN [ledger[i] EXCEPT !.told = TRUE] ELSE ledger[i]])
         ELSE UNCHANGED <<confirmed, ledger>>
  /\ UNCHANGED <<custody, disabled, bindings, selections, removal, mu, flow, call, sweep,
                 now, expired, gone, counts, consents>>

(* applyOwnerRemoval, for the live record; `how` is the policy or the       *)
(* operator's own choice.                                                   *)
ApplyOwnerRemoval(p, how) ==
  LET l == Reconcile(ledger) live == l # <<>> /\ Last(l).state # "revoked" /\ Last(l).owner = p
  IN \/ /\ ~live
        /\ ledger' = Save(l) /\ UNCHANGED <<custody, revoking>>
     \/ /\ live /\ how = "quarantine"
        /\ ledger' = Save([l EXCEPT ![Len(l)].state = "quarantined"])
        /\ UNCHANGED <<custody, revoking>>
     \/ live /\ how = "revoke" /\ RevokeLocked(l, "owner-removed")

-----------------------------------------------------------------------------
(* Source bindings. *)
SourceConnection == ~disabled /\ conn # None /\ Consented(conn)
SourceCurrent(b) == conn # None /\ conn.id = b.conn /\ epoch = b.epoch
SourceBindingAt(b) == SourceConnection /\ b \in bindings /\ ~b.revoked /\ SourceCurrent(b)

InvalidateBindings ==
  {IF SourceCurrent(b) THEN [b EXCEPT !.revoked = TRUE] ELSE b : b \in bindings}

SourceBind ==
  /\ mu = None /\ SourceConnection
  /\ \A b \in bindings : ~(SourceCurrent(b) /\ ~b.revoked)
  /\ bindings' = bindings \cup
       {[conn |-> conn.id, epoch |-> epoch, revoked |-> FALSE, consents |-> consents]}
  /\ UNCHANGED <<custody, disabled, selections, ledger, removal, mu, flow, call, revoking,
                 sweep, outside, counts, consents>>

SourceRevoke ==
  /\ mu = None /\ SourceConnection
  /\ \E b \in bindings :
       /\ SourceCurrent(b) /\ ~b.revoked
       /\ bindings' = (bindings \ {b}) \cup {[b EXCEPT !.revoked = TRUE]}
  /\ UNCHANGED <<custody, disabled, selections, ledger, removal, mu, flow, call, revoking,
                 sweep, outside, counts, consents>>

-----------------------------------------------------------------------------
(* A call.  `barred`, `over` and `absent` are what held when it began: that *)
(* its generation was blocked for good, or found to hold more than was      *)
(* asked since the last consent, and the owners their hosts had removed.    *)
Records(g) == {ledger[i] : i \in {k \in DOMAIN ledger : ledger[k].gen = g}}

NewCall(k, b) ==
  [pc |-> "begun", kind |-> k, binding |-> b, snap |-> conn, epoch |-> epoch,
   gen |-> None, owner |-> None, token |-> None, reply |-> None,
   barred |-> \E r \in Records(conn.id) : r.state # "active",
   over |-> IF \E r \in Records(conn.id) : Excess(r) /\ mu # "callback" THEN {consents} ELSE {},
   absent |-> gone]

Begin(c, k, b) ==
  /\ call[c] = IdleCall /\ begun < MaxBegun /\ ~disabled /\ conn # None
  /\ call' = [call EXCEPT ![c] = NewCall(k, b)]
  /\ begun' = begun + 1
  /\ UNCHANGED <<custody, disabled, bindings, ledger, removal, flow, revoking, sweep, outside,
                 issued, made, consents>>

(* consumeGrant, connectedSnapshot, currentSourceBinding. *)
BeginRead(c) ==
  /\ "read" \in CallKinds /\ conn # None /\ conn.id \in selections
  /\ selections' = selections \ {conn.id}
  /\ Begin(c, "read", None) /\ UNCHANGED mu

BeginSearch(c) ==
  "search" \in CallKinds /\ mu = None /\ Begin(c, "search", None) /\ mu' = c /\ UNCHANGED selections

BeginObserve(c) ==
  /\ "observe" \in CallKinds /\ mu = None
  /\ \E b \in bindings : SourceBindingAt(b) /\ Begin(c, "observe", b)
  /\ mu' = c /\ UNCHANGED selections

(* makeGrants, through select. *)
Select ==
  /\ mu = None /\ ~disabled /\ conn # None /\ conn.id \notin selections
  /\ selections' = {conn.id}
  /\ UNCHANGED <<custody, disabled, bindings, ledger, removal, mu, flow, call, revoking, sweep,
                 outside, counts, consents>>

At(c, pc) == call[c].pc = pc
Refuse(c) == call' = [call EXCEPT ![c] = IdleCall] /\ mu' = IF mu = c THEN None ELSE mu
Goto(c, r) == call' = [call EXCEPT ![c] = r] /\ UNCHANGED mu
still == <<disabled, bindings, selections, removal, flow, sweep, outside, made, begun, consents>>

(* grantPass, its first lock. *)
Pass(c) ==
  LET l == Reconcile(ledger) me == call[c]
      want == me.kind = "search"
      absent == l = <<>> \/ Last(l).state = "revoked" \/ (want /\ Last(l).gen # me.snap.id)
      r == Last(l)
  IN /\ At(c, "begun")
     /\ IF ~absent /\ r.state = "active" /\ IdleExpired(r)
          THEN RevokeLocked(l, "idle-expiry") /\ Refuse(c)
          ELSE /\ ledger' = Save(l) /\ UNCHANGED <<custody, revoking>>
               /\ IF absent \/ r.state = "quarantined" \/ Excess(r) THEN Refuse(c)
                  ELSE Goto(c, [me EXCEPT !.pc = "passing", !.gen = r.gen, !.owner = r.owner])
     /\ UNCHANGED <<still, issued>>

(* ownerStanding: an answer that does not come refuses the call. *)
Ask(c) ==
  /\ At(c, "passing") /\ call[c].owner # None
  /\ \/ Refuse(c)
     \/ Goto(c, [call[c] EXCEPT !.pc = IF call[c].owner \in gone THEN "removing" ELSE "asked"])
  /\ UNCHANGED <<still, custody, ledger, revoking, issued>>

RemoveOwner(c) ==
  /\ At(c, "removing") /\ ApplyOwnerRemoval(call[c].owner, removal) /\ Refuse(c)
  /\ UNCHANGED <<still, issued>>

(* Mutant: the owner is not compared. *)
AnyOwner(me, r) == TRUE

(* grantPass, its second lock: the record's owner is the one asked about.   *)
SameOwner(me, r) == r.owner = me.owner

Use(c) ==
  LET l == Reconcile(ledger) me == call[c] r == Last(l)
      passes == l # <<>> /\ r.gen = me.gen /\ r.state = "active" /\ SameOwner(me, r)
      used == IF me.kind = "search" THEN l ELSE [l EXCEPT ![Len(l)].since = now]
  IN /\ At(c, "asked") \/ (At(c, "passing") /\ me.owner = None)
     /\ IF passes
          THEN /\ ledger' = Save(used)
               /\ Goto(c, [me EXCEPT !.pc = IF me.kind = "search" THEN "gated" ELSE "used",
                                     !.owner = r.owner])
          ELSE UNCHANGED ledger /\ Refuse(c)
     /\ UNCHANGED <<still, custody, revoking, issued>>

(* checkConnection; for an observation, the binding it began under. *)
Guard(me) ==
  \/ me.kind # "observe" /\ ~disabled /\ conn # None /\ conn.id = me.snap.id /\ epoch = me.epoch
  \/ me.kind = "observe" /\ SourceBindingAt(me.binding)

GuardStep(c) ==
  /\ At(c, "used")
  /\ IF Guard(call[c]) THEN Goto(c, [call[c] EXCEPT !.pc = "guarded"]) ELSE Refuse(c)
  /\ UNCHANGED <<still, custody, ledger, revoking, issued>>

(* grantGate: the connection's own record, if it is the newest. *)
GrantGate(l, g) == l # <<>> /\ Last(l).gen = g => Last(l).state = "active"

(* grantCredential under a checked context: the generation that was checked *)
(* must be the snapshot's.                                                  *)
GrantCredential(c) ==
  LET l == Reconcile(ledger) me == call[c] IN
  /\ At(c, "guarded")
  /\ ledger' = Save(l)
  /\ IF me.gen = me.snap.id /\ GrantGate(l, me.snap.id)
       THEN Goto(c, [me EXCEPT !.pc = "gated"]) ELSE Refuse(c)
  /\ UNCHANGED <<still, custody, revoking, issued>>

Fresh(t) == t \notin expired

(* access: the consent of the snapshot, or of the connection as it is now;  *)
(* then its token while fresh, or a refresh.                                *)
Access(c) ==
  LET me == call[c]
      again == ~disabled /\ epoch = me.epoch /\ conn # None /\ conn.id = me.snap.id /\ Consented(conn)
      snap == IF Consented(me.snap) THEN me.snap ELSE conn
  IN /\ At(c, "gated")
     /\ IF ~Consented(me.snap) /\ ~again THEN Refuse(c)
        ELSE IF Fresh(snap.access)
               THEN Goto(c, [me EXCEPT !.snap = snap, !.token = snap.access, !.pc = "ready"])
               ELSE Goto(c, [me EXCEPT !.snap = snap, !.pc = "exchange"])
     /\ UNCHANGED <<still, custody, ledger, revoking, issued>>

(* exchange, of a refresh token: tokens of the same scope; tokens of more   *)
(* than was asked; or no answer that can be used.                           *)
Exchange(c) ==
  /\ At(c, "exchange")
  /\ \/ /\ issued + 2 <= MaxTokens /\ issued' = issued + 2
        /\ \E renewed \in BOOLEAN :
             LET t(k) == [n |-> issued + k, whole |-> call[c].snap.refresh.whole] IN
             Goto(c, [call[c] EXCEPT !.pc = "exchanged",
               !.reply = [access |-> t(1), refresh |-> IF renewed THEN t(2) ELSE None]])
     \/ Goto(c, [call[c] EXCEPT !.pc = "excess"]) /\ UNCHANGED issued
     \/ Goto(c, [call[c] EXCEPT !.pc = "failed"]) /\ UNCHANGED issued
  /\ UNCHANGED <<still, custody, ledger, revoking>>

(* noteGranted. *)
NoteGranted(l, g, scopes) ==
  [i \in DOMAIN l |-> IF l[i].gen = g /\ l[i].state # "revoked"
                        THEN [l[i] EXCEPT !.granted = scopes] ELSE l[i]]

NoteExcess(c) ==
  /\ At(c, "excess")
  /\ ledger' = Save(NoteGranted(Reconcile(ledger), call[c].snap.id, Whole \cup {"more"}))
  /\ Refuse(c)
  /\ UNCHANGED <<still, custody, revoking, issued>>

(* The connection a refresh may still be committed to. *)
SameConnection(me) == ~disabled /\ epoch = me.epoch /\ conn # None /\ conn.id = me.snap.id

(* What another process has refreshed meanwhile is taken as it is. *)
TakeCurrent(c) ==
  IF Fresh(conn.access) /\ Consented(conn)
    THEN Goto(c, [call[c] EXCEPT !.token = conn.access, !.pc = "regate"])
    ELSE Refuse(c)

ExchangeFailed(c) ==
  /\ At(c, "failed")
  /\ IF SameConnection(call[c]) THEN TakeCurrent(c) ELSE Refuse(c)
  /\ UNCHANGED <<still, custody, ledger, revoking, issued>>

CommitRefresh(c) ==
  LET me == call[c]
      next == [conn EXCEPT !.access = me.reply.access,
                           !.refresh = IF me.reply.refresh = None THEN @ ELSE me.reply.refresh]
  IN /\ At(c, "exchanged")
     /\ IF ~SameConnection(me) THEN Refuse(c) /\ UNCHANGED custody
        ELSE IF conn # me.snap THEN TakeCurrent(c) /\ UNCHANGED custody
        ELSE /\ conn' = next /\ UNCHANGED epoch
             /\ \/ consent' = ConsentOf(next)
                   /\ Goto(c, [me EXCEPT !.token = next.access, !.pc = "regate"])
                \/ UNCHANGED consent /\ Refuse(c)        \* recordConsent failed
     /\ UNCHANGED <<still, ledger, revoking, issued>>

Regate(c) ==
  LET l == Reconcile(ledger) IN
  /\ At(c, "regate")
  /\ ledger' = Save(l)
  /\ IF GrantGate(l, call[c].snap.id) THEN Goto(c, [call[c] EXCEPT !.pc = "ready"]) ELSE Refuse(c)
  /\ UNCHANGED <<still, custody, revoking, issued>>

(* guardedDriveRequest: a read's and an observation's request is guarded.   *)
Send(c) ==
  /\ At(c, "ready")
  /\ IF call[c].kind = "search" \/ Guard(call[c])
       THEN Goto(c, [call[c] EXCEPT !.pc = "sent"]) ELSE Refuse(c)
  /\ UNCHANGED <<still, custody, ledger, revoking, issued>>

(* admitSourceObservation. *)
Admit(c) ==
  /\ At(c, "sent") /\ call[c].kind = "observe" /\ SourceBindingAt(call[c].binding)
  /\ Goto(c, [call[c] EXCEPT !.pc = "observed"])
  /\ UNCHANGED <<still, custody, ledger, revoking, issued>>

Answer(c) ==
  /\ At(c, "sent") \/ At(c, "observed")
  /\ Refuse(c)
  /\ UNCHANGED <<still, custody, ledger, revoking, issued>>

CallStep(c) ==
  \/ BeginRead(c) \/ BeginSearch(c) \/ BeginObserve(c)
  \/ Pass(c) \/ Ask(c) \/ RemoveOwner(c) \/ Use(c) \/ GuardStep(c) \/ GrantCredential(c) \/ Access(c)
  \/ Exchange(c) \/ NoteExcess(c) \/ ExchangeFailed(c) \/ CommitRefresh(c) \/ Regate(c)
  \/ Send(c) \/ Admit(c) \/ Answer(c)

-----------------------------------------------------------------------------
(* The broker.  Connect: one authorization at a time. *)
Start ==
  /\ mu = None /\ ~disabled /\ flow = None
  /\ flow' = [pc |-> "pending", conn |-> IF conn = None THEN None ELSE conn.id, epoch |-> epoch,
              reply |-> None]
  /\ UNCHANGED <<custody, disabled, bindings, selections, ledger, removal, mu, call, revoking,
                 sweep, outside, counts, consents>>

(* cancel, or an authorization that expires. *)
Cancel ==
  /\ mu = None /\ flow # None /\ flow' = None
  /\ UNCHANGED <<custody, disabled, bindings, selections, ledger, removal, mu, call, revoking,
                 sweep, outside, counts, consents>>

(* callback, to the code exchange and the account: outside the mutex.  The  *)
(* scope granted here is the one asked for, or the exchange fails.          *)
Callback ==
  /\ mu = None /\ flow # None /\ flow.pc = "pending"
  /\ issued + 2 <= MaxTokens /\ issued' = issued + 2
  /\ \E renewed, same \in BOOLEAN :
       LET t(k) == [n |-> issued + k, whole |-> TRUE] IN
       flow' = [flow EXCEPT !.pc = "exchanged",
                  !.reply = [access |-> t(1), same |-> same,
                             refresh |-> IF renewed THEN t(2) ELSE None]]
  /\ UNCHANGED <<custody, disabled, bindings, selections, ledger, removal, mu, call, revoking,
                 sweep, outside, made, begun, consents>>

(* callback's refresh token: the one granted, or a consented previous one.  *)
RefreshToKeep(reply) ==
  IF reply.refresh # None THEN reply.refresh
  ELSE IF conn # None /\ Consented(conn) THEN conn.refresh ELSE None

(* callback, its commit: bindings first, then state.json, then consent.json, *)
(* any of which may be the last one written.                                 *)
CommitFlow ==
  LET reply == flow.reply refresh == RefreshToKeep(reply)
      fits == /\ ~disabled /\ epoch = flow.epoch
              /\ IF flow.conn = None THEN conn = None
                 ELSE conn # None /\ conn.id = flow.conn /\ reply.same
              /\ refresh # None
      next == [id |-> IF conn = None THEN made + 1 ELSE conn.id,
               access |-> reply.access, refresh |-> refresh]
  IN /\ mu = None /\ flow # None /\ flow.pc = "exchanged"
     /\ IF fits
          THEN /\ made < MaxConns \/ conn # None
               /\ bindings' = InvalidateBindings
               /\ \/ /\ conn' = next /\ made' = next.id /\ consents' = consents + 1
                     /\ \/ /\ consent' = ConsentOf(next)
                           /\ flow' = [flow EXCEPT !.pc = "note", !.conn = next.id]
                           /\ mu' = "callback"
                        \/ UNCHANGED <<consent, mu>> /\ flow' = None
                  \/ UNCHANGED <<conn, made, consent, consents, mu>> /\ flow' = None
          ELSE flow' = None /\ UNCHANGED <<conn, made, consent, consents, bindings, mu>>
     /\ UNCHANGED <<epoch, disabled, selections, ledger, removal, call, revoking, sweep, outside,
                    issued, begun>>

NoteFlow ==
  /\ mu = "callback" /\ mu' = None
  /\ ledger' = Save(NoteGranted(Reconcile(ledger), flow.conn, Whole)) /\ flow' = None
  /\ UNCHANGED <<custody, disabled, bindings, selections, removal, call, revoking, sweep, outside,
                 counts, consents>>

(* disconnect: dropped, revoked at the provider, noted. *)
Disconnect ==
  /\ mu = None /\ conn # None /\ ~disabled /\ DropCredential
  /\ flow' = [pc |-> "disconnected", conn |-> conn.id] /\ mu' = "disconnect"
  /\ UNCHANGED <<disabled, bindings, selections, ledger, removal, call, revoking, sweep, outside,
                 counts, consents>>

NoteRevoked ==
  /\ mu = "disconnect" /\ mu' = None /\ flow' = None
  /\ LET l == Reconcile(ledger) IN
     \/ ledger' = Save(l) /\ UNCHANGED confirmed
     \/ /\ confirmed' = confirmed \cup {flow.conn}
        /\ ledger' = Save([i \in DOMAIN l |->
             IF l[i].gen = flow.conn /\ l[i].state = "revoked"
               THEN [l[i] EXCEPT !.told = TRUE] ELSE l[i]])
  /\ UNCHANGED <<custody, disabled, bindings, selections, removal, call, revoking, sweep,
                 now, expired, gone, counts, consents>>

(* configure, and the policy a broker is started with: each a new epoch.    *)
Configure ==
  /\ mu = None /\ epoch < MaxEpoch /\ epoch' = epoch + 1 /\ flow' = None
  /\ disabled' \in BOOLEAN
  /\ UNCHANGED <<conn, consent, bindings, selections, ledger, removal, mu, call, revoking, sweep,
                 outside, counts, consents>>

-----------------------------------------------------------------------------
(* Operator commands, each on the live record of the reconciled ledger. *)
Live(l) == l # <<>> /\ Last(l).state # "revoked"

OnLive(l, changed) ==
  /\ ledger' = Save([l EXCEPT ![Len(l)] = changed])
  /\ UNCHANGED <<custody, revoking>>

SetOwner(p) ==
  LET l == Reconcile(ledger) IN
  /\ Live(l) /\ Last(l).owner = None /\ Last(l).state = "active"
  /\ OnLive(l, [Last(l) EXCEPT !.owner = p])

SetIdleExpiry(n) ==
  LET l == Reconcile(ledger) IN
  Live(l) /\ Last(l).idle # n /\ OnLive(l, [Last(l) EXCEPT !.idle = n])

RevokeGrant ==
  LET l == Reconcile(ledger) IN
  Live(l) /\ RevokeLocked(l, "operator")

OperatorStep ==
  /\ \/ \E p \in Owners : SetOwner(p)
     \/ \E n \in IdleExpiries \cup {None} : SetIdleExpiry(n)
     \/ RevokeGrant
     \/ \E p \in Owners, how \in {"revoke", "quarantine"} : ApplyOwnerRemoval(p, how)
  /\ UNCHANGED <<still, issued, mu, call>>

(* owner-reads. *)
SetRemoval(how) ==
  /\ removal # how /\ removal' = how
  /\ UNCHANGED <<custody, disabled, bindings, selections, ledger, mu, flow, call, revoking, sweep,
                 outside, counts, consents>>

(* sweep: idle grants, then the standing of the owner left. *)
Sweep ==
  LET l == Reconcile(ledger) live == l # <<>> /\ Last(l).state # "revoked" IN
  /\ sweep = None
  /\ IF live /\ IdleExpired(Last(l))
       THEN RevokeLocked(l, "idle-expiry") /\ UNCHANGED sweep
       ELSE /\ ledger' = Save(l) /\ UNCHANGED <<custody, revoking>>
            /\ sweep' = IF live THEN Last(l).owner ELSE None
  /\ UNCHANGED <<disabled, bindings, selections, removal, mu, flow, call, outside, counts, consents>>

SweepRead ==
  /\ sweep # None /\ sweep' = None
  /\ \/ UNCHANGED <<custody, ledger, revoking>>
     \/ sweep \in gone /\ ApplyOwnerRemoval(sweep, removal)
  /\ UNCHANGED <<disabled, bindings, selections, removal, mu, flow, call, outside, counts, consents>>

-----------------------------------------------------------------------------
(* The outside: time, token lifetimes, and the owner's host. *)
Outside ==
  /\ \/ now < MaxTime /\ now' = now + 1 /\ UNCHANGED <<expired, gone>>
     \/ /\ conn # None /\ conn.access \notin expired
        /\ expired' = expired \cup {conn.access} /\ UNCHANGED <<now, gone>>
     \/ \E p \in Owners \ gone : gone' = gone \cup {p} /\ UNCHANGED <<now, expired>>
  /\ UNCHANGED <<custody, disabled, bindings, selections, ledger, removal, mu, flow, call, revoking,
                 sweep, confirmed, counts, consents>>

(* No connection; one of before the recorded consent, of less than the      *)
(* whole Drive; or one as a consent leaves it, its grant not yet recorded   *)
(* or recorded with an owner and an idle expiry.                            *)
FirstConn(whole) == [id |-> 1, access |-> [n |-> 1, whole |-> whole],
                     refresh |-> [n |-> 2, whole |-> whole]]

Init ==
  /\ now = 0 /\ issued = 2 /\ made = 1 /\ begun = 0 /\ expired = {} /\ gone = {}
  /\ \/ conn = None /\ consent = None /\ ledger = <<>>
     \/ conn = FirstConn(FALSE) /\ consent = None /\ ledger = <<>>
     \/ /\ conn = FirstConn(TRUE) /\ consent = ConsentOf(conn)
        /\ ledger \in {<<>>} \cup
             {<<[NewRecord EXCEPT !.owner = p, !.idle = n, !.granted = Whole]>> :
                p \in Owners, n \in IdleExpiries}
  /\ epoch = 1 /\ disabled = FALSE
  /\ bindings = {} /\ selections = {} /\ removal = "revoke"
  /\ mu = None /\ flow = None /\ call = [c \in Calls |-> IdleCall] /\ revoking = {} /\ sweep = None
  /\ consents = 0 /\ confirmed = {}

(* What someone decides, and what only goes on with it. *)
Decide ==
  \/ SourceBind \/ SourceRevoke \/ Start \/ Cancel \/ Disconnect \/ Configure
  \/ OperatorStep \/ \E how \in {"revoke", "quarantine"} : SetRemoval(how)
  \/ Sweep \/ Outside

GoOn ==
  \/ \E c \in Calls : CallStep(c)
  \/ Select \/ Callback \/ CommitFlow \/ NoteFlow \/ NoteRevoked
  \/ SweepRead \/ \E g \in revoking : FinishRevoke(g)

Next == Decide \/ GoOn

Spec == Init /\ [][Next]_vars

-----------------------------------------------------------------------------
Sent == {c \in Calls : call[c].pc \in {"sent", "observed"}}
Used == {c \in Calls : call[c].pc \notin {"idle", "begun", "passing", "asked", "removing"}}

(* What is sent was permitted.  A call begun after its grant was            *)
(* quarantined or revoked never reaches the provider, nor one begun after   *)
(* it was found to hold more than was asked, until a new consent; no call   *)
(* passes the ledger under an owner whose host had removed it when the call *)
(* began; and no token is sent that the person did not grant the whole      *)
(* Drive to (grantPass, grantGate, access), whatever refreshes, reconsents  *)
(* and removals run meanwhile.                                              *)
SentWasPermitted ==
  /\ \A c \in Sent : /\ ~call[c].barred /\ consents \notin call[c].over
                     /\ call[c].token.whole
  /\ \A c \in Used : call[c].owner \notin call[c].absent

(* The documents say what happened, whichever write was the last before a   *)
(* failure.  A recorded consent is of tokens that have it; a record says    *)
(* the provider revoked only a generation it confirmed; and an observation  *)
(* is admitted only under the interactive consent it was bound under        *)
(* (callback, finish, invalidateSourceBindings).                            *)
RecordsAreTrue ==
  /\ conn # None /\ Consented(conn) => conn.access.whole /\ conn.refresh.whole
  /\ \A i \in DOMAIN ledger : ledger[i].told => ledger[i].gen \in confirmed
  /\ \A c \in Calls : call[c].pc = "observed" => call[c].binding.consents = consents
=============================================================================
