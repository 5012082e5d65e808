--------------------------- MODULE OutsideProofs ----------------------------
(* Proofs about the leases of a name and the gateway's dealings with what   *)
(* is outside it, for every number of callers, brokers, plans, searches,    *)
(* connections, reads, days, requests and minutes: the leases, the plans of *)
(* a storage change, the metered searches, the calls of a witness, the MCP  *)
(* server an adapter runs and the reads of a workspace's connections.       *)
EXTENDS MCOutside, SequenceTheorems, FiniteSetTheorems, TLAPS

-----------------------------------------------------------------------------
(* The leases of a name, for every number of callers, times to live and     *)
(* writes.                                                                  *)

Steps == {"idle", "read", "judge", "stamp", "put"}

(* The record is the last grant; tokens count the grants; and every grant   *)
(* but the last has expired, whatever was renewed or given up.              *)
RecordOK ==
  /\ now \in 0 .. MaxTime
  /\ revision \in 0 .. MaxWrites
  /\ grants \in Seq(Leases) /\ Len(grants) <= revision
  /\ held = IF Len(grants) = 0 THEN NoLease ELSE grants[Len(grants)]
  /\ \A i \in 1 .. Len(grants) :
       /\ grants[i].token = i
       /\ i < Len(grants) => ~ Live(grants[i])

(* What a call knows of the record at a step: what it read is the record    *)
(* there is while the revision has not moved, a grant it is about to make   *)
(* follows an expired one, and a lease it writes again is the one it read.  *)
CallOK(at, l) ==
  /\ at # "idle" => /\ l.given <= Len(grants) /\ l.before <= Len(grants)
                    /\ l.op # "acquire" => l.given # 0
  /\ at \in {"judge", "stamp", "put"} =>
       /\ l.revision <= revision
       /\ l.revision = revision => l.read = held
       /\ l.before <= l.read.token
  /\ at = "put" /\ l.op = "acquire" => ~ Live(l.read)
  /\ at \in {"stamp", "put"} /\ l.op # "acquire" => l.read.token = l.given
  /\ at = "put" => l.op # "check"
  /\ at = "stamp" => l.op = "renew"

CallsOK ==
  /\ pc \in [Procs -> Steps]
  /\ loc \in [Procs -> Locals]
  /\ \A p \in Procs : CallOK(pc[p], loc[p])

PassedOK ==
  /\ passed \in [token : Nat, before : 0 .. MaxWrites]
  /\ passed.before <= passed.token /\ passed.before <= Len(grants)

LeaseInv == RecordOK /\ CallsOK /\ PassedOK

-----------------------------------------------------------------------------
LEMMA NoLocalsTyped == NoLocals \in Locals /\ NoLease \in Leases
BY LeasesAssumption DEF NoLocals, Locals, Ops, NoLease, Leases

LEMMA InitInv == Init => LeaseInv
<1> SUFFICES ASSUME Init PROVE LeaseInv
  OBVIOUS
<1>1. RecordOK
  BY LeasesAssumption DEF Init, RecordOK
<1>2. CallsOK
  BY NoLocalsTyped DEF Init, CallsOK, CallOK, Steps
<1>3. PassedOK
  BY LeasesAssumption DEF Init, PassedOK
<1> QED BY <1>1, <1>2, <1>3 DEF LeaseInv

(* What a call knows outlives the step of another. *)
KnowledgeKept ==
  \A at \in Steps, l \in Locals : CallOK(at, l) => CallOK(at, l)'

LEMMA MoveCalls ==
  ASSUME CallsOK, KnowledgeKept, NEW p \in Procs, NEW at \in Steps,
         NEW l \in Locals, GoWith(p, at, l), CallOK(at, l)'
  PROVE  CallsOK'
<1>1. pc' \in [Procs -> Steps] /\ loc' \in [Procs -> Locals]
  BY DEF CallsOK, GoWith
<1>2. ASSUME NEW q \in Procs PROVE CallOK(pc[q], loc[q])'
  <2>1. CASE q # p
    <3>1. pc'[q] = pc[q] /\ loc'[q] = loc[q]
      BY <2>1 DEF CallsOK, GoWith
    <3>2. pc[q] \in Steps /\ loc[q] \in Locals /\ CallOK(pc[q], loc[q])
      BY DEF CallsOK
    <3>3. PICK s \in Steps, k \in Locals : s = pc[q] /\ k = loc[q]
      BY <3>2
    <3>4. CallOK(s, k)'
      BY <3>2, <3>3 DEF KnowledgeKept
    <3> QED BY <3>1, <3>3, <3>4
  <2>2. CASE q = p
    <3>1. pc'[q] = at /\ loc'[q] = l
      BY <2>2 DEF CallsOK, GoWith
    <3> QED BY <3>1
  <2> QED BY <2>1, <2>2
<1> QED BY <1>1, <1>2 DEF CallsOK

(* A call that ends. *)
LEMMA ReturnCalls ==
  ASSUME CallsOK, KnowledgeKept, NEW p \in Procs, Return(p)
  PROVE  CallsOK'
<1>1. CallOK("idle", NoLocals)'
  BY DEF CallOK
<1>2. "idle" \in Steps
  BY DEF Steps
<1>3. PICK l \in Locals : l = NoLocals
  BY NoLocalsTyped
<1> QED BY <1>1, <1>2, <1>3, MoveCalls DEF Return

(* A step that leaves the record and the clock alone. *)
LEMMA RecordKeeps ==
  ASSUME LeaseInv, UNCHANGED <<now, held, revision, grants>>
  PROVE  RecordOK' /\ KnowledgeKept
<1>1. RecordOK'
  BY DEF LeaseInv, RecordOK, Live
<1>2. KnowledgeKept
  BY DEF KnowledgeKept, CallOK, Live
<1> QED BY <1>1, <1>2

LEMMA QuietMove ==
  ASSUME LeaseInv, UNCHANGED <<now, held, revision, grants, passed>>,
         NEW p \in Procs, NEW at \in Steps, NEW l \in Locals,
         GoWith(p, at, l), CallOK(at, l)
  PROVE  LeaseInv'
<1>1. RecordOK' /\ KnowledgeKept
  BY RecordKeeps
<1>2. CallsOK'
  BY <1>1, MoveCalls DEF LeaseInv, KnowledgeKept
<1>3. PassedOK'
  BY DEF LeaseInv, PassedOK
<1> QED BY <1>1, <1>2, <1>3 DEF LeaseInv

LEMMA QuietReturn ==
  ASSUME LeaseInv, UNCHANGED <<now, held, revision, grants, passed>>,
         NEW p \in Procs, Return(p)
  PROVE  LeaseInv'
<1>1. RecordOK' /\ KnowledgeKept
  BY RecordKeeps
<1>2. CallsOK'
  BY <1>1, ReturnCalls DEF LeaseInv
<1>3. PassedOK'
  BY DEF LeaseInv, PassedOK
<1> QED BY <1>1, <1>2, <1>3 DEF LeaseInv

(* What is known of a call, and of the record it meets. *)
LEMMA CallAt ==
  ASSUME LeaseInv, NEW p \in Procs
  PROVE  /\ loc[p] \in Locals /\ CallOK(pc[p], loc[p])
         /\ loc[p].op \in Ops /\ loc[p].given \in 0 .. MaxWrites
         /\ loc[p].read \in Leases /\ loc[p].read.token \in Nat
         /\ loc[p].read.expires \in Nat /\ loc[p].expires \in Nat
         /\ loc[p].revision \in 0 .. MaxWrites
         /\ loc[p].before \in 0 .. MaxWrites
         /\ now \in Nat /\ revision \in 0 .. MaxWrites
         /\ Len(grants) \in 0 .. MaxWrites
         /\ held \in Leases /\ held.token = Len(grants)
<1>1. loc[p] \in Locals /\ CallOK(pc[p], loc[p])
  BY DEF LeaseInv, CallsOK
<1>2. /\ now \in Nat /\ revision \in 0 .. MaxWrites /\ grants \in Seq(Leases)
      /\ Len(grants) \in 0 .. MaxWrites
  BY LeasesAssumption DEF LeaseInv, RecordOK
<1>3. held \in Leases /\ held.token = Len(grants)
  <2>1. CASE Len(grants) = 0
    BY <2>1, NoLocalsTyped DEF LeaseInv, RecordOK, NoLease
  <2>2. CASE Len(grants) # 0
    <3>1. Len(grants) \in 1 .. Len(grants)
      BY <1>2, <2>2
    <3> QED BY <1>2, <2>2, <3>1 DEF LeaseInv, RecordOK
  <2> QED BY <2>1, <2>2
<1> QED BY <1>1, <1>2, <1>3 DEF Locals, Leases
-----------------------------------------------------------------------------
LEMMA CallKeeps ==
  ASSUME LeaseInv, NEW p \in Procs, Call(p)
  PROVE  LeaseInv'
<1>1. PICK op \in Ops : \E i \in IF op = "acquire" THEN {0} ELSE DOMAIN grants :
        GoWith(p, "read", [NoLocals EXCEPT !.op = op, !.given = i,
                             !.before = IF op = "check" THEN Len(grants) ELSE 0])
  BY DEF Call
<1>2. PICK i \in IF op = "acquire" THEN {0} ELSE DOMAIN grants :
        GoWith(p, "read", [NoLocals EXCEPT !.op = op, !.given = i,
                             !.before = IF op = "check" THEN Len(grants) ELSE 0])
  BY <1>1
<1> DEFINE b == IF op = "check" THEN Len(grants) ELSE 0
           k == [NoLocals EXCEPT !.op = op, !.given = i, !.before = b]
<1>3. Len(grants) \in 0 .. MaxWrites /\ b \in 0 .. Len(grants)
  BY CallAt
<1>4. i \in 0 .. Len(grants) /\ (op # "acquire" => i # 0)
  <2>1. grants \in Seq(Leases)
    BY DEF LeaseInv, RecordOK
  <2> QED BY <1>3, <2>1
<1>5. k \in Locals /\ k.op = op /\ k.given = i /\ k.before = b
  <2>1. i \in 0 .. MaxWrites /\ b \in 0 .. MaxWrites
    BY <1>3, <1>4, LeasesAssumption
  <2> HIDE DEF b
  <2> QED BY <2>1, NoLocalsTyped DEF Locals, NoLocals
<1>6. GoWith(p, "read", k)
  BY <1>2
<1> HIDE DEF k
<1>7. CallOK("read", k)
  BY <1>3, <1>4, <1>5 DEF CallOK
<1>8. "read" \in Steps /\ UNCHANGED <<now, held, revision, grants, passed>>
  BY DEF Call, Steps
<1> QED BY <1>5, <1>6, <1>7, <1>8, QuietMove

LEMMA ReadKeeps ==
  ASSUME LeaseInv, NEW p \in Procs, Read(p)
  PROVE  LeaseInv'
<1> DEFINE l == loc[p]
           k == [l EXCEPT !.read = held, !.revision = revision]
<1>1. pc[p] = "read" /\ GoWith(p, "judge", k)
      /\ UNCHANGED <<now, held, revision, grants, passed>>
  BY DEF Read
<1>2. /\ k \in Locals /\ k.read = held /\ k.revision = revision
      /\ k.op = l.op /\ k.given = l.given /\ k.before = l.before
  BY CallAt DEF Locals
<1>3. /\ l.given <= Len(grants) /\ l.before <= Len(grants)
      /\ l.op # "acquire" => l.given # 0
  BY <1>1, CallAt DEF CallOK
<1>4. held.token = Len(grants) /\ revision \in 0 .. MaxWrites
  BY CallAt
<1> HIDE DEF k
<1>5. CallOK("judge", k)
  BY <1>2, <1>3, <1>4, LeasesAssumption DEF CallOK
<1>6. "judge" \in Steps
  BY DEF Steps
<1> QED BY <1>1, <1>2, <1>5, <1>6, QuietMove

(* A call that keeps what it knew and has its expiry. *)
LEMMA ExpiryLocals ==
  ASSUME NEW l \in Locals, NEW e \in Nat
  PROVE  LET k == [l EXCEPT !.expires = e]
         IN /\ k \in Locals /\ k.read = l.read /\ k.revision = l.revision
            /\ k.op = l.op /\ k.given = l.given /\ k.before = l.before
BY DEF Locals

LEMMA JudgeAcquireKeeps ==
  ASSUME LeaseInv, NEW p \in Procs, JudgeAcquire(p)
  PROVE  LeaseInv'
<1> DEFINE l == loc[p]
<1>1. /\ pc[p] = "judge" /\ l.op = "acquire"
      /\ UNCHANGED <<now, held, revision, grants, passed>>
  BY DEF JudgeAcquire
<1>2. CASE Live(l.read)
  BY <1>1, <1>2, QuietReturn DEF JudgeAcquire
<1>3. CASE ~ Live(l.read)
  <2>1. PICK ttl \in TTLs : GoWith(p, "put", [l EXCEPT !.expires = now + ttl])
    BY <1>3 DEF JudgeAcquire
  <2>2. now + ttl \in Nat
    BY CallAt, LeasesAssumption
  <2> DEFINE k == [l EXCEPT !.expires = now + ttl]
  <2>3. /\ k \in Locals /\ k.read = l.read /\ k.revision = l.revision
        /\ k.op = l.op /\ k.given = l.given /\ k.before = l.before
    BY <2>2, CallAt, ExpiryLocals
  <2>4. GoWith(p, "put", k)
    BY <2>1
  <2> HIDE DEF k
  <2>5. CallOK("put", k)
    BY <1>1, <1>3, <2>3, CallAt DEF CallOK
  <2>6. "put" \in Steps
    BY DEF Steps
  <2> QED BY <1>1, <2>3, <2>4, <2>5, <2>6, QuietMove
<1> QED BY <1>2, <1>3

LEMMA HoldingIsGiven ==
  ASSUME LeaseInv, NEW p \in Procs, pc[p] = "judge", loc[p].op # "acquire",
         Holding(loc[p])
  PROVE  loc[p].read.token = loc[p].given /\ grants[loc[p].given].token = loc[p].given
<1>1. loc[p].given \in 1 .. Len(grants)
  BY CallAt DEF CallOK
<1> QED BY <1>1 DEF LeaseInv, RecordOK, Holding

LEMMA JudgeHoldingKeeps ==
  ASSUME LeaseInv, NEW p \in Procs, JudgeHolding(p)
  PROVE  LeaseInv'
<1> DEFINE l == loc[p]
<1>1. /\ pc[p] = "judge" /\ l.op \in {"renew", "release"}
      /\ UNCHANGED <<now, held, revision, grants, passed>>
  BY DEF JudgeHolding
<1>2. CASE ~ Holding(l)
  BY <1>1, <1>2, QuietReturn DEF JudgeHolding
<1>3. CASE Holding(l)
  <2>1. l.read.token = l.given
    BY <1>1, <1>3, HoldingIsGiven
  <2>2. (l.op = "renew" => CallOK("stamp", l)) /\ CallOK("put", l)
    BY <1>1, <2>1, CallAt DEF CallOK
  <2>3. (l.op = "renew" /\ GoWith(p, "stamp", l)) \/ GoWith(p, "put", l)
    BY <1>3 DEF JudgeHolding
  <2>4. "stamp" \in Steps /\ "put" \in Steps /\ l \in Locals
    BY CallAt DEF Steps
  <2> QED BY <1>1, <2>2, <2>3, <2>4, QuietMove
<1> QED BY <1>2, <1>3

LEMMA StampKeeps ==
  ASSUME LeaseInv, NEW p \in Procs, Stamp(p)
  PROVE  LeaseInv'
<1> DEFINE l == loc[p]
<1>1. pc[p] = "stamp" /\ UNCHANGED <<now, held, revision, grants, passed>>
  BY DEF Stamp
<1>2. PICK ttl \in TTLs : GoWith(p, "put", [l EXCEPT !.expires = now + ttl])
  BY DEF Stamp
<1>3. now + ttl \in Nat
  BY CallAt, LeasesAssumption
<1> DEFINE k == [l EXCEPT !.expires = now + ttl]
<1>4. /\ k \in Locals /\ k.read = l.read /\ k.revision = l.revision
      /\ k.op = l.op /\ k.given = l.given /\ k.before = l.before
  BY <1>3, CallAt, ExpiryLocals
<1>5. GoWith(p, "put", k)
  BY <1>2
<1> HIDE DEF k
<1>6. CallOK("put", k)
  BY <1>1, <1>4, CallAt DEF CallOK
<1>7. "put" \in Steps
  BY DEF Steps
<1> QED BY <1>1, <1>4, <1>5, <1>6, <1>7, QuietMove

LEMMA CheckFenceKeeps ==
  ASSUME LeaseInv, NEW p \in Procs, CheckFence(p)
  PROVE  LeaseInv'
<1> DEFINE l == loc[p]
<1>1. /\ pc[p] = "judge" /\ l.op = "check" /\ Return(p)
      /\ UNCHANGED <<now, held, revision, grants>>
  BY DEF CheckFence
<1>2. RecordOK' /\ KnowledgeKept
  BY <1>1, RecordKeeps
<1>3. CallsOK'
  BY <1>1, <1>2, ReturnCalls DEF LeaseInv
<1>4. PassedOK'
  <2>1. CASE ~ Holding(l)
    BY <1>1, <2>1 DEF LeaseInv, PassedOK, CheckFence
  <2>2. CASE Holding(l)
    <3>1. passed' = [token |-> grants[l.given].token, before |-> l.before]
      BY <2>2 DEF CheckFence
    <3>2. grants[l.given].token = l.read.token
      BY <1>1, <2>2, HoldingIsGiven
    <3>3. l.before <= l.read.token /\ l.before <= Len(grants)
      BY <1>1, CallAt DEF CallOK
    <3>4. l.before \in 0 .. MaxWrites /\ l.read.token \in Nat
      BY CallAt
    <3> QED BY <1>1, <3>1, <3>2, <3>3, <3>4 DEF PassedOK
  <2> QED BY <2>1, <2>2
<1> QED BY <1>2, <1>3, <1>4 DEF LeaseInv

LEMMA StopKeeps ==
  ASSUME LeaseInv, NEW p \in Procs, Stop(p)
  PROVE  LeaseInv'
BY QuietReturn DEF Stop

(* Time only takes leases away. *)
LEMMA TickKeeps ==
  ASSUME LeaseInv, Tick
  PROVE  LeaseInv'
<1>1. /\ now \in 0 .. MaxTime /\ now < MaxTime /\ now' = now + 1
      /\ UNCHANGED <<held, revision, grants, pc, loc, passed>>
  BY DEF LeaseInv, RecordOK, Tick
<1>2. ASSUME NEW x \in Leases, ~ Live(x) PROVE ~ Live(x)'
  BY <1>1, <1>2, LeasesAssumption DEF Live, Leases
<1>3. RecordOK'
  <2>1. \A i \in 1 .. Len(grants) : grants[i] \in Leases
    BY DEF LeaseInv, RecordOK
  <2>2. now' \in 0 .. MaxTime
    BY <1>1, LeasesAssumption
  <2>3. ASSUME NEW i \in 1 .. Len(grants), i < Len(grants)
        PROVE  ~ Live(grants[i])'
    <3>1. ~ Live(grants[i])
      BY <2>3 DEF LeaseInv, RecordOK
    <3>2. PICK x \in Leases : x = grants[i]
      BY <2>1
    <3> QED BY <1>1, <1>2, <3>1, <3>2
  <2> QED BY <1>1, <2>2, <2>3 DEF LeaseInv, RecordOK
<1>4. KnowledgeKept
  <2> SUFFICES ASSUME NEW at \in Steps, NEW l \in Locals, CallOK(at, l)
               PROVE  CallOK(at, l)'
    BY DEF KnowledgeKept
  <2>1. ~ Live(l.read) => ~ Live(l.read)'
    BY <1>2 DEF Locals
  <2> QED BY <1>1, <2>1 DEF CallOK
<1>5. CallsOK'
  <2> SUFFICES ASSUME NEW q \in Procs PROVE CallOK(pc[q], loc[q])'
    BY <1>1 DEF LeaseInv, CallsOK
  <2>1. PICK s \in Steps, k \in Locals : s = pc[q] /\ k = loc[q] /\ CallOK(s, k)
    BY DEF LeaseInv, CallsOK
  <2>2. CallOK(s, k)'
    BY <1>4, <2>1 DEF KnowledgeKept
  <2> QED BY <1>1, <2>1, <2>2
<1>6. PassedOK'
  BY <1>1 DEF LeaseInv, PassedOK
<1> QED BY <1>3, <1>5, <1>6 DEF LeaseInv
-----------------------------------------------------------------------------
(* A write against the revision there is.  Every other call that read that  *)
(* revision is behind from now on, and keeps what it knows of older ones.   *)
LEMMA WriteKeepsKnowledge ==
  ASSUME LeaseInv, UNCHANGED now, revision' = revision + 1,
         Len(grants)' \in {Len(grants), Len(grants) + 1}
  PROVE  KnowledgeKept
<1>1. revision \in Nat /\ Len(grants) \in Nat
  BY LeasesAssumption DEF LeaseInv, RecordOK
<1> SUFFICES ASSUME NEW at \in Steps, NEW l \in Locals, CallOK(at, l)
             PROVE  CallOK(at, l)'
  BY DEF KnowledgeKept
<1>2. l.given \in Nat /\ l.before \in Nat /\ l.revision \in Nat
  BY LeasesAssumption DEF Locals
<1>3. at # "idle" => l.given <= Len(grants)' /\ l.before <= Len(grants)'
  BY <1>1, <1>2 DEF CallOK
<1>4. at \in {"judge", "stamp", "put"} => l.revision < revision'
  BY <1>1, <1>2 DEF CallOK
<1> HIDE DEF Leases
<1> QED BY <1>1, <1>2, <1>3, <1>4 DEF CallOK, Live

LEMMA GrantKeeps ==
  ASSUME LeaseInv, NEW p \in Procs, Put(p), loc[p].revision = revision,
         loc[p].op = "acquire"
  PROVE  LeaseInv'
<1> DEFINE l == loc[p]
<1>1. /\ pc[p] = "put" /\ revision < MaxWrites /\ held' = Record(l)
      /\ revision' = revision + 1 /\ grants' = Append(grants, Record(l))
      /\ Return(p) /\ UNCHANGED <<now, passed>>
  BY DEF Put
<1>2. l.read = held /\ ~ Live(held)
  BY <1>1, CallAt DEF CallOK
<1>3. PICK x \in Leases : x = Record(l) /\ x.token = Len(grants) + 1
  <2>1. Record(l) = [token |-> Len(grants) + 1, expires |-> l.expires]
    BY <1>2, CallAt DEF Record
  <2>2. l.expires \in Nat /\ Len(grants) + 1 \in Nat
    BY CallAt, LeasesAssumption
  <2>3. Record(l) \in Leases /\ Record(l).token = Len(grants) + 1
    BY <2>1, <2>2 DEF Leases
  <2> QED BY <2>3
<1>4. /\ grants \in Seq(Leases) /\ Len(grants) <= revision
      /\ revision \in 0 .. MaxWrites /\ now \in 0 .. MaxTime
  BY DEF LeaseInv, RecordOK
<1>5. /\ grants' \in Seq(Leases) /\ Len(grants') = Len(grants) + 1
      /\ \A i \in 1 .. Len(grants) : grants'[i] = grants[i]
      /\ grants'[Len(grants) + 1] = x
  BY <1>1, <1>3, <1>4, AppendProperties
<1>6. RecordOK'
  <2>1. /\ revision' \in 0 .. MaxWrites /\ Len(grants') <= revision'
        /\ Len(grants') # 0 /\ now' \in 0 .. MaxTime
    BY <1>1, <1>4, <1>5, LeasesAssumption
  <2>2. held' = grants'[Len(grants')]
    BY <1>1, <1>3, <1>5
  <2>3. ASSUME NEW i \in 1 .. Len(grants')
        PROVE  /\ grants'[i].token = i
               /\ i < Len(grants') => ~ (now' < grants'[i].expires)
    <3>1. CASE i = Len(grants')
      BY <1>3, <1>5, <3>1
    <3>2. CASE i # Len(grants')
      <4>1. i \in 1 .. Len(grants) /\ grants'[i] = grants[i]
        BY <1>4, <1>5, <3>2
      <4>2. grants[i].token = i /\ (i < Len(grants) => ~ Live(grants[i]))
        BY <4>1 DEF LeaseInv, RecordOK
      <4>3. i = Len(grants) => grants[i] = held
        BY <4>1 DEF LeaseInv, RecordOK
      <4>4. ~ Live(grants[i])
        BY <1>2, <1>4, <4>1, <4>2, <4>3
      <4> QED BY <1>1, <4>1, <4>2, <4>4 DEF Live
    <3> QED BY <3>1, <3>2
  <2> QED BY <1>5, <2>1, <2>2, <2>3 DEF RecordOK, Live
<1>7. CallsOK'
  <2>1. KnowledgeKept
    BY <1>1, <1>5, WriteKeepsKnowledge
  <2> QED BY <1>1, <2>1, ReturnCalls DEF LeaseInv
<1>8. PassedOK'
  BY <1>1, <1>4, <1>5, LeasesAssumption DEF LeaseInv, PassedOK
<1> QED BY <1>6, <1>7, <1>8 DEF LeaseInv

LEMMA RewriteKeeps ==
  ASSUME LeaseInv, NEW p \in Procs, Put(p), loc[p].revision = revision,
         loc[p].op # "acquire"
  PROVE  LeaseInv'
<1> DEFINE l == loc[p]
<1>1. /\ pc[p] = "put" /\ revision < MaxWrites /\ held' = Record(l)
      /\ revision' = revision + 1 /\ grants' = [grants EXCEPT ![l.given] = Record(l)]
      /\ Return(p) /\ UNCHANGED <<now, passed>>
  BY DEF Put
<1>2. l.read = held /\ l.read.token = l.given /\ l.given # 0
  BY <1>1, CallAt DEF CallOK
<1>3. l.given = Len(grants) /\ Len(grants) \in 0 .. MaxWrites
  BY <1>2, CallAt
<1>4. PICK x \in Leases : x = Record(l) /\ x.token = Len(grants)
  <2>1. Record(l) = [token |-> Len(grants), expires |-> l.expires]
    BY <1>2, <1>3 DEF Record
  <2>2. l.expires \in Nat /\ Len(grants) \in Nat
    BY <1>3, CallAt, LeasesAssumption
  <2>3. Record(l) \in Leases /\ Record(l).token = Len(grants)
    BY <2>1, <2>2 DEF Leases
  <2> QED BY <2>3
<1>5. /\ grants \in Seq(Leases) /\ Len(grants) <= revision
      /\ revision \in 0 .. MaxWrites /\ now \in 0 .. MaxTime
      /\ Len(grants) \in 1 .. Len(grants)
  BY <1>2, <1>3 DEF LeaseInv, RecordOK
<1>6. /\ grants' \in Seq(Leases) /\ Len(grants') = Len(grants)
      /\ grants'[Len(grants)] = x
      /\ \A i \in 1 .. Len(grants) : i # Len(grants) => grants'[i] = grants[i]
  BY <1>1, <1>3, <1>4, <1>5, ExceptSeq
<1>7. RecordOK'
  <2>1. /\ revision' \in 0 .. MaxWrites /\ Len(grants') <= revision'
        /\ Len(grants') # 0 /\ now' \in 0 .. MaxTime
    <3>1. Len(grants') # 0 /\ Len(grants') <= revision /\ Len(grants') \in Nat
      BY <1>2, <1>3, <1>5, <1>6, LeasesAssumption
    <3>2. revision' \in 0 .. MaxWrites /\ revision <= revision' /\ now' \in 0 .. MaxTime
      BY <1>1, <1>5, LeasesAssumption
    <3> QED BY <1>5, <3>1, <3>2, LeasesAssumption
  <2>2. held' = grants'[Len(grants')]
    BY <1>1, <1>4, <1>6
  <2>3. ASSUME NEW i \in 1 .. Len(grants')
        PROVE  /\ grants'[i].token = i
               /\ i < Len(grants') => ~ (now' < grants'[i].expires)
    <3>1. CASE i = Len(grants')
      BY <1>4, <1>6, <3>1
    <3>2. CASE i # Len(grants')
      <4>1. i \in 1 .. Len(grants) /\ grants'[i] = grants[i] /\ i < Len(grants)
        BY <1>3, <1>6, <3>2
      <4>2. grants[i].token = i /\ ~ Live(grants[i])
        BY <4>1 DEF LeaseInv, RecordOK
      <4> QED BY <1>1, <4>1, <4>2 DEF Live
    <3> QED BY <3>1, <3>2
  <2> QED BY <1>6, <2>1, <2>2, <2>3 DEF RecordOK, Live
<1>8. CallsOK'
  <2>1. KnowledgeKept
    BY <1>1, <1>6, WriteKeepsKnowledge
  <2> QED BY <1>1, <2>1, ReturnCalls DEF LeaseInv
<1>9. PassedOK'
  BY <1>1, <1>6 DEF LeaseInv, PassedOK
<1> QED BY <1>7, <1>8, <1>9 DEF LeaseInv

LEMMA PutKeeps ==
  ASSUME LeaseInv, NEW p \in Procs, Put(p)
  PROVE  LeaseInv'
<1>1. CASE loc[p].revision # revision
  BY <1>1, QuietReturn DEF Put
<1>2. CASE loc[p].revision = revision
  BY <1>2, GrantKeeps, RewriteKeeps
<1> QED BY <1>1, <1>2

LEMMA NextKeeps == LeaseInv /\ [Next]_vars => LeaseInv'
<1> SUFFICES ASSUME LeaseInv, [Next]_vars PROVE LeaseInv'
  OBVIOUS
<1>1. ASSUME Next PROVE LeaseInv'
  BY <1>1, CallKeeps, ReadKeeps, PutKeeps, StopKeeps, JudgeAcquireKeeps,
     JudgeHoldingKeeps, StampKeeps, CheckFenceKeeps, TickKeeps DEF Next
<1>2. ASSUME UNCHANGED vars PROVE LeaseInv'
  BY <1>2 DEF vars, LeaseInv, RecordOK, CallsOK, CallOK, PassedOK, Live
<1> QED BY <1>1, <1>2

LEMMA Invariance == Spec => []LeaseInv
<1>1. Init => LeaseInv
  BY InitInv
<1>2. LeaseInv /\ [Next]_vars => LeaseInv'
  BY NextKeeps
<1> QED BY <1>1, <1>2, PTL DEF Spec

-----------------------------------------------------------------------------
(* At most one lease of a name is live, however many callers acquire,       *)
(* renew, release and die, and wherever the clock moves between their       *)
(* steps; and tokens never start again.                                     *)
THEOREM LeasesExclude == Spec => [](OneLiveLease /\ TokensGrow)
<1>1. LeaseInv => OneLiveLease /\ TokensGrow
  <2> SUFFICES ASSUME LeaseInv PROVE OneLiveLease /\ TokensGrow
    OBVIOUS
  <2>1. DOMAIN grants = 1 .. Len(grants) /\ Len(grants) \in Nat
    BY DEF LeaseInv, RecordOK
  <2>2. \A i \in DOMAIN grants : i < Len(grants) => ~ Live(grants[i])
    BY <2>1 DEF LeaseInv, RecordOK
  <2>3. OneLiveLease
    BY <2>1, <2>2 DEF OneLiveLease
  <2>4. TokensGrow
    BY <2>1 DEF LeaseInv, RecordOK, TokensGrow
  <2> QED BY <2>3, <2>4
<1> QED BY <1>1, Invariance, PTL

(* A holder whose lease went to another before its check began is refused.  *)
THEOREM StaleFencesRefused == Spec => []StaleFenceRefused
<1>1. LeaseInv => StaleFenceRefused
  <2> SUFFICES ASSUME LeaseInv, passed.before # 0
               PROVE  passed.token >= grants[passed.before].token
    BY DEF StaleFenceRefused
  <2>1. passed.before \in 1 .. Len(grants) /\ passed.token \in Nat
        /\ passed.before <= passed.token
    BY LeasesAssumption DEF LeaseInv, PassedOK, RecordOK
  <2> QED BY <2>1 DEF LeaseInv, RecordOK
<1> QED BY <1>1, Invariance, PTL

-----------------------------------------------------------------------------
(* Storage plans. *)

LEMMA PlanInitially == Storage!Init => Storage!PlanInv
<1> SUFFICES ASSUME Storage!Init PROVE Storage!PlanInv
  OBVIOUS
<1>1. Storage!TypeOK
  BY PlansAssumption DEF Storage!Init, Storage!TypeOK, Storage!BrokerRecords, Storage!Idle, Storage!Revisions
<1>2. \A b \in Brokers : broker[b].pc = "idle"
  BY DEF Storage!Init, Storage!Idle
<1>3. Storage!IntentInv /\ Storage!FinalInv
  BY <1>2, PlansAssumption DEF Storage!Init, Storage!IntentInv, Storage!FinalInv, Storage!Final, Storage!Plan, Storage!Unworked, Storage!WorksOn, Storage!Applying, Storage!Remote, Storage!Updating
<1>4. Storage!OneWorks /\ \A b \in Brokers : Storage!BrokerOK(broker[b])
  BY <1>2 DEF Storage!OneWorks, Storage!WorksOn, Storage!BrokerOK, Storage!Applying, Storage!Remote, Storage!Updating
<1>5. Storage!AppliedInv
  BY DEF Storage!Init, Storage!AppliedInv
<1> QED BY <1>1, <1>3, <1>4, <1>5 DEF Storage!PlanInv

(* A broker's step that only takes it further, or out of its work. *)
LEMMA BrokerMoves ==
  ASSUME Storage!PlanInv, NEW b \in Brokers, NEW r \in Storage!BrokerRecords, Storage!Goto(b, r), Storage!BrokerOK(r),
         \A p \in Storage!Plan : Storage!WorksOn(r, p) => Storage!WorksOn(broker[b], p),
         UNCHANGED <<provider, plans, intent, times, told, applied>>,
         \A x \in kept : x \in kept',
         generation' \in Nat, next' \in Nat, file' \in Storage!Revisions
  PROVE  Storage!PlanInv'
<1>1. /\ broker' \in [Brokers -> Storage!BrokerRecords] /\ broker'[b] = r
      /\ \A c \in Brokers : c # b => broker'[c] = broker[c]
  BY DEF Storage!PlanInv, Storage!TypeOK, Storage!Goto
<1>2. Storage!TypeOK'
  BY <1>1 DEF Storage!PlanInv, Storage!TypeOK
<1>3. \A c \in Brokers : \A p \in Storage!Plan : Storage!WorksOn(broker'[c], p) => Storage!WorksOn(broker[c], p)
  BY <1>1
<1>4. \A p \in Storage!Plan : Storage!Unworked(p) => Storage!Unworked(p)'
  BY <1>3 DEF Storage!Unworked, Storage!WorksOn
<1>5. Storage!IntentInv'
  <2>1. plans > 0 => plans \in Storage!Plan
    BY DEF Storage!PlanInv, Storage!TypeOK, Storage!Plan
  <2> QED BY <1>4, <2>1 DEF Storage!PlanInv, Storage!IntentInv
<1>6. Storage!FinalInv'
  BY <1>4 DEF Storage!PlanInv, Storage!FinalInv, Storage!Final
<1>7. Storage!OneWorks'
  BY <1>3 DEF Storage!PlanInv, Storage!OneWorks, Storage!WorksOn
<1>8. \A c \in Brokers : Storage!BrokerOK(broker[c])'
  BY <1>1 DEF Storage!PlanInv, Storage!BrokerOK, Storage!Local
<1>9. Storage!AppliedInv'
  BY DEF Storage!PlanInv, Storage!AppliedInv, Storage!Local
<1> QED BY <1>2, <1>5, <1>6, <1>7, <1>8, <1>9 DEF Storage!PlanInv

(* The plan a broker works on is applied: nobody else works on it, and it   *)
(* was not applied before.                                                  *)
LEMMA PlanApplied ==
  ASSUME Storage!PlanInv, NEW b \in Brokers, broker[b].pc \in Storage!Applying, Storage!Change(broker[b].plan),
         NEW o \in {"completed", "needs-attention"}, Storage!Outcome(b, o),
         UNCHANGED <<provider, generation, plans, intent, told>>,
         \A x \in kept : x \in kept',
         IF Storage!Local THEN broker[b].plan.action = "delete" => file \in kept'
                  ELSE file = broker[b].plan.revision
  PROVE  Storage!PlanInv'
<1>1. PICK p \in Storage!PlanRecords : p = broker[b].plan
  BY DEF Storage!PlanInv, Storage!TypeOK, Storage!BrokerRecords, Storage!Applying, Storage!Remote, Storage!Updating
<1>2. p.id \in Storage!Plan /\ p.id <= plans /\ times[p.id] = 0 /\ Storage!WorksOn(broker[b], p.id)
  BY <1>1 DEF Storage!PlanInv, Storage!PlanRecords, Storage!BrokerOK, Storage!WorksOn
<1>3. PICK r : r = [pc |-> "settle", plan |-> p, epoch |-> broker[b].epoch, outcome |-> o]
  OBVIOUS
<1>4. r \in Storage!BrokerRecords
  <2>1. broker[b].epoch \in Nat
    BY DEF Storage!PlanInv, Storage!TypeOK, Storage!BrokerRecords, Storage!Applying, Storage!Remote, Storage!Updating
  <2> QED BY <1>1, <1>3, <2>1 DEF Storage!BrokerRecords, Storage!Outcomes
<1>5. /\ broker' \in [Brokers -> Storage!BrokerRecords] /\ broker'[b] = r
      /\ \A c \in Brokers : c # b => broker'[c] = broker[c]
  BY <1>1, <1>3, <1>4 DEF Storage!PlanInv, Storage!TypeOK, Storage!Goto, Storage!Outcome
<1>6. /\ times' \in [Storage!Plan -> Nat] /\ times'[p.id] = 1
      /\ \A q \in Storage!Plan : q # p.id => times'[q] = times[q]
  BY <1>1, <1>2 DEF Storage!PlanInv, Storage!TypeOK, Storage!Change
<1>7. Storage!TypeOK'
  <2>1. applied' \in [Storage!Plan -> SUBSET [plan : Storage!PlanRecords, was : Storage!Revisions]]
    BY <1>1, <1>2 DEF Storage!PlanInv, Storage!TypeOK, Storage!Change
  <2>2. file' \in Storage!Revisions /\ next' \in Nat
    BY DEF Storage!PlanInv, Storage!TypeOK, Storage!Change, Storage!Revisions
  <2> QED BY <1>5, <1>6, <2>1, <2>2 DEF Storage!PlanInv, Storage!TypeOK
<1>8. \A c \in Brokers : \A q \in Storage!Plan : Storage!WorksOn(broker'[c], q) => Storage!WorksOn(broker[c], q)
  BY <1>1, <1>2, <1>3, <1>5 DEF Storage!WorksOn
<1>9. \A q \in Storage!Plan : Storage!Unworked(q) => Storage!Unworked(q)' /\ q # p.id
  BY <1>2, <1>8 DEF Storage!Unworked, Storage!WorksOn
<1>10. Storage!IntentInv'
  <2>1. plans > 0 => plans \in Storage!Plan
    BY DEF Storage!PlanInv, Storage!TypeOK, Storage!Plan
  <2>2. ASSUME NEW q \in Storage!Plan, q > plans \/ (q = plans /\ intent.state = "prepared")
        PROVE  times'[q] = 0 /\ told'[q] = {}
    <3>1. q # p.id
      BY <1>2, <1>9, <2>2 DEF Storage!PlanInv, Storage!TypeOK, Storage!IntentInv, Storage!Plan
    <3> QED BY <1>6, <2>2, <3>1 DEF Storage!PlanInv, Storage!IntentInv
  <2> QED BY <1>9, <2>1, <2>2 DEF Storage!PlanInv, Storage!IntentInv
<1>11. Storage!FinalInv'
  <2> SUFFICES ASSUME NEW q \in Storage!Plan
               PROVE  /\ times'[q] <= 1
                      /\ Storage!Final(q, "refused") => times'[q] = 0 /\ Storage!Unworked(q)'
                      /\ Storage!Final(q, "completed") => times'[q] = 1 /\ Storage!Unworked(q)'
    BY DEF Storage!FinalInv, Storage!Final
  <2> QED BY <1>6, <1>9 DEF Storage!PlanInv, Storage!FinalInv
<1>12. Storage!OneWorks'
  BY <1>8 DEF Storage!PlanInv, Storage!OneWorks, Storage!WorksOn
<1>13. ASSUME NEW c \in Brokers PROVE Storage!BrokerOK(broker[c])'
  <2>1. CASE c = b
    BY <1>2, <1>3, <1>5, <1>6, <2>1 DEF Storage!BrokerOK, Storage!Applying, Storage!Remote, Storage!Updating
  <2>2. CASE c # b
    <3>1. broker[c].pc \in Storage!Applying \cup {"settle"} => broker[c].plan.id \in Storage!Plan /\ broker[c].plan.id # p.id
      <4> SUFFICES ASSUME broker[c].pc \in Storage!Applying \cup {"settle"}
                   PROVE  broker[c].plan.id \in Storage!Plan /\ broker[c].plan.id # p.id
        OBVIOUS
      <4>1. broker[c].plan \in Storage!PlanRecords
        BY DEF Storage!PlanInv, Storage!TypeOK, Storage!BrokerRecords, Storage!Applying, Storage!Remote, Storage!Updating
      <4>2. broker[c].plan.id \in Storage!Plan
        BY <4>1 DEF Storage!PlanRecords
      <4> QED BY <1>2, <2>2, <4>2 DEF Storage!PlanInv, Storage!OneWorks, Storage!WorksOn
    <3> QED BY <1>5, <1>6, <2>2, <3>1 DEF Storage!PlanInv, Storage!BrokerOK, Storage!Local
  <2> QED BY <2>1, <2>2
<1>14. Storage!AppliedInv'
  <2> SUFFICES ASSUME NEW q \in Storage!Plan, NEW x \in applied'[q]
               PROVE  IF Storage!Local THEN x.plan.action = "delete" => x.was \in kept'
                               ELSE x.was = x.plan.revision
    BY DEF Storage!AppliedInv, Storage!Local
  <2>1. x \in applied[q] \/ x = [plan |-> p, was |-> file]
    BY <1>1, <1>2 DEF Storage!PlanInv, Storage!TypeOK, Storage!Change
  <2>2. CASE x \in applied[q]
    BY <2>2 DEF Storage!PlanInv, Storage!AppliedInv
  <2>3. CASE x = [plan |-> p, was |-> file]
    BY <1>1, <2>3
  <2> QED BY <2>1, <2>2, <2>3
<1> QED BY <1>7, <1>10, <1>11, <1>12, <1>13, <1>14 DEF Storage!PlanInv

(* Brokers at work have a plan that was prepared. *)
LEMMA PlanOfBroker ==
  ASSUME Storage!TypeOK, NEW b \in Brokers, broker[b].pc \in {"committing", "settle"} \cup Storage!Applying
  PROVE  broker[b].plan \in Storage!PlanRecords /\ broker[b].plan.id \in Storage!Plan /\ broker[b].epoch \in Nat
<1>1. broker[b].plan \in Storage!PlanRecords /\ broker[b].epoch \in Nat
  BY DEF Storage!TypeOK, Storage!BrokerRecords, Storage!Applying, Storage!Remote, Storage!Updating
<1> QED BY <1>1 DEF Storage!PlanRecords

(* A step on the way, and one that ends without a change. *)
LEMMA BrokerGoesOn ==
  ASSUME Storage!PlanInv, NEW b \in Brokers, broker[b].pc \in Storage!Applying,
         NEW to \in Storage!Applying, Storage!Goto(b, [broker[b] EXCEPT !.pc = to]),
         to \in Storage!Remote => ~ Storage!Local,
         to \in {"local", "delete"} \cup Storage!Updating => Storage!Local,
         to = "delete" => broker[b].plan.action = "delete",
         to \in Storage!Updating => broker[b].plan.action = "update",
         UNCHANGED <<provider, generation, plans, intent, file, next, times, told, applied>>,
         \A x \in kept : x \in kept'
  PROVE  Storage!PlanInv'
<1>1. PICK r : r = [broker[b] EXCEPT !.pc = to]
  OBVIOUS
<1>2. broker[b] \in [pc : {"committing"} \cup Storage!Applying, plan : Storage!PlanRecords, epoch : Nat]
  BY DEF Storage!PlanInv, Storage!TypeOK, Storage!BrokerRecords, Storage!Applying, Storage!Remote, Storage!Updating
<1>3. r \in Storage!BrokerRecords /\ r.pc = to /\ r.plan = broker[b].plan
  BY <1>1, <1>2 DEF Storage!BrokerRecords
<1>4. Storage!BrokerOK(r)
  BY <1>3 DEF Storage!PlanInv, Storage!BrokerOK, Storage!Applying, Storage!Remote, Storage!Updating
<1>5. \A p \in Storage!Plan : Storage!WorksOn(r, p) => Storage!WorksOn(broker[b], p)
  BY <1>3 DEF Storage!WorksOn
<1>6. generation' \in Nat /\ next' \in Nat /\ file' \in Storage!Revisions
  BY DEF Storage!PlanInv, Storage!TypeOK
<1> QED BY <1>1, <1>3, <1>4, <1>5, <1>6, BrokerMoves

LEMMA BrokerEnds ==
  ASSUME Storage!PlanInv, NEW b \in Brokers, broker[b].pc \in Storage!Applying,
         NEW o \in {"refused", "needs-attention"}, Storage!Outcome(b, o),
         UNCHANGED <<provider, generation, plans, intent, file, next, kept, times, told, applied>>
  PROVE  Storage!PlanInv'
<1>1. PICK r : r = [pc |-> "settle", plan |-> broker[b].plan, epoch |-> broker[b].epoch, outcome |-> o]
  OBVIOUS
<1>2. r \in Storage!BrokerRecords
  BY <1>1, PlanOfBroker DEF Storage!PlanInv, Storage!BrokerRecords, Storage!Outcomes
<1>3. Storage!BrokerOK(r)
  BY <1>1 DEF Storage!PlanInv, Storage!BrokerOK, Storage!Applying, Storage!Remote, Storage!Updating
<1>4. \A p \in Storage!Plan : Storage!WorksOn(r, p) => Storage!WorksOn(broker[b], p)
  BY <1>1 DEF Storage!WorksOn
<1>5. generation' \in Nat /\ next' \in Nat /\ file' \in Storage!Revisions
  BY DEF Storage!PlanInv, Storage!TypeOK
<1> QED BY <1>1, <1>2, <1>3, <1>4, <1>5, BrokerMoves DEF Storage!Outcome

(* A broker gives up what it does, and nothing else is changed. *)
LEMMA BrokerLeaves ==
  ASSUME Storage!PlanInv, NEW b \in Brokers, Storage!Goto(b, Storage!Idle),
         UNCHANGED <<provider, generation, plans, intent, file, next, kept, times, told, applied>>
  PROVE  Storage!PlanInv'
<1>1. Storage!Idle \in Storage!BrokerRecords /\ Storage!BrokerOK(Storage!Idle)
  BY DEF Storage!Idle, Storage!BrokerRecords, Storage!BrokerOK, Storage!Applying, Storage!Remote, Storage!Updating
<1>2. \A p \in Storage!Plan : ~ Storage!WorksOn(Storage!Idle, p)
  BY DEF Storage!Idle, Storage!WorksOn, Storage!Applying, Storage!Remote, Storage!Updating
<1>3. generation' \in Nat /\ next' \in Nat /\ file' \in Storage!Revisions
  BY DEF Storage!PlanInv, Storage!TypeOK
<1> QED BY <1>1, <1>2, <1>3, BrokerMoves

LEMMA PreflightStep ==
  ASSUME Storage!PlanInv, NEW b \in Brokers, NEW a \in Storage!Actions, Storage!Preflight(b, a)
  PROVE  Storage!PlanInv'
<1>1. PICK r : r = [pc |-> "preflight", action |-> a, revision |-> file, epoch |-> generation]
  OBVIOUS
<1>2. r \in Storage!BrokerRecords /\ Storage!BrokerOK(r) /\ \A p \in Storage!Plan : ~ Storage!WorksOn(r, p)
  BY <1>1 DEF Storage!PlanInv, Storage!TypeOK, Storage!BrokerRecords, Storage!BrokerOK, Storage!WorksOn, Storage!Applying, Storage!Remote, Storage!Updating
<1>3. generation' \in Nat /\ next' \in Nat /\ file' \in Storage!Revisions
  BY DEF Storage!PlanInv, Storage!TypeOK, Storage!Preflight, Storage!store, Storage!target
<1> QED BY <1>1, <1>2, <1>3, BrokerMoves DEF Storage!Preflight, Storage!store, Storage!target, Storage!history

(* A plan that is made is the intent, and nobody has begun it. *)
LEMMA PrepareStep ==
  ASSUME Storage!PlanInv, NEW b \in Brokers, Storage!Prepare(b)
  PROVE  Storage!PlanInv'
<1>1. CASE UNCHANGED <<plans, intent>>
  BY <1>1, BrokerLeaves DEF Storage!Prepare, Storage!target, Storage!history
<1>2. CASE /\ plans' = plans + 1
           /\ intent' = [id |-> plans + 1, action |-> broker[b].action, revision |-> broker[b].revision,
                         epoch |-> generation, state |-> "prepared", live |-> TRUE]
  <2>1. plans + 1 \in Storage!Plan /\ plans \in Nat
    BY PlansAssumption DEF Storage!PlanInv, Storage!TypeOK, Storage!Prepare, Storage!Plan
  <2>2. broker[b].action \in Storage!Actions /\ broker[b].revision \in Storage!Revisions
    BY DEF Storage!PlanInv, Storage!TypeOK, Storage!Prepare, Storage!At, Storage!BrokerRecords, Storage!Applying, Storage!Remote, Storage!Updating
  <2>3. intent' \in Storage!PlanRecords /\ intent'.id = plans' /\ intent'.state = "prepared"
    BY <1>2, <2>1, <2>2 DEF Storage!PlanInv, Storage!TypeOK, Storage!PlanRecords
  <2>4. /\ broker' \in [Brokers -> Storage!BrokerRecords] /\ broker'[b] = Storage!Idle
        /\ \A c \in Brokers : c # b => broker'[c] = broker[c]
    BY DEF Storage!PlanInv, Storage!TypeOK, Storage!Prepare, Storage!Goto, Storage!Idle, Storage!BrokerRecords
  <2>5. Storage!TypeOK'
    BY <1>2, <2>1, <2>4 DEF Storage!PlanInv, Storage!TypeOK, Storage!Prepare, Storage!target, Storage!history, Storage!Plan
  <2>6. \A c \in Brokers : \A p \in Storage!Plan : Storage!WorksOn(broker'[c], p) => Storage!WorksOn(broker[c], p)
    BY <2>4 DEF Storage!WorksOn, Storage!Idle, Storage!Applying, Storage!Remote, Storage!Updating
  <2>7. \A p \in Storage!Plan : Storage!Unworked(p) => Storage!Unworked(p)'
    BY <2>6 DEF Storage!Unworked, Storage!WorksOn
  <2>8. Storage!Unworked(plans + 1)
    BY <2>1 DEF Storage!Unworked, Storage!WorksOn, Storage!PlanInv, Storage!BrokerOK, Storage!Applying, Storage!Remote, Storage!Updating
  <2>9. times' = times /\ told' = told /\ applied' = applied /\ kept' = kept /\ provider' = provider
    BY DEF Storage!Prepare, Storage!target, Storage!history
  <2>10. Storage!IntentInv'
    <3>1. \A p \in Storage!Plan : p > plans => times[p] = 0 /\ told[p] = {}
      BY DEF Storage!PlanInv, Storage!IntentInv
    <3>2. \A p \in Storage!Plan : p > plans' \/ p = plans' => p > plans
      BY <1>2, <2>1 DEF Storage!Plan
    <3>3. Storage!Unworked(plans)'
      BY <1>2, <2>1, <2>6, <2>8 DEF Storage!Unworked, Storage!WorksOn
    <3> QED BY <1>2, <2>1, <2>3, <2>9, <3>1, <3>2, <3>3 DEF Storage!IntentInv
  <2>11. Storage!FinalInv'
    BY <1>2, <2>3, <2>7, <2>9 DEF Storage!PlanInv, Storage!FinalInv, Storage!Final
  <2>12. Storage!OneWorks'
    BY <2>6 DEF Storage!PlanInv, Storage!OneWorks, Storage!WorksOn
  <2>13. \A c \in Brokers : Storage!BrokerOK(broker[c])'
    <3> SUFFICES ASSUME NEW c \in Brokers PROVE Storage!BrokerOK(broker[c])'
      OBVIOUS
    <3>1. CASE c = b
      BY <2>4, <3>1 DEF Storage!BrokerOK, Storage!Idle, Storage!Applying, Storage!Remote, Storage!Updating
    <3>2. CASE c # b
      <4>1. broker[c].pc \in {"committing", "settle"} \cup Storage!Applying => broker[c].plan.id \in Storage!Plan
        BY PlanOfBroker DEF Storage!PlanInv
      <4>2. broker[c].pc \in {"committing", "settle"} \cup Storage!Applying => broker[c].plan.id <= plans + 1
        BY <2>1, <4>1 DEF Storage!PlanInv, Storage!BrokerOK, Storage!Plan
      <4> QED BY <1>2, <2>4, <2>9, <3>2, <4>2 DEF Storage!PlanInv, Storage!BrokerOK, Storage!Local
    <3> QED BY <3>1, <3>2
  <2>14. Storage!AppliedInv'
    BY <2>9 DEF Storage!PlanInv, Storage!AppliedInv, Storage!Local
  <2> QED BY <2>5, <2>10, <2>11, <2>12, <2>13, <2>14 DEF Storage!PlanInv
<1> QED BY <1>1, <1>2 DEF Storage!Prepare

(* Only what concerns no plan changes. *)
LEMMA OtherSteps ==
  ASSUME Storage!PlanInv, Storage!Lapse \/ Storage!Reconnect \/ Storage!Edit
  PROVE  Storage!PlanInv'
<1>1. CASE Storage!Reconnect \/ Storage!Edit
  <2>1. /\ broker' = broker /\ plans' = plans /\ intent' = intent /\ times' = times /\ told' = told
        /\ applied' = applied /\ kept' = kept /\ provider' = provider
    BY <1>1 DEF Storage!Reconnect, Storage!Edit, Storage!store, Storage!target, Storage!history
  <2>2. generation' \in Nat /\ next' \in Nat /\ file' \in Storage!Revisions
    BY <1>1 DEF Storage!PlanInv, Storage!TypeOK, Storage!Reconnect, Storage!Edit, Storage!store, Storage!target, Storage!Revisions
  <2>3. Storage!TypeOK'
    BY <2>1, <2>2 DEF Storage!PlanInv, Storage!TypeOK
  <2>4. Storage!IntentInv' /\ Storage!FinalInv' /\ Storage!OneWorks' /\ Storage!AppliedInv'
    BY <2>1 DEF Storage!PlanInv, Storage!IntentInv, Storage!FinalInv, Storage!Final, Storage!OneWorks, Storage!Unworked, Storage!WorksOn, Storage!AppliedInv, Storage!Local
  <2>5. \A b \in Brokers : Storage!BrokerOK(broker[b])'
    BY <2>1 DEF Storage!PlanInv, Storage!BrokerOK, Storage!Local
  <2> QED BY <2>3, <2>4, <2>5 DEF Storage!PlanInv
<1>2. CASE Storage!Lapse
  <2>1. /\ broker' = broker /\ plans' = plans /\ times' = times /\ told' = told
        /\ applied' = applied /\ kept' = kept /\ provider' = provider
        /\ generation' = generation /\ next' = next /\ file' = file
    BY <1>2 DEF Storage!Lapse, Storage!target, Storage!history
  <2>2. plans > 0 /\ intent \in Storage!PlanRecords /\ intent.id = plans
    BY <1>2 DEF Storage!PlanInv, Storage!IntentInv, Storage!Lapse
  <2>3. intent' \in Storage!PlanRecords /\ intent'.id = plans /\ intent'.state = intent.state
    BY <1>2, <2>2 DEF Storage!Lapse, Storage!PlanRecords
  <2>4. Storage!TypeOK'
    BY <2>1 DEF Storage!PlanInv, Storage!TypeOK
  <2>5. Storage!IntentInv' /\ Storage!FinalInv' /\ Storage!OneWorks' /\ Storage!AppliedInv'
    BY <2>1, <2>2, <2>3 DEF Storage!PlanInv, Storage!IntentInv, Storage!FinalInv, Storage!Final, Storage!OneWorks, Storage!Unworked, Storage!WorksOn, Storage!AppliedInv, Storage!Local
  <2>6. \A b \in Brokers : Storage!BrokerOK(broker[b])'
    BY <2>1 DEF Storage!PlanInv, Storage!BrokerOK, Storage!Local
  <2> QED BY <2>4, <2>5, <2>6 DEF Storage!PlanInv
<1> QED BY <1>1, <1>2

(* A plan is answered with what is stored of it, or with what is uncertain. *)
LEMMA PlanTold ==
  ASSUME Storage!PlanInv, NEW p \in Storage!Plan, NEW o \in Storage!Outcomes, Storage!Tell(p, o),
         NEW b \in Brokers, broker' = broker \/ Storage!Goto(b, Storage!Idle),
         o # "needs-attention" => Storage!Final(p, o),
         p < plans \/ (p = plans /\ intent.state # "prepared"),
         UNCHANGED <<provider, generation, plans, intent, file, next, kept, times, applied>>
  PROVE  Storage!PlanInv'
<1>1. /\ broker' \in [Brokers -> Storage!BrokerRecords]
      /\ \A c \in Brokers : broker'[c] = broker[c] \/ broker'[c] = Storage!Idle
  BY DEF Storage!PlanInv, Storage!TypeOK, Storage!Goto, Storage!Idle, Storage!BrokerRecords
<1>2. /\ told' \in [Storage!Plan -> SUBSET Storage!Outcomes] /\ told'[p] = told[p] \cup {o}
      /\ \A q \in Storage!Plan : q # p => told'[q] = told[q]
  BY DEF Storage!PlanInv, Storage!TypeOK, Storage!Tell
<1>3. Storage!TypeOK'
  BY <1>1, <1>2 DEF Storage!PlanInv, Storage!TypeOK
<1>4. \A c \in Brokers : \A q \in Storage!Plan : Storage!WorksOn(broker'[c], q) => Storage!WorksOn(broker[c], q) /\ broker'[c] = broker[c]
  BY <1>1 DEF Storage!WorksOn, Storage!Idle, Storage!Applying, Storage!Remote, Storage!Updating
<1>5. \A q \in Storage!Plan : Storage!Unworked(q) => Storage!Unworked(q)'
  BY <1>4 DEF Storage!Unworked, Storage!WorksOn
<1>6. Storage!IntentInv'
  <2>1. plans > 0 => plans \in Storage!Plan
    BY DEF Storage!PlanInv, Storage!TypeOK, Storage!Plan
  <2>2. \A q \in Storage!Plan : q > plans \/ (q = plans /\ intent.state = "prepared") => q # p
    BY DEF Storage!PlanInv, Storage!TypeOK, Storage!Plan
  <2> QED BY <1>2, <1>5, <2>1, <2>2 DEF Storage!PlanInv, Storage!IntentInv
<1>7. \A q \in Storage!Plan : \A x \in {"refused", "completed"} : Storage!Final(q, x)' => Storage!Final(q, x)
  BY <1>2 DEF Storage!Final
<1>8. Storage!FinalInv'
  BY <1>5, <1>7 DEF Storage!PlanInv, Storage!FinalInv
<1>9. Storage!OneWorks'
  BY <1>4 DEF Storage!PlanInv, Storage!OneWorks, Storage!WorksOn
<1>10. \A c \in Brokers : Storage!BrokerOK(broker[c])'
  BY <1>1 DEF Storage!PlanInv, Storage!BrokerOK, Storage!Local, Storage!Idle, Storage!Applying, Storage!Remote, Storage!Updating
<1>11. Storage!AppliedInv'
  BY DEF Storage!PlanInv, Storage!AppliedInv, Storage!Local
<1> QED BY <1>3, <1>6, <1>8, <1>9, <1>10, <1>11 DEF Storage!PlanInv

LEMMA CommitStep ==
  ASSUME Storage!PlanInv, NEW b \in Brokers, Storage!Commit(b)
  PROVE  Storage!PlanInv'
<1>1. plans > 0 /\ intent \in Storage!PlanRecords /\ intent.id = plans /\ plans \in Storage!Plan
  BY DEF Storage!PlanInv, Storage!IntentInv, Storage!Commit, Storage!TypeOK, Storage!Plan
<1>2. CASE intent.state # "prepared"
  <2>1. PICK o \in Storage!Outcomes : o = Storage!Stored(intent.state)
    BY <1>1, <1>2 DEF Storage!Stored, Storage!PlanRecords, Storage!Outcomes
  <2>2. o # "needs-attention" => Storage!Final(plans, o)
    BY <2>1 DEF Storage!Stored, Storage!Final
  <2>3. Storage!Tell(plans, o) /\ broker' = broker
    BY <1>1, <1>2, <2>1 DEF Storage!Commit
  <2>4. UNCHANGED <<provider, generation, plans, intent, file, next, kept, times, applied>>
    BY DEF Storage!Commit, Storage!store, Storage!target
  <2> QED BY <1>1, <1>2, <2>2, <2>3, <2>4, PlanTold
<1>3. CASE intent.state = "prepared"
  <2>1. PICK r : r = [pc |-> "committing", plan |-> intent, epoch |-> generation]
    OBVIOUS
  <2>2. r \in Storage!BrokerRecords /\ Storage!BrokerOK(r) /\ \A p \in Storage!Plan : ~ Storage!WorksOn(r, p)
    BY <1>1, <2>1 DEF Storage!PlanInv, Storage!TypeOK, Storage!BrokerRecords, Storage!BrokerOK, Storage!WorksOn, Storage!Applying, Storage!Remote, Storage!Updating, Storage!Plan
  <2>3. UNCHANGED <<provider, generation, plans, intent, file, next, kept, times, told, applied>> /\ Storage!Goto(b, r)
    BY <1>3, <2>1 DEF Storage!Commit, Storage!store, Storage!target
  <2>4. generation' \in Nat /\ next' \in Nat /\ file' \in Storage!Revisions
    BY <2>3 DEF Storage!PlanInv, Storage!TypeOK
  <2> QED BY <2>2, <2>3, <2>4, BrokerMoves
<1> QED BY <1>2, <1>3

(* The claim: a prepared plan has one broker from here on. *)
LEMMA ClaimStep ==
  ASSUME Storage!PlanInv, NEW b \in Brokers, Storage!Claim(b)
  PROVE  Storage!PlanInv'
<1>1. PICK p \in Storage!PlanRecords : p = broker[b].plan
  BY PlanOfBroker DEF Storage!PlanInv, Storage!Claim, Storage!At
<1>2. p.id \in Storage!Plan /\ p.id <= plans /\ broker[b].pc = "committing" /\ broker[b].epoch \in Nat
  BY <1>1, PlanOfBroker DEF Storage!PlanInv, Storage!Claim, Storage!At, Storage!BrokerOK
<1>3. plans > 0 /\ plans \in Storage!Plan /\ intent \in Storage!PlanRecords /\ intent.id = plans
  BY <1>2 DEF Storage!PlanInv, Storage!TypeOK, Storage!IntentInv, Storage!Plan
<1>4. UNCHANGED <<provider, generation, plans, file, next, kept, times, applied>>
  BY DEF Storage!Claim, Storage!target
<1>5. CASE Storage!Goto(b, Storage!Idle) /\ UNCHANGED <<intent, told>>
  BY <1>4, <1>5, BrokerLeaves
<1>6. CASE /\ p.id = plans /\ intent.state # "prepared"
           /\ Storage!Goto(b, Storage!Idle) /\ Storage!Tell(p.id, Storage!Stored(intent.state)) /\ UNCHANGED intent
  <2>1. PICK o \in Storage!Outcomes : o = Storage!Stored(intent.state)
    BY <1>3, <1>6 DEF Storage!Stored, Storage!PlanRecords, Storage!Outcomes
  <2>2. o # "needs-attention" => Storage!Final(p.id, o)
    BY <1>6, <2>1 DEF Storage!Stored, Storage!Final
  <2> QED BY <1>2, <1>4, <1>6, <2>1, <2>2, PlanTold
<1>7. CASE /\ p.id = plans /\ intent.state = "prepared" /\ UNCHANGED told
           /\ intent' = [p EXCEPT !.state = "executing"]
           /\ Storage!Goto(b, [broker[b] EXCEPT !.pc = "apply"])
  <2>1. intent' \in Storage!PlanRecords /\ intent'.id = plans /\ intent'.state = "executing"
    BY <1>7 DEF Storage!PlanRecords
  <2>2. PICK r : r = [broker[b] EXCEPT !.pc = "apply"]
    OBVIOUS
  <2>3. r \in Storage!BrokerRecords /\ r.pc = "apply" /\ r.plan = p
    <3>1. broker[b] \in [pc : {"committing"} \cup Storage!Applying, plan : Storage!PlanRecords, epoch : Nat]
      BY <1>2 DEF Storage!PlanInv, Storage!TypeOK, Storage!BrokerRecords, Storage!Applying, Storage!Remote, Storage!Updating
    <3> QED BY <1>1, <2>2, <3>1 DEF Storage!BrokerRecords, Storage!Applying
  <2>4. /\ broker' \in [Brokers -> Storage!BrokerRecords] /\ broker'[b] = r
        /\ \A c \in Brokers : c # b => broker'[c] = broker[c]
    BY <1>7, <2>2, <2>3 DEF Storage!PlanInv, Storage!TypeOK, Storage!Goto
  <2>5. Storage!TypeOK'
    BY <1>4, <1>7, <2>4 DEF Storage!PlanInv, Storage!TypeOK
  <2>6. Storage!Unworked(plans) /\ times[plans] = 0 /\ told[plans] = {}
    BY <1>3, <1>7 DEF Storage!PlanInv, Storage!IntentInv
  <2>7. \A c \in Brokers : \A q \in Storage!Plan :
          Storage!WorksOn(broker'[c], q) <=> (c = b /\ q = plans) \/ (c # b /\ Storage!WorksOn(broker[c], q))
    BY <1>7, <2>3, <2>4 DEF Storage!WorksOn, Storage!Applying
  <2>8. \A q \in Storage!Plan : q # plans /\ Storage!Unworked(q) => Storage!Unworked(q)'
    BY <2>7 DEF Storage!Unworked, Storage!WorksOn
  <2>9. Storage!IntentInv'
    BY <1>3, <1>4, <1>7, <2>1 DEF Storage!PlanInv, Storage!IntentInv
  <2>10. Storage!FinalInv'
    <3> SUFFICES ASSUME NEW q \in Storage!Plan
                 PROVE  /\ times[q] <= 1
                        /\ Storage!Final(q, "refused")' => times[q] = 0 /\ Storage!Unworked(q)'
                        /\ Storage!Final(q, "completed")' => times[q] = 1 /\ Storage!Unworked(q)'
      BY <1>4 DEF Storage!FinalInv
    <3>1. \A x \in {"refused", "completed"} : Storage!Final(q, x)' => Storage!Final(q, x) /\ q # plans
      BY <1>4, <1>7, <2>1, <2>6 DEF Storage!Final
    <3> QED BY <2>8, <3>1 DEF Storage!PlanInv, Storage!FinalInv
  <2>11. Storage!OneWorks'
    <3> SUFFICES ASSUME NEW q \in Storage!Plan, NEW c \in Brokers, NEW d \in Brokers,
                        Storage!WorksOn(broker'[c], q), Storage!WorksOn(broker'[d], q)
                 PROVE  c = d
      BY DEF Storage!OneWorks, Storage!WorksOn
    <3> QED BY <2>6, <2>7 DEF Storage!PlanInv, Storage!OneWorks, Storage!Unworked
  <2>12. \A c \in Brokers : Storage!BrokerOK(broker[c])'
    <3> SUFFICES ASSUME NEW c \in Brokers PROVE Storage!BrokerOK(broker[c])'
      OBVIOUS
    <3>1. CASE c = b
      BY <1>2, <1>4, <1>7, <2>3, <2>4, <2>6, <3>1 DEF Storage!BrokerOK, Storage!Applying, Storage!Remote, Storage!Updating
    <3>2. CASE c # b
      BY <1>4, <2>4, <3>2 DEF Storage!PlanInv, Storage!BrokerOK, Storage!Local
    <3> QED BY <3>1, <3>2
  <2>13. Storage!AppliedInv'
    BY <1>4 DEF Storage!PlanInv, Storage!AppliedInv, Storage!Local
  <2> QED BY <2>5, <2>9, <2>10, <2>11, <2>12, <2>13 DEF Storage!PlanInv
<1> QED BY <1>1, <1>3, <1>5, <1>6, <1>7 DEF Storage!Claim

(* The outcome, recorded over the claim or not. *)
LEMMA SettleStep ==
  ASSUME Storage!PlanInv, NEW b \in Brokers, Storage!Settle(b)
  PROVE  Storage!PlanInv'
<1>1. PICK p \in Storage!PlanRecords : p = broker[b].plan
  BY PlanOfBroker DEF Storage!PlanInv, Storage!Settle, Storage!At
<1>2. p.id \in Storage!Plan /\ p.id <= plans /\ broker[b].pc = "settle" /\ Storage!WorksOn(broker[b], p.id)
  BY <1>1, PlanOfBroker DEF Storage!PlanInv, Storage!Settle, Storage!At, Storage!BrokerOK, Storage!WorksOn
<1>3. PICK o \in Storage!Outcomes : o = broker[b].outcome
  BY <1>2 DEF Storage!PlanInv, Storage!TypeOK, Storage!BrokerRecords, Storage!Applying, Storage!Remote, Storage!Updating
<1>4. /\ plans > 0 /\ plans \in Storage!Plan /\ intent \in Storage!PlanRecords /\ intent.id = plans
      /\ p.id = plans => intent.state # "prepared"
  BY <1>2 DEF Storage!PlanInv, Storage!TypeOK, Storage!IntentInv, Storage!Plan, Storage!Unworked
<1>5. UNCHANGED <<provider, generation, plans, file, next, kept, times, applied>> /\ Storage!Goto(b, Storage!Idle)
  BY DEF Storage!Settle, Storage!target
<1>6. CASE UNCHANGED <<intent, told>>
  BY <1>5, <1>6, BrokerLeaves
<1>7. CASE p.id = plans /\ UNCHANGED intent /\ Storage!Tell(p.id, "needs-attention")
  BY <1>2, <1>4, <1>5, <1>7, PlanTold DEF Storage!Outcomes
<1>8. CASE p.id = plans /\ intent' = [p EXCEPT !.state = o] /\ Storage!Tell(p.id, o)
  <2>1. intent' \in Storage!PlanRecords /\ intent'.id = plans /\ intent'.state = o /\ o # "prepared"
    BY <1>8 DEF Storage!PlanRecords, Storage!Outcomes
  <2>2. /\ broker' \in [Brokers -> Storage!BrokerRecords] /\ broker'[b] = Storage!Idle
        /\ \A c \in Brokers : c # b => broker'[c] = broker[c]
    BY <1>5 DEF Storage!PlanInv, Storage!TypeOK, Storage!Goto, Storage!Idle, Storage!BrokerRecords
  <2>3. /\ told' \in [Storage!Plan -> SUBSET Storage!Outcomes] /\ told'[plans] = told[plans] \cup {o}
        /\ \A q \in Storage!Plan : q # plans => told'[q] = told[q]
    BY <1>4, <1>8 DEF Storage!PlanInv, Storage!TypeOK, Storage!Tell
  <2>4. Storage!TypeOK'
    BY <1>5, <2>2, <2>3 DEF Storage!PlanInv, Storage!TypeOK
  <2>5. \A c \in Brokers : \A q \in Storage!Plan : Storage!WorksOn(broker'[c], q) => Storage!WorksOn(broker[c], q) /\ c # b
    BY <2>2 DEF Storage!WorksOn, Storage!Idle, Storage!Applying, Storage!Remote, Storage!Updating
  <2>6. \A q \in Storage!Plan : Storage!Unworked(q) => Storage!Unworked(q)'
    BY <2>5 DEF Storage!Unworked, Storage!WorksOn
  <2>7. Storage!Unworked(plans)'
    BY <1>2, <1>4, <1>5, <1>8, <2>5 DEF Storage!PlanInv, Storage!OneWorks, Storage!Unworked, Storage!WorksOn
  <2>8. Storage!IntentInv'
    <3>1. \A q \in Storage!Plan : q > plans => q # plans
      BY DEF Storage!PlanInv, Storage!TypeOK, Storage!Plan
    <3> QED BY <1>4, <1>5, <2>1, <2>3, <3>1 DEF Storage!PlanInv, Storage!IntentInv
  <2>9. /\ o = "refused" => times[plans] = 0
        /\ o = "completed" => times[plans] = 1
    BY <1>1, <1>2, <1>3, <1>8 DEF Storage!PlanInv, Storage!BrokerOK
  <2>10. Storage!FinalInv'
    <3> SUFFICES ASSUME NEW q \in Storage!Plan
                 PROVE  /\ times[q] <= 1
                        /\ Storage!Final(q, "refused")' => times[q] = 0 /\ Storage!Unworked(q)'
                        /\ Storage!Final(q, "completed")' => times[q] = 1 /\ Storage!Unworked(q)'
      BY <1>5 DEF Storage!FinalInv
    <3>1. CASE q # plans
      <4>1. \A x \in {"refused", "completed"} : Storage!Final(q, x)' => Storage!Final(q, x)
        BY <1>5, <2>3, <3>1 DEF Storage!Final
      <4> QED BY <2>6, <4>1 DEF Storage!PlanInv, Storage!FinalInv
    <3>2. CASE q = plans
      <4>1. \A x \in {"refused", "completed"} : Storage!Final(q, x)' => Storage!Final(q, x) \/ o = x
        BY <1>5, <2>1, <2>3, <3>2 DEF Storage!Final
      <4>2. Storage!Unworked(q)'
        BY <1>5, <2>7, <3>2 DEF Storage!Unworked
      <4> QED BY <2>9, <3>2, <4>1, <4>2 DEF Storage!PlanInv, Storage!FinalInv
    <3> QED BY <3>1, <3>2
  <2>11. Storage!OneWorks'
    BY <2>2, <2>5 DEF Storage!PlanInv, Storage!OneWorks, Storage!WorksOn
  <2>12. \A c \in Brokers : Storage!BrokerOK(broker[c])'
    BY <1>5, <2>2 DEF Storage!PlanInv, Storage!BrokerOK, Storage!Local, Storage!Idle, Storage!Applying, Storage!Remote, Storage!Updating
  <2>13. Storage!AppliedInv'
    BY <1>5 DEF Storage!PlanInv, Storage!AppliedInv, Storage!Local
  <2> QED BY <2>4, <2>8, <2>10, <2>11, <2>12, <2>13 DEF Storage!PlanInv
<1> QED BY <1>1, <1>3, <1>4, <1>6, <1>7, <1>8 DEF Storage!Settle

(* The work on a claimed plan. *)
LEMMA WorkSteps ==
  ASSUME Storage!PlanInv, NEW b \in Brokers,
         \/ Storage!ApplyChecked(b) \/ Storage!DriveInspect(b) \/ Storage!ConditionalWrite(b)
         \/ Storage!LocalCreate(b) \/ Storage!LocalRead(b) \/ Storage!LocalTrash(b)
         \/ Storage!LocalBackup(b) \/ Storage!LocalRecheck(b) \/ Storage!LocalRename(b)
  PROVE  Storage!PlanInv'
<1> USE DEF Storage!At, Storage!store, Storage!target, Storage!history, Storage!NoChange, Storage!Change
<1>1. broker[b].pc \in Storage!Applying /\ broker[b].plan \in Storage!PlanRecords
  <2>1. broker[b].pc \in Storage!Applying
    BY DEF Storage!ApplyChecked, Storage!DriveInspect, Storage!ConditionalWrite, Storage!LocalCreate, Storage!LocalRead, Storage!LocalTrash,
           Storage!LocalBackup, Storage!LocalRecheck, Storage!LocalRename, Storage!Applying, Storage!Remote, Storage!Updating
  <2> QED BY <2>1, PlanOfBroker DEF Storage!PlanInv
<1>2. broker[b].plan.action \in Storage!Actions /\ Storage!BrokerOK(broker[b])
  BY <1>1 DEF Storage!PlanInv, Storage!PlanRecords
<1>3. CASE Storage!ApplyChecked(b)
  <2>1. CASE Storage!Outcome(b, "refused")
    BY <1>1, <1>3, <2>1, BrokerEnds DEF Storage!ApplyChecked
  <2>2. CASE ~ Storage!Outcome(b, "refused")
    <3>1. PICK to : to = IF Storage!Local THEN "local" ELSE
                        IF provider = "aws-s3" \/ broker[b].plan.action = "create" THEN "send" ELSE "inspect"
      OBVIOUS
    <3>2. to \in {"local", "send", "inspect"} /\ (to = "local" <=> Storage!Local)
      BY <3>1
    <3>3. Storage!Goto(b, [broker[b] EXCEPT !.pc = to])
      BY <1>3, <2>2, <3>1 DEF Storage!ApplyChecked
    <3> QED BY <1>1, <1>3, <3>2, <3>3, BrokerGoesOn DEF Storage!ApplyChecked, Storage!Applying, Storage!Remote, Storage!Updating
  <2> QED BY <2>1, <2>2
<1>4. CASE Storage!DriveInspect(b)
  <2>1. CASE \E o \in {"refused", "needs-attention"} : Storage!Outcome(b, o)
    BY <1>1, <1>4, <2>1, BrokerEnds DEF Storage!DriveInspect
  <2>2. CASE Storage!Goto(b, [broker[b] EXCEPT !.pc = "send"])
    BY <1>1, <1>2, <1>4, <2>2, BrokerGoesOn DEF Storage!DriveInspect, Storage!BrokerOK, Storage!Applying, Storage!Remote, Storage!Updating
  <2> QED BY <1>4, <2>1, <2>2 DEF Storage!DriveInspect
<1>5. CASE Storage!ConditionalWrite(b)
  <2>1. CASE UNCHANGED <<file, next, applied, times>> /\ \E o \in {"refused", "needs-attention"} : Storage!Outcome(b, o)
    BY <1>1, <1>5, <2>1, BrokerEnds DEF Storage!ConditionalWrite
  <2>2. CASE /\ file = broker[b].plan.revision /\ Storage!Change(broker[b].plan)
             /\ \E o \in {"completed", "needs-attention"} : Storage!Outcome(b, o)
    <3>1. ~ Storage!Local
      BY <1>2, <1>5 DEF Storage!BrokerOK, Storage!ConditionalWrite, Storage!Remote
    <3> QED BY <1>1, <1>5, <2>2, <3>1, PlanApplied DEF Storage!ConditionalWrite
  <2> QED BY <1>5, <2>1, <2>2 DEF Storage!ConditionalWrite, Storage!Answers
<1>6. CASE Storage!LocalCreate(b)
  <2>1. CASE UNCHANGED <<file, next, applied, times>> /\ \E o \in {"refused", "needs-attention"} : Storage!Outcome(b, o)
    BY <1>1, <1>6, <2>1, BrokerEnds DEF Storage!LocalCreate
  <2>2. CASE Storage!Change(broker[b].plan) /\ \E o \in {"completed", "needs-attention"} : Storage!Outcome(b, o)
    <3>1. Storage!Local /\ broker[b].plan.action = "create"
      BY <1>2, <1>6 DEF Storage!BrokerOK, Storage!LocalCreate
    <3> QED BY <1>1, <1>6, <2>2, <3>1, PlanApplied DEF Storage!LocalCreate
  <2> QED BY <1>6, <2>1, <2>2 DEF Storage!LocalCreate
<1>7. CASE Storage!LocalRead(b)
  <2>1. CASE Storage!Outcome(b, "refused")
    BY <1>1, <1>7, <2>1, BrokerEnds DEF Storage!LocalRead
  <2>2. CASE Storage!Goto(b, [broker[b] EXCEPT !.pc = broker[b].plan.action])
    <3>1. PICK to : to = broker[b].plan.action
      OBVIOUS
    <3>2. to \in {"update", "delete"} /\ Storage!Local
      BY <1>2, <1>7, <3>1 DEF Storage!LocalRead, Storage!Actions, Storage!BrokerOK
    <3> QED BY <1>1, <1>7, <2>2, <3>1, <3>2, BrokerGoesOn DEF Storage!LocalRead, Storage!Applying, Storage!Remote, Storage!Updating
  <2> QED BY <1>7, <2>1, <2>2 DEF Storage!LocalRead
<1>8. CASE Storage!LocalTrash(b)
  <2>1. CASE /\ UNCHANGED <<file, next, applied, times, kept>>
             /\ \E o \in {"refused", "needs-attention"} : Storage!Outcome(b, o)
    BY <1>1, <1>8, <2>1, BrokerEnds DEF Storage!LocalTrash
  <2>2. CASE /\ Storage!Change(broker[b].plan) /\ kept' = kept \cup {file}
             /\ \E o \in {"completed", "needs-attention"} : Storage!Outcome(b, o)
    <3>1. Storage!Local
      BY <1>2, <1>8 DEF Storage!BrokerOK, Storage!LocalTrash
    <3> QED BY <1>1, <1>8, <2>2, <3>1, PlanApplied DEF Storage!LocalTrash
  <2> QED BY <1>8, <2>1, <2>2 DEF Storage!LocalTrash
<1>9. CASE Storage!LocalBackup(b)
  <2>1. CASE UNCHANGED kept /\ \E o \in {"refused", "needs-attention"} : Storage!Outcome(b, o)
    BY <1>1, <1>9, <2>1, BrokerEnds DEF Storage!LocalBackup
  <2>2. CASE kept' = kept \cup {broker[b].plan.revision} /\ Storage!Goto(b, [broker[b] EXCEPT !.pc = "recheck"])
    BY <1>1, <1>2, <1>9, <2>2, BrokerGoesOn DEF Storage!LocalBackup, Storage!BrokerOK, Storage!Applying, Storage!Remote, Storage!Updating
  <2> QED BY <1>9, <2>1, <2>2 DEF Storage!LocalBackup
<1>10. CASE Storage!LocalRecheck(b)
  <2>1. CASE Storage!Outcome(b, "refused")
    BY <1>1, <1>10, <2>1, BrokerEnds DEF Storage!LocalRecheck
  <2>2. CASE Storage!Goto(b, [broker[b] EXCEPT !.pc = "rename"])
    BY <1>1, <1>2, <1>10, <2>2, BrokerGoesOn DEF Storage!LocalRecheck, Storage!BrokerOK, Storage!Applying, Storage!Remote, Storage!Updating
  <2> QED BY <1>10, <2>1, <2>2 DEF Storage!LocalRecheck
<1>11. CASE Storage!LocalRename(b)
  <2>1. CASE UNCHANGED <<file, next, applied, times>> /\ Storage!Outcome(b, "needs-attention")
    BY <1>1, <1>11, <2>1, BrokerEnds DEF Storage!LocalRename
  <2>2. CASE Storage!Change(broker[b].plan) /\ \E o \in {"completed", "needs-attention"} : Storage!Outcome(b, o)
    <3>1. Storage!Local /\ broker[b].plan.action = "update"
      BY <1>2, <1>11 DEF Storage!BrokerOK, Storage!LocalRename, Storage!Updating
    <3> QED BY <1>1, <1>11, <2>2, <3>1, PlanApplied DEF Storage!LocalRename
  <2> QED BY <1>11, <2>1, <2>2 DEF Storage!LocalRename
<1> QED BY <1>3, <1>4, <1>5, <1>6, <1>7, <1>8, <1>9, <1>10, <1>11

LEMMA PlanStep ==
  ASSUME Storage!PlanInv, Storage!Next
  PROVE  Storage!PlanInv'
<1>1. CASE Storage!Lapse \/ Storage!Reconnect \/ Storage!Edit
  BY <1>1, OtherSteps
<1>2. ASSUME NEW b \in Brokers, Storage!BrokerStep(b) PROVE Storage!PlanInv'
  <2>1. ASSUME NEW a \in Storage!Actions, Storage!Preflight(b, a) PROVE Storage!PlanInv'
    BY <2>1, PreflightStep
  <2>2. CASE Storage!Stop(b)
    BY <2>2, BrokerLeaves DEF Storage!Stop, Storage!store, Storage!target, Storage!history
  <2> QED BY <1>2, <2>1, <2>2, PrepareStep, CommitStep, ClaimStep, SettleStep, WorkSteps
          DEF Storage!BrokerStep, Storage!Actions
<1> QED BY <1>1, <1>2 DEF Storage!Next

LEMMA PlanSays == Storage!PlanInv => Storage!PlansAreTrue
<1> SUFFICES ASSUME Storage!PlanInv PROVE Storage!PlansAreTrue
  OBVIOUS
<1>1. plans > 0 => plans \in Storage!Plan
  BY DEF Storage!PlanInv, Storage!TypeOK, Storage!Plan
<1> QED BY <1>1 DEF Storage!PlanInv, Storage!FinalInv, Storage!Final, Storage!IntentInv, Storage!AppliedInv, Storage!PlansAreTrue

LEMMA PlanStutters ==
  ASSUME Storage!PlanInv, UNCHANGED storageVars
  PROVE  Storage!PlanInv'
<1>1. /\ broker' = broker /\ plans' = plans /\ intent' = intent /\ times' = times /\ told' = told
      /\ applied' = applied /\ kept' = kept /\ provider' = provider
      /\ generation' = generation /\ next' = next /\ file' = file
  BY DEF storageVars
<1>2. Storage!TypeOK'
  BY <1>1 DEF Storage!PlanInv, Storage!TypeOK
<1>3. Storage!IntentInv' /\ Storage!FinalInv' /\ Storage!OneWorks' /\ Storage!AppliedInv'
  BY <1>1 DEF Storage!PlanInv, Storage!IntentInv, Storage!FinalInv, Storage!Final, Storage!OneWorks,
       Storage!Unworked, Storage!WorksOn, Storage!AppliedInv, Storage!Local
<1>4. \A b \in Brokers : Storage!BrokerOK(broker[b])'
  BY <1>1 DEF Storage!PlanInv, Storage!BrokerOK, Storage!Local
<1> QED BY <1>2, <1>3, <1>4 DEF Storage!PlanInv

(* A storage plan is applied at most once, whoever commits it and whatever  *)
(* answer is lost; what was answered of it stays so; a conditional          *)
(* provider's change replaced the revision it was prepared against, and a   *)
(* local delete keeps what it took away (storage.go, commitStorage).        *)
THEOREM PlansStayTrue == MCSpec => []PlansAreTrue
<1> DEFINE Inv == part = "storage" => Storage!PlanInv
<1>1. MCInit => Inv
  BY PlanInitially DEF MCInit
<1>2. Inv /\ [MCNext]_allVars => Inv'
  <2> SUFFICES ASSUME Inv, [MCNext]_allVars, part' = "storage" PROVE Storage!PlanInv'
    OBVIOUS
  <2>1. part' = part
    BY DEF MCNext, allVars
  <2>2. Storage!PlanInv
    BY <2>1
  <2>3. CASE Storage!Next
    BY <2>2, <2>3, PlanStep
  <2>4. CASE UNCHANGED storageVars
    BY <2>2, <2>4, PlanStutters
  <2> QED BY <2>1, <2>3, <2>4 DEF MCNext, allVars
<1>3. Inv => PlansAreTrue
  BY PlanSays DEF PlansAreTrue
<1> QED BY <1>1, <1>2, <1>3, PTL DEF MCSpec

-----------------------------------------------------------------------------
(* Metered searches. *)

LEMMA SearchInitially == Search!Init => Search!SearchInv
<1> SUFFICES ASSUME Search!Init PROVE Search!SearchInv
  OBVIOUS
<1>1. Search!Idle \in Search!CallRecords
  BY DEF Search!Idle, Search!CallRecords, Search!Steps, Search!Options
<1>2. Search!Damaged \in Search!Connections
  BY DEF Search!Damaged, Search!Connections, Search!Providers
<1>3. Search!TypeOK
  BY <1>1, <1>2 DEF Search!Init, Search!TypeOK
<1>4. Search!CallInv(Search!Idle)
  BY SearchAssumption DEF Search!Idle, Search!CallInv, Search!Underway, Search!Early, Search!Ends
<1>5. ASSUME NEW i \in Ids, connections[i] # None PROVE Search!ConnectionInv(i)
  <2>1. connections[i] = Search!Damaged
    BY <1>5 DEF Search!Init
  <2> QED BY <2>1 DEF Search!Init, Search!Damaged, Search!ConnectionInv, Search!Count
<1> QED BY <1>3, <1>4, <1>5 DEF Search!Init, Search!SearchInv, Search!ConnectionInv

(* A search's own step, which leaves the connections alone. *)
LEMMA CallMoves ==
  ASSUME Search!SearchInv, NEW c \in Procs, NEW r \in Search!CallRecords, Search!Step(c, r), Search!CallInv(r), Search!Same
  PROVE  Search!SearchInv'
<1>1. /\ calls' \in [Procs -> Search!CallRecords] /\ calls'[c] = r
      /\ \A d \in Procs : d # c => calls'[d] = calls[d]
  BY DEF Search!SearchInv, Search!TypeOK, Search!Step
<1>2. Search!TypeOK'
  BY <1>1 DEF Search!SearchInv, Search!TypeOK, Search!Same
<1>3. \A i \in Ids : Search!ConnectionInv(i)'
  BY DEF Search!SearchInv, Search!ConnectionInv, Search!Count, Search!Same
<1>4. \A d \in Procs : Search!CallInv(calls[d])'
  BY <1>1 DEF Search!SearchInv, Search!CallInv, Search!Superseded, Search!Same
<1> QED BY <1>2, <1>3, <1>4 DEF Search!SearchInv

(* A search that ends otherwise than with a result. *)
LEMMA CallAnswers ==
  ASSUME Search!SearchInv, NEW c \in Procs, NEW why \in Search!Ends, Search!Answer(c, why), Search!Same,
         why \in Search!Early => calls[c].sent = None,
         why = "result" => calls[c].sent # None /\ calls[c].live /\ ~ off
  PROVE  Search!SearchInv'
<1>1. PICK r, on : r = [calls[c] EXCEPT !.step = "done", !.answer = why, !.allowed = on] /\ on = ~ off
  OBVIOUS
<1>2. calls[c] \in Search!CallRecords /\ Search!CallInv(calls[c])
  BY DEF Search!SearchInv, Search!TypeOK
<1>a. on \in BOOLEAN
  BY <1>1
<1>3. r \in Search!CallRecords
  BY <1>1, <1>2, <1>a DEF Search!CallRecords, Search!Steps
<1>4. Search!CallInv(r)
  BY <1>1, <1>2, <1>a DEF Search!CallInv, Search!CallRecords, Search!Underway
<1> QED BY <1>1, <1>3, <1>4, CallMoves DEF Search!Answer

(* A change of the store: searches under way of what was changed are told. *)
LEMMA StoreChanges ==
  ASSUME Search!SearchInv, calls' = Search!Watch, off' = off, revisions' \in Nat, revisions <= revisions',
         connections' \in [Ids -> Search!Connections \cup {None}],
         \A i \in Ids : \/ connections'[i] = connections[i]
                        \/ connections'[i] = None
                        \/ connections'[i].revision > revisions
  PROVE  calls' \in [Procs -> Search!CallRecords] /\ \A c \in Procs : Search!CallInv(calls[c])'
<1> SUFFICES ASSUME NEW c \in Procs PROVE calls'[c] \in Search!CallRecords /\ Search!CallInv(calls[c])'
  BY DEF Search!Watch
<1>1. calls[c] \in Search!CallRecords /\ Search!CallInv(calls[c])
  BY DEF Search!SearchInv, Search!TypeOK
<1>2. CASE ~ (calls[c].live /\ calls[c].step # "done")
  <2>1. calls'[c] = calls[c]
    BY <1>2 DEF Search!Watch
  <2>2. CASE calls[c].step \in {"idle", "done"}
    BY <1>1, <2>1, <2>2 DEF Search!CallInv, Search!Underway
  <2>3. CASE calls[c].step \notin {"idle", "done"}
    <3>1. /\ calls[c].id \in Ids /\ calls[c].revision <= revisions /\ calls[c].revision \in Nat
          /\ calls[c].step \in Search!Underway => Search!Superseded(calls[c])
      BY <1>1, <1>2, <2>3 DEF Search!CallInv, Search!CallRecords
    <3>2. calls[c].revision <= revisions'
      BY <3>1 DEF Search!SearchInv, Search!TypeOK
    <3>3. Search!Superseded(calls[c]) => Search!Superseded(calls[c])'
      BY <2>1, <3>1 DEF Search!SearchInv, Search!TypeOK, Search!Superseded
    <3> QED BY <1>1, <1>2, <2>1, <3>1, <3>2, <3>3 DEF Search!CallInv
  <2> QED BY <2>2, <2>3
<1>3. CASE calls[c].live /\ calls[c].step # "done"
  <2>1. PICK on \in BOOLEAN : on = (connections'[calls[c].id] # None
                                    /\ connections'[calls[c].id].revision = calls[c].revision)
    OBVIOUS
  <2>2. calls'[c] = [calls[c] EXCEPT !.live = on]
    BY <1>3, <2>1 DEF Search!Watch
  <2>3. calls'[c] \in Search!CallRecords
    BY <1>1, <2>2 DEF Search!CallRecords
  <2>4. /\ calls'[c].step = calls[c].step /\ calls'[c].id = calls[c].id
        /\ calls'[c].revision = calls[c].revision /\ calls'[c].options = calls[c].options
        /\ calls'[c].provider = calls[c].provider /\ calls'[c].sent = calls[c].sent
        /\ calls'[c].answer = calls[c].answer /\ calls'[c].live = on
    BY <1>1, <2>2 DEF Search!CallRecords
  <2>5. calls[c].step \in Search!Underway
    BY <1>1, <1>3 DEF Search!CallInv, Search!CallRecords, Search!Steps, Search!Underway
  <2>6. calls[c].revision <= revisions' /\ calls[c].answer = None /\ calls[c].id \in Ids
    <3>1. calls[c].revision \in Nat /\ calls[c].revision <= revisions /\ calls[c].id \in Ids
      BY <1>1, <2>5 DEF Search!CallInv, Search!CallRecords, Search!Underway
    <3> QED BY <1>1, <1>3, <3>1 DEF Search!CallInv, Search!SearchInv, Search!TypeOK
  <2>7. on \/ Search!Superseded(calls[c])'
    BY <2>1, <2>4 DEF Search!Superseded
  <2> QED BY <1>1, <2>3, <2>4, <2>5, <2>6, <2>7, SearchAssumption DEF Search!CallInv, Search!Underway, Search!Early, Search!Ends
<1> QED BY <1>2, <1>3

LEMMA ConfigureStep ==
  ASSUME Search!SearchInv, NEW id \in Ids, NEW service \in Search!Providers, NEW limit \in 1 .. MaxLimit,
         Search!Configure(id, service, limit)
  PROVE  Search!SearchInv'
<1>1. PICK q : q = Search!Configured(id, service, limit)
  OBVIOUS
<1>2. /\ connections[id] \in Search!Connections \cup {None} /\ limit \in Nat
      /\ spent[id] \in Nat /\ most[id] \in Nat /\ revisions \in Nat
  BY DEF Search!SearchInv, Search!TypeOK
<1>3. /\ q \in Search!Connections /\ q.revision = revisions + 1 /\ q.limit = limit
      /\ connections[id] # None => q.day = connections[id].day /\ q.requests = connections[id].requests
  BY <1>1, <1>2 DEF Search!Configured, Search!Connections
<1>4. /\ connections' \in [Ids -> Search!Connections \cup {None}] /\ connections'[id] = q
      /\ \A i \in Ids : i # id => connections'[i] = connections[i]
  BY <1>1, <1>3 DEF Search!SearchInv, Search!TypeOK, Search!Configure
<1>5. /\ spent' \in [Ids -> Nat] /\ most' \in [Ids -> Nat]
      /\ spent'[id] = (IF connections[id] = None THEN 0 ELSE spent[id])
      /\ most'[id] = (IF connections[id] = None \/ limit > most[id] THEN limit ELSE most[id])
      /\ \A i \in Ids : i # id => spent'[i] = spent[i] /\ most'[i] = most[i]
  BY <1>2 DEF Search!SearchInv, Search!TypeOK, Search!Configure
<1>6. revisions' = revisions + 1 /\ off' = off /\ today' = today /\ calls' = Search!Watch
  BY DEF Search!Configure
<1>7. calls' \in [Procs -> Search!CallRecords] /\ \A c \in Procs : Search!CallInv(calls[c])'
  BY <1>2, <1>3, <1>4, <1>6, StoreChanges
<1>8. Search!TypeOK'
  BY <1>2, <1>4, <1>5, <1>6, <1>7 DEF Search!SearchInv, Search!TypeOK
<1>9. ASSUME NEW i \in Ids PROVE Search!ConnectionInv(i)'
  <2>1. CASE i = id
    <3>1. Search!Count(q)' \in Nat
      BY <1>3 DEF Search!Count, Search!Connections
    <3>2. CASE connections[id] = None
      BY <1>2, <1>3, <1>4, <1>5, <1>6, <2>1, <3>1, <3>2 DEF Search!ConnectionInv, Search!Count
    <3>3. CASE connections[id] # None
      <4>1. Search!Count(q)' = Search!Count(connections[id])
        BY <1>3, <1>6, <3>3 DEF Search!Count
      <4>2. spent[id] <= Search!Count(connections[id]) /\ spent[id] <= most[id]
        BY <3>3 DEF Search!SearchInv, Search!ConnectionInv
      <4>3. Search!Count(connections[i])' = Search!Count(connections[id])
        BY <1>3, <1>4, <1>6, <2>1, <3>3 DEF Search!Count
      <4> QED BY <1>2, <1>3, <1>4, <1>5, <1>6, <2>1, <3>3, <4>2, <4>3 DEF Search!ConnectionInv
    <3> QED BY <3>2, <3>3
  <2>2. CASE i # id
    <3>1. connections[i] # None => connections[i].revision \in Nat
      BY DEF Search!SearchInv, Search!TypeOK, Search!Connections
    <3> QED BY <1>2, <1>4, <1>5, <1>6, <2>2, <3>1 DEF Search!SearchInv, Search!ConnectionInv, Search!Count
  <2> QED BY <2>1, <2>2
<1> QED BY <1>7, <1>8, <1>9 DEF Search!SearchInv

LEMMA DisconnectStep ==
  ASSUME Search!SearchInv, NEW id \in Ids, Search!Disconnect(id)
  PROVE  Search!SearchInv'
<1>1. /\ connections' \in [Ids -> Search!Connections \cup {None}] /\ connections'[id] = None
      /\ \A i \in Ids : i # id => connections'[i] = connections[i]
  BY DEF Search!SearchInv, Search!TypeOK, Search!Disconnect
<1>2. calls' \in [Procs -> Search!CallRecords] /\ \A c \in Procs : Search!CallInv(calls[c])'
  BY <1>1, StoreChanges DEF Search!Disconnect, Search!SearchInv, Search!TypeOK
<1>3. Search!TypeOK'
  BY <1>1, <1>2 DEF Search!SearchInv, Search!TypeOK, Search!Disconnect
<1>4. \A i \in Ids : Search!ConnectionInv(i)'
  BY <1>1 DEF Search!SearchInv, Search!ConnectionInv, Search!Count, Search!Disconnect
<1> QED BY <1>2, <1>3, <1>4 DEF Search!SearchInv

(* The policy, set in either direction, is nothing a search under way is known by. *)
LEMMA PolicyStep ==
  ASSUME Search!SearchInv, Search!SetPolicy
  PROVE  Search!SearchInv'
<1>1. /\ connections' = connections /\ revisions' = revisions /\ today' = today /\ calls' = calls
      /\ spent' = spent /\ most' = most /\ off' \in BOOLEAN
  BY DEF Search!SetPolicy
<1>2. Search!TypeOK'
  BY <1>1 DEF Search!SearchInv, Search!TypeOK
<1>3. \A i \in Ids : Search!ConnectionInv(i)'
  BY <1>1 DEF Search!SearchInv, Search!ConnectionInv, Search!Count
<1>4. \A c \in Procs : Search!CallInv(calls[c])'
  BY <1>1 DEF Search!SearchInv, Search!CallInv, Search!Superseded
<1> QED BY <1>2, <1>3, <1>4 DEF Search!SearchInv

LEMMA DayStep ==
  ASSUME Search!SearchInv, Search!DayPasses
  PROVE  Search!SearchInv'
<1>1. /\ spent' \in [Ids -> Nat] /\ most' \in [Ids -> Nat] /\ \A i \in Ids : spent'[i] = 0
      /\ \A i \in Ids : connections[i] # None => most'[i] = connections[i].limit
  BY DEF Search!SearchInv, Search!TypeOK, Search!DayPasses, Search!Connections
<1>2. /\ connections' = connections /\ off' = off /\ revisions' = revisions /\ calls' = calls
      /\ today' = today + 1
  BY DEF Search!DayPasses
<1>3. Search!TypeOK'
  BY <1>1, <1>2 DEF Search!SearchInv, Search!TypeOK
<1>4. \A c \in Procs : Search!CallInv(calls[c])'
  BY <1>2 DEF Search!SearchInv, Search!CallInv, Search!Superseded
<1>5. ASSUME NEW i \in Ids, connections[i] # None
      PROVE  Search!ConnectionInv(i)'
  <2>1. connections[i] \in Search!Connections /\ connections[i].revision <= revisions
    BY <1>5 DEF Search!SearchInv, Search!TypeOK, Search!ConnectionInv
  <2>2. Search!Count(connections[i])' \in Nat
    BY <1>2, <2>1 DEF Search!Count, Search!Connections
  <2> QED BY <1>1, <1>2, <1>5, <2>1, <2>2 DEF Search!ConnectionInv, Search!Connections
<1> QED BY <1>2, <1>3, <1>4, <1>5 DEF Search!SearchInv, Search!ConnectionInv

LEMMA BeginSteps ==
  ASSUME Search!SearchInv, NEW c \in Procs, NEW id \in Ids,
         Search!Test(c, id) \/ \E n \in 0 .. MaxRevisions, o \in Search!Options : Search!ReadArguments(c, id, n, o)
  PROVE  Search!SearchInv'
<1>1. calls[c] \in Search!CallRecords /\ Search!CallInv(calls[c]) /\ calls[c].step = "idle"
  BY DEF Search!SearchInv, Search!TypeOK, Search!Test, Search!ReadArguments
<1>2. calls[c].answer = None /\ ~ calls[c].live /\ calls[c].sent = None
  BY <1>1 DEF Search!CallInv
<1>3. CASE Search!Test(c, id)
  <2>1. PICK r : r = [calls[c] EXCEPT !.step = "reserve", !.id = id, !.revision = connections[id].revision]
    OBVIOUS
  <2>2. connections[id].revision \in Nat /\ connections[id].revision <= revisions
    BY <1>3 DEF Search!Test, Search!SearchInv, Search!TypeOK, Search!ConnectionInv, Search!Connections
  <2>3. r \in Search!CallRecords /\ Search!CallInv(r)
    BY <1>1, <1>2, <2>1, <2>2, SearchAssumption DEF Search!CallRecords, Search!CallInv, Search!Steps, Search!Underway, Search!Early, Search!Ends
  <2> QED BY <1>3, <2>1, <2>3, CallMoves DEF Search!Test
<1>4. ASSUME NEW n \in 0 .. MaxRevisions, NEW o \in Search!Options, Search!ReadArguments(c, id, n, o) PROVE Search!SearchInv'
  <2>1. PICK r : r = [calls[c] EXCEPT !.step = IF o = "malformed" THEN "done" ELSE "reserve",
                        !.answer = IF o = "malformed" THEN "search-argument-invalid" ELSE None,
                        !.id = id, !.revision = n, !.options = o]
    OBVIOUS
  <2>2. n \in Nat /\ n <= revisions
    <3>1. n \in Nat
      BY SearchAssumption
    <3>2. n <= revisions
      BY <1>4 DEF Search!ReadArguments
    <3> QED BY <3>1, <3>2
  <2>3. r \in Search!CallRecords /\ Search!CallInv(r)
    BY <1>1, <1>2, <2>1, <2>2, SearchAssumption DEF Search!CallRecords, Search!CallInv, Search!Steps, Search!Underway, Search!Early, Search!Ends
  <2> QED BY <1>4, <2>1, <2>3, CallMoves DEF Search!ReadArguments
<1> QED BY <1>3, <1>4

LEMMA GoSteps ==
  ASSUME Search!SearchInv, NEW c \in Procs, Search!Token(c) \/ Search!Send(c) \/ Search!Confirm(c) \/ Search!Stop(c)
  PROVE  Search!SearchInv'
<1>1. calls[c] \in Search!CallRecords /\ Search!CallInv(calls[c])
  BY DEF Search!SearchInv, Search!TypeOK
<1>2. CASE Search!Token(c)
  <2>1. CASE \E why \in {"search-timeout", "credentials-required", "setup"} : Search!Answer(c, why)
    BY <1>2, <2>1, CallAnswers DEF Search!Token, Search!Early, Search!Ends, Search!Refusals
  <2>2. CASE Search!Step(c, [calls[c] EXCEPT !.step = "send"])
    <3>1. PICK r : r = [calls[c] EXCEPT !.step = "send"]
      OBVIOUS
    <3>2. r \in Search!CallRecords /\ Search!CallInv(r)
      BY <1>1, <1>2, <3>1 DEF Search!CallRecords, Search!CallInv, Search!Steps, Search!Underway, Search!Superseded, Search!Token
    <3> QED BY <1>2, <2>2, <3>1, <3>2, CallMoves DEF Search!Token
  <2> QED BY <1>2, <2>1, <2>2 DEF Search!Token
<1>3. CASE Search!Send(c)
  <2>1. PICK q : q = [calls[c] EXCEPT !.sent = <<calls[c].provider, calls[c].options>>]
    OBVIOUS
  <2>2. /\ calls[c].provider \in Search!Providers /\ calls[c].options \in Search!Options /\ calls[c].step = "send"
        /\ Search!Taken(calls[c].provider, calls[c].options)
    BY <1>1, <1>3 DEF Search!CallInv, Search!CallRecords, Search!Underway, Search!Send
  <2>3. PICK p, o : p = calls[c].provider /\ o = calls[c].options
    OBVIOUS
  <2>4. <<p, o>> \in Search!Providers \X Search!Options /\ <<p, o>> # None /\ <<p, o>>[1] = p /\ <<p, o>>[2] = o
    BY <2>2, <2>3, SearchAssumption
  <2>5. PICK end \in Search!Normalized(q.provider) \cup {"search-timeout", "credentials-required", "rate-limited"} :
          Search!Step(c, IF end = "ok" THEN [q EXCEPT !.step = "confirm"]
                  ELSE [q EXCEPT !.step = "done", !.answer = end])
    BY <1>3, <2>1 DEF Search!Send
  <2>6. end \in {"ok", "provider", "search-not-grounded", "search-timeout", "credentials-required", "rate-limited"}
    BY <2>5 DEF Search!Normalized
  <2>7. PICK r : r = IF end = "ok" THEN [q EXCEPT !.step = "confirm"]
                     ELSE [q EXCEPT !.step = "done", !.answer = end]
    OBVIOUS
  <2>8. /\ r.sent = <<p, o>> /\ r.id = calls[c].id /\ r.revision = calls[c].revision
        /\ r.options = o /\ r.provider = p /\ r.live = calls[c].live
        /\ r.step = (IF end = "ok" THEN "confirm" ELSE "done")
        /\ r.answer = (IF end = "ok" THEN calls[c].answer ELSE end)
        /\ r \in Search!CallRecords
    <3>1. q \in Search!CallRecords /\ q.sent = <<p, o>> /\ q.options = o /\ q.provider = p /\ q.id = calls[c].id
          /\ q.revision = calls[c].revision /\ q.live = calls[c].live /\ q.answer = calls[c].answer
      BY <1>1, <2>1, <2>3, <2>4 DEF Search!CallRecords
    <3>2. CASE end = "ok"
      BY <2>7, <3>1, <3>2 DEF Search!CallRecords, Search!Steps
    <3>3. CASE end # "ok"
      <4>1. r = [q EXCEPT !.step = "done", !.answer = end] /\ end \in Search!Ends
        BY <2>6, <2>7, <3>3 DEF Search!Ends
      <4> QED BY <3>1, <3>3, <4>1 DEF Search!CallRecords, Search!Steps
    <3> QED BY <3>2, <3>3
  <2>9. Search!CallInv(r)
    BY <1>1, <2>2, <2>3, <2>4, <2>6, <2>8, SearchAssumption DEF Search!CallInv, Search!Superseded, Search!Underway, Search!Early, Search!Ends
  <2> QED BY <1>3, <2>5, <2>7, <2>8, <2>9, CallMoves DEF Search!Send
<1>4. CASE Search!Confirm(c)
  <2>1. PICK why : why = CASE off -> "policy"
                 [] ~off /\ connections[calls[c].id] # None
                      /\ connections[calls[c].id].revision = calls[c].revision -> "result"
                 [] OTHER -> "changed"
    OBVIOUS
  <2>2. why \in {"policy", "result", "changed"} /\ (why = "result" => ~ Search!Superseded(calls[c]) /\ ~ off)
    BY <2>1 DEF Search!SearchInv, Search!TypeOK, Search!Superseded
  <2>3. why = "result" => calls[c].sent # None /\ calls[c].live /\ ~ off
    BY <1>1, <1>4, <2>2 DEF Search!CallInv, Search!Confirm, Search!Underway
  <2>4. Search!Answer(c, why) /\ Search!Same
    BY <1>4, <2>1 DEF Search!Confirm
  <2> QED BY <2>2, <2>3, <2>4, CallAnswers DEF Search!Early, Search!Ends, Search!Refusals
<1>5. CASE Search!Stop(c)
  <2>1. Search!Answer(c, "none") /\ Search!Same
    BY <1>5 DEF Search!Stop
  <2> QED BY <2>1, CallAnswers DEF Search!Early, Search!Ends
<1> QED BY <1>2, <1>3, <1>4, <1>5

(* The request is reserved in the store before anything is sent. *)
LEMMA ReserveStep ==
  ASSUME Search!SearchInv, NEW c \in Procs, Search!Reserve(c)
  PROVE  Search!SearchInv'
<1>1. PICK q \in Search!CallRecords : q = calls[c]
  BY DEF Search!SearchInv, Search!TypeOK
<1>2. /\ q.step = "reserve" /\ q.id \in Ids /\ q.revision <= revisions /\ q.sent = None /\ ~ q.live
      /\ q.answer = None
  BY <1>1 DEF Search!SearchInv, Search!CallInv, Search!Reserve
<1>3. CASE Search!Refused(c) # None /\ Search!Answer(c, Search!Refused(c)) /\ UNCHANGED <<connections, spent>>
  <2>1. Search!Refused(c) \in Search!Refusals
    BY <1>3 DEF Search!Refused, Search!Refusals
  <2>2. PICK why \in Search!Ends : why = Search!Refused(c) /\ why # "result"
    BY <2>1 DEF Search!Ends, Search!Refusals
  <2>3. Search!Answer(c, why) /\ Search!Same
    BY <1>3, <2>2 DEF Search!Reserve, Search!Same
  <2> QED BY <1>1, <1>2, <2>2, <2>3, CallAnswers
<1>4. CASE Search!Refused(c) = None
  <2>1. PICK id \in Ids : id = q.id
    BY <1>2
  <2>2. PICK k : k = connections[id]
    OBVIOUS
  <2>3. /\ k \in Search!Connections /\ k # None /\ ~ off /\ k.revision = q.revision
        /\ Search!Taken(k.provider, q.options) /\ ~ (Search!Count(k) >= k.limit)
    BY <1>1, <1>4, <2>1, <2>2, SearchAssumption DEF Search!Refused, Search!SearchValid, Search!Ends, Search!Refusals, Search!SearchInv, Search!TypeOK
  <2>4. /\ Search!Count(k) \in Nat /\ k.limit \in Nat /\ k.revision \in Nat /\ k.revision <= revisions
        /\ spent[id] <= Search!Count(k) /\ spent[id] <= most[id] /\ k.limit <= most[id]
    BY <2>2, <2>3 DEF Search!SearchInv, Search!ConnectionInv, Search!Count, Search!Connections
  <2>5. PICK r : r = [connections EXCEPT ![id].day = today, ![id].requests = Search!Count(connections[id]) + 1]
    OBVIOUS
  <2>6. PICK w : w = [k EXCEPT !.day = today, !.requests = Search!Count(k) + 1]
    OBVIOUS
  <2>a. PICK m \in Nat, t \in Nat : m = Search!Count(k) + 1 /\ t = today
    BY <2>4 DEF Search!SearchInv, Search!TypeOK
  <2>7. /\ w \in Search!Connections /\ w.revision = k.revision /\ w.limit = k.limit /\ w.provider = k.provider
        /\ w.day = today /\ w.requests = Search!Count(k) + 1
    BY <2>3, <2>6, <2>a DEF Search!Connections
  <2>8. /\ r \in [Ids -> Search!Connections \cup {None}] /\ r[id] = w
        /\ \A i \in Ids : i # id => r[i] = connections[i]
    BY <2>2, <2>5, <2>6, <2>7 DEF Search!SearchInv, Search!TypeOK
  <2>9. Search!Count(w) = Search!Count(k) + 1
    BY <2>7 DEF Search!Count
  <2>10. off' = off /\ revisions' = revisions /\ today' = today /\ most' = most
    BY DEF Search!Reserve
  <2>11. ASSUME NEW d \in Procs, connections' \in {r, connections}, calls'[d] = calls[d]
         PROVE  Search!CallInv(calls[d])'
    <3>1. Search!CallInv(calls[d])
      BY DEF Search!SearchInv
    <3>2. ASSUME calls[d].id \in Ids, Search!Superseded(calls[d]) PROVE Search!Superseded(calls[d])'
      <4>1. CASE connections' = connections
        BY <2>10, <2>11, <3>2, <4>1 DEF Search!Superseded
      <4>2. CASE connections' = r /\ calls[d].id = id
        BY <2>2, <2>3, <2>7, <2>8, <2>10, <2>11, <3>2, <4>2 DEF Search!Superseded
      <4>3. CASE connections' = r /\ calls[d].id # id
        BY <2>8, <2>10, <2>11, <3>2, <4>3 DEF Search!Superseded
      <4> QED BY <2>11, <4>1, <4>2, <4>3
    <3>3. calls[d].step \in Search!Underway => calls[d].id \in Ids
      BY <3>1 DEF Search!CallInv, Search!Underway
    <3> QED BY <2>10, <2>11, <3>1, <3>2, <3>3 DEF Search!CallInv
  <2>12. CASE /\ connections' = r /\ spent' = [spent EXCEPT ![id] = spent[id] + 1]
              /\ Search!Step(c, [q EXCEPT !.step = "token", !.provider = k.provider, !.live = TRUE])
    <3>1. PICK n : n = [q EXCEPT !.step = "token", !.provider = k.provider, !.live = TRUE]
      OBVIOUS
    <3>2. /\ n \in Search!CallRecords /\ n.step = "token" /\ n.provider = k.provider /\ n.live = TRUE /\ n.id = id
          /\ n.revision = q.revision /\ n.options = q.options /\ n.sent = None /\ n.answer = None
          /\ k.provider \in Search!Providers
      BY <1>2, <2>1, <2>3, <3>1 DEF Search!CallRecords, Search!Connections, Search!Steps
    <3>3. /\ calls' \in [Procs -> Search!CallRecords] /\ calls'[c] = n
          /\ \A d \in Procs : d # c => calls'[d] = calls[d]
      BY <2>12, <3>1, <3>2 DEF Search!SearchInv, Search!TypeOK, Search!Step
    <3>4. /\ spent' \in [Ids -> Nat] /\ spent'[id] = spent[id] + 1
          /\ \A i \in Ids : i # id => spent'[i] = spent[i]
      BY <2>12 DEF Search!SearchInv, Search!TypeOK
    <3>5. Search!TypeOK'
      BY <2>8, <2>10, <2>12, <3>3, <3>4 DEF Search!SearchInv, Search!TypeOK
    <3>6. ASSUME NEW i \in Ids PROVE Search!ConnectionInv(i)'
      <4>1. CASE i = id
        <5>1. Search!Count(connections[i])' = Search!Count(k) + 1
          BY <2>7, <2>8, <2>10, <2>12, <4>1 DEF Search!Count
        <5>2. spent[id] \in Nat /\ most[id] \in Nat /\ revisions \in Nat
          BY DEF Search!SearchInv, Search!TypeOK
        <5> QED BY <2>3, <2>4, <2>7, <2>8, <2>10, <2>12, <3>4, <4>1, <5>1, <5>2 DEF Search!ConnectionInv
      <4>2. CASE i # id
        BY <2>8, <2>10, <2>12, <3>4, <4>2 DEF Search!SearchInv, Search!ConnectionInv, Search!Count
      <4> QED BY <4>1, <4>2
    <3>7. Search!CallInv(calls[c])'
      BY <1>2, <2>3, <2>10, <3>2, <3>3, SearchAssumption DEF Search!CallInv, Search!Underway, Search!Ends, Search!Early
    <3> QED BY <2>11, <2>12, <3>3, <3>5, <3>6, <3>7 DEF Search!SearchInv
  <2>13. CASE connections' \in {r, connections} /\ Search!Answer(c, "storage") /\ UNCHANGED spent
    <3>1. PICK n, on : n = [q EXCEPT !.step = "done", !.answer = "storage", !.allowed = on] /\ on = ~ off
      OBVIOUS
    <3>a. on \in BOOLEAN
      BY <3>1
    <3>2. /\ n \in Search!CallRecords /\ n.step = "done" /\ n.answer = "storage" /\ n.sent = None
      BY <1>2, <3>1, <3>a DEF Search!CallRecords, Search!Steps, Search!Ends, Search!Early
    <3>3. /\ calls' \in [Procs -> Search!CallRecords] /\ calls'[c] = n
          /\ \A d \in Procs : d # c => calls'[d] = calls[d]
      BY <1>1, <2>13, <3>1, <3>2 DEF Search!SearchInv, Search!TypeOK, Search!Step, Search!Answer
    <3>4. Search!TypeOK'
      BY <2>8, <2>10, <2>13, <3>3 DEF Search!SearchInv, Search!TypeOK
    <3>5. ASSUME NEW i \in Ids PROVE Search!ConnectionInv(i)'
      <4>1. CASE i = id /\ connections' = r
        <5>1. Search!Count(connections[i])' = Search!Count(k) + 1
          BY <2>7, <2>8, <2>10, <4>1 DEF Search!Count
        <5>2. spent[id] \in Nat /\ most[id] \in Nat /\ revisions \in Nat
          BY DEF Search!SearchInv, Search!TypeOK
        <5> QED BY <2>3, <2>4, <2>7, <2>8, <2>10, <2>13, <4>1, <5>1, <5>2 DEF Search!ConnectionInv
      <4>2. CASE connections'[i] = connections[i]
        BY <2>10, <2>13, <4>2 DEF Search!SearchInv, Search!ConnectionInv, Search!Count
      <4> QED BY <2>8, <2>13, <4>1, <4>2
    <3>6. Search!CallInv(calls[c])'
      BY <3>2, <3>3, SearchAssumption DEF Search!CallInv, Search!Underway, Search!Ends, Search!Early
    <3> QED BY <2>11, <2>13, <3>3, <3>4, <3>5, <3>6 DEF Search!SearchInv
  <2> QED BY <1>1, <1>4, <2>1, <2>2, <2>5, <2>12, <2>13 DEF Search!Reserve
<1> QED BY <1>3, <1>4 DEF Search!Reserve

LEMMA SearchStep ==
  ASSUME Search!SearchInv, Search!Next
  PROVE  Search!SearchInv'
BY ConfigureStep, DisconnectStep, PolicyStep, DayStep, BeginSteps, GoSteps, ReserveStep DEF Search!Next

LEMMA SearchSays == Search!SearchInv => Search!SearchesAreAccounted
BY DEF Search!SearchInv, Search!ConnectionInv, Search!CallInv, Search!Early, Search!SearchesAreAccounted

LEMMA SearchStutters ==
  ASSUME Search!SearchInv, UNCHANGED searchVars
  PROVE  Search!SearchInv'
<1>1. /\ connections' = connections /\ off' = off /\ revisions' = revisions /\ today' = today
      /\ calls' = calls /\ spent' = spent /\ most' = most
  BY DEF searchVars
<1>2. Search!TypeOK'
  BY <1>1 DEF Search!SearchInv, Search!TypeOK
<1>3. \A i \in Ids : Search!ConnectionInv(i)'
  BY <1>1 DEF Search!SearchInv, Search!ConnectionInv, Search!Count
<1>4. \A c \in Procs : Search!CallInv(calls[c])'
  BY <1>1 DEF Search!SearchInv, Search!CallInv, Search!Superseded
<1> QED BY <1>2, <1>3, <1>4 DEF Search!SearchInv

(* No more searches of a connection are let go on a day than the largest    *)
(* limit it had that day, a refusal that says nothing was sent sent         *)
(* nothing, and a result is of a connection neither changed nor             *)
(* disconnected since its request was reserved, given while the policy      *)
(* allows it (web_search.go, searchSnapshotWith and searchCurrent).         *)
THEOREM SearchesStayAccounted == MCSpec => []SearchesAreAccounted
<1> DEFINE Inv == part = "search" => Search!SearchInv
<1>1. MCInit => Inv
  BY SearchInitially DEF MCInit
<1>2. Inv /\ [MCNext]_allVars => Inv'
  <2> SUFFICES ASSUME Inv, [MCNext]_allVars, part' = "search" PROVE Search!SearchInv'
    OBVIOUS
  <2>1. part' = part
    BY DEF MCNext, allVars
  <2>2. Search!SearchInv
    BY <2>1
  <2>3. CASE Search!Next
    BY <2>2, <2>3, SearchStep
  <2>4. CASE UNCHANGED searchVars
    BY <2>2, <2>4, SearchStutters
  <2> QED BY <2>1, <2>3, <2>4 DEF MCNext, allVars
<1>3. Inv => SearchesAreAccounted
  BY SearchSays DEF SearchesAreAccounted
<1> QED BY <1>1, <1>2, <1>3, PTL DEF MCSpec

-----------------------------------------------------------------------------
(* The calls of a witness. *)

(* The witness's count of a set is the count of that set. *)
LEMMA SameCount ==
  ASSUME NEW S
  PROVE  Witness!Cardinality(S) = Cardinality(S)
BY DEF Witness!Cardinality, Cardinality

LEMMA Recounted ==
  ASSUME NEW S, NEW T, S \subseteq Requests, T \subseteq Requests, NEW r \in Requests,
         \A x \in Requests : x # r => (x \in S <=> x \in T)
  PROVE  /\ Cardinality(S) \in Nat
         /\ (r \in S <=> r \in T) => Cardinality(T) = Cardinality(S)
         /\ r \notin S /\ r \in T => Cardinality(T) = Cardinality(S) + 1
         /\ r \in S /\ r \notin T => Cardinality(T) = Cardinality(S) - 1
<1>1. IsFiniteSet(S) /\ IsFiniteSet(T)
  BY WitnessAssumption, FS_Subset
<1>2. Cardinality(S) \in Nat /\ Cardinality(T) \in Nat
  BY <1>1, FS_CardinalityType
<1>3. ASSUME r \in S <=> r \in T PROVE Cardinality(T) = Cardinality(S)
  <2>1. S = T
    BY <1>3
  <2> QED BY <2>1
<1>4. ASSUME r \notin S, r \in T PROVE Cardinality(T) = Cardinality(S) + 1
  <2>1. T = S \cup {r}
    BY <1>4
  <2> QED BY <1>1, <1>4, <2>1, FS_AddElement
<1>5. ASSUME r \in S, r \notin T PROVE Cardinality(T) = Cardinality(S) - 1
  <2>1. T = S \ {r}
    BY <1>5
  <2> QED BY <1>1, <1>2, <1>5, <2>1, FS_RemoveElement
<1> QED BY <1>2, <1>3, <1>4, <1>5

LEMMA OrderInitially == Witness!Init => Witness!OrderInv
<1> SUFFICES ASSUME Witness!Init PROVE Witness!OrderInv
  OBVIOUS
<1>1. Witness!Idle \in Witness!RequestRecords /\ Witness!Idle.pc = "new"
  BY DEF Witness!Idle, Witness!RequestRecords, Witness!Pcs
<1>2. Witness!TypeOK
  BY <1>1 DEF Witness!Init, Witness!TypeOK
<1>3. \A r \in Requests : req[r].pc = "new"
  BY <1>1 DEF Witness!Init
<1>4. \A r \in Requests : Witness!RequestOK(req[r])
  BY <1>3 DEF Witness!RequestOK
<1>5. Witness!CountInv
  <2>1. \A s \in Subjects : {r \in Requests : Witness!HasOf(req[r], s)} = {}
    BY <1>3 DEF Witness!HasOf
  <2>2. {r \in Requests : Witness!HasOwn(req[r])} = {} /\ {r \in Requests : Witness!HasRead(req[r])} = {}
    BY <1>3 DEF Witness!HasOwn, Witness!HasRead
  <2>3. Cardinality({}) = 0
    BY FS_EmptySet
  <2> QED BY <2>1, <2>2, <2>3, SameCount DEF Witness!Init, Witness!CountInv
<1> QED BY <1>2, <1>4, <1>5 DEF Witness!Init, Witness!OrderInv

(* What a request's step does to the counts. *)
One(b) == IF b THEN 1 ELSE 0

LEMMA RequestMoves ==
  ASSUME Witness!OrderInv, NEW r \in Requests, NEW q \in Witness!RequestRecords, req' = [req EXCEPT ![r] = q],
         Witness!RequestOK(q), spec' = spec, hour' = hour,
         flying' \in [Subjects -> Int], submitting' \in Int, reading' \in Int,
         reg' \in [Trails -> Subjects \cup {None}],
         \A s \in Subjects : flying'[s] = flying[s] + One(Witness!HasOf(q, s)) - One(Witness!HasOf(req[r], s)),
         submitting' = submitting + One(Witness!HasOwn(q)) - One(Witness!HasOwn(req[r])),
         reading' = reading + One(Witness!HasRead(q)) - One(Witness!HasRead(req[r])),
         \A a \in acts' : a \in acts \/ Witness!ActOK(a)
  PROVE  Witness!OrderInv'
<1>1. /\ req' \in [Requests -> Witness!RequestRecords] /\ req'[r] = q
      /\ \A x \in Requests : x # r => req'[x] = req[x]
  BY DEF Witness!OrderInv, Witness!TypeOK
<1>2. Witness!TypeOK'
  BY <1>1 DEF Witness!OrderInv, Witness!TypeOK
<1>3. \A x \in Requests : Witness!RequestOK(req[x])'
  BY <1>1 DEF Witness!OrderInv, Witness!RequestOK, Witness!RefusesToken, Witness!Submits, Witness!Listed
<1>4. \A a \in acts' : Witness!ActOK(a)'
  BY DEF Witness!OrderInv, Witness!ActOK, Witness!RefusesToken, Witness!Submits, Witness!Listed
<1>5. ASSUME NEW s \in Subjects
      PROVE  flying'[s] = Cardinality({x \in Requests : Witness!HasOf(req'[x], s)})
  <2>1. PICK S, T : S = {x \in Requests : Witness!HasOf(req[x], s)} /\ T = {x \in Requests : Witness!HasOf(req'[x], s)}
    OBVIOUS
  <2>2. \A x \in Requests : x # r => (x \in S <=> x \in T)
    BY <1>1, <2>1
  <2>3. (r \in S <=> Witness!HasOf(req[r], s)) /\ (r \in T <=> Witness!HasOf(q, s))
    BY <1>1, <2>1
  <2>4. S \subseteq Requests /\ T \subseteq Requests /\ flying[s] = Cardinality(S)
    BY <2>1, SameCount DEF Witness!OrderInv, Witness!CountInv
  <2>5. /\ Cardinality(S) \in Nat
        /\ (r \in S <=> r \in T) => Cardinality(T) = Cardinality(S)
        /\ r \notin S /\ r \in T => Cardinality(T) = Cardinality(S) + 1
        /\ r \in S /\ r \notin T => Cardinality(T) = Cardinality(S) - 1
    BY <2>2, <2>4, Recounted
  <2>6. flying'[s] = flying[s] + One(Witness!HasOf(q, s)) - One(Witness!HasOf(req[r], s))
    OBVIOUS
  <2>7. flying'[s] = Cardinality(T)
    BY <2>3, <2>4, <2>5, <2>6 DEF One
  <2> QED BY <2>1, <2>7
<1>6. submitting' = Cardinality({x \in Requests : Witness!HasOwn(req'[x])})
  <2>1. PICK S, T : S = {x \in Requests : Witness!HasOwn(req[x])} /\ T = {x \in Requests : Witness!HasOwn(req'[x])}
    OBVIOUS
  <2>2. \A x \in Requests : x # r => (x \in S <=> x \in T)
    BY <1>1, <2>1
  <2>3. (r \in S <=> Witness!HasOwn(req[r])) /\ (r \in T <=> Witness!HasOwn(q))
    BY <1>1, <2>1
  <2>4. S \subseteq Requests /\ T \subseteq Requests /\ submitting = Cardinality(S)
    BY <2>1, SameCount DEF Witness!OrderInv, Witness!CountInv
  <2>5. /\ Cardinality(S) \in Nat
        /\ (r \in S <=> r \in T) => Cardinality(T) = Cardinality(S)
        /\ r \notin S /\ r \in T => Cardinality(T) = Cardinality(S) + 1
        /\ r \in S /\ r \notin T => Cardinality(T) = Cardinality(S) - 1
    BY <2>2, <2>4, Recounted
  <2>6. submitting' = Cardinality(T)
    BY <2>3, <2>4, <2>5 DEF One
  <2> QED BY <2>1, <2>6
<1>7. reading' = Cardinality({x \in Requests : Witness!HasRead(req'[x])})
  <2>1. PICK S, T : S = {x \in Requests : Witness!HasRead(req[x])} /\ T = {x \in Requests : Witness!HasRead(req'[x])}
    OBVIOUS
  <2>2. \A x \in Requests : x # r => (x \in S <=> x \in T)
    BY <1>1, <2>1
  <2>3. (r \in S <=> Witness!HasRead(req[r])) /\ (r \in T <=> Witness!HasRead(q))
    BY <1>1, <2>1
  <2>4. S \subseteq Requests /\ T \subseteq Requests /\ reading = Cardinality(S)
    BY <2>1, SameCount DEF Witness!OrderInv, Witness!CountInv
  <2>5. /\ Cardinality(S) \in Nat
        /\ (r \in S <=> r \in T) => Cardinality(T) = Cardinality(S)
        /\ r \notin S /\ r \in T => Cardinality(T) = Cardinality(S) + 1
        /\ r \in S /\ r \notin T => Cardinality(T) = Cardinality(S) - 1
    BY <2>2, <2>4, Recounted
  <2>6. reading' = Cardinality(T)
    BY <2>3, <2>4, <2>5 DEF One
  <2> QED BY <2>1, <2>6
<1>8. Witness!CountInv'
  BY <1>5, <1>6, <1>7, SameCount DEF Witness!CountInv, Witness!HasOf, Witness!HasOwn, Witness!HasRead
<1> QED BY <1>2, <1>3, <1>4, <1>8 DEF Witness!OrderInv

(* The records a request moves to. *)
LEMMA RequestGoes ==
  ASSUME Witness!OrderInv, NEW r \in Requests, NEW at \in Witness!Pcs
  PROVE  \E q \in Witness!RequestRecords :
           /\ q = [req[r] EXCEPT !.pc = at] /\ q.pc = at
           /\ q.kind = req[r].kind /\ q.tok = req[r].tok /\ q.trail = req[r].trail /\ q.to = req[r].to
           /\ q.body = req[r].body
<1>1. PICK q : q = [req[r] EXCEPT !.pc = at]
  OBVIOUS
<1>2. req[r] \in Witness!RequestRecords
  BY DEF Witness!OrderInv, Witness!TypeOK
<1>3. /\ q \in Witness!RequestRecords /\ q.pc = at
      /\ q.kind = req[r].kind /\ q.tok = req[r].tok /\ q.trail = req[r].trail /\ q.to = req[r].to
      /\ q.body = req[r].body
  BY <1>1, <1>2 DEF Witness!RequestRecords
<1> QED BY <1>1, <1>3

LEMMA RequestDone ==
  ASSUME NEW a \in Witness!Answers
  PROVE  \E q \in Witness!RequestRecords :
           /\ q = [Witness!Idle EXCEPT !.pc = "done", !.answer = a] /\ q.pc = "done"
           /\ Witness!RequestOK(q)
           /\ ~ Witness!HasOwn(q) /\ ~ Witness!HasRead(q) /\ \A s \in Subjects : ~ Witness!HasOf(q, s)
<1>1. PICK q : q = [Witness!Idle EXCEPT !.pc = "done", !.answer = a]
  OBVIOUS
<1>2. q \in Witness!RequestRecords /\ q.pc = "done"
  BY <1>1 DEF Witness!Idle, Witness!RequestRecords, Witness!Pcs
<1> QED BY <1>1, <1>2 DEF Witness!RequestOK, Witness!HasOwn, Witness!HasRead, Witness!HasOf

(* A request that is answered gives back the places it has. *)
LEMMA RequestEnds ==
  ASSUME Witness!OrderInv, NEW r \in Requests, NEW a \in Witness!Answers, Witness!Answer(r, a), spec' = spec, hour' = hour,
         flying' \in [Subjects -> Int], submitting' \in Int, reading' \in Int,
         reg' \in [Trails -> Subjects \cup {None}],
         \A s \in Subjects : flying'[s] = flying[s] - One(Witness!HasOf(req[r], s)),
         submitting' = submitting - One(Witness!HasOwn(req[r])),
         reading' = reading - One(Witness!HasRead(req[r])),
         \A x \in acts' : x \in acts \/ Witness!ActOK(x)
  PROVE  Witness!OrderInv'
<1>1. PICK q \in Witness!RequestRecords :
        /\ q = [Witness!Idle EXCEPT !.pc = "done", !.answer = a] /\ Witness!RequestOK(q)
        /\ ~ Witness!HasOwn(q) /\ ~ Witness!HasRead(q) /\ \A s \in Subjects : ~ Witness!HasOf(q, s)
  BY RequestDone
<1>2. req' = [req EXCEPT ![r] = q]
  BY <1>1 DEF Witness!Answer
<1>3. \A s \in Subjects : flying[s] \in Int
  BY DEF Witness!OrderInv, Witness!TypeOK
<1>4. \A s \in Subjects : flying'[s] = flying[s] + One(Witness!HasOf(q, s)) - One(Witness!HasOf(req[r], s))
  BY <1>1, <1>3 DEF One
<1>5. submitting' = submitting + One(Witness!HasOwn(q)) - One(Witness!HasOwn(req[r]))
  BY <1>1 DEF One, Witness!OrderInv, Witness!TypeOK
<1>6. reading' = reading + One(Witness!HasRead(q)) - One(Witness!HasRead(req[r]))
  BY <1>1 DEF One, Witness!OrderInv, Witness!TypeOK
<1> QED BY <1>1, <1>2, <1>4, <1>5, <1>6, RequestMoves

(* A submitter's request, from its place to its answer, and its subject. *)
LEMMA HoldsItsPlace ==
  ASSUME Witness!OrderInv, NEW r \in Requests, req[r].pc \notin {"new", "done"}, req[r].kind # "read"
  PROVE  /\ req[r].kind \in Witness!Written /\ req[r].tok \in Tokens
         /\ req[r].tok.sub \in Subjects /\ flying[req[r].tok.sub] \in Int
         /\ ~ Witness!HasRead(req[r])
         /\ req[r].pc \in {"body", "log"} <=> Witness!HasOwn(req[r])
         /\ \A s \in Subjects :
              Witness!HasOf(req[r], s) <=> req[r].pc \in {"place", "body", "log"} /\ s = req[r].tok.sub
<1>1. req[r].kind \in Witness!Written /\ req[r].tok \in Tokens
  BY DEF Witness!OrderInv, Witness!RequestOK, Witness!Kinds, Witness!Written
<1>2. req[r].tok.sub \in Subjects
  BY <1>1, WitnessAssumption
<1>3. flying[req[r].tok.sub] \in Int
  BY <1>2 DEF Witness!OrderInv, Witness!TypeOK
<1> QED BY <1>1, <1>2, <1>3 DEF Witness!HasOf, Witness!HasOwn, Witness!HasRead

(* A request that leaves gives back both its places. *)
LEMMA RequestLeaves ==
  ASSUME Witness!OrderInv, NEW r \in Requests, NEW a \in Witness!Answers, Witness!Answer(r, a), Witness!Leave(r),
         req[r].pc \in {"body", "log"}, req[r].kind # "read",
         spec' = spec, hour' = hour, reading' = reading,
         reg' \in [Trails -> Subjects \cup {None}],
         \A x \in acts' : x \in acts \/ Witness!ActOK(x)
  PROVE  Witness!OrderInv'
<1>1. PICK u \in Subjects : u = req[r].tok.sub
  BY HoldsItsPlace
<1>2. ~ Witness!HasRead(req[r]) /\ Witness!HasOwn(req[r]) /\ \A s \in Subjects : Witness!HasOf(req[r], s) <=> s = u
  BY <1>1, HoldsItsPlace
<1>3. flying \in [Subjects -> Int] /\ submitting \in Int /\ reading \in Int
  BY DEF Witness!OrderInv, Witness!TypeOK
<1>4. flying' = [flying EXCEPT ![u] = flying[u] - 1] /\ submitting' = submitting - 1
  BY <1>1 DEF Witness!Leave
<1>5. flying' \in [Subjects -> Int] /\ submitting' \in Int /\ reading' \in Int
  BY <1>3, <1>4
<1>6. \A s \in Subjects : flying'[s] = flying[s] - One(Witness!HasOf(req[r], s))
  BY <1>2, <1>3, <1>4 DEF One
<1>7. submitting' = submitting - One(Witness!HasOwn(req[r])) /\ reading' = reading - One(Witness!HasRead(req[r]))
  BY <1>2, <1>3, <1>4 DEF One
<1> QED BY <1>5, <1>6, <1>7, RequestEnds

(* An answer to a request that has no place. *)
LEMMA RequestRefused ==
  ASSUME Witness!OrderInv, NEW r \in Requests, NEW a \in Witness!Answers, Witness!Answer(r, a),
         ~ Witness!HasOwn(req[r]), ~ Witness!HasRead(req[r]), \A s \in Subjects : ~ Witness!HasOf(req[r], s),
         UNCHANGED <<spec, hour, Witness!places, Witness!log>>
  PROVE  Witness!OrderInv'
<1>1. /\ flying \in [Subjects -> Int] /\ submitting \in Int /\ reading \in Int
      /\ reg \in [Trails -> Subjects \cup {None}]
  BY DEF Witness!OrderInv, Witness!TypeOK
<1>2. /\ flying' = flying /\ submitting' = submitting /\ reading' = reading /\ reg' = reg /\ acts' = acts
      /\ spec' = spec /\ hour' = hour
  BY DEF Witness!places, Witness!log
<1>3. \A s \in Subjects : flying'[s] = flying[s] - One(Witness!HasOf(req[r], s))
  BY <1>1, <1>2 DEF One
<1>4. submitting' = submitting - One(Witness!HasOwn(req[r])) /\ reading' = reading - One(Witness!HasRead(req[r]))
  BY <1>1, <1>2 DEF One
<1> QED BY <1>1, <1>2, <1>3, <1>4, RequestEnds

(* A request goes on, and neither takes nor gives back a place. *)
LEMMA RequestGoesOn ==
  ASSUME Witness!OrderInv, NEW r \in Requests, NEW q \in Witness!RequestRecords, req' = [req EXCEPT ![r] = q],
         Witness!RequestOK(q),
         Witness!HasOwn(q) <=> Witness!HasOwn(req[r]), Witness!HasRead(q) <=> Witness!HasRead(req[r]),
         \A s \in Subjects : Witness!HasOf(q, s) <=> Witness!HasOf(req[r], s),
         UNCHANGED <<spec, hour, Witness!places, Witness!log>>
  PROVE  Witness!OrderInv'
<1>1. /\ flying \in [Subjects -> Int] /\ submitting \in Int /\ reading \in Int
      /\ reg \in [Trails -> Subjects \cup {None}]
  BY DEF Witness!OrderInv, Witness!TypeOK
<1>2. /\ flying' = flying /\ submitting' = submitting /\ reading' = reading /\ reg' = reg /\ acts' = acts
      /\ spec' = spec /\ hour' = hour
  BY DEF Witness!places, Witness!log
<1>3. \A s \in Subjects : flying'[s] = flying[s] + One(Witness!HasOf(q, s)) - One(Witness!HasOf(req[r], s))
  BY <1>1, <1>2 DEF One
<1>4. /\ submitting' = submitting + One(Witness!HasOwn(q)) - One(Witness!HasOwn(req[r]))
      /\ reading' = reading + One(Witness!HasRead(q)) - One(Witness!HasRead(req[r]))
  BY <1>1, <1>2 DEF One
<1> QED BY <1>1, <1>2, <1>3, <1>4, RequestMoves

LEMMA ArriveStep ==
  ASSUME Witness!OrderInv, NEW r \in Requests, Witness!Arrive(r)
  PROVE  Witness!OrderInv'
<1>1. /\ req[r].pc = "new" /\ ~ Witness!HasOwn(req[r]) /\ ~ Witness!HasRead(req[r])
      /\ \A s \in Subjects : ~ Witness!HasOf(req[r], s)
  BY DEF Witness!Arrive, Witness!At, Witness!HasOwn, Witness!HasRead, Witness!HasOf
<1>2. UNCHANGED <<spec, hour, Witness!places, Witness!log>>
  BY DEF Witness!Arrive
<1>3. CASE Witness!Answer(r, "refused")
  BY <1>1, <1>2, <1>3, RequestRefused DEF Witness!Answers
<1>4. ASSUME NEW k \in Witness!Kinds, NEW tok \in (IF k = "read" THEN {None} ELSE Tokens), ~ Witness!Refused(k, tok), Witness!Admit(r, k, tok)
      PROVE  Witness!OrderInv'
  <2>0. PICK b \in (IF k = "submit" THEN Bodies ELSE {<<>>}),
             t \in (IF k = "submit" THEN {None} ELSE Trails),
             to \in (IF k = "register" THEN Subjects ELSE {None}) :
          req' = [req EXCEPT ![r] =
            [Witness!Idle EXCEPT !.kind = k, !.tok = tok, !.trail = t, !.to = to, !.body = b,
               !.pc = CASE k = "submit" -> "clock" [] k = "read" -> "place" [] OTHER -> "enter"]]
    BY <1>4 DEF Witness!Admit
  <2>1. PICK at : at = CASE k = "submit" -> "clock" [] k = "read" -> "place" [] OTHER -> "enter"
    OBVIOUS
  <2>2. /\ at \in {"clock", "place", "enter"}
        /\ at = "clock" <=> k = "submit"
        /\ at = "place" <=> k = "read"
    BY <2>1
  <2>3. PICK q : q = [Witness!Idle EXCEPT !.kind = k, !.tok = tok, !.trail = t, !.to = to, !.body = b, !.pc = at]
    OBVIOUS
  <2>4. q.pc = at /\ q.kind = k /\ q.tok = tok /\ q.trail = t /\ q.to = to /\ q.body = b
    BY <2>3 DEF Witness!Idle
  <2>5. /\ tok \in Tokens \cup {None} /\ t \in Trails \cup {None} /\ to \in Subjects \cup {None}
        /\ b \in Bodies \cup {<<>>}
    BY <1>4, <2>0
  <2>6. q \in Witness!RequestRecords
    BY <2>2, <2>3, <2>5 DEF Witness!Idle, Witness!RequestRecords, Witness!Pcs
  <2>7. /\ k = "submit" => spec.audience \in tok.auds
        /\ k \in {"register", "retire"} => ~ Witness!RefusesToken(spec, tok)
    BY <1>4 DEF Witness!Refused, Witness!BearerCallerFor, Witness!EngineCaller
  <2>8. Witness!RequestOK(q)
    BY <1>4, <2>0, <2>2, <2>4, <2>7 DEF Witness!RequestOK
  <2>9. ~ Witness!HasOwn(q) /\ ~ Witness!HasRead(q) /\ \A s \in Subjects : ~ Witness!HasOf(q, s)
    BY <2>2, <2>4 DEF Witness!HasOwn, Witness!HasRead, Witness!HasOf, Witness!Written
  <2>10. req' = [req EXCEPT ![r] = q]
    BY <2>0, <2>1, <2>3
  <2> QED BY <1>1, <1>2, <2>6, <2>8, <2>9, <2>10, RequestGoesOn
<1>5. \/ Witness!Answer(r, "refused")
      \/ \E k \in Witness!Kinds : \E tok \in (IF k = "read" THEN {None} ELSE Tokens) :
           ~ Witness!Refused(k, tok) /\ Witness!Admit(r, k, tok)
  BY DEF Witness!Arrive
<1> QED BY <1>3, <1>4, <1>5

LEMMA ClockSteps ==
  ASSUME Witness!OrderInv, NEW r \in Requests, Witness!ReadClock(r) \/ Witness!Count(r)
  PROVE  Witness!OrderInv'
<1>1. /\ req[r].pc \in {"clock", "window"} /\ req[r].kind = "submit" /\ ~ Witness!HasOwn(req[r]) /\ ~ Witness!HasRead(req[r])
      /\ \A s \in Subjects : ~ Witness!HasOf(req[r], s)
  BY DEF Witness!ReadClock, Witness!Count, Witness!At, Witness!HasOwn, Witness!HasRead, Witness!HasOf, Witness!OrderInv, Witness!RequestOK
<1>2. UNCHANGED <<spec, hour, Witness!places, Witness!log>>
  BY DEF Witness!ReadClock, Witness!Count
<1>3. CASE Witness!ReadClock(r)
  <2>1. PICK q : q = [req[r] EXCEPT !.pc = "window", !.minute = hour]
    OBVIOUS
  <2>2. req[r] \in Witness!RequestRecords /\ hour \in Nat
    BY DEF Witness!OrderInv, Witness!TypeOK
  <2>3. /\ q \in Witness!RequestRecords /\ q.pc = "window"
        /\ q.kind = req[r].kind /\ q.tok = req[r].tok /\ q.trail = req[r].trail /\ q.to = req[r].to
        /\ q.body = req[r].body
    BY <2>1, <2>2 DEF Witness!RequestRecords, Witness!Pcs
  <2>4. Witness!RequestOK(q)
    BY <1>1, <2>3 DEF Witness!OrderInv, Witness!RequestOK
  <2>5. ~ Witness!HasOwn(q) /\ ~ Witness!HasRead(q) /\ \A s \in Subjects : ~ Witness!HasOf(q, s)
    BY <2>3 DEF Witness!HasOwn, Witness!HasRead, Witness!HasOf
  <2>6. req' = [req EXCEPT ![r] = q]
    BY <1>3, <2>1 DEF Witness!ReadClock
  <2> QED BY <1>1, <1>2, <2>3, <2>4, <2>5, <2>6, RequestGoesOn
<1>4. CASE Witness!Count(r)
  <2>1. CASE Witness!Answer(r, "rate")
    BY <1>1, <1>2, <2>1, RequestRefused DEF Witness!Answers
  <2>2. CASE Witness!Go(r, "enter")
    <3>1. PICK q \in Witness!RequestRecords :
            /\ q = [req[r] EXCEPT !.pc = "enter"] /\ q.pc = "enter"
            /\ q.kind = req[r].kind /\ q.tok = req[r].tok /\ q.trail = req[r].trail /\ q.to = req[r].to
            /\ q.body = req[r].body
      BY RequestGoes DEF Witness!Pcs
    <3>2. Witness!RequestOK(q)
      BY <1>1, <3>1 DEF Witness!OrderInv, Witness!RequestOK
    <3>3. ~ Witness!HasOwn(q) /\ ~ Witness!HasRead(q) /\ \A s \in Subjects : ~ Witness!HasOf(q, s)
      BY <3>1 DEF Witness!HasOwn, Witness!HasRead, Witness!HasOf
    <3>4. req' = [req EXCEPT ![r] = q]
      BY <2>2, <3>1 DEF Witness!Go
    <3> QED BY <1>1, <1>2, <3>2, <3>3, <3>4, RequestGoesOn
  <2> QED BY <1>4, <2>1, <2>2 DEF Witness!Count
<1> QED BY <1>3, <1>4

LEMMA EnterStep ==
  ASSUME Witness!OrderInv, NEW r \in Requests, Witness!Enter(r)
  PROVE  Witness!OrderInv'
<1>1. req[r].pc = "enter" /\ req[r].kind # "read"
  BY DEF Witness!Enter, Witness!At, Witness!OrderInv, Witness!RequestOK
<1>2. /\ ~ Witness!HasOwn(req[r]) /\ ~ Witness!HasRead(req[r]) /\ \A s \in Subjects : ~ Witness!HasOf(req[r], s)
      /\ req[r].kind \in Witness!Written
  BY <1>1, HoldsItsPlace
<1>3. PICK u \in Subjects : u = req[r].tok.sub
  BY <1>1, HoldsItsPlace
<1>4. CASE (Witness!Answer(r, "busy") \/ Witness!Answer(r, "malformed")) /\ UNCHANGED flying
  BY <1>2, <1>4, RequestRefused DEF Witness!Enter, Witness!places, Witness!log, Witness!Answers
<1>5. CASE flying' = [flying EXCEPT ![u] = flying[u] + 1] /\ Witness!Go(r, "place")
  <2>1. PICK q \in Witness!RequestRecords :
          /\ q = [req[r] EXCEPT !.pc = "place"] /\ q.pc = "place"
          /\ q.kind = req[r].kind /\ q.tok = req[r].tok /\ q.trail = req[r].trail /\ q.to = req[r].to
          /\ q.body = req[r].body
    BY RequestGoes DEF Witness!Pcs
  <2>2. Witness!RequestOK(q)
    BY <1>1, <2>1 DEF Witness!OrderInv, Witness!RequestOK
  <2>3. ~ Witness!HasOwn(q) /\ ~ Witness!HasRead(q) /\ \A s \in Subjects : Witness!HasOf(q, s) <=> s = u
    BY <1>2, <1>3, <2>1 DEF Witness!HasOwn, Witness!HasRead, Witness!HasOf
  <2>4. req' = [req EXCEPT ![r] = q]
    BY <1>5, <2>1 DEF Witness!Go
  <2>5. /\ flying \in [Subjects -> Int] /\ submitting \in Int /\ reading \in Int
        /\ reg \in [Trails -> Subjects \cup {None}]
    BY DEF Witness!OrderInv, Witness!TypeOK
  <2>6. /\ submitting' = submitting /\ reading' = reading /\ reg' = reg /\ acts' = acts
        /\ spec' = spec /\ hour' = hour
    BY DEF Witness!Enter, Witness!log
  <2>7. /\ flying' \in [Subjects -> Int]
        /\ \A s \in Subjects : flying'[s] = flying[s] + One(Witness!HasOf(q, s)) - One(Witness!HasOf(req[r], s))
    BY <1>2, <1>5, <2>3, <2>5 DEF One
  <2>8. /\ submitting' = submitting + One(Witness!HasOwn(q)) - One(Witness!HasOwn(req[r]))
        /\ reading' = reading + One(Witness!HasRead(q)) - One(Witness!HasRead(req[r]))
    BY <1>2, <2>3, <2>5, <2>6 DEF One
  <2> QED BY <2>2, <2>4, <2>5, <2>6, <2>7, <2>8, RequestMoves
<1> QED BY <1>3, <1>4, <1>5 DEF Witness!Enter

LEMMA PlaceStep ==
  ASSUME Witness!OrderInv, NEW r \in Requests, Witness!Place(r)
  PROVE  Witness!OrderInv'
<1>1. req[r].pc = "place" /\ req[r].kind # "read"
  BY DEF Witness!Place, Witness!At
<1>2. PICK u \in Subjects : u = req[r].tok.sub
  BY <1>1, HoldsItsPlace
<1>3. /\ ~ Witness!HasOwn(req[r]) /\ ~ Witness!HasRead(req[r]) /\ req[r].kind \in Witness!Written
      /\ \A s \in Subjects : Witness!HasOf(req[r], s) <=> s = u
  BY <1>1, <1>2, HoldsItsPlace
<1>4. /\ flying \in [Subjects -> Int] /\ submitting \in Int /\ reading \in Int
      /\ reg \in [Trails -> Subjects \cup {None}]
  BY DEF Witness!OrderInv, Witness!TypeOK
<1>5. reading' = reading /\ reg' = reg /\ acts' = acts /\ spec' = spec /\ hour' = hour
  BY DEF Witness!Place, Witness!log
<1>6. CASE Witness!NoPlace(r)
  <2>1. flying' = [flying EXCEPT ![u] = flying[u] - 1] /\ submitting' = submitting /\ Witness!Answer(r, "busy")
    BY <1>2, <1>6 DEF Witness!NoPlace
  <2>2. /\ flying' \in [Subjects -> Int]
        /\ \A s \in Subjects : flying'[s] = flying[s] - One(Witness!HasOf(req[r], s))
    BY <1>3, <1>4, <2>1 DEF One
  <2>3. submitting' = submitting - One(Witness!HasOwn(req[r])) /\ reading' = reading - One(Witness!HasRead(req[r]))
    BY <1>3, <1>4, <1>5, <2>1 DEF One
  <2> QED BY <1>4, <1>5, <2>1, <2>2, <2>3, RequestEnds DEF Witness!Answers
<1>7. CASE submitting' = submitting + 1 /\ Witness!Go(r, "body") /\ UNCHANGED flying
  <2>1. PICK q \in Witness!RequestRecords :
          /\ q = [req[r] EXCEPT !.pc = "body"] /\ q.pc = "body"
          /\ q.kind = req[r].kind /\ q.tok = req[r].tok /\ q.trail = req[r].trail /\ q.to = req[r].to
          /\ q.body = req[r].body
    BY RequestGoes DEF Witness!Pcs
  <2>2. Witness!RequestOK(q)
    BY <1>1, <2>1 DEF Witness!OrderInv, Witness!RequestOK
  <2>3. Witness!HasOwn(q) /\ ~ Witness!HasRead(q) /\ \A s \in Subjects : Witness!HasOf(q, s) <=> s = u
    BY <1>2, <1>3, <2>1 DEF Witness!HasOwn, Witness!HasRead, Witness!HasOf
  <2>4. req' = [req EXCEPT ![r] = q]
    BY <1>7, <2>1 DEF Witness!Go
  <2>5. \A s \in Subjects : flying'[s] = flying[s] + One(Witness!HasOf(q, s)) - One(Witness!HasOf(req[r], s))
    BY <1>3, <1>4, <1>7, <2>3 DEF One
  <2>6. /\ submitting' = submitting + One(Witness!HasOwn(q)) - One(Witness!HasOwn(req[r]))
        /\ reading' = reading + One(Witness!HasRead(q)) - One(Witness!HasRead(req[r]))
    BY <1>3, <1>4, <1>5, <1>7, <2>3 DEF One
  <2>7. flying' \in [Subjects -> Int] /\ submitting' \in Int /\ reading' \in Int
    BY <1>4, <1>5, <1>7
  <2> QED BY <1>4, <1>5, <2>2, <2>4, <2>5, <2>6, <2>7, RequestMoves
<1> QED BY <1>6, <1>7 DEF Witness!Place

LEMMA BodyStep ==
  ASSUME Witness!OrderInv, NEW r \in Requests, Witness!BodyRead(r)
  PROVE  Witness!OrderInv'
<1>1. req[r].pc = "body" /\ req[r].kind # "read"
  BY DEF Witness!BodyRead, Witness!At, Witness!OrderInv, Witness!RequestOK
<1>2. Witness!HasOwn(req[r]) /\ ~ Witness!HasRead(req[r]) /\ req[r].kind \in Witness!Written /\ req[r].kind # "retire"
  BY <1>1, HoldsItsPlace DEF Witness!BodyRead
<1>3. reg \in [Trails -> Subjects \cup {None}]
  BY DEF Witness!OrderInv, Witness!TypeOK
<1>4. reading' = reading /\ reg' = reg /\ acts' = acts /\ spec' = spec /\ hour' = hour
  BY DEF Witness!BodyRead, Witness!log
<1>5. CASE Witness!Answer(r, "malformed") /\ Witness!Leave(r)
  <2>1. "malformed" \in Witness!Answers
    BY DEF Witness!Answers
  <2> QED BY <1>1, <1>3, <1>4, <1>5, <2>1, RequestLeaves
<1>6. CASE /\ IF req[r].kind = "submit" THEN Witness!ReadCheckpointLines(req[r].body) ELSE Witness!ReadRegistration(req[r].to)
           /\ Witness!Go(r, "log") /\ UNCHANGED <<flying, submitting>>
  <2>1. PICK q \in Witness!RequestRecords :
          /\ q = [req[r] EXCEPT !.pc = "log"] /\ q.pc = "log"
          /\ q.kind = req[r].kind /\ q.tok = req[r].tok /\ q.trail = req[r].trail /\ q.to = req[r].to
          /\ q.body = req[r].body
    BY RequestGoes DEF Witness!Pcs
  <2>2. /\ req[r].kind = "submit" => req[r].body # <<>>
        /\ req[r].kind = "register" => Witness!Submits(spec, req[r].to)
    BY <1>6 DEF Witness!ReadCheckpointLines, Witness!ReadRegistration
  <2>3. Witness!RequestOK(req[r])
    BY DEF Witness!OrderInv
  <2>4. Witness!RequestOK(q)
    BY <1>1, <1>2, <2>1, <2>2, <2>3 DEF Witness!RequestOK
  <2>5. Witness!HasOwn(q) /\ ~ Witness!HasRead(q) /\ \A s \in Subjects : Witness!HasOf(q, s) <=> Witness!HasOf(req[r], s)
    BY <1>1, <1>2, <2>1 DEF Witness!HasOwn, Witness!HasRead, Witness!HasOf, Witness!Written
  <2>6. req' = [req EXCEPT ![r] = q]
    BY <1>6, <2>1 DEF Witness!Go
  <2>7. UNCHANGED <<spec, hour, Witness!places, Witness!log>>
    BY <1>4, <1>6 DEF Witness!BodyRead, Witness!places, Witness!log
  <2> QED BY <1>2, <2>4, <2>5, <2>6, <2>7, RequestGoesOn
<1> QED BY <1>5, <1>6 DEF Witness!BodyRead

(* The log's three calls: a request in its last step leaves, and what the   *)
(* log took of it, if anything, is as it may be.                            *)
LEMMA LogSubmitStep ==
  ASSUME Witness!OrderInv, NEW r \in Requests, Witness!LogSubmit(r)
  PROVE  Witness!OrderInv'
<1>1. req[r].pc = "log" /\ req[r].kind = "submit"
  BY DEF Witness!LogSubmit, Witness!At
<1>2. PICK t \in Trails : t = req[r].body[1].trail
  BY <1>1, WitnessAssumption DEF Witness!OrderInv, Witness!RequestOK
<1>3. PICK u \in Subjects : u = req[r].tok.sub
  BY <1>1, HoldsItsPlace
<1>4. reg \in [Trails -> Subjects \cup {None}]
  BY DEF Witness!OrderInv, Witness!TypeOK
<1>5. reading' = reading /\ spec' = spec /\ hour' = hour /\ Witness!Leave(r)
  BY DEF Witness!LogSubmit
<1>6. \/ Witness!Answer(r, "refused") /\ UNCHANGED Witness!log
      \/ Witness!Answer(r, "stopped") /\ reg' = reg /\ acts' = acts
      \/ /\ reg' = [reg EXCEPT ![t] = u]
         /\ \/ (\E a \in {"retired", "internal"} : Witness!Answer(r, a)) /\ acts' = acts
            \/ (\E a \in {"held", "below-head", "internal"} : Witness!Answer(r, a)) /\ acts' = acts
            \/ Witness!Answer(r, "conflict") /\ acts' = acts
            \/ Witness!Answer(r, "conflict") /\ Witness!Recorded(r, "submit", t)
            \/ Witness!Answer(r, "signed") /\ Witness!Recorded(r, "submit", t)
            \/ Witness!Answer(r, "stopped") /\ acts' = acts
  BY <1>2, <1>3 DEF Witness!LogSubmit, Witness!Stops
<1>7. PICK a \in Witness!Answers : Witness!Answer(r, a)
  BY <1>6 DEF Witness!Answers
<1>8. reg' \in [Trails -> Subjects \cup {None}]
  BY <1>4, <1>6 DEF Witness!log
<1>9. \A x \in acts' : x \in acts \/ Witness!ActOK(x)
  <2>1. CASE acts' = acts
    BY <2>1
  <2>2. CASE reg' = [reg EXCEPT ![t] = u] /\ Witness!Recorded(r, "submit", t)
    <3>1. reg'[t] = u
      BY <1>4, <2>2
    <3>2. spec.audience \in req[r].tok.auds
      BY <1>1 DEF Witness!OrderInv, Witness!RequestOK
    <3>3. Witness!ActOK([what |-> "submit", tok |-> req[r].tok, trail |-> t, registrant |-> reg'[t]])
      BY <1>3, <3>1, <3>2 DEF Witness!ActOK
    <3> QED BY <2>2, <3>3 DEF Witness!Recorded
  <2> QED BY <1>6, <2>1, <2>2 DEF Witness!log
<1> QED BY <1>1, <1>5, <1>7, <1>8, <1>9, RequestLeaves

LEMMA LogRegisterStep ==
  ASSUME Witness!OrderInv, NEW r \in Requests, Witness!LogRegister(r)
  PROVE  Witness!OrderInv'
<1>1. req[r].pc = "log" /\ req[r].kind = "register"
  BY DEF Witness!LogRegister, Witness!At
<1>2. /\ req[r].trail \in Trails /\ req[r].to \in Subjects
      /\ Witness!Submits(spec, req[r].to) /\ ~ Witness!RefusesToken(spec, req[r].tok)
  BY <1>1 DEF Witness!OrderInv, Witness!RequestOK
<1>3. reg \in [Trails -> Subjects \cup {None}]
  BY DEF Witness!OrderInv, Witness!TypeOK
<1>4. reading' = reading /\ spec' = spec /\ hour' = hour /\ Witness!Leave(r)
  BY DEF Witness!LogRegister
<1>5. \/ Witness!Answer(r, "stopped") /\ reg' = reg /\ acts' = acts
      \/ /\ reg' = [reg EXCEPT ![req[r].trail] = req[r].to]
         /\ Witness!Answer(r, "registered") /\ Witness!Recorded(r, "register", req[r].trail)
  BY DEF Witness!LogRegister, Witness!Stops, Witness!log
<1>6. PICK a \in Witness!Answers : Witness!Answer(r, a)
  BY <1>5 DEF Witness!Answers
<1>7. reg' \in [Trails -> Subjects \cup {None}]
  BY <1>2, <1>3, <1>5 DEF Witness!log
<1>8. \A x \in acts' : x \in acts \/ Witness!ActOK(x)
  <2>1. CASE acts' = acts
    BY <2>1
  <2>2. CASE reg' = [reg EXCEPT ![req[r].trail] = req[r].to] /\ Witness!Recorded(r, "register", req[r].trail)
    <3>1. reg'[req[r].trail] = req[r].to
      BY <1>2, <1>3, <2>2
    <3>2. Witness!ActOK([what |-> "register", tok |-> req[r].tok, trail |-> req[r].trail,
                 registrant |-> reg'[req[r].trail]])
      BY <1>2, <3>1 DEF Witness!ActOK
    <3> QED BY <2>2, <3>2 DEF Witness!Recorded
  <2> QED BY <1>5, <2>1, <2>2 DEF Witness!log
<1> QED BY <1>1, <1>4, <1>6, <1>7, <1>8, RequestLeaves

LEMMA LogRetireStep ==
  ASSUME Witness!OrderInv, NEW r \in Requests, Witness!LogRetire(r)
  PROVE  Witness!OrderInv'
<1>1. req[r].pc = "body" /\ req[r].kind = "retire"
  BY DEF Witness!LogRetire, Witness!At
<1>2. ~ Witness!RefusesToken(spec, req[r].tok)
  BY <1>1 DEF Witness!OrderInv, Witness!RequestOK
<1>3. reg \in [Trails -> Subjects \cup {None}]
  BY DEF Witness!OrderInv, Witness!TypeOK
<1>4. reading' = reading /\ spec' = spec /\ hour' = hour /\ Witness!Leave(r)
  BY DEF Witness!LogRetire
<1>5. /\ reg' = reg
      /\ \/ Witness!Answer(r, "refused") /\ acts' = acts
         \/ Witness!Answer(r, "stopped") /\ acts' = acts
         \/ Witness!Answer(r, "retired") /\ Witness!Recorded(r, "retire", req[r].trail)
  BY DEF Witness!LogRetire, Witness!Stops, Witness!log
<1>6. PICK a \in Witness!Answers : Witness!Answer(r, a)
  BY <1>5 DEF Witness!Answers
<1>7. \A x \in acts' : x \in acts \/ Witness!ActOK(x)
  <2>1. CASE acts' = acts
    BY <2>1
  <2>2. CASE Witness!Recorded(r, "retire", req[r].trail)
    <3>1. Witness!ActOK([what |-> "retire", tok |-> req[r].tok, trail |-> req[r].trail,
                 registrant |-> reg'[req[r].trail]])
      BY <1>2 DEF Witness!ActOK
    <3> QED BY <2>2, <3>1 DEF Witness!Recorded
  <2> QED BY <1>5, <2>1, <2>2
<1> QED BY <1>1, <1>3, <1>4, <1>5, <1>6, <1>7, RequestLeaves

(* The open reads. *)
LEMMA ReadSteps ==
  ASSUME Witness!OrderInv, NEW r \in Requests, Witness!ReadPlace(r) \/ Witness!Read(r)
  PROVE  Witness!OrderInv'
<1>1. /\ req[r].kind = "read" /\ ~ Witness!HasOwn(req[r]) /\ \A s \in Subjects : ~ Witness!HasOf(req[r], s)
  BY DEF Witness!ReadPlace, Witness!Read, Witness!HasOwn, Witness!HasOf, Witness!Written
<1>2. /\ flying \in [Subjects -> Int] /\ submitting \in Int /\ reading \in Int
      /\ reg \in [Trails -> Subjects \cup {None}]
  BY DEF Witness!OrderInv, Witness!TypeOK
<1>3. /\ flying' = flying /\ submitting' = submitting /\ reg' = reg /\ acts' = acts
      /\ spec' = spec /\ hour' = hour
  BY DEF Witness!ReadPlace, Witness!Read, Witness!log
<1>4. \A s \in Subjects : flying'[s] = flying[s] - One(Witness!HasOf(req[r], s))
  BY <1>1, <1>2, <1>3 DEF One
<1>5. submitting' = submitting - One(Witness!HasOwn(req[r]))
  BY <1>1, <1>2, <1>3 DEF One
<1>6. CASE Witness!ReadPlace(r)
  <2>1. req[r].pc = "place" /\ ~ Witness!HasRead(req[r])
    BY <1>6 DEF Witness!ReadPlace, Witness!At, Witness!HasRead
  <2>2. CASE Witness!Answer(r, "busy") /\ UNCHANGED reading
    <3>1. UNCHANGED <<spec, hour, Witness!places, Witness!log>>
      BY <1>3, <1>6, <2>2 DEF Witness!ReadPlace, Witness!places, Witness!log
    <3>2. "busy" \in Witness!Answers
      BY DEF Witness!Answers
    <3> QED BY <1>1, <2>1, <2>2, <3>1, <3>2, RequestRefused
  <2>3. CASE reading' = reading + 1 /\ Witness!Go(r, "log")
    <3>1. PICK q \in Witness!RequestRecords :
            /\ q = [req[r] EXCEPT !.pc = "log"] /\ q.pc = "log"
            /\ q.kind = req[r].kind /\ q.tok = req[r].tok /\ q.trail = req[r].trail /\ q.to = req[r].to
            /\ q.body = req[r].body
      BY RequestGoes DEF Witness!Pcs
    <3>2. Witness!RequestOK(q)
      BY <1>1, <2>1, <3>1 DEF Witness!OrderInv, Witness!RequestOK
    <3>3. Witness!HasRead(q) /\ ~ Witness!HasOwn(q) /\ \A s \in Subjects : ~ Witness!HasOf(q, s)
      BY <1>1, <3>1 DEF Witness!HasOwn, Witness!HasRead, Witness!HasOf, Witness!Written
    <3>4. req' = [req EXCEPT ![r] = q]
      BY <2>3, <3>1 DEF Witness!Go
    <3>5. \A s \in Subjects : flying'[s] = flying[s] + One(Witness!HasOf(q, s)) - One(Witness!HasOf(req[r], s))
      BY <1>1, <1>2, <1>3, <3>3 DEF One
    <3>6. /\ submitting' = submitting + One(Witness!HasOwn(q)) - One(Witness!HasOwn(req[r]))
          /\ reading' = reading + One(Witness!HasRead(q)) - One(Witness!HasRead(req[r]))
      BY <1>1, <1>2, <1>3, <2>1, <2>3, <3>3 DEF One
    <3>7. reading' \in Int
      BY <1>2, <2>3
    <3> QED BY <1>2, <1>3, <3>2, <3>4, <3>5, <3>6, <3>7, RequestMoves
  <2> QED BY <1>6, <2>2, <2>3 DEF Witness!ReadPlace
<1>7. CASE Witness!Read(r)
  <2>1. Witness!HasRead(req[r]) /\ reading' = reading - 1
    BY <1>7 DEF Witness!Read, Witness!At, Witness!HasRead
  <2>2. PICK a \in Witness!Answers : Witness!Answer(r, a)
    BY <1>7 DEF Witness!Read, Witness!Answers
  <2>3. reading' = reading - One(Witness!HasRead(req[r])) /\ reading' \in Int
    BY <1>2, <2>1 DEF One
  <2> QED BY <1>2, <1>3, <1>4, <1>5, <2>2, <2>3, RequestEnds
<1> QED BY <1>6, <1>7

LEMMA OrderStutters ==
  ASSUME Witness!OrderInv, UNCHANGED <<spec, req, Witness!places, Witness!log>>, hour' \in Nat
  PROVE  Witness!OrderInv'
<1>1. /\ spec' = spec /\ req' = req /\ flying' = flying /\ submitting' = submitting /\ reading' = reading
      /\ reg' = reg /\ acts' = acts
  BY DEF Witness!places, Witness!log
<1>2. Witness!TypeOK'
  BY <1>1 DEF Witness!OrderInv, Witness!TypeOK
<1>3. (\A r \in Requests : Witness!RequestOK(req[r]))' /\ (\A a \in acts : Witness!ActOK(a))'
  BY <1>1 DEF Witness!OrderInv, Witness!RequestOK, Witness!ActOK, Witness!RefusesToken, Witness!Submits, Witness!Listed
<1>4. Witness!CountInv'
  BY <1>1 DEF Witness!OrderInv, Witness!CountInv, Witness!HasOf, Witness!HasOwn, Witness!HasRead
<1> QED BY <1>2, <1>3, <1>4 DEF Witness!OrderInv

LEMMA OrderStep ==
  ASSUME Witness!OrderInv, [Witness!Next]_Witness!vars
  PROVE  Witness!OrderInv'
<1>1. CASE UNCHANGED Witness!vars
  <2>1. UNCHANGED <<spec, req, Witness!places, Witness!log>> /\ hour' \in Nat
    BY <1>1 DEF Witness!vars, Witness!OrderInv, Witness!TypeOK
  <2> QED BY <2>1, OrderStutters
<1>2. CASE Witness!Tick
  <2>1. UNCHANGED <<spec, req, Witness!places, Witness!log>> /\ hour' \in Nat
    BY <1>2 DEF Witness!Tick, Witness!OrderInv, Witness!TypeOK
  <2> QED BY <2>1, OrderStutters
<1>3. ASSUME NEW r \in Requests, Witness!Step(r) PROVE Witness!OrderInv'
  BY <1>3, ArriveStep, ClockSteps, EnterStep, PlaceStep, BodyStep, LogSubmitStep, LogRegisterStep,
     LogRetireStep, ReadSteps DEF Witness!Step
<1> QED BY <1>1, <1>2, <1>3 DEF Witness!Next

(* What the invariant says of the places and of the roles. *)
LEMMA OrderSays ==
  ASSUME Witness!OrderInv
  PROVE  Witness!PlacesAreHeld /\ Witness!RolesAreApart
<1>1. ASSUME NEW s \in Subjects
      PROVE  {r \in Witness!Within({"place", "body", "log"}, {"submit", "register", "retire"}) : req[r].tok.sub = s}
               = {r \in Requests : Witness!HasOf(req[r], s)}
  BY DEF Witness!Within, Witness!HasOf, Witness!Written
<1>2. /\ Witness!Within({"body", "log"}, {"submit", "register", "retire"}) = {r \in Requests : Witness!HasOwn(req[r])}
      /\ Witness!Within({"log"}, {"read"}) = {r \in Requests : Witness!HasRead(req[r])}
  BY DEF Witness!Within, Witness!HasOwn, Witness!HasRead, Witness!Written
<1>3. Witness!PlacesAreHeld
  BY <1>1, <1>2 DEF Witness!PlacesAreHeld, Witness!OrderInv, Witness!CountInv
<1>4. Witness!RolesAreApart
  BY DEF Witness!RolesAreApart, Witness!OrderInv, Witness!ActOK, Witness!RefusesToken
<1> QED BY <1>3, <1>4

LEMMA WitnessStutters ==
  ASSUME Witness!OrderInv, UNCHANGED witnessVars
  PROVE  Witness!OrderInv'
<1>1. UNCHANGED <<spec, req, Witness!places, Witness!log>> /\ hour' \in Nat
  BY DEF witnessVars, Witness!places, Witness!log, Witness!OrderInv, Witness!TypeOK
<1> QED BY <1>1, OrderStutters

(* Every place at the witness is held by a request still being answered,    *)
(* and what the log took, it took from one allowed it, whatever was         *)
(* registered while a body was read (witness_serve.go, witness_admin.go).   *)
THEOREM WitnessStaysOrderly == MCSpec => []WitnessIsOrderly
<1> DEFINE Inv == part = "witness" => Witness!OrderInv
<1>1. MCInit => Inv
  BY OrderInitially DEF MCInit
<1>2. Inv /\ [MCNext]_allVars => Inv'
  <2> SUFFICES ASSUME Inv, [MCNext]_allVars, part' = "witness" PROVE Witness!OrderInv'
    OBVIOUS
  <2>1. part' = part
    BY DEF MCNext, allVars
  <2>2. Witness!OrderInv
    BY <2>1
  <2>3. CASE Witness!Next
    BY <2>2, <2>3, OrderStep
  <2>4. CASE UNCHANGED witnessVars
    BY <2>2, <2>4, WitnessStutters
  <2> QED BY <2>1, <2>3, <2>4 DEF MCNext, allVars
<1>3. Inv => WitnessIsOrderly
  BY OrderSays DEF WitnessIsOrderly
<1> QED BY <1>1, <1>2, <1>3, PTL DEF MCSpec

-----------------------------------------------------------------------------
(* The MCP server an adapter runs. *)

(* The adapter's count of a set is the count of that set. *)
LEMMA CountAlike ==
  ASSUME NEW S
  PROVE  Adapter!Cardinality(S) = Cardinality(S)
BY DEF Adapter!Cardinality, Cardinality

LEMMA AdapterInitially == Adapter!Init => Adapter!AdapterInv
<1> SUFFICES ASSUME Adapter!Init PROVE Adapter!AdapterInv
  OBVIOUS
<1>1. step = "begin" /\ step \in Adapter!Unstarted /\ step \notin {"stop", "done", "wait", "call"}
  BY DEF Adapter!Init, Adapter!Unstarted
<1>2. Adapter!Shapes
  BY <1>1 DEF Adapter!Init, Adapter!Shapes, Adapter!NoConn, Adapter!NoList
<1>3. Adapter!StartInv
  BY <1>1 DEF Adapter!Init, Adapter!StartInv, Adapter!Running
<1>4. Adapter!ListInv
  BY DEF Adapter!Init, Adapter!ListInv, Adapter!NoList
<1>5. Adapter!CallInv
  BY <1>1 DEF Adapter!Init, Adapter!CallInv, Adapter!Calling, Adapter!Waits
<1>6. Adapter!OutInv
  BY <1>1 DEF Adapter!Init, Adapter!OutInv
<1> QED BY <1>2, <1>3, <1>4, <1>5, <1>6 DEF Adapter!AdapterInv

(* What the answers and the lists rest on is what it was where nothing was  *)
(* said; the step and the outcome may move.                                 *)
LEMMA NothingHeard ==
  ASSUME Adapter!AdapterInv, UNCHANGED <<cfg, client, list, heard, toolCalls>>,
         step # "wait", step' # "wait",
         step' = "call" => step = "call",
         step' \notin {"begin", "done"} => ~Adapter!Refusal,
         toolCalls = <<>> \/ step' \in {"stop", "done"}
  PROVE  Adapter!ListInv' /\ Adapter!CallInv'
<1>1. Adapter!ListInv'
  BY DEF Adapter!AdapterInv, Adapter!ListInv, Adapter!Declared, Adapter!Pinned
<1>2. Adapter!CallInv'
  BY DEF Adapter!AdapterInv, Adapter!CallInv, Adapter!Calling, Adapter!Waits, Adapter!Declared, Adapter!Pinned, Adapter!Approves, Adapter!Projected, Adapter!Customer, Adapter!Drift, Adapter!Refusal
<1> QED BY <1>1, <1>2

LEMMA BeginStep ==
  ASSUME Adapter!AdapterInv, Adapter!Prepare
  PROVE  Adapter!AdapterInv'
<1>1. /\ step = "begin" /\ toolCalls = <<>> /\ out = Adapter!NoOut
      /\ step' \in {"measure", "start", "done"} /\ (step' # "done" => ~Adapter!Refusal /\ out' = out /\ (Adapter!Customer => step' = "measure"))
      /\ (step' = "done" => out' = Adapter!Error)
  BY DEF Adapter!AdapterInv, Adapter!Prepare, Adapter!CallInv, Adapter!OutInv, Adapter!Return
<1>2. UNCHANGED <<cfg, disk, changes, late, measured, holding, proc, kids, ran, client, list, heard, toolCalls>>
  BY DEF Adapter!Prepare, Adapter!files, Adapter!server
<1>3. Adapter!Shapes'
  BY <1>1, <1>2 DEF Adapter!AdapterInv, Adapter!Shapes, Adapter!Unstarted, Adapter!Before
<1>4. Adapter!StartInv'
  BY <1>1, <1>2 DEF Adapter!AdapterInv, Adapter!StartInv, Adapter!Unstarted, Adapter!Before, Adapter!Running, Adapter!Customer, Adapter!Pinned, Adapter!RunsAsApproved, Adapter!Error
<1>5. Adapter!ListInv' /\ Adapter!CallInv'
  BY <1>1, <1>2, NothingHeard
<1>6. Adapter!OutInv'
  BY <1>1, <1>2 DEF Adapter!OutInv, Adapter!Answered, Adapter!Error, Adapter!NoOut
<1> QED BY <1>3, <1>4, <1>5, <1>6 DEF Adapter!AdapterInv

(* The steps before the start. *)
LEMMA MeasureSteps ==
  ASSUME Adapter!AdapterInv, Adapter!MeasureExe \/ Adapter!MeasureScript
  PROVE  Adapter!AdapterInv'
<1>1. /\ step \in {"measure", "measureScript"} /\ toolCalls = <<>> /\ out = Adapter!NoOut /\ ~Adapter!Refusal
      /\ proc = "none" /\ kids = FALSE
  BY DEF Adapter!AdapterInv, Adapter!MeasureExe, Adapter!MeasureScript, Adapter!CallInv, Adapter!OutInv, Adapter!StartInv, Adapter!Unstarted, Adapter!Before
<1>2. UNCHANGED <<cfg, disk, changes, late, proc, kids, ran, client, list, heard, toolCalls>>
  BY DEF Adapter!MeasureExe, Adapter!MeasureScript, Adapter!files
<1>3. \/ /\ step' = "measureScript" /\ out' = out
         /\ \E exact \in BOOLEAN : measured' = [measured EXCEPT !.exe = disk.exe, !.exact = exact]
      \/ step' = "done" /\ out' = Adapter!Error /\ holding' = FALSE /\ measured' = [measured EXCEPT !.script = disk.script]
      \/ /\ step' = "recheck" /\ out' = out /\ measured' = [measured EXCEPT !.script = disk.script]
         /\ Adapter!Pinned => ~Adapter!ApprovedCommandRefusal([measured EXCEPT !.script = disk.script])
  BY DEF Adapter!MeasureExe, Adapter!MeasureScript, Adapter!Return
<1>4. /\ step' \in {"measureScript", "done", "recheck"}
      /\ IF step' = "done" THEN out' = Adapter!Error /\ holding' = FALSE ELSE out' = out
  BY <1>3
<1>5. step' = "recheck" /\ Adapter!Pinned => measured'.exe = "v1" /\ measured'.script = "v1"
  BY <1>3 DEF Adapter!ApprovedCommandRefusal
<1>6. Adapter!Shapes'
  BY <1>2, <1>3 DEF Adapter!AdapterInv, Adapter!Shapes, Adapter!Unstarted, Adapter!Before
<1>7. Adapter!StartInv'
  BY <1>1, <1>2, <1>4, <1>5 DEF Adapter!StartInv, Adapter!Unstarted, Adapter!Before, Adapter!Running, Adapter!Customer, Adapter!Pinned
<1>8. Adapter!ListInv' /\ Adapter!CallInv'
  BY <1>1, <1>2, <1>4, NothingHeard
<1>9. Adapter!OutInv'
  BY <1>1, <1>4 DEF Adapter!OutInv, Adapter!Answered, Adapter!Error, Adapter!NoOut
<1> QED BY <1>6, <1>7, <1>8, <1>9 DEF Adapter!AdapterInv

LEMMA RecheckSteps ==
  ASSUME Adapter!AdapterInv, Adapter!RecheckExe \/ Adapter!RecheckScript
  PROVE  Adapter!AdapterInv'
<1>1. /\ step \in {"recheck", "recheckScript"} /\ toolCalls = <<>> /\ out = Adapter!NoOut /\ ~Adapter!Refusal
      /\ proc = "none" /\ kids = FALSE
  BY DEF Adapter!AdapterInv, Adapter!RecheckExe, Adapter!RecheckScript, Adapter!CallInv, Adapter!OutInv, Adapter!StartInv, Adapter!Unstarted, Adapter!Before
<1>2. UNCHANGED <<cfg, disk, changes, late, measured, proc, kids, ran, client, list, heard, toolCalls>>
  BY DEF Adapter!RecheckExe, Adapter!RecheckScript, Adapter!RecheckFile, Adapter!files
<1>3. \/ step' = "done" /\ out' = Adapter!Error /\ holding' = FALSE
      \/ step = "recheck" /\ step' = "recheckScript" /\ out' = out /\ (measured.exact \/ disk.exe = measured.exe)
      \/ step = "recheckScript" /\ step' = "start" /\ out' = out /\ disk.script = measured.script
  BY DEF Adapter!RecheckExe, Adapter!RecheckScript, Adapter!RecheckFile, Adapter!Return
<1>4. Adapter!Shapes'
  BY <1>2, <1>3 DEF Adapter!AdapterInv, Adapter!Shapes, Adapter!Unstarted, Adapter!Before
<1>5. Adapter!StartInv'
  BY <1>1, <1>2, <1>3 DEF Adapter!AdapterInv, Adapter!StartInv, Adapter!Unstarted, Adapter!Before, Adapter!Running, Adapter!Customer, Adapter!Pinned, Adapter!RunsAsApproved, Adapter!Error
<1>6. Adapter!ListInv' /\ Adapter!CallInv'
  BY <1>1, <1>2, <1>3, NothingHeard
<1>7. Adapter!OutInv'
  BY <1>1, <1>2, <1>3 DEF Adapter!OutInv, Adapter!Answered, Adapter!Error, Adapter!NoOut
<1> QED BY <1>4, <1>5, <1>6, <1>7 DEF Adapter!AdapterInv

LEMMA StartStep ==
  ASSUME Adapter!AdapterInv, Adapter!StartServer
  PROVE  Adapter!AdapterInv'
<1>1. /\ step = "start" /\ toolCalls = <<>> /\ out = Adapter!NoOut /\ ~Adapter!Refusal /\ proc = "none" /\ kids = FALSE
  BY DEF Adapter!AdapterInv, Adapter!StartServer, Adapter!CallInv, Adapter!OutInv, Adapter!StartInv, Adapter!Unstarted, Adapter!Before
<1>2. UNCHANGED <<cfg, disk, changes, measured, client, list, heard, toolCalls>>
  BY DEF Adapter!StartServer
<1>3. \/ step' = "done" /\ out' = Adapter!Error /\ holding' = FALSE /\ UNCHANGED <<proc, kids, ran>>
      \/ /\ step' = "initialize" /\ out' = out /\ proc' = "up"
         /\ ran' = [exe |-> IF measured.exact THEN measured.exe ELSE disk.exe,
                    script |-> disk.script, late |-> late]
  BY DEF Adapter!StartServer, Adapter!Return
<1>4. Adapter!Shapes'
  BY <1>2, <1>3 DEF Adapter!AdapterInv, Adapter!Shapes, Adapter!Running
<1>5. Adapter!StartInv'
  BY <1>1, <1>2, <1>3 DEF Adapter!AdapterInv, Adapter!StartInv, Adapter!Unstarted, Adapter!Before, Adapter!Running, Adapter!Customer, Adapter!Pinned, Adapter!RunsAsApproved, Adapter!Error
<1>6. Adapter!ListInv' /\ Adapter!CallInv'
  BY <1>1, <1>2, <1>3, NothingHeard
<1>7. Adapter!OutInv'
  BY <1>1, <1>2, <1>3 DEF Adapter!OutInv, Adapter!Answered, Adapter!Error, Adapter!NoOut
<1> QED BY <1>4, <1>5, <1>6, <1>7 DEF Adapter!AdapterInv

LEMMA ReplaceStep ==
  ASSUME Adapter!AdapterInv, NEW f \in DOMAIN disk, Adapter!Replace(f)
  PROVE  Adapter!AdapterInv'
<1>1. /\ step \in Adapter!Unstarted /\ out = Adapter!NoOut /\ proc = "none" /\ kids = FALSE
      /\ toolCalls = <<>> /\ (step # "begin" => ~Adapter!Refusal)
  BY DEF Adapter!AdapterInv, Adapter!Replace, Adapter!CallInv, Adapter!OutInv, Adapter!StartInv, Adapter!Unstarted, Adapter!Before
<1>2. UNCHANGED <<cfg, step, measured, holding, proc, kids, ran, client, list, out, heard, toolCalls>>
  BY DEF Adapter!Replace, Adapter!server
<1>3. /\ \E v : disk' = [disk EXCEPT ![f] = v]
      /\ f \in {"exe", "script", "snapshot"} /\ late \subseteq late'
      /\ step = "start" \/ (step = "recheckScript" /\ f = "exe") => f \in late'
  BY DEF Adapter!Replace, Adapter!AdapterInv, Adapter!Shapes
<1>4. Adapter!Shapes'
  BY <1>2, <1>3 DEF Adapter!AdapterInv, Adapter!Shapes
<1>5. \A g \in {"exe", "script", "snapshot"} : g # f => disk'[g] = disk[g]
  BY <1>3 DEF Adapter!AdapterInv, Adapter!Shapes
<1>6. Adapter!StartInv'
  BY <1>1, <1>2, <1>3, <1>5 DEF Adapter!AdapterInv, Adapter!StartInv, Adapter!Unstarted, Adapter!Before, Adapter!Running, Adapter!Customer, Adapter!Pinned, Adapter!RunsAsApproved, Adapter!Error
<1>7. Adapter!ListInv' /\ Adapter!CallInv'
  BY <1>1, <1>2, NothingHeard DEF Adapter!Unstarted, Adapter!Before
<1>8. Adapter!OutInv'
  BY <1>1, <1>2 DEF Adapter!OutInv, Adapter!Unstarted, Adapter!Before
<1> QED BY <1>4, <1>6, <1>7, <1>8 DEF Adapter!AdapterInv

(* The steps of a server that runs. *)
LEMMA ServerKept ==
  ASSUME Adapter!AdapterInv, UNCHANGED <<cfg, disk, late, measured, holding, kids, ran>>,
         step \in Adapter!Running \cup {"stop"}, step' \in Adapter!Running \cup {"stop"}, proc' # "none"
  PROVE  Adapter!StartInv'
BY DEF Adapter!AdapterInv, Adapter!StartInv, Adapter!Unstarted, Adapter!Before, Adapter!Running, Adapter!Customer, Adapter!Pinned, Adapter!RunsAsApproved

LEMMA CallMade ==
  ASSUME Adapter!Shapes, NEW m, Adapter!Call(m)
  PROVE  /\ client'.asked = m /\ client'.peer = client'.stream
         /\ client' = [next |-> client'.next, asked |-> client'.asked, events |-> client'.events, peer |-> client'.peer,
                     stream |-> client'.stream, result |-> client'.result]
BY DEF Adapter!Shapes, Adapter!Call

LEMMA AskSteps ==
  ASSUME Adapter!AdapterInv, Adapter!Initialize \/ Adapter!ListTools
  PROVE  Adapter!AdapterInv'
<1>1. /\ step \in {"initialize", "list"} /\ step' = "wait" /\ toolCalls = <<>> /\ out = Adapter!NoOut /\ ~Adapter!Refusal
      /\ proc # "none"
  BY DEF Adapter!AdapterInv, Adapter!Initialize, Adapter!ListTools, Adapter!CallInv, Adapter!OutInv, Adapter!StartInv, Adapter!Running
<1>2. UNCHANGED <<cfg, disk, changes, late, measured, holding, proc, kids, ran, list, out, heard, toolCalls>>
  BY DEF Adapter!Initialize, Adapter!ListTools, Adapter!files, Adapter!server
<1>3. /\ client'.asked \in {"initialize", "tools/list"}
      /\ client' = [next |-> client'.next, asked |-> client'.asked, events |-> client'.events, peer |-> client'.peer,
                  stream |-> client'.stream, result |-> client'.result]
  BY CallMade DEF Adapter!AdapterInv, Adapter!Initialize, Adapter!ListTools
<1>4. Adapter!Shapes'
  BY <1>1, <1>2, <1>3 DEF Adapter!AdapterInv, Adapter!Shapes, Adapter!Running
<1>5. Adapter!StartInv'
  BY <1>1, <1>2, ServerKept DEF Adapter!Running
<1>6. Adapter!ListInv'
  BY <1>2 DEF Adapter!AdapterInv, Adapter!ListInv, Adapter!Declared, Adapter!Pinned
<1>7. Adapter!CallInv'
  BY <1>1, <1>2, <1>3 DEF Adapter!CallInv, Adapter!Calling, Adapter!Waits, Adapter!Refusal, Adapter!Declared, Adapter!Pinned, Adapter!Customer
<1>8. Adapter!OutInv'
  BY <1>1, <1>2 DEF Adapter!OutInv
<1> QED BY <1>4, <1>5, <1>6, <1>7, <1>8 DEF Adapter!AdapterInv

LEMMA InitializedStep ==
  ASSUME Adapter!AdapterInv, Adapter!Initialized
  PROVE  Adapter!AdapterInv'
<1>1. step = "initialized" /\ toolCalls = <<>> /\ out = Adapter!NoOut /\ ~Adapter!Refusal /\ proc # "none"
  BY DEF Adapter!AdapterInv, Adapter!Initialized, Adapter!CallInv, Adapter!OutInv, Adapter!StartInv, Adapter!Running
<1>2. UNCHANGED <<cfg, disk, changes, late, measured, holding, proc, kids, ran, client, list, heard, toolCalls>>
  BY DEF Adapter!Initialized, Adapter!files, Adapter!server
<1>3. \/ step' = "list" /\ out' = out
      \/ step' = "stop" /\ out' = Adapter!Error
  BY DEF Adapter!Initialized, Adapter!Finish
<1>4. Adapter!Shapes'
  BY <1>2, <1>3 DEF Adapter!AdapterInv, Adapter!Shapes, Adapter!Running
<1>5. Adapter!StartInv'
  BY <1>1, <1>2, <1>3, ServerKept DEF Adapter!Running
<1>6. Adapter!ListInv' /\ Adapter!CallInv'
  BY <1>1, <1>2, <1>3, NothingHeard
<1>7. Adapter!OutInv'
  BY <1>1, <1>3 DEF Adapter!OutInv, Adapter!Answered, Adapter!Error, Adapter!NoOut
<1> QED BY <1>4, <1>5, <1>6, <1>7 DEF Adapter!AdapterInv

(* The call of a tool: what was heard of it by then is what is called. *)
LEMMA CallToolStep ==
  ASSUME Adapter!AdapterInv, Adapter!CallTool
  PROVE  Adapter!AdapterInv'
<1>1. step = "call" /\ step' = "wait" /\ toolCalls = <<>> /\ out = Adapter!NoOut /\ ~Adapter!Refusal /\ proc # "none"
  BY DEF Adapter!AdapterInv, Adapter!CallTool, Adapter!CallInv, Adapter!OutInv, Adapter!StartInv, Adapter!Running
<1>2. UNCHANGED <<cfg, disk, changes, late, measured, holding, proc, kids, ran, list, out, heard>>
  BY DEF Adapter!CallTool, Adapter!files, Adapter!server
<1>3. /\ client'.asked = "tools/call" /\ client'.peer = client'.stream
      /\ client' = [next |-> client'.next, asked |-> client'.asked, events |-> client'.events, peer |-> client'.peer,
                  stream |-> client'.stream, result |-> client'.result]
  BY CallMade DEF Adapter!AdapterInv, Adapter!CallTool
<1>4. /\ cfg.tool # None /\ cfg.tool \in DOMAIN list.found
      /\ Adapter!Declared => list.cursor = None /\ ~Adapter!Drift(list.found)
  BY <1>1 DEF Adapter!AdapterInv, Adapter!CallInv, Adapter!Calling
<1>5. PICK c : c = [tool |-> cfg.tool, heard |-> heard, ended |-> list.cursor = None]
  OBVIOUS
<1>6. c.tool = cfg.tool /\ c.heard = heard /\ (c.ended <=> list.cursor = None)
  BY <1>5
<1>7. toolCalls' = <<c>> /\ toolCalls'[1] = c
  BY <1>1, <1>5 DEF Adapter!CallTool
<1>8. ASSUME Adapter!Pinned PROVE Adapter!Approves(heard)
  <2>1. Adapter!Declared /\ ~Adapter!Drift(list.found)
    BY <1>4, <1>8 DEF Adapter!Declared
  <2>2. SUFFICES ASSUME NEW t \in Adapter!Tools
                 PROVE  \E j \in DOMAIN heard :
                          /\ heard[j].name = t /\ Adapter!Projected(heard[j].d) = Adapter!Projected(Adapter!Approved)
                          /\ \A i \in DOMAIN heard : heard[i].name = t => i = j
    BY DEF Adapter!Approves
  <2>3. t \in DOMAIN list.found /\ Adapter!Projected(list.found[t]) = Adapter!Projected(Adapter!Approved)
    BY <1>8, <2>1 DEF Adapter!Drift
  <2>4. PICK j \in DOMAIN heard : heard[j] = [name |-> t, d |-> list.found[t]]
    BY <2>3 DEF Adapter!AdapterInv, Adapter!ListInv
  <2>5. heard[j].name = t /\ heard[j].d = list.found[t]
    BY <2>4
  <2>6. \A i \in DOMAIN heard : heard[i].name = t => i = j
    BY <2>1, <2>5 DEF Adapter!AdapterInv, Adapter!ListInv
  <2> QED BY <2>3, <2>5, <2>6
<1>9. Adapter!Shapes'
  BY <1>1, <1>2, <1>3 DEF Adapter!AdapterInv, Adapter!Shapes, Adapter!Running
<1>10. Adapter!StartInv'
  BY <1>1, <1>2, ServerKept DEF Adapter!Running
<1>11. Adapter!ListInv'
  BY <1>2 DEF Adapter!AdapterInv, Adapter!ListInv, Adapter!Declared, Adapter!Pinned
<1>12. Adapter!CallInv'
  <2>1. Adapter!Waits("tools/call")' /\ step' = "wait"
    BY <1>1, <1>3 DEF Adapter!Waits
  <2>2. /\ Adapter!Refusal' <=> Adapter!Refusal
        /\ Adapter!Declared' <=> Adapter!Declared
        /\ Adapter!Pinned' <=> Adapter!Pinned
        /\ Adapter!Drift(list.found)' <=> Adapter!Drift(list.found)
    BY <1>2 DEF Adapter!Refusal, Adapter!Declared, Adapter!Pinned, Adapter!Customer, Adapter!Drift, Adapter!Projected
  <2>3. Adapter!Pinned => Adapter!Approves(toolCalls[1].heard)'
    BY <1>2, <1>6, <1>7, <1>8 DEF Adapter!Approves, Adapter!Projected, Adapter!Customer
  <2>4. Adapter!Pinned => toolCalls'[1].ended
    BY <1>4, <1>6, <1>7 DEF Adapter!Declared
  <2> QED BY <1>1, <1>2, <1>3, <1>4, <1>6, <1>7, <2>1, <2>2, <2>3, <2>4 DEF Adapter!CallInv, Adapter!Calling
<1>13. Adapter!OutInv'
  BY <1>1, <1>2 DEF Adapter!OutInv
<1> QED BY <1>9, <1>10, <1>11, <1>12, <1>13 DEF Adapter!AdapterInv

(* Steps of the server, and its stop. *)
LEMMA ExitSteps ==
  ASSUME Adapter!AdapterInv, Adapter!ServerExits \/ Adapter!StopKill
  PROVE  Adapter!AdapterInv'
<1>1. proc = "up" /\ proc' = "exited"
  BY DEF Adapter!ServerExits, Adapter!StopKill
<1>2. step \in Adapter!Running \cup {"stop"}
  BY <1>1 DEF Adapter!AdapterInv, Adapter!Shapes, Adapter!StartInv
<1>3. UNCHANGED <<cfg, disk, changes, late, step, measured, holding, kids, ran, client, list, out, heard, toolCalls>>
  BY DEF Adapter!ServerExits, Adapter!StopKill, Adapter!files
<1>4. Adapter!StartInv'
  BY <1>1, <1>2, <1>3, ServerKept
<1>5. Adapter!Shapes' /\ Adapter!ListInv'
  BY <1>3 DEF Adapter!AdapterInv, Adapter!Shapes, Adapter!ListInv, Adapter!Declared, Adapter!Pinned
<1>6. Adapter!CallInv'
  BY <1>3 DEF Adapter!AdapterInv, Adapter!CallInv, Adapter!Calling, Adapter!Waits, Adapter!Declared, Adapter!Pinned, Adapter!Approves, Adapter!Projected, Adapter!Customer, Adapter!Drift, Adapter!Refusal
<1>7. Adapter!OutInv'
  BY <1>3 DEF Adapter!AdapterInv, Adapter!OutInv, Adapter!Answered, Adapter!Local, Adapter!Declared, Adapter!Pinned
<1> QED BY <1>4, <1>5, <1>6, <1>7 DEF Adapter!AdapterInv

LEMMA ReapStep ==
  ASSUME Adapter!AdapterInv, Adapter!StopReap
  PROVE  Adapter!AdapterInv'
<1>1. step = "stop" /\ step' = "done" /\ proc # "none" /\ proc' = "gone" /\ Adapter!Answered /\ ~Adapter!Refusal
  BY DEF Adapter!AdapterInv, Adapter!StopReap, Adapter!Return, Adapter!StartInv, Adapter!OutInv, Adapter!CallInv
<1>2. UNCHANGED <<cfg, disk, changes, late, measured, ran, client, list, heard, toolCalls>>
  BY DEF Adapter!StopReap, Adapter!files
<1>3. \/ out' = [Adapter!Error EXCEPT !.stopped = FALSE]
      \/ kids' = FALSE /\ holding' = FALSE /\ out' \in {out, Adapter!Error}
      \/ kids' = FALSE /\ out.status = "envelope" /\ out' = out
  BY DEF Adapter!StopReap, Adapter!Return
<1>4. Adapter!Shapes'
  BY <1>1, <1>2 DEF Adapter!AdapterInv, Adapter!Shapes
<1>5. Adapter!StartInv'
  BY <1>1, <1>2, <1>3 DEF Adapter!AdapterInv, Adapter!StartInv, Adapter!Unstarted, Adapter!Before, Adapter!Running, Adapter!Customer, Adapter!Pinned, Adapter!RunsAsApproved
<1>6. Adapter!ListInv' /\ Adapter!CallInv'
  BY <1>1, <1>2, NothingHeard
<1>7. out' = out \/ out'.status = "error"
  BY <1>3 DEF Adapter!Error
<1>8. Adapter!OutInv'
  BY <1>1, <1>2, <1>7 DEF Adapter!OutInv, Adapter!Answered, Adapter!Local, Adapter!Declared, Adapter!Pinned
<1> QED BY <1>4, <1>5, <1>6, <1>8 DEF Adapter!AdapterInv

(* An answer that ends the run: what was heard is forgotten with it. *)
LEMMA ForgetSteps ==
  ASSUME Adapter!AdapterInv, Adapter!Failed \/ Adapter!Expire
  PROVE  Adapter!AdapterInv'
<1>1. step \in Adapter!Running /\ step' = "stop" /\ out' = Adapter!Error /\ client' = Adapter!NoConn /\ list' = Adapter!NoList /\ heard' = <<>>
  BY DEF Adapter!Failed, Adapter!Expire, Adapter!Finish, Adapter!Forget, Adapter!Running
<1>2. proc # "none" /\ ~Adapter!Refusal
  BY <1>1 DEF Adapter!AdapterInv, Adapter!StartInv, Adapter!CallInv, Adapter!Running
<1>3. UNCHANGED <<cfg, disk, changes, late, measured, holding, kids, ran, toolCalls>> /\ proc' # "none"
  BY <1>2 DEF Adapter!Failed, Adapter!Expire, Adapter!files, Adapter!server
<1>4. Adapter!Shapes'
  BY <1>1, <1>3 DEF Adapter!AdapterInv, Adapter!Shapes, Adapter!NoConn, Adapter!NoList
<1>5. Adapter!StartInv'
  BY <1>1, <1>3, ServerKept
<1>6. Adapter!ListInv'
  BY <1>1 DEF Adapter!ListInv, Adapter!NoList
<1>7. Adapter!CallInv'
  BY <1>1, <1>2, <1>3 DEF Adapter!AdapterInv, Adapter!CallInv, Adapter!Calling, Adapter!Waits, Adapter!Declared, Adapter!Pinned, Adapter!Approves, Adapter!Projected, Adapter!Customer,
     Adapter!Refusal
<1>8. Adapter!OutInv'
  BY <1>1 DEF Adapter!OutInv, Adapter!Answered, Adapter!Error
<1> QED BY <1>4, <1>5, <1>6, <1>7, <1>8 DEF Adapter!AdapterInv

LEMMA InterruptedStep ==
  ASSUME Adapter!AdapterInv, NEW p, Adapter!Interrupted(p)
  PROVE  Adapter!AdapterInv'
<1>1. step = "wait" /\ proc # "none" /\ out = Adapter!NoOut
  BY DEF Adapter!AdapterInv, Adapter!Interrupted, Adapter!StartInv, Adapter!Running, Adapter!OutInv
<1>2. UNCHANGED <<cfg, disk, changes, late, step, measured, holding, proc, kids, ran, list, out, heard, toolCalls>>
  BY DEF Adapter!Interrupted, Adapter!files, Adapter!server
<1>3. /\ client' = [next |-> client'.next, asked |-> client'.asked, events |-> client'.events, peer |-> client'.peer,
                  stream |-> client'.stream, result |-> client'.result]
      /\ client'.asked = client.asked /\ client'.peer = client.peer /\ client'.stream = client.stream
  BY DEF Adapter!Interrupted, Adapter!AdapterInv, Adapter!Shapes
<1>4. Adapter!Shapes'
  BY <1>2, <1>3 DEF Adapter!AdapterInv, Adapter!Shapes
<1>5. Adapter!StartInv'
  BY <1>1, <1>2, ServerKept DEF Adapter!Running
<1>6. Adapter!ListInv'
  BY <1>2 DEF Adapter!AdapterInv, Adapter!ListInv, Adapter!Declared, Adapter!Pinned
<1>7. Adapter!CallInv'
  BY <1>2, <1>3 DEF Adapter!AdapterInv, Adapter!CallInv, Adapter!Calling, Adapter!Waits, Adapter!Declared, Adapter!Pinned, Adapter!Approves, Adapter!Projected, Adapter!Customer, Adapter!Drift, Adapter!Refusal
<1>8. Adapter!OutInv'
  BY <1>1, <1>2 DEF Adapter!OutInv
<1> QED BY <1>4, <1>5, <1>6, <1>7, <1>8 DEF Adapter!AdapterInv

LEMMA AnswerInitializeStep ==
  ASSUME Adapter!AdapterInv, NEW r, NEW e, Adapter!AnswerInitialize(r, e)
  PROVE  Adapter!AdapterInv'
<1>1. /\ step = "wait" /\ client.asked = "initialize" /\ toolCalls = <<>> /\ out = Adapter!NoOut /\ ~Adapter!Refusal
      /\ proc # "none"
  BY DEF Adapter!AdapterInv, Adapter!AnswerInitialize, Adapter!Answer, Adapter!Waits, Adapter!CallInv, Adapter!OutInv, Adapter!StartInv, Adapter!Running
<1>2. UNCHANGED <<cfg, disk, changes, late, measured, holding, proc, kids, ran, list, heard, toolCalls>>
  BY DEF Adapter!AnswerInitialize, Adapter!files, Adapter!server
<1>3. \/ step' = "initialized" /\ out' = out
      \/ step' = "stop" /\ out' = Adapter!Error
  BY DEF Adapter!AnswerInitialize, Adapter!Finish
<1>4. client' = [Adapter!NoConn EXCEPT !.next = client.next]
  BY DEF Adapter!AnswerInitialize, Adapter!Answer
<1>5. Adapter!Shapes'
  BY <1>2, <1>3, <1>4 DEF Adapter!AdapterInv, Adapter!Shapes, Adapter!Running, Adapter!NoConn
<1>6. Adapter!StartInv'
  BY <1>1, <1>2, <1>3, ServerKept DEF Adapter!Running
<1>7. Adapter!ListInv'
  BY <1>2 DEF Adapter!AdapterInv, Adapter!ListInv, Adapter!Declared, Adapter!Pinned
<1>8. Adapter!CallInv'
  BY <1>1, <1>2, <1>3 DEF Adapter!CallInv, Adapter!Calling, Adapter!Waits, Adapter!Refusal, Adapter!Declared, Adapter!Pinned, Adapter!Customer
<1>9. Adapter!OutInv'
  BY <1>1, <1>3 DEF Adapter!OutInv, Adapter!Answered, Adapter!Error
<1> QED BY <1>5, <1>6, <1>7, <1>8, <1>9 DEF Adapter!AdapterInv

(* What was listed and declared is of the declared tools. *)
LEMMA AllListed ==
  ASSUME Adapter!ListInv
  PROVE  DOMAIN list.found \subseteq Adapter!Tools
BY DEF Adapter!ListInv

LEMMA AnswerCallStep ==
  ASSUME Adapter!AdapterInv, NEW r, NEW e, Adapter!AnswerCall(r, e)
  PROVE  Adapter!AdapterInv'
<1>1. /\ step = "wait" /\ client.asked = "tools/call" /\ Adapter!Waits("tools/call") /\ out = Adapter!NoOut /\ ~Adapter!Refusal
      /\ proc # "none"
  BY DEF Adapter!AdapterInv, Adapter!AnswerCall, Adapter!Answer, Adapter!Waits, Adapter!CallInv, Adapter!OutInv, Adapter!StartInv, Adapter!Running
<1>2. UNCHANGED <<cfg, disk, changes, late, measured, holding, proc, kids, ran, list, heard, toolCalls>>
  BY DEF Adapter!AnswerCall, Adapter!files, Adapter!server
<1>3. /\ client' = [client EXCEPT !.result = [for |-> r, echoes |-> e, peer |-> client.stream]]
      /\ r = client.next /\ (~Adapter!Local => ~e)
  BY DEF Adapter!AnswerCall, Adapter!Answer, Adapter!Answers
<1>4. /\ client' = [next |-> client'.next, asked |-> client'.asked, events |-> client'.events, peer |-> client'.peer,
                  stream |-> client'.stream, result |-> client'.result]
      /\ client'.next = client.next /\ client'.peer = client.peer
      /\ client'.result.for = r /\ client'.result.echoes = e /\ client'.result.peer = client.stream
  BY <1>3 DEF Adapter!AdapterInv, Adapter!Shapes
<1>5. /\ step' = "stop"
      /\ \/ out' = Adapter!Error
         \/ out' = [status |-> "envelope", result |-> client'.result, peer |-> client'.peer, schema |-> list.schema]
         \/ out' = [status |-> "report", found |-> list.found]
  BY DEF Adapter!AnswerCall, Adapter!Finish
<1>6. /\ cfg.tool # None /\ cfg.tool \in DOMAIN list.found
      /\ Adapter!Declared => ~Adapter!Drift(list.found)
      /\ toolCalls = <<toolCalls[1]>> /\ client.peer = client.stream
  BY <1>1 DEF Adapter!AdapterInv, Adapter!CallInv, Adapter!Calling
<1>7. Adapter!Shapes'
  BY <1>2, <1>4, <1>5 DEF Adapter!AdapterInv, Adapter!Shapes
<1>8. Adapter!StartInv'
  BY <1>1, <1>2, <1>5, ServerKept DEF Adapter!Running
<1>9. Adapter!ListInv'
  BY <1>2 DEF Adapter!AdapterInv, Adapter!ListInv, Adapter!Declared, Adapter!Pinned
<1>10. Adapter!CallInv'
  BY <1>1, <1>2, <1>5 DEF Adapter!AdapterInv, Adapter!CallInv, Adapter!Calling, Adapter!Waits, Adapter!Declared, Adapter!Pinned, Adapter!Approves, Adapter!Projected, Adapter!Customer, Adapter!Refusal
<1>11. Adapter!Answered'
  <2>1. CASE out' = Adapter!Error
    BY <2>1 DEF Adapter!Answered, Adapter!Error
  <2>2. CASE out' = [status |-> "envelope", result |-> client'.result, peer |-> client'.peer, schema |-> list.schema]
    <3>1. /\ out'.status = "envelope" /\ out'.result = client'.result /\ out'.peer = client'.peer
          /\ out'.schema = list.schema
      BY <2>2
    <3>2. Len(toolCalls') = 1
      BY <1>2, <1>6
    <3>3. PICK j \in DOMAIN heard : heard[j] = [name |-> cfg.tool, d |-> list.found[cfg.tool]]
      BY <1>6 DEF Adapter!AdapterInv, Adapter!ListInv
    <3>4. heard[j].name = cfg.tool /\ heard[j].d = list.schema
      BY <1>6, <3>3 DEF Adapter!AdapterInv, Adapter!ListInv
    <3>5. ~Adapter!Local' => out'.peer = out'.result.peer /\ ~out'.result.echoes
      BY <1>2, <1>3, <1>4, <1>6, <3>1 DEF Adapter!Local
    <3> QED BY <1>2, <1>3, <1>4, <3>1, <3>2, <3>4, <3>5 DEF Adapter!Answered
  <2>3. CASE out' = [status |-> "report", found |-> list.found]
    <3>1. out'.status = "report" /\ out'.found = list.found
      BY <2>3
    <3>2. Adapter!Declared => DOMAIN list.found = Adapter!Tools
      BY <1>6, AllListed DEF Adapter!AdapterInv, Adapter!Drift
    <3>3. \A t \in DOMAIN list.found : \E j \in DOMAIN heard : heard[j] = [name |-> t, d |-> list.found[t]]
      BY DEF Adapter!AdapterInv, Adapter!ListInv
    <3> QED BY <1>2, <3>1, <3>2, <3>3 DEF Adapter!Answered, Adapter!Declared, Adapter!Pinned
  <2> QED BY <1>5, <2>1, <2>2, <2>3
<1>12. Adapter!OutInv'
  BY <1>5, <1>11 DEF Adapter!OutInv
<1> QED BY <1>7, <1>8, <1>9, <1>10, <1>12 DEF Adapter!AdapterInv

(* A tool is listed. *)
LEMMA ToolListed ==
  ASSUME Adapter!ListInv, NEW t \in Adapter!Tools, NEW x \in Adapter!Descriptors, cfg' = cfg,
         Adapter!Declared => ~Adapter!SeenTwice(list.seen, t),
         heard' = Append(heard, [name |-> t, d |-> x]),
         list'.seen = Append(list.seen, t),
         list'.found = [u \in DOMAIN list.found \cup {t} |-> IF u = t THEN x ELSE list.found[u]],
         list'.schema = IF t = cfg.tool THEN x ELSE list.schema
  PROVE  Adapter!ListInv'
<1>1. PICK n \in Nat : n = Len(heard) /\ n = Len(list.seen)
  BY DEF Adapter!ListInv
<1>2. /\ heard' \in Seq([name : Adapter!Tools, d : Adapter!Descriptors]) /\ list'.seen \in Seq(Adapter!Tools)
      /\ Len(heard') = n + 1 /\ Len(list'.seen) = n + 1
      /\ DOMAIN heard' = 1 .. n + 1 /\ DOMAIN heard = 1 .. n
  BY <1>1 DEF Adapter!ListInv
<1>3. \A i \in 1 .. n : heard'[i] = heard[i] /\ list'.seen[i] = list.seen[i]
  BY <1>1, <1>2 DEF Adapter!ListInv
<1>4. heard'[n + 1] = [name |-> t, d |-> x] /\ heard'[n + 1].name = t /\ list'.seen[n + 1] = t
  BY <1>1, <1>2 DEF Adapter!ListInv
<1>5. \A i \in 1 .. n + 1 : i \in 1 .. n \/ i = n + 1
  OBVIOUS
<1>6. /\ DOMAIN list'.found = DOMAIN list.found \cup {t}
      /\ list'.found[t] = x
      /\ \A u \in DOMAIN list.found : u # t => list'.found[u] = list.found[u]
  OBVIOUS
<1>7. \A i \in DOMAIN heard' : heard'[i].name = list'.seen[i] /\ heard'[i].name \in DOMAIN list'.found
  BY <1>2, <1>3, <1>4, <1>5, <1>6 DEF Adapter!ListInv
<1>8. ASSUME NEW u \in DOMAIN list'.found
      PROVE  \E j \in DOMAIN heard' : heard'[j] = [name |-> u, d |-> list'.found[u]]
  <2>1. CASE u = t
    BY <1>2, <1>4, <1>6, <2>1
  <2>2. CASE u # t
    <3>1. PICK j \in DOMAIN heard : heard[j] = [name |-> u, d |-> list.found[u]]
      BY <1>6, <2>2 DEF Adapter!ListInv
    <3> QED BY <1>2, <1>3, <1>6, <2>2, <3>1
  <2> QED BY <2>1, <2>2
<1>9. ASSUME Adapter!Declared', NEW i \in DOMAIN heard', NEW j \in DOMAIN heard', heard'[i].name = heard'[j].name
      PROVE  i = j
  <2>1. Adapter!Declared /\ ~Adapter!SeenTwice(list.seen, t)
    BY <1>9 DEF Adapter!Declared, Adapter!Pinned
  <2>2. DOMAIN list.seen = 1 .. n
    BY <1>1 DEF Adapter!ListInv
  <2>3. \A k \in 1 .. n : heard[k].name # t
    <3>1. \A k \in 1 .. n : list.seen[k] # t
      BY <2>1, <2>2 DEF Adapter!SeenTwice
    <3>2. \A k \in 1 .. n : heard[k].name = list.seen[k]
      BY <1>2 DEF Adapter!ListInv
    <3> QED BY <3>1, <3>2
  <2>4. \A k, l \in 1 .. n : heard[k].name = heard[l].name => k = l
    BY <1>2, <2>1 DEF Adapter!ListInv
  <2> QED BY <1>2, <1>3, <1>4, <1>5, <1>9, <2>3, <2>4
<1>10. cfg'.tool # None /\ cfg'.tool \in DOMAIN list'.found => list'.schema = list'.found[cfg'.tool]
  BY <1>6 DEF Adapter!ListInv
<1> QED BY <1>2, <1>7, <1>8, <1>9, <1>10 DEF Adapter!ListInv

LEMMA AnswerListStep ==
  ASSUME Adapter!AdapterInv, NEW r, NEW e, NEW n, NEW x, NEW c, n # None => n \in Adapter!Tools /\ x \in Adapter!Descriptors,
         Adapter!AnswerList(r, e, n, x, c)
  PROVE  Adapter!AdapterInv'
<1>1. /\ step = "wait" /\ client.asked = "tools/list" /\ toolCalls = <<>> /\ out = Adapter!NoOut /\ ~Adapter!Refusal
      /\ proc # "none"
  BY DEF Adapter!AdapterInv, Adapter!AnswerList, Adapter!Answer, Adapter!Waits, Adapter!CallInv, Adapter!OutInv, Adapter!StartInv, Adapter!Running
<1>2. UNCHANGED <<cfg, disk, changes, late, measured, holding, proc, kids, ran, toolCalls>>
  BY DEF Adapter!AnswerList, Adapter!files, Adapter!server
<1>3. client' = [Adapter!NoConn EXCEPT !.next = client.next]
  BY DEF Adapter!AnswerList, Adapter!Answer
<1>4. PICK seen, found, first, named :
        /\ seen = (IF n = None THEN list.seen ELSE Append(list.seen, n))
        /\ found = (IF n = None THEN list.found
                    ELSE [u \in DOMAIN list.found \cup {n} |-> IF u = n THEN x ELSE list.found[u]])
        /\ first = (cfg.op = "acquire" /\ ~Adapter!Declared /\ n = cfg.tool)
        /\ named = (IF cfg.op = "acquire" THEN {} ELSE cfg.tools) \cup ({cfg.tool} \ {None})
  OBVIOUS
<1>5. \/ step' = "stop" /\ out' = Adapter!Error /\ list' = Adapter!NoList /\ heard' = <<>>
      \/ /\ ~(Adapter!Declared /\ n # None /\ Adapter!SeenTwice(list.seen, n))
         /\ ~(c = None /\ Adapter!Declared /\ Adapter!Drift(found))
         /\ ~(c = None /\ ~first /\ \E t \in named : t \notin DOMAIN found)
         /\ heard' = (IF n = None THEN heard ELSE Append(heard, [name |-> n, d |-> x]))
         /\ list' = [list EXCEPT !.page = @ + 1, !.seen = seen, !.found = found, !.cursor = c,
                                 !.cursors = IF c = None THEN @ ELSE @ \cup {c},
                                 !.schema = IF n = cfg.tool THEN x ELSE @]
         /\ \/ step' = "list" /\ out' = out
            \/ c = None /\ cfg.tool = None /\ step' = "stop" /\ out' = [status |-> "report", found |-> found]
            \/ (c = None \/ first) /\ cfg.tool # None /\ step' = "call" /\ out' = out
  BY <1>4 DEF Adapter!AnswerList, Adapter!Finish
<1>6. CASE step' = "stop" /\ out' = Adapter!Error /\ list' = Adapter!NoList /\ heard' = <<>>
  <2>1. Adapter!Shapes'
    BY <1>2, <1>3, <1>6 DEF Adapter!AdapterInv, Adapter!Shapes, Adapter!NoConn, Adapter!NoList
  <2>2. Adapter!StartInv'
    BY <1>1, <1>2, <1>6, ServerKept DEF Adapter!Running
  <2>3. Adapter!ListInv'
    BY <1>6 DEF Adapter!ListInv, Adapter!NoList
  <2>4. Adapter!CallInv'
    BY <1>1, <1>2, <1>6 DEF Adapter!CallInv, Adapter!Calling, Adapter!Waits, Adapter!Declared, Adapter!Pinned, Adapter!Customer, Adapter!Refusal
  <2>5. Adapter!OutInv'
    BY <1>6 DEF Adapter!OutInv, Adapter!Answered, Adapter!Error
  <2> QED BY <2>1, <2>2, <2>3, <2>4, <2>5 DEF Adapter!AdapterInv
<1>7. CASE
         /\ ~(Adapter!Declared /\ n # None /\ Adapter!SeenTwice(list.seen, n))
         /\ ~(c = None /\ Adapter!Declared /\ Adapter!Drift(found))
         /\ ~(c = None /\ ~first /\ \E t \in named : t \notin DOMAIN found)
         /\ heard' = (IF n = None THEN heard ELSE Append(heard, [name |-> n, d |-> x]))
         /\ list' = [list EXCEPT !.page = @ + 1, !.seen = seen, !.found = found, !.cursor = c,
                                 !.cursors = IF c = None THEN @ ELSE @ \cup {c},
                                 !.schema = IF n = cfg.tool THEN x ELSE @]
         /\ \/ step' = "list" /\ out' = out
            \/ c = None /\ cfg.tool = None /\ step' = "stop" /\ out' = [status |-> "report", found |-> found]
            \/ (c = None \/ first) /\ cfg.tool # None /\ step' = "call" /\ out' = out
  <2>1. /\ list' = [page |-> list'.page, seen |-> list'.seen, cursors |-> list'.cursors, cursor |-> list'.cursor,
                    found |-> list'.found, schema |-> list'.schema]
        /\ list'.seen = seen /\ list'.found = found /\ list'.cursor = c
        /\ list'.schema = IF n = cfg.tool THEN x ELSE list.schema
    BY <1>7 DEF Adapter!AdapterInv, Adapter!Shapes
  <2>2. /\ step' \in {"list", "stop", "call"}
        /\ step' = "stop" => c = None /\ out' = [status |-> "report", found |-> found]
        /\ step' = "call" => (c = None \/ first) /\ cfg.tool # None
        /\ step' # "stop" => out' = out
    BY <1>7
  <2>3. Adapter!Shapes'
    BY <1>2, <1>3, <2>1, <2>2 DEF Adapter!AdapterInv, Adapter!Shapes, Adapter!NoConn, Adapter!Running
  <2>4. Adapter!StartInv'
    BY <1>1, <1>2, <2>2, ServerKept DEF Adapter!Running
  <2>5. Adapter!ListInv'
    <3>1. CASE n = None
      <4>1. heard' = heard /\ list'.seen = list.seen /\ list'.found = list.found
        BY <1>4, <1>7, <2>1, <3>1
      <4>2. cfg.tool # None => list'.schema = list.schema
        BY <2>1, <3>1
      <4> QED BY <1>2, <4>1, <4>2 DEF Adapter!AdapterInv, Adapter!ListInv, Adapter!Declared, Adapter!Pinned
    <3>2. CASE n # None
      <4>1. /\ heard' = Append(heard, [name |-> n, d |-> x])
            /\ list'.seen = Append(list.seen, n)
            /\ list'.found = [u \in DOMAIN list.found \cup {n} |-> IF u = n THEN x ELSE list.found[u]]
            /\ Adapter!Declared => ~Adapter!SeenTwice(list.seen, n)
        BY <1>4, <1>7, <2>1, <3>2
      <4> QED BY <1>2, <2>1, <3>2, <4>1, ToolListed DEF Adapter!AdapterInv
    <3> QED BY <3>1, <3>2
  <2>6. step' = "call" =>
          /\ cfg.tool \in DOMAIN found
          /\ Adapter!Declared => c = None /\ ~Adapter!Drift(found)
    <3>1. CASE first /\ cfg.tool # None
      BY <1>4, <3>1
    <3>2. CASE c = None /\ ~first /\ cfg.tool # None
      BY <1>4, <1>7, <3>2
    <3> QED BY <2>2, <3>1, <3>2
  <2>7. Adapter!CallInv'
    <3>1. (Adapter!Refusal' <=> Adapter!Refusal) /\ (Adapter!Declared' <=> Adapter!Declared) /\ (Adapter!Drift(list.found)' <=> Adapter!Drift(found))
      BY <1>2, <2>1 DEF Adapter!Refusal, Adapter!Declared, Adapter!Pinned, Adapter!Customer, Adapter!Drift, Adapter!Projected
    <3>2. ~Adapter!Waits("tools/call")' /\ (Adapter!Calling' <=> step' = "call")
      BY <2>2 DEF Adapter!Waits, Adapter!Calling
    <3> QED BY <1>1, <1>2, <2>1, <2>2, <2>6, <3>1, <3>2 DEF Adapter!CallInv
  <2>8. Adapter!OutInv'
    <3>1. CASE step' = "stop"
      <4>1. out'.status = "report" /\ out'.found = found
        BY <2>2, <3>1
      <4>2. Adapter!Declared => Adapter!Tools \subseteq DOMAIN found
        BY <1>7, <2>2, <3>1 DEF Adapter!Drift
      <4>3. DOMAIN found \subseteq Adapter!Tools
        BY <2>1, <2>5 DEF Adapter!ListInv
      <4>4. \A t \in DOMAIN found : \E j \in DOMAIN heard' : heard'[j] = [name |-> t, d |-> found[t]]
        BY <2>1, <2>5 DEF Adapter!ListInv
      <4> QED BY <1>2, <3>1, <4>1, <4>2, <4>3, <4>4 DEF Adapter!OutInv, Adapter!Answered, Adapter!Declared, Adapter!Pinned
    <3>2. CASE step' # "stop"
      BY <1>1, <2>2, <3>2 DEF Adapter!OutInv
    <3> QED BY <3>1, <3>2
  <2> QED BY <2>3, <2>4, <2>5, <2>7, <2>8 DEF Adapter!AdapterInv
<1> QED BY <1>5, <1>6, <1>7

LEMMA AdapterStutters ==
  ASSUME Adapter!AdapterInv, UNCHANGED adapterVars
  PROVE  Adapter!AdapterInv'
<1>1. UNCHANGED <<cfg, disk, changes, late, step, measured, holding, proc, kids, ran, client, list, out, heard, toolCalls>>
  BY DEF adapterVars
<1>2. Adapter!Shapes' /\ Adapter!ListInv'
  BY <1>1 DEF Adapter!AdapterInv, Adapter!Shapes, Adapter!ListInv, Adapter!Declared, Adapter!Pinned
<1>3. Adapter!StartInv'
  BY <1>1 DEF Adapter!AdapterInv, Adapter!StartInv, Adapter!Customer, Adapter!Pinned, Adapter!RunsAsApproved
<1>4. Adapter!CallInv'
  BY <1>1 DEF Adapter!AdapterInv, Adapter!CallInv, Adapter!Calling, Adapter!Waits, Adapter!Declared, Adapter!Pinned, Adapter!Approves, Adapter!Projected, Adapter!Customer, Adapter!Drift, Adapter!Refusal
<1>5. Adapter!OutInv'
  BY <1>1 DEF Adapter!AdapterInv, Adapter!OutInv, Adapter!Answered, Adapter!Local, Adapter!Declared, Adapter!Pinned
<1> QED BY <1>2, <1>3, <1>4, <1>5 DEF Adapter!AdapterInv

LEMMA AdapterStep ==
  ASSUME Adapter!AdapterInv, Adapter!Next
  PROVE  Adapter!AdapterInv'
<1>1. CASE Adapter!Step
  BY <1>1, BeginStep, MeasureSteps, RecheckSteps, StartStep, AskSteps, InitializedStep, CallToolStep,
     ExitSteps, ReapStep DEF Adapter!Step
<1>2. CASE Adapter!Hear
  <2>1. ASSUME NEW r, NEW e, NEW c, NEW i \in Adapter!Page, Adapter!AnswerList(r, e, i.name, i.d, c) PROVE Adapter!AdapterInv'
    <3>1. i.name # None => i.name \in Adapter!Tools /\ i.d \in Adapter!Descriptors
      BY DEF Adapter!Page
    <3> QED BY <2>1, <3>1, AnswerListStep
  <2> QED BY <1>2, <2>1, ForgetSteps, InterruptedStep, AnswerInitializeStep, AnswerCallStep DEF Adapter!Hear
<1>3. CASE Adapter!Expire \/ Adapter!ServerExits
  BY <1>3, ForgetSteps, ExitSteps
<1>4. CASE \E f \in DOMAIN disk : Adapter!Replace(f)
  BY <1>4, ReplaceStep
<1> QED BY <1>1, <1>2, <1>3, <1>4 DEF Adapter!Next

(* What the invariant says of the calls, the answers and what is left. *)
LEMMA AdapterSays ==
  ASSUME Adapter!AdapterInv
  PROVE  Adapter!CalledAsApproved /\ Adapter!AnswersAreTrue /\ Adapter!NothingLeftBehind
<1>1. Adapter!AnswersAreTrue
  BY DEF Adapter!AdapterInv, Adapter!OutInv, Adapter!AnswersAreTrue
<1>2. Adapter!NothingLeftBehind
  BY DEF Adapter!AdapterInv, Adapter!StartInv, Adapter!NothingLeftBehind
<1>3. Adapter!Customer /\ Adapter!Pinned /\ proc # "none" => Adapter!RunsAsApproved
  BY DEF Adapter!AdapterInv, Adapter!StartInv
<1>4. ASSUME NEW i \in DOMAIN toolCalls
      PROVE  /\ cfg.tools # {} => toolCalls[i].tool \in cfg.tools
             /\ Adapter!Declared /\ cfg.op # "acquire" => toolCalls[i].tool # "t2"
             /\ Adapter!Pinned => /\ toolCalls[i].ended
                          /\ \A t \in Adapter!Tools :
                               /\ Cardinality({j \in DOMAIN toolCalls[i].heard : toolCalls[i].heard[j].name = t}) = 1
                               /\ \A j \in {j \in DOMAIN toolCalls[i].heard : toolCalls[i].heard[j].name = t} :
                                    Adapter!Projected(toolCalls[i].heard[j].d) = Adapter!Projected(Adapter!Approved)
  <2>1. toolCalls # <<>>
    OBVIOUS
  <2>2. /\ toolCalls = <<toolCalls[1]>> /\ ~Adapter!Refusal /\ toolCalls[1].tool = cfg.tool /\ cfg.tool # None
        /\ Adapter!Pinned => toolCalls[1].ended /\ Adapter!Approves(toolCalls[1].heard)
    BY <2>1 DEF Adapter!AdapterInv, Adapter!CallInv
  <2>3. i = 1
    BY <2>2
  <2>4. ASSUME Adapter!Pinned, NEW t \in Adapter!Tools
        PROVE  /\ Cardinality({j \in DOMAIN toolCalls[1].heard : toolCalls[1].heard[j].name = t}) = 1
               /\ \A j \in {j \in DOMAIN toolCalls[1].heard : toolCalls[1].heard[j].name = t} :
                    Adapter!Projected(toolCalls[1].heard[j].d) = Adapter!Projected(Adapter!Approved)
    <3>1. PICK h : h = toolCalls[1].heard
      OBVIOUS
    <3>2. PICK j \in DOMAIN h :
            /\ h[j].name = t /\ Adapter!Projected(h[j].d) = Adapter!Projected(Adapter!Approved)
            /\ \A k \in DOMAIN h : h[k].name = t => k = j
      BY <2>2, <2>4, <3>1 DEF Adapter!Approves
    <3>3. {k \in DOMAIN h : h[k].name = t} = {j}
      BY <3>2
    <3>4. Cardinality({j}) = 1
      BY FS_Singleton
    <3> QED BY <3>1, <3>2, <3>3, <3>4
  <2> QED BY <2>2, <2>3, <2>4 DEF Adapter!Refusal
<1>5. Adapter!CalledAsApproved
  BY <1>3, <1>4, CountAlike DEF Adapter!CalledAsApproved
<1> QED BY <1>1, <1>2, <1>5

(* A tool is called only as the configuration and the approval have it,     *)
(* what the adapter answers is its own call's answer and the server's own   *)
(* descriptors, and nothing it started is left behind unsaid (approval.go,  *)
(* client.go, server.go).                                                   *)
THEOREM AdapterStaysTrue == MCSpec => []AdapterIsTrue
<1> DEFINE Inv == part = "adapter" => Adapter!AdapterInv
<1>1. MCInit => Inv
  BY AdapterInitially DEF MCInit
<1>2. Inv /\ [MCNext]_allVars => Inv'
  <2> SUFFICES ASSUME Inv, [MCNext]_allVars, part' = "adapter" PROVE Adapter!AdapterInv'
    OBVIOUS
  <2>1. part' = part
    BY DEF MCNext, allVars
  <2>2. Adapter!AdapterInv
    BY <2>1
  <2>3. CASE Adapter!Next
    BY <2>2, <2>3, AdapterStep
  <2>4. CASE UNCHANGED adapterVars
    BY <2>2, <2>4, AdapterStutters
  <2> QED BY <2>1, <2>3, <2>4 DEF MCNext, allVars
<1>3. Inv => AdapterIsTrue
  BY AdapterSays DEF AdapterIsTrue
<1> QED BY <1>1, <1>2, <1>3, PTL DEF MCSpec
-----------------------------------------------------------------------------
(* The reads of a workspace's connections. *)

(* The finite sets of the connections, and their sizes, are those there are. *)
LEMMA FiniteAlike ==
  ASSUME NEW S
  PROVE  Workspace!IsFiniteSet(S) = IsFiniteSet(S) /\ Workspace!Cardinality(S) = Cardinality(S)
BY DEF Workspace!IsFiniteSet, IsFiniteSet, Workspace!Cardinality, Cardinality

(* A read that has not begun, or has ended with nothing kept. *)
LEMMA OutcomeTyped ==
  ASSUME NEW end \in {"ok", "refused", "none"}
  PROVE  /\ Workspace!Outcome(end) \in Workspace!ReadRecords
         /\ Workspace!ReadInv(Workspace!Outcome(end)) /\ Workspace!ReadInv(Workspace!Outcome(end))'
<1>1. PICK q : q = Workspace!Outcome(end)
  OBVIOUS
<1>2. q \in Workspace!ReadRecords /\ q.step = "done" /\ q.out # "envelope"
  BY <1>1 DEF Workspace!Outcome, Workspace!Rest, Workspace!ReadRecords, Workspace!Early, Workspace!Late, Workspace!Asked
<1>3. Workspace!ReadInv(q) /\ Workspace!ReadInv(q)'
  BY <1>2 DEF Workspace!ReadInv, Workspace!Early, Workspace!Late
<1> QED BY <1>1, <1>2, <1>3

LEMMA WorkspaceInitially == Workspace!Init => Workspace!WorkspaceInv
<1> SUFFICES ASSUME Workspace!Init PROVE Workspace!WorkspaceInv
  OBVIOUS
<1>1. Workspace!Rest \in Workspace!ReadRecords
  BY DEF Workspace!Rest, Workspace!ReadRecords, Workspace!Early, Workspace!Late, Workspace!Asked
<1>2. Workspace!TypeOK
  BY <1>1, FS_EmptySet, FiniteAlike DEF Workspace!Init, Workspace!TypeOK
<1>3. Workspace!ReadInv(Workspace!Rest)
  BY WorkspaceAssumption DEF Workspace!Rest, Workspace!ReadInv, Workspace!Early, Workspace!Late
<1> QED BY <1>2, <1>3 DEF Workspace!Init, Workspace!WorkspaceInv, Workspace!CustodyInv

(* A new credential. *)
LEMMA CredentialTyped ==
  ASSUME Workspace!TypeOK, NEW place \in Workspace!Places
  PROVE  /\ Workspace!Credential(place) \in Workspace!Credentials /\ Workspace!Credential(place).place = place
         /\ issued \cup {Workspace!Credential(place)} \subseteq Workspace!Credentials
         /\ Workspace!IsFiniteSet(issued \cup {Workspace!Credential(place)})
<1>1. Workspace!Cardinality(issued) \in Nat
  BY FS_CardinalityType, FiniteAlike DEF Workspace!TypeOK
<1>2. Workspace!Credential(place) \in Workspace!Credentials /\ Workspace!Credential(place).place = place
  BY <1>1 DEF Workspace!Credential, Workspace!Credentials
<1>3. Workspace!IsFiniteSet(issued \cup {Workspace!Credential(place)})
  BY FS_AddElement, FiniteAlike DEF Workspace!TypeOK
<1> QED BY <1>2, <1>3 DEF Workspace!TypeOK

(* What is said of a read is of the store alone. *)
LEMMA ReadStands ==
  ASSUME NEW q, UNCHANGED <<platform, links, minted, drawn>>, Workspace!ReadInv(q)
  PROVE  Workspace!ReadInv(q)'
<1>1. Workspace!ConnectionInv(q) => Workspace!ConnectionInv(q)'
  BY DEF Workspace!ConnectionInv, Workspace!Current, Workspace!Custody, Workspace!Active
<1>2. Workspace!EarlyInv(q) => Workspace!EarlyInv(q)'
  BY DEF Workspace!EarlyInv
<1>3. Workspace!LateInv(q) => Workspace!LateInv(q)'
  BY DEF Workspace!LateInv, Workspace!Held
<1> QED BY <1>1, <1>2, <1>3 DEF Workspace!ReadInv

(* A read's own step, which leaves the store alone. *)
LEMMA ReadMoves ==
  ASSUME Workspace!WorkspaceInv, NEW r \in Readers, NEW q \in Workspace!ReadRecords, Workspace!Go(r, q), Workspace!ReadInv(q),
         UNCHANGED <<platform, links, minted, barred, drawn, time>>,
         issued' \subseteq Workspace!Credentials, Workspace!IsFiniteSet(issued'),
         \A s \in sent' : s.credential.place = s.to
  PROVE  Workspace!WorkspaceInv'
<1>1. reads' \in [Readers -> Workspace!ReadRecords] /\ reads'[r] = q
      /\ \A d \in Readers : d # r => reads'[d] = reads[d]
  BY DEF Workspace!WorkspaceInv, Workspace!TypeOK, Workspace!Go
<1>2. Workspace!TypeOK'
  BY <1>1 DEF Workspace!WorkspaceInv, Workspace!TypeOK
<1>3. Workspace!CustodyInv'
  BY DEF Workspace!WorkspaceInv, Workspace!CustodyInv
<1>4. ASSUME NEW d \in Readers PROVE Workspace!ReadInv(reads[d])'
  <2>1. PICK k : k = IF d = r THEN q ELSE reads[d]
    OBVIOUS
  <2>2. Workspace!ReadInv(k) /\ k = reads'[d]
    BY <1>1, <2>1 DEF Workspace!WorkspaceInv
  <2>3. Workspace!ReadInv(k)'
    BY <2>2, ReadStands
  <2> QED BY <2>2, <2>3
<1> QED BY <1>2, <1>3, <1>4 DEF Workspace!WorkspaceInv

LEMMA ReadEnds ==
  ASSUME Workspace!WorkspaceInv, NEW r \in Readers, NEW end \in {"ok", "refused", "none"}, Workspace!End(r, end), Workspace!Kept
  PROVE  Workspace!WorkspaceInv'
<1>1. /\ issued' \subseteq Workspace!Credentials /\ Workspace!IsFiniteSet(issued')
      /\ \A s \in sent' : s.credential.place = s.to
  BY DEF Workspace!Kept, Workspace!WorkspaceInv, Workspace!TypeOK, Workspace!CustodyInv
<1>2. PICK q \in Workspace!ReadRecords : q = Workspace!Outcome(end)
  BY OutcomeTyped
<1> QED BY <1>1, <1>2, OutcomeTyped, ReadMoves DEF Workspace!End, Workspace!Kept, Workspace!store

(* What a read is told changes nothing else of it. *)
Told(q, h, on) == [q EXCEPT !.held = h, !.live = on]

LEMMA ToldTyped ==
  ASSUME NEW q \in Workspace!ReadRecords, NEW h \in SUBSET Workspace!Credentials, NEW on \in BOOLEAN,
         NEW k, k = Told(q, h, on)
  PROVE  /\ k \in Workspace!ReadRecords /\ k.held = h /\ k.live = on
         /\ k.step = q.step /\ k.kind = q.kind /\ k.request = q.request /\ k.id = q.id /\ k.c = q.c
         /\ k.text = q.text /\ k.tool = q.tool /\ k.known = q.known /\ k.bearer = q.bearer
         /\ k.listed = q.listed /\ k.ids = q.ids /\ k.peer = q.peer /\ k.items = q.items
         /\ k.spelled = q.spelled /\ k.out = q.out
BY DEF Told, Workspace!ReadRecords

(* A change of the store: reads under way are told of it, and one whose connection is no *)
(* longer as it was stays so, for what is configured anew is numbered anew.              *)
LEMMA WatchKeeps ==
  ASSUME Workspace!WorkspaceInv, platform' = platform, barred' \in BOOLEAN,
         links' \in [Ids -> Workspace!Connections \cup {None}],
         \A i \in Ids : links'[i] = links[i] \/ links'[i] = None \/ links'[i].revision > drawn,
         drawn' \in Nat, drawn <= drawn',
         NEW r \in Readers, NEW k, k = Workspace!Watch(links', minted')[r]
  PROVE  /\ k \in Workspace!ReadRecords /\ Workspace!ReadInv(k)'
         /\ reads[r].step \notin {"idle", "done"} => k = [reads[r] EXCEPT !.held = k.held, !.live = k.live]
<1> DEFINE q == reads[r]
<1>1. q \in Workspace!ReadRecords /\ Workspace!ReadInv(q) /\ Workspace!TypeOK
  BY DEF Workspace!WorkspaceInv, Workspace!TypeOK
<1>2. CASE q.step \in {"idle", "done"}
  <2>1. k = q
    BY <1>2 DEF Workspace!Watch
  <2>2. Workspace!ReadInv(k)'
    BY <1>1, <1>2, <2>1 DEF Workspace!ReadInv, Workspace!KeptInv, Workspace!Early, Workspace!Late, Workspace!Sensitive
  <2> QED BY <1>1, <1>2, <2>1, <2>2
<1>3. CASE q.step \notin {"idle", "done"}
  <2>1. PICK h, on : /\ h = q.held \cap Workspace!Active(links', minted')
                     /\ on = (q.live /\ links'[q.id] # None /\ links'[q.id].revision = q.c.revision)
    OBVIOUS
  <2>2. k = [q EXCEPT !.held = h, !.live = on]
    BY <1>3, <2>1 DEF Workspace!Watch
  <2>3. h \in SUBSET Workspace!Credentials /\ on \in BOOLEAN /\ h \subseteq q.held
    BY <1>1, <2>1 DEF Workspace!ReadRecords
  <2>4. /\ k \in Workspace!ReadRecords /\ k.held = h /\ k.live = on
        /\ k.step = q.step /\ k.kind = q.kind /\ k.request = q.request /\ k.id = q.id /\ k.c = q.c
        /\ k.text = q.text /\ k.tool = q.tool /\ k.known = q.known /\ k.bearer = q.bearer
        /\ k.listed = q.listed /\ k.ids = q.ids /\ k.peer = q.peer /\ k.items = q.items
        /\ k.spelled = q.spelled /\ k.out = q.out
    <3>1. PICK d \in Workspace!ReadRecords : d = q
      BY <1>1
    <3>2. k = Told(d, h, on)
      BY <2>2, <3>1 DEF Told
    <3>3. /\ k \in Workspace!ReadRecords /\ k.held = h /\ k.live = on
          /\ k.step = d.step /\ k.kind = d.kind /\ k.request = d.request /\ k.id = d.id /\ k.c = d.c
          /\ k.text = d.text /\ k.tool = d.tool /\ k.known = d.known /\ k.bearer = d.bearer
          /\ k.listed = d.listed /\ k.ids = d.ids /\ k.peer = d.peer /\ k.items = d.items
          /\ k.spelled = d.spelled /\ k.out = d.out
      BY <2>3, <3>2, ToldTyped
    <3> QED BY <3>1, <3>3
  <2>5. Workspace!ConnectionInv(q) /\ q.step \in Workspace!Early \cup Workspace!Late
    BY <1>1, <1>3 DEF Workspace!ReadInv, Workspace!ReadRecords
  <2>6. Workspace!ConnectionInv(k)'
    <3>1. /\ q.id \in Ids /\ q.c \in Workspace!Connections /\ q.c.revision <= drawn /\ q.c.revision \in Nat
          /\ drawn \in Nat
      BY <1>1, <2>5 DEF Workspace!ConnectionInv, Workspace!Connections, Workspace!TypeOK
    <3>2. Workspace!Current(k)' => Workspace!Current(q) /\ links'[q.id] = links[q.id]
      <4>1. links'[q.id] # None => links'[q.id].revision \in Nat
        BY <3>1 DEF Workspace!Connections
      <4> QED BY <2>4, <3>1, <4>1 DEF Workspace!Current
    <3>3. Workspace!Current(k)' => links'[k.id] = k.c
      BY <2>4, <2>5, <3>2 DEF Workspace!ConnectionInv
    <3>4. k.live \/ ~Workspace!Current(k)'
      BY <2>1, <2>4, <2>5, <3>2 DEF Workspace!ConnectionInv, Workspace!Current
    <3>5. k.held \subseteq Workspace!Custody'
      BY <2>1, <2>4 DEF Workspace!Custody
    <3>6. k.c.revision <= drawn'
      BY <2>4, <3>1
    <3> QED BY <2>4, <2>5, <3>3, <3>4, <3>5, <3>6 DEF Workspace!ConnectionInv
  <2>7. Workspace!EarlyInv(q) => Workspace!EarlyInv(k)'
    BY <2>3, <2>4 DEF Workspace!EarlyInv
  <2>8. Workspace!LateInv(q) => Workspace!LateInv(k)'
    BY <2>3, <2>4 DEF Workspace!LateInv, Workspace!Sensitive, Workspace!Held
  <2>9. k.out # "envelope"
    BY <2>4, <2>5, WorkspaceAssumption DEF Workspace!ConnectionInv
  <2>10. Workspace!ReadInv(k)'
    BY <1>1, <2>4, <2>6, <2>7, <2>8, <2>9 DEF Workspace!ReadInv
  <2> QED BY <2>2, <2>4, <2>10
<1> QED BY <1>2, <1>3

(* An operation of the broker's. *)
LEMMA BrokerChanges ==
  ASSUME Workspace!WorkspaceInv, platform' = platform, barred' \in BOOLEAN,
         links' \in [Ids -> Workspace!Connections \cup {None}], minted' \in [Ids -> Workspace!HeldTokens \cup {None}],
         \A i \in Ids : links'[i] = links[i] \/ links'[i] = None \/ links'[i].revision > drawn,
         drawn' \in Nat, drawn <= drawn', time' = time, sent' = sent,
         issued' \subseteq Workspace!Credentials, Workspace!IsFiniteSet(issued'),
         reads' = Workspace!Watch(links', minted'), Workspace!CustodyInv'
  PROVE  Workspace!WorkspaceInv'
<1>1. ASSUME NEW r \in Readers PROVE reads'[r] \in Workspace!ReadRecords /\ Workspace!ReadInv(reads[r])'
  <2>1. PICK k : k = Workspace!Watch(links', minted')[r]
    OBVIOUS
  <2> QED BY <2>1, WatchKeeps
<1>2. reads' \in [Readers -> Workspace!ReadRecords]
  BY <1>1 DEF Workspace!Watch
<1>3. Workspace!TypeOK'
  BY <1>2 DEF Workspace!WorkspaceInv, Workspace!TypeOK
<1> QED BY <1>1, <1>3 DEF Workspace!WorkspaceInv

LEMMA ConfigureLink ==
  ASSUME Workspace!WorkspaceInv, NEW id \in Ids, NEW place \in Workspace!Places,
         NEW auth \in {"token", "service-principal", "bearer"}, NEW new \in BOOLEAN,
         NEW tools \in SUBSET {"t1"}, NEW text, Workspace!Configure(id, place, auth, new, tools, text)
  PROVE  Workspace!WorkspaceInv'
<1> DEFINE c == links[id]
<1>1. PICK secret : secret = IF new THEN Workspace!Credential(place) ELSE c.secret
  OBVIOUS
<1>2. PICK expires : expires = IF auth # "bearer" THEN 0 ELSE IF new THEN time + 1 ELSE c.expires
  OBVIOUS
<1>3. PICK q : q = [revision |-> drawn + 1, place |-> place, auth |-> auth, secret |-> secret, tools |-> tools,
                    expires |-> expires]
  OBVIOUS
<1>4. Workspace!TypeOK /\ Workspace!CustodyInv /\ drawn \in Nat /\ time \in Nat
  BY DEF Workspace!WorkspaceInv, Workspace!TypeOK
<1>5. /\ secret \in Workspace!Credentials /\ secret.place = place /\ expires \in Nat
      /\ issued \cup {secret} \subseteq Workspace!Credentials /\ Workspace!IsFiniteSet(issued \cup {secret})
  <2>1. CASE new
    <3>1. secret = Workspace!Credential(place) /\ expires \in Nat
      BY <1>1, <1>2, <1>4, <2>1
    <3> QED BY <1>4, <3>1, CredentialTyped
  <2>2. CASE ~new
    <3>1. c # None /\ c.place = place /\ c \in Workspace!Connections /\ c.secret.place = c.place
      BY <1>4, <2>2 DEF Workspace!Configure, Workspace!Keeps, Workspace!CustodyInv, Workspace!TypeOK
    <3>2. secret \in Workspace!Credentials /\ secret.place = place /\ expires \in Nat
      BY <1>1, <1>2, <2>2, <3>1 DEF Workspace!Connections
    <3>3. Workspace!IsFiniteSet(issued \cup {secret})
      BY <1>4, FS_AddElement, FiniteAlike DEF Workspace!TypeOK
    <3> QED BY <1>4, <3>2, <3>3 DEF Workspace!TypeOK
  <2> QED BY <2>1, <2>2
<1>6. q \in Workspace!Connections /\ q.revision = drawn + 1 /\ q.secret = secret /\ q.place = place
  BY <1>3, <1>4, <1>5 DEF Workspace!Connections
<1>7. /\ links' = [links EXCEPT ![id] = q] /\ minted' = [minted EXCEPT ![id] = None]
      /\ drawn' = drawn + 1 /\ issued' = issued \cup {secret}
      /\ reads' = Workspace!Watch(links', minted')
      /\ platform' = platform /\ barred' = barred /\ time' = time /\ sent' = sent
  BY <1>1, <1>2, <1>3 DEF Workspace!Configure
<1>8. /\ links' \in [Ids -> Workspace!Connections \cup {None}] /\ minted' \in [Ids -> Workspace!HeldTokens \cup {None}]
      /\ \A i \in Ids : links'[i] = IF i = id THEN q ELSE links[i]
      /\ \A i \in Ids : minted'[i] = IF i = id THEN None ELSE minted[i]
  BY <1>4, <1>6, <1>7 DEF Workspace!TypeOK
<1>9. Workspace!CustodyInv'
  <2>1. ASSUME NEW i \in Ids, links'[i] # None
        PROVE  links'[i].secret.place = links'[i].place /\ links'[i].revision <= drawn'
    <3>1. CASE i = id
      BY <1>4, <1>5, <1>6, <1>7, <1>8, <3>1
    <3>2. CASE i # id
      <4>1. links'[i] = links[i] /\ links[i].revision <= drawn /\ links[i] \in Workspace!Connections
        BY <1>4, <1>8, <2>1, <3>2 DEF Workspace!CustodyInv, Workspace!TypeOK
      <4>2. links[i].revision \in Nat /\ links[i].secret.place = links[i].place
        BY <1>4, <1>8, <2>1, <3>2, <4>1 DEF Workspace!CustodyInv, Workspace!Connections
      <4> QED BY <1>4, <1>7, <4>1, <4>2
    <3> QED BY <3>1, <3>2
  <2>2. ASSUME NEW i \in Ids, minted'[i] # None
        PROVE  /\ links'[i] # None /\ minted'[i].revision = links'[i].revision
               /\ minted'[i].access.place = links'[i].place
    BY <1>4, <1>8, <2>2 DEF Workspace!CustodyInv
  <2> QED BY <1>4, <1>7, <2>1, <2>2 DEF Workspace!CustodyInv
<1>10. \A i \in Ids : links'[i] = links[i] \/ links'[i].revision > drawn
  BY <1>4, <1>6, <1>8
<1> QED BY <1>4, <1>5, <1>7, <1>8, <1>9, <1>10, BrokerChanges DEF Workspace!TypeOK

LEMMA OtherOperations ==
  ASSUME Workspace!WorkspaceInv,
         (\E i \in Ids : Workspace!Disconnect(i) \/ Workspace!Block(i)) \/ Workspace!SetPolicy \/ Workspace!HourPasses
  PROVE  Workspace!WorkspaceInv'
<1>1. Workspace!TypeOK /\ Workspace!CustodyInv
  BY DEF Workspace!WorkspaceInv
<1>2. ASSUME NEW i \in Ids, Workspace!Disconnect(i) PROVE Workspace!WorkspaceInv'
  <2>1. /\ links' = [links EXCEPT ![i] = None] /\ minted' = [minted EXCEPT ![i] = None]
        /\ reads' = Workspace!Watch(links', minted')
        /\ UNCHANGED <<platform, barred, drawn, issued, time, sent>>
    BY <1>2 DEF Workspace!Disconnect
  <2>2. /\ links' \in [Ids -> Workspace!Connections \cup {None}] /\ minted' \in [Ids -> Workspace!HeldTokens \cup {None}]
        /\ \A j \in Ids : links'[j] = IF j = i THEN None ELSE links[j]
        /\ \A j \in Ids : minted'[j] = IF j = i THEN None ELSE minted[j]
    BY <1>1, <2>1 DEF Workspace!TypeOK
  <2>3. Workspace!CustodyInv'
    BY <1>1, <2>1, <2>2 DEF Workspace!CustodyInv
  <2> QED BY <1>1, <2>1, <2>2, <2>3, BrokerChanges DEF Workspace!TypeOK
<1>3. CASE Workspace!SetPolicy \/ Workspace!HourPasses \/ \E i \in Ids : Workspace!Block(i)
  <2>1. UNCHANGED <<platform, links, minted, drawn, issued, reads, sent>> /\ time' \in Nat
    BY <1>1, <1>3 DEF Workspace!SetPolicy, Workspace!HourPasses, Workspace!Block, Workspace!store, Workspace!TypeOK
  <2>a. barred' = ~barred \/ barred' = barred
    BY <1>3, Zenon DEF Workspace!SetPolicy, Workspace!HourPasses, Workspace!Block, Workspace!store
  <2>b. barred' \in BOOLEAN
    BY <1>1, <2>a DEF Workspace!TypeOK
  <2>2. Workspace!TypeOK' /\ Workspace!CustodyInv'
    BY <1>1, <2>1, <2>b DEF Workspace!TypeOK, Workspace!CustodyInv
  <2>3. ASSUME NEW r \in Readers PROVE Workspace!ReadInv(reads[r])'
    <3>1. PICK q : q = reads[r]
      OBVIOUS
    <3>2. Workspace!ReadInv(q)'
      BY <2>1, <3>1, ReadStands DEF Workspace!WorkspaceInv
    <3> QED BY <2>1, <3>1, <3>2
  <2> QED BY <2>2, <2>3 DEF Workspace!WorkspaceInv
<1> QED BY <1>2, <1>3

-----------------------------------------------------------------------------
(* The steps of a read, before its requests. *)

(* A read that stays early. *)
LEMMA EarlyMoves ==
  ASSUME NEW q \in Workspace!ReadRecords, NEW s \in Workspace!Early, NEW b \in Workspace!Credentials \cup {None}, NEW a \in Nat,
         b # None => b.place = q.c.place,
         s \in {"keep", "gate"} => b \in Workspace!Credentials /\ b.place = q.c.place,
         NEW k, k = [q EXCEPT !.step = s, !.bearer = b, !.asked = a]
  PROVE  /\ k \in Workspace!ReadRecords
         /\ Workspace!ConnectionInv(q) /\ Workspace!EarlyInv(q) => Workspace!ReadInv(k)
         /\ Workspace!ConnectionInv(q)' /\ Workspace!EarlyInv(q)' => Workspace!ReadInv(k)'
<1>1. /\ k \in Workspace!ReadRecords /\ k.step = s /\ k.bearer = b /\ k.held = q.held /\ k.live = q.live
      /\ k.kind = q.kind /\ k.request = q.request /\ k.id = q.id /\ k.c = q.c
      /\ k.text = q.text /\ k.tool = q.tool /\ k.known = q.known
      /\ k.items = q.items /\ k.spelled = q.spelled /\ k.out = q.out
  BY DEF Workspace!ReadRecords
<1>2. (Workspace!ConnectionInv(q) => Workspace!ConnectionInv(k)) /\ (Workspace!ConnectionInv(q)' => Workspace!ConnectionInv(k)')
  BY <1>1 DEF Workspace!ConnectionInv, Workspace!Current
<1>3. (Workspace!EarlyInv(q) => Workspace!EarlyInv(k)) /\ (Workspace!EarlyInv(q)' => Workspace!EarlyInv(k)')
  BY <1>1 DEF Workspace!EarlyInv
<1>4. k.step \notin Workspace!Late /\ (Workspace!ConnectionInv(q) => k.out = None) /\ (Workspace!ConnectionInv(q)' => k.out = None)
  BY <1>1 DEF Workspace!Early, Workspace!Late, Workspace!ConnectionInv
<1>5. None # "envelope"
  BY WorkspaceAssumption
<1> QED BY <1>1, <1>2, <1>3, <1>4, <1>5 DEF Workspace!ReadInv

LEMMA ReadEarly ==
  ASSUME Workspace!WorkspaceInv, NEW r \in Readers, reads[r].step \in Workspace!Early
  PROVE  /\ reads[r] \in Workspace!ReadRecords /\ Workspace!ConnectionInv(reads[r]) /\ Workspace!EarlyInv(reads[r])
         /\ reads[r].bearer \in Workspace!Credentials \cup {None} /\ reads[r].asked \in Nat
         /\ reads[r].c \in Workspace!Connections /\ reads[r].c.secret \in Workspace!Credentials
         /\ reads[r].id \in Ids
BY DEF Workspace!WorkspaceInv, Workspace!TypeOK, Workspace!ReadInv, Workspace!ReadRecords, Workspace!ConnectionInv, Workspace!Connections

LEMMA CustodyTyped == Workspace!TypeOK => Workspace!Custody \subseteq Workspace!Credentials
BY DEF Workspace!TypeOK, Workspace!Custody, Workspace!Active, Workspace!Connections, Workspace!HeldTokens

LEMMA SnapshotRead ==
  ASSUME Workspace!WorkspaceInv, NEW r \in Readers, NEW id \in Ids, NEW asked, NEW kind, NEW text \in Workspace!Spells,
         NEW tool \in Workspace!Tools, Workspace!Snapshot(r, id, asked, kind, text, tool)
  PROVE  Workspace!WorkspaceInv'
<1> DEFINE c == links[id]
<1> DEFINE tests == kind \in {"test", "probe"}
<1>1. PICK known : known = IF platform = "databricks" THEN {} ELSE Workspace!Custody
  OBVIOUS
<1>2. PICK s : s = IF platform = "databricks" /\ tests THEN "bearer" ELSE "grant"
  OBVIOUS
<1>3. PICK first : first = Workspace!First(kind)
  OBVIOUS
<1>4. PICK q : q = [Workspace!Rest EXCEPT !.kind = kind, !.request = first, !.id = id, !.c = c, !.text = text, !.tool = tool,
                                  !.live = TRUE, !.held = Workspace!Custody, !.known = known, !.step = s]
  OBVIOUS
<1>5. \/ \E end \in {"refused", "ok"} : Workspace!End(r, end)
      \/ /\ Workspace!Go(r, q) /\ c # None
         /\ tests \/ Workspace!Allowed(c, kind, tool)
  BY <1>1, <1>2, <1>3, <1>4 DEF Workspace!Snapshot
<1>6. Workspace!Kept /\ kind \in Workspace!Kinds
  BY DEF Workspace!Snapshot
<1>7. CASE \E end \in {"refused", "ok"} : Workspace!End(r, end)
  BY <1>6, <1>7, ReadEnds
<1>8. CASE Workspace!Go(r, q) /\ c # None /\ (tests \/ Workspace!Allowed(c, kind, tool))
  <2>1. /\ Workspace!TypeOK /\ c \in Workspace!Connections /\ c.secret.place = c.place /\ c.revision <= drawn
        /\ Workspace!Custody \subseteq Workspace!Credentials /\ known \in SUBSET Workspace!Credentials
        /\ text \in Workspace!Credentials \cup {None}
        /\ issued' \subseteq Workspace!Credentials /\ Workspace!IsFiniteSet(issued') /\ (\A e \in sent' : e.credential.place = e.to)
    <3>1. Workspace!TypeOK /\ Workspace!CustodyInv
      BY DEF Workspace!WorkspaceInv
    <3>2. c \in Workspace!Connections /\ c.secret.place = c.place /\ c.revision <= drawn
      BY <1>8, <3>1 DEF Workspace!TypeOK, Workspace!CustodyInv
    <3>3. Workspace!Custody \subseteq Workspace!Credentials /\ known \in SUBSET Workspace!Credentials
      BY <1>1, <3>1, CustodyTyped
    <3>4. text \in Workspace!Credentials \cup {None}
      BY <3>1 DEF Workspace!TypeOK, Workspace!Spells
    <3>5. issued' \subseteq Workspace!Credentials /\ Workspace!IsFiniteSet(issued') /\ (\A e \in sent' : e.credential.place = e.to)
      BY <1>6, <3>1 DEF Workspace!TypeOK, Workspace!CustodyInv, Workspace!Kept
    <3> QED BY <3>1, <3>2, <3>3, <3>4, <3>5
  <2>2. /\ kind \in {"api", "mcp", "test", "probe", "query-and-get"} /\ s \in {"bearer", "grant"}
        /\ first \in {"api", "initialize", "query"}
    BY <1>2, <1>3, <1>6 DEF Workspace!Kinds, Workspace!First
  <2>3. /\ q.step = s /\ q.kind = kind /\ q.request = first /\ q.id = id /\ q.c = c /\ q.text = text /\ q.tool = tool
        /\ q.known = known /\ q.bearer = None /\ q.live = TRUE /\ q.held = Workspace!Custody /\ q.items = None
        /\ q.spelled = {} /\ q.out = None
        /\ q \in Workspace!ReadRecords
    <3>1. PICK custody : custody = Workspace!Custody
      OBVIOUS
    <3>2. q = [step |-> s, kind |-> kind, id |-> id, c |-> c, text |-> text, tool |-> tool, known |-> known,
               bearer |-> None, asked |-> 0, request |-> first, listed |-> {}, ids |-> {}, peer |-> None,
               items |-> None, spelled |-> {}, out |-> None, live |-> TRUE, allowed |-> FALSE,
               held |-> custody]
      BY <1>4, <3>1 DEF Workspace!Rest
    <3>3. custody \in SUBSET Workspace!Credentials
      BY <2>1, <3>1
    <3> QED BY <2>1, <2>2, <3>1, <3>2, <3>3 DEF Workspace!ReadRecords, Workspace!Early, Workspace!Late, Workspace!Asked
  <2>4. None # "envelope"
    BY WorkspaceAssumption
  <2>5. Workspace!ConnectionInv(q)
    BY <1>8, <2>1, <2>2, <2>3, <2>4 DEF Workspace!ConnectionInv, Workspace!Current, Workspace!Allowed
  <2>6. Workspace!EarlyInv(q)
    BY <1>1, <1>3, <2>2, <2>3 DEF Workspace!EarlyInv, Workspace!WorkspaceInv, Workspace!TypeOK
  <2>7. Workspace!ReadInv(q)
    BY <2>2, <2>3, <2>4, <2>5, <2>6 DEF Workspace!ReadInv, Workspace!Early, Workspace!Late
  <2> QED BY <1>6, <1>8, <2>1, <2>3, <2>7, ReadMoves DEF Workspace!Kept, Workspace!store
<1> QED BY <1>5, <1>6, <1>7, <1>8

(* A read goes on among its early steps. *)
LEMMA EarlyGoes ==
  ASSUME Workspace!WorkspaceInv, NEW r \in Readers, reads[r].step \in Workspace!Early, NEW s \in Workspace!Early, NEW a \in Nat,
         NEW b \in Workspace!Credentials \cup {None}, b # None => b.place = reads[r].c.place,
         s \in {"keep", "gate"} => b \in Workspace!Credentials /\ b.place = reads[r].c.place,
         NEW k, k = [reads[r] EXCEPT !.step = s, !.bearer = b, !.asked = a], Workspace!Go(r, k),
         UNCHANGED <<platform, links, minted, barred, drawn, time>>,
         issued' \subseteq Workspace!Credentials, Workspace!IsFiniteSet(issued'),
         \A e \in sent' : e.credential.place = e.to
  PROVE  Workspace!WorkspaceInv'
<1>1. k \in Workspace!ReadRecords /\ Workspace!ReadInv(k)
  BY ReadEarly, EarlyMoves
<1> QED BY <1>1, ReadMoves

(* A change of the store that a read makes, and goes on. *)
LEMMA ReadChanges ==
  ASSUME Workspace!WorkspaceInv, NEW r \in Readers, NEW n \in Workspace!ReadRecords, Workspace!ReadInv(n)',
         minted' \in [Ids -> Workspace!HeldTokens \cup {None}],
         reads' = [Workspace!Watch(links, minted') EXCEPT ![r] = n],
         UNCHANGED <<platform, links, barred, quarantined, drawn, issued, time, sent>>,
         \A i \in Ids : minted'[i] # None =>
           \/ minted'[i] = minted[i]
           \/ /\ links[i] # None /\ minted'[i].revision = links[i].revision
              /\ minted'[i].access.place = links[i].place
  PROVE  Workspace!WorkspaceInv'
<1>1. Workspace!TypeOK /\ Workspace!CustodyInv
  BY DEF Workspace!WorkspaceInv
<1>2. ASSUME NEW d \in Readers PROVE reads'[d] \in Workspace!ReadRecords /\ Workspace!ReadInv(reads[d])'
  <2>1. reads'[d] = IF d = r THEN n ELSE Workspace!Watch(links, minted')[d]
    BY DEF Workspace!Watch
  <2>2. CASE d = r
    BY <2>1, <2>2
  <2>3. CASE d # r
    <3>1. PICK k : k = Workspace!Watch(links', minted')[d]
      OBVIOUS
    <3>2. /\ barred' \in BOOLEAN /\ links' \in [Ids -> Workspace!Connections \cup {None}]
          /\ drawn' \in Nat /\ drawn <= drawn'
      BY <1>1 DEF Workspace!TypeOK
    <3>3. k \in Workspace!ReadRecords /\ Workspace!ReadInv(k)'
      BY <3>1, <3>2, WatchKeeps
    <3> QED BY <2>1, <2>3, <3>1, <3>3
  <2> QED BY <2>2, <2>3
<1>3. reads' \in [Readers -> Workspace!ReadRecords]
  BY <1>2 DEF Workspace!Watch
<1>4. Workspace!TypeOK'
  BY <1>1, <1>3 DEF Workspace!TypeOK
<1>5. Workspace!CustodyInv'
  BY <1>1 DEF Workspace!CustodyInv
<1> QED BY <1>2, <1>4, <1>5 DEF Workspace!WorkspaceInv

(* The read that makes it, told of it itself. *)
LEMMA ReadTold ==
  ASSUME Workspace!WorkspaceInv, NEW r \in Readers, reads[r].step \in Workspace!Early, UNCHANGED <<platform, links, barred, drawn>>,
         NEW k, k = Workspace!Watch(links, minted')[r]
  PROVE  /\ k \in Workspace!ReadRecords /\ Workspace!ConnectionInv(k)' /\ Workspace!EarlyInv(k)'
         /\ k.bearer = reads[r].bearer /\ k.c = reads[r].c /\ k.asked = reads[r].asked
<1>1. k \in Workspace!ReadRecords /\ Workspace!ReadInv(k)' /\ k = [reads[r] EXCEPT !.held = k.held, !.live = k.live]
  <2>1. /\ barred' \in BOOLEAN /\ links' \in [Ids -> Workspace!Connections \cup {None}]
        /\ drawn' \in Nat /\ drawn <= drawn'
    BY DEF Workspace!WorkspaceInv, Workspace!TypeOK
  <2>2. k = Workspace!Watch(links', minted')[r] /\ reads[r].step \notin {"idle", "done"}
    BY DEF Workspace!Early
  <2> QED BY <2>1, <2>2, WatchKeeps
<1>2. PICK q \in Workspace!ReadRecords : q = reads[r]
  BY ReadEarly
<1>3. k.step = q.step /\ k.bearer = q.bearer /\ k.c = q.c /\ k.asked = q.asked
  BY <1>1, <1>2 DEF Workspace!ReadRecords
<1> QED BY <1>1, <1>2, <1>3 DEF Workspace!ReadInv

LEMMA GrantStep ==
  ASSUME Workspace!WorkspaceInv, NEW r \in Readers, Workspace!Grant(r) \/ Workspace!Gate(r)
  PROVE  Workspace!WorkspaceInv'
<1>1. reads[r].step \in Workspace!Early /\ Workspace!Kept
  BY DEF Workspace!Grant, Workspace!Gate, Workspace!At, Workspace!Early
<1>2. CASE Workspace!End(r, "refused")
  BY <1>1, <1>2, ReadEnds
<1>3. CASE Workspace!Go(r, [reads[r] EXCEPT !.step = "screen"])
  <2>1. PICK k : k = [reads[r] EXCEPT !.step = "screen"]
    OBVIOUS
  <2>2. PICK q \in Workspace!ReadRecords : q = reads[r] /\ Workspace!ConnectionInv(q) /\ Workspace!EarlyInv(q)
    BY <1>1, ReadEarly
  <2>3. /\ k \in Workspace!ReadRecords /\ k.step = "screen" /\ k.bearer = q.bearer /\ k.held = q.held /\ k.live = q.live
        /\ k.kind = q.kind /\ k.request = q.request /\ k.id = q.id /\ k.c = q.c
        /\ k.text = q.text /\ k.tool = q.tool /\ k.known = q.known
        /\ k.items = q.items /\ k.spelled = q.spelled /\ k.out = q.out
    BY <2>1, <2>2 DEF Workspace!ReadRecords, Workspace!Early
  <2>4. Workspace!ReadInv(k)
    BY <2>2, <2>3, WorkspaceAssumption
      DEF Workspace!ReadInv, Workspace!ConnectionInv, Workspace!EarlyInv, Workspace!Current, Workspace!Early, Workspace!Late
  <2> QED BY <1>1, <1>3, <2>1, <2>3, <2>4, ReadMoves DEF Workspace!Kept, Workspace!store, Workspace!WorkspaceInv, Workspace!TypeOK, Workspace!CustodyInv
<1> QED BY <1>2, <1>3 DEF Workspace!Grant, Workspace!Gate

LEMMA ScreenStep ==
  ASSUME Workspace!WorkspaceInv, NEW r \in Readers, Workspace!Screen(r)
  PROVE  Workspace!WorkspaceInv'
<1>1. reads[r].step \in Workspace!Early /\ reads[r].step = "screen" /\ Workspace!Kept
  BY DEF Workspace!Screen, Workspace!At, Workspace!Early
<1>2. PICK q \in Workspace!ReadRecords : q = reads[r] /\ Workspace!ConnectionInv(q) /\ Workspace!EarlyInv(q)
  BY <1>1, ReadEarly
<1>3. PICK known : known = Workspace!Known(q)
  OBVIOUS
<1>4. PICK b : b = IF platform = "databricks" THEN q.bearer ELSE q.c.secret
  OBVIOUS
<1>5. PICK s : s = IF platform = "databricks" /\ q.bearer = None THEN "bearer" ELSE "send"
  OBVIOUS
<1>6. PICK k : k = [q EXCEPT !.known = known, !.bearer = b, !.step = s]
  OBVIOUS
<1>7. \/ Workspace!End(r, "refused")
      \/ Workspace!Go(r, k) /\ q.text \notin known
  BY <1>2, <1>3, <1>4, <1>5, <1>6 DEF Workspace!Screen
<1>8. CASE Workspace!End(r, "refused")
  BY <1>1, <1>8, ReadEnds
<1>9. CASE Workspace!Go(r, k) /\ q.text \notin known
  <2>1. /\ q.c \in Workspace!Connections /\ q.c.secret \in Workspace!Credentials /\ q.bearer \in Workspace!Credentials \cup {None}
        /\ q.known \subseteq Workspace!Credentials /\ Workspace!Custody \subseteq Workspace!Credentials
        /\ q.c.secret.place = q.c.place /\ q.held \subseteq Workspace!Custody
    BY <1>2, CustodyTyped DEF Workspace!ConnectionInv, Workspace!Connections, Workspace!ReadRecords, Workspace!WorkspaceInv
  <2>2. known \in SUBSET Workspace!Credentials /\ b \in Workspace!Credentials \cup {None} /\ s \in {"bearer", "send"}
    BY <1>3, <1>4, <1>5, <2>1 DEF Workspace!Known, Workspace!Carried
  <2>3. /\ k \in Workspace!ReadRecords /\ k.step = s /\ k.bearer = b /\ k.held = q.held /\ k.live = q.live
        /\ k.kind = q.kind /\ k.request = q.request /\ k.id = q.id /\ k.c = q.c
        /\ k.text = q.text /\ k.tool = q.tool /\ k.known = known
        /\ k.items = q.items /\ k.spelled = q.spelled /\ k.out = q.out
    BY <1>6, <2>2 DEF Workspace!ReadRecords, Workspace!Early, Workspace!Late
  <2>4. Workspace!ConnectionInv(k)
    BY <1>2, <2>3 DEF Workspace!ConnectionInv, Workspace!Current
  <2>5. CASE s = "bearer"
    <3>1. Workspace!EarlyInv(k)
      BY <1>2, <1>4, <1>5, <2>3, <2>5 DEF Workspace!EarlyInv
    <3> QED BY <1>1, <1>9, <2>3, <2>4, <2>5, <3>1, ReadMoves, WorkspaceAssumption
            DEF Workspace!Kept, Workspace!store, Workspace!WorkspaceInv, Workspace!TypeOK, Workspace!CustodyInv, Workspace!ReadInv, Workspace!ConnectionInv, Workspace!Early, Workspace!Late
  <2>6. CASE s = "send"
    <3>1. q.held \cup {q.c.secret, b} \subseteq known /\ b.place = q.c.place
      <4>1. CASE platform = "databricks"
        BY <1>2, <1>3, <1>4, <1>5, <2>1, <2>6, <4>1 DEF Workspace!Known, Workspace!Carried, Workspace!EarlyInv
      <4>2. CASE platform # "databricks"
        <5>1. platform = "azure-devops" /\ b = q.c.secret /\ q.held \subseteq q.known
          BY <1>2, <1>4, <4>2 DEF Workspace!EarlyInv, Workspace!WorkspaceInv, Workspace!TypeOK
        <5> QED BY <1>3, <2>1, <4>2, <5>1 DEF Workspace!Known, Workspace!Carried
      <4> QED BY <4>1, <4>2
    <3>2. Workspace!LateInv(k)
      <4>1. k.spelled = {} /\ k.items = None /\ k.request = Workspace!First(k.kind)
        BY <1>2, <2>3 DEF Workspace!EarlyInv
      <4>2. k.kind = "mcp" => k.request = "initialize"
        BY <4>1 DEF Workspace!First
      <4> QED BY <1>9, <2>3, <2>6, <3>1, <4>1, <4>2 DEF Workspace!LateInv, Workspace!Sensitive
    <3> QED BY <1>1, <1>9, <2>3, <2>4, <2>6, <3>2, ReadMoves, WorkspaceAssumption
            DEF Workspace!Kept, Workspace!store, Workspace!WorkspaceInv, Workspace!TypeOK, Workspace!CustodyInv, Workspace!ReadInv, Workspace!ConnectionInv, Workspace!Early, Workspace!Late
  <2> QED BY <2>2, <2>5, <2>6
<1> QED BY <1>7, <1>8, <1>9

LEMMA BearerStep ==
  ASSUME Workspace!WorkspaceInv, NEW r \in Readers, Workspace!Bearer(r)
  PROVE  Workspace!WorkspaceInv'
<1>1. reads[r].step \in Workspace!Early /\ reads[r].step = "bearer"
  BY DEF Workspace!Bearer, Workspace!At, Workspace!Early
<1>2. PICK q \in Workspace!ReadRecords : q = reads[r] /\ Workspace!ConnectionInv(q) /\ Workspace!EarlyInv(q)
  BY <1>1, ReadEarly
<1>3. /\ Workspace!TypeOK /\ Workspace!CustodyInv /\ q.id \in Ids /\ q.c \in Workspace!Connections /\ q.c.secret \in Workspace!Credentials
      /\ q.c.secret.place = q.c.place /\ q.asked \in Nat
  BY <1>2 DEF Workspace!WorkspaceInv, Workspace!ConnectionInv, Workspace!Connections, Workspace!ReadRecords
<1>4. PICK t : t = minted[q.id]
  OBVIOUS
<1>5. PICK fresh \in BOOLEAN : fresh = (t # None /\ t.revision = q.c.revision /\ t.expires > time)
  OBVIOUS
<1>6. PICK drops \in BOOLEAN : drops = (q.c.auth # "token" /\ ~fresh)
  OBVIOUS
<1>7. PICK dropped : dropped = IF drops THEN [minted EXCEPT ![q.id] = None] ELSE minted
  OBVIOUS
<1>8. PICK b : b = IF drops THEN None ELSE IF q.c.auth = "token" THEN q.c.secret ELSE t.access
  OBVIOUS
<1>9. PICK s : s = IF drops THEN "mint" ELSE "gate"
  OBVIOUS
<1>10. UNCHANGED <<platform, links, barred, quarantined, drawn, issued, time, sent>>
  BY DEF Workspace!Bearer
<1>11. \/ Workspace!End(r, "refused") /\ UNCHANGED minted
       \/ minted' \in {minted, dropped} /\ reads' = [Workspace!Watch(links, minted') EXCEPT ![r] = Workspace!Outcome("refused")]
       \/ /\ q.c.auth # "token" => Workspace!Current(q)
          /\ minted' = dropped
          /\ reads' = [Workspace!Watch(links, dropped) EXCEPT ![r] = [@ EXCEPT !.step = s, !.bearer = b]]
  BY <1>2, <1>4, <1>5, <1>6, <1>7, <1>8, <1>9 DEF Workspace!Bearer
<1>12. /\ dropped \in [Ids -> Workspace!HeldTokens \cup {None}]
       /\ \A i \in Ids : dropped[i] # None => dropped[i] = minted[i]
  BY <1>3, <1>7 DEF Workspace!TypeOK
<1>13. CASE Workspace!End(r, "refused") /\ UNCHANGED minted
  BY <1>10, <1>13, ReadEnds DEF Workspace!Kept, Workspace!store
<1>14. CASE minted' \in {minted, dropped} /\ reads' = [Workspace!Watch(links, minted') EXCEPT ![r] = Workspace!Outcome("refused")]
  <2>1. minted' \in [Ids -> Workspace!HeldTokens \cup {None}] /\ \A i \in Ids : minted'[i] # None => minted'[i] = minted[i]
    BY <1>3, <1>12, <1>14 DEF Workspace!TypeOK
  <2>2. PICK n \in Workspace!ReadRecords : n = Workspace!Outcome("refused") /\ Workspace!ReadInv(n)'
    BY OutcomeTyped
  <2> QED BY <1>10, <1>14, <2>1, <2>2, ReadChanges
<1>15. CASE /\ q.c.auth # "token" => Workspace!Current(q)
            /\ minted' = dropped
            /\ reads' = [Workspace!Watch(links, dropped) EXCEPT ![r] = [@ EXCEPT !.step = s, !.bearer = b]]
  <2>1. PICK k : k = Workspace!Watch(links, minted')[r]
    OBVIOUS
  <2>2. /\ k \in Workspace!ReadRecords /\ Workspace!ConnectionInv(k)' /\ Workspace!EarlyInv(k)'
        /\ k.bearer = q.bearer /\ k.c = q.c /\ k.asked = q.asked
    BY <1>1, <1>2, <1>10, <2>1, ReadTold
  <2>3. /\ b \in Workspace!Credentials \cup {None} /\ (b # None => b.place = q.c.place)
        /\ s \in {"mint", "gate"} /\ (s = "gate" => b \in Workspace!Credentials /\ b.place = q.c.place)
    <3>1. CASE drops
      BY <1>8, <1>9, <3>1
    <3>2. CASE ~drops /\ q.c.auth = "token"
      BY <1>3, <1>8, <1>9, <3>2
    <3>3. CASE ~drops /\ q.c.auth # "token"
      <4>1. t # None /\ b = t.access /\ s = "gate" /\ Workspace!Current(q)
        BY <1>5, <1>6, <1>8, <1>9, <1>15, <3>3
      <4>2. links[q.id] = q.c
        BY <1>2, <4>1 DEF Workspace!ConnectionInv
      <4>3. t \in Workspace!HeldTokens /\ t.access.place = q.c.place
        BY <1>3, <1>4, <4>1, <4>2 DEF Workspace!CustodyInv, Workspace!TypeOK
      <4> QED BY <4>1, <4>3 DEF Workspace!HeldTokens
    <3> QED BY <3>1, <3>2, <3>3
  <2>4. PICK n : n = [k EXCEPT !.step = s, !.bearer = b, !.asked = q.asked]
    OBVIOUS
  <2>5. n = [k EXCEPT !.step = s, !.bearer = b]
    BY <2>2, <2>4 DEF Workspace!ReadRecords
  <2>6. n \in Workspace!ReadRecords /\ Workspace!ReadInv(n)'
    BY <1>3, <2>2, <2>3, <2>4, EarlyMoves DEF Workspace!Early
  <2>7. reads' = [Workspace!Watch(links, minted') EXCEPT ![r] = n]
    BY <1>15, <2>1, <2>5
  <2> QED BY <1>10, <1>12, <1>15, <2>6, <2>7, ReadChanges
<1> QED BY <1>11, <1>13, <1>14, <1>15

LEMMA MintStep ==
  ASSUME Workspace!WorkspaceInv, NEW r \in Readers, Workspace!Mint(r)
  PROVE  Workspace!WorkspaceInv'
<1>1. reads[r].step \in Workspace!Early
  BY DEF Workspace!Mint, Workspace!At, Workspace!Early
<1>2. PICK q \in Workspace!ReadRecords : q = reads[r] /\ Workspace!ConnectionInv(q) /\ Workspace!EarlyInv(q)
  BY <1>1, ReadEarly
<1>3. /\ Workspace!TypeOK /\ Workspace!CustodyInv /\ q.bearer \in Workspace!Credentials \cup {None} /\ time \in Nat
      /\ q.bearer # None => q.bearer.place = q.c.place
      /\ q.c.secret.place = q.c.place
  BY <1>2 DEF Workspace!WorkspaceInv, Workspace!TypeOK, Workspace!ConnectionInv, Workspace!EarlyInv, Workspace!ReadRecords
<1>4. PICK k : k = [q EXCEPT !.step = "minting", !.bearer = q.bearer, !.asked = time]
  OBVIOUS
<1>5. k = [q EXCEPT !.step = "minting", !.asked = time]
  BY <1>2, <1>4 DEF Workspace!ReadRecords
<1>6. Workspace!Go(r, k)
  BY <1>2, <1>5 DEF Workspace!Mint
<1>7. PICK e : e = [credential |-> q.c.secret, to |-> q.c.place]
  OBVIOUS
<1>8. sent' = sent \cup {e} /\ e.credential.place = e.to
  BY <1>2, <1>3, <1>7 DEF Workspace!Mint
<1>9. UNCHANGED <<platform, links, minted, barred, drawn, time, issued>>
  BY DEF Workspace!Mint, Workspace!store
<1> QED BY <1>1, <1>2, <1>3, <1>4, <1>6, <1>8, <1>9, EarlyGoes DEF Workspace!Early, Workspace!TypeOK, Workspace!CustodyInv

LEMMA MintedStep ==
  ASSUME Workspace!WorkspaceInv, NEW r \in Readers, Workspace!Minted(r)
  PROVE  Workspace!WorkspaceInv'
<1>1. reads[r].step \in Workspace!Early
  BY DEF Workspace!Minted, Workspace!At, Workspace!Early
<1>2. PICK q \in Workspace!ReadRecords : q = reads[r] /\ Workspace!ConnectionInv(q) /\ Workspace!EarlyInv(q)
  BY <1>1, ReadEarly
<1>3. Workspace!TypeOK /\ Workspace!CustodyInv /\ q.asked \in Nat /\ q.c.place \in Workspace!Places
  BY <1>2 DEF Workspace!WorkspaceInv, Workspace!ConnectionInv, Workspace!Connections, Workspace!ReadRecords
<1>4. UNCHANGED <<platform, links, minted, barred, quarantined, drawn, time, sent>>
  BY DEF Workspace!Minted, Workspace!store
<1>5. PICK access : access = Workspace!Credential(q.c.place)
  OBVIOUS
<1>6. /\ access \in Workspace!Credentials /\ access.place = q.c.place
      /\ issued \cup {access} \subseteq Workspace!Credentials /\ Workspace!IsFiniteSet(issued \cup {access})
  BY <1>3, <1>5, CredentialTyped
<1>7. CASE Workspace!End(r, "refused") /\ UNCHANGED issued
  BY <1>4, <1>7, ReadEnds DEF Workspace!Kept, Workspace!store
<1>8. CASE issued' = issued \cup {access} /\ Workspace!Go(r, [q EXCEPT !.step = "keep", !.bearer = access])
  <2>1. PICK k : k = [q EXCEPT !.step = "keep", !.bearer = access, !.asked = q.asked]
    OBVIOUS
  <2>2. k = [q EXCEPT !.step = "keep", !.bearer = access]
    BY <1>2, <2>1 DEF Workspace!ReadRecords
  <2>3. Workspace!Go(r, k) /\ \A e \in sent' : e.credential.place = e.to
    BY <1>3, <1>4, <1>8, <2>2 DEF Workspace!CustodyInv
  <2>4. "keep" \in Workspace!Early
    BY DEF Workspace!Early
  <2> QED BY <1>1, <1>2, <1>3, <1>4, <1>6, <1>8, <2>1, <2>3, <2>4, EarlyGoes
<1> QED BY <1>2, <1>5, <1>7, <1>8 DEF Workspace!Minted

LEMMA KeepStep ==
  ASSUME Workspace!WorkspaceInv, NEW r \in Readers, Workspace!Keep(r)
  PROVE  Workspace!WorkspaceInv'
<1>1. reads[r].step \in Workspace!Early /\ reads[r].step = "keep"
  BY DEF Workspace!Keep, Workspace!At, Workspace!Early
<1>2. PICK q \in Workspace!ReadRecords : q = reads[r] /\ Workspace!ConnectionInv(q) /\ Workspace!EarlyInv(q)
  BY <1>1, ReadEarly
<1>3. /\ Workspace!TypeOK /\ q.id \in Ids /\ q.c \in Workspace!Connections /\ q.asked \in Nat /\ q.c.revision \in Nat
      /\ q.bearer \in Workspace!Credentials /\ q.bearer.place = q.c.place
  BY <1>1, <1>2 DEF Workspace!WorkspaceInv, Workspace!ConnectionInv, Workspace!Connections, Workspace!EarlyInv, Workspace!ReadRecords
<1>4. PICK token : token = [revision |-> q.c.revision, access |-> q.bearer, expires |-> q.asked + 1]
  OBVIOUS
<1>5. PICK stored : stored = [minted EXCEPT ![q.id] = token]
  OBVIOUS
<1>6. UNCHANGED <<platform, links, barred, quarantined, drawn, issued, time, sent>>
  BY DEF Workspace!Keep
<1>7. \/ Workspace!End(r, "refused") /\ UNCHANGED minted
      \/ /\ Workspace!Current(q) /\ minted' = stored
         /\ \/ reads' = [Workspace!Watch(links, stored) EXCEPT ![r] = [@ EXCEPT !.step = "gate"]]
            \/ reads' = [Workspace!Watch(links, stored) EXCEPT ![r] = Workspace!Outcome("refused")]
  BY <1>2, <1>4, <1>5 DEF Workspace!Keep
<1>8. CASE Workspace!End(r, "refused") /\ UNCHANGED minted
  BY <1>6, <1>8, ReadEnds DEF Workspace!Kept, Workspace!store
<1>9. CASE Workspace!Current(q) /\ minted' = stored
  <2>1. token \in Workspace!HeldTokens /\ token.revision = q.c.revision /\ token.access = q.bearer
    BY <1>3, <1>4 DEF Workspace!HeldTokens
  <2>2. links[q.id] = q.c /\ links[q.id] # None
    BY <1>2, <1>9 DEF Workspace!ConnectionInv, Workspace!Current
  <2>3. /\ minted' \in [Ids -> Workspace!HeldTokens \cup {None}]
        /\ \A i \in Ids : minted'[i] = IF i = q.id THEN token ELSE minted[i]
    BY <1>3, <1>5, <1>9, <2>1 DEF Workspace!TypeOK
  <2>4. ASSUME NEW i \in Ids
        PROVE  \/ minted'[i] = minted[i]
               \/ /\ links[i] # None /\ minted'[i].revision = links[i].revision
                  /\ minted'[i].access.place = links[i].place
    <3>1. CASE i = q.id
      <4>1. minted'[i] = token /\ links[i] = q.c
        BY <2>2, <2>3, <3>1
      <4> QED BY <1>3, <2>1, <2>2, <3>1, <4>1
    <3>2. CASE i # q.id
      BY <2>3, <3>2
    <3> QED BY <3>1, <3>2
  <2>5. CASE reads' = [Workspace!Watch(links, stored) EXCEPT ![r] = Workspace!Outcome("refused")]
    <3>1. PICK n \in Workspace!ReadRecords : n = Workspace!Outcome("refused") /\ Workspace!ReadInv(n)'
      BY OutcomeTyped
    <3>2. reads' = [Workspace!Watch(links, minted') EXCEPT ![r] = n]
      BY <1>9, <2>5, <3>1
    <3> QED BY <1>6, <2>3, <2>4, <3>1, <3>2, ReadChanges
  <2>6. CASE reads' = [Workspace!Watch(links, stored) EXCEPT ![r] = [@ EXCEPT !.step = "gate"]]
    <3>1. PICK k : k = Workspace!Watch(links, minted')[r]
      OBVIOUS
    <3>2. /\ k \in Workspace!ReadRecords /\ Workspace!ConnectionInv(k)' /\ Workspace!EarlyInv(k)'
          /\ k.bearer = q.bearer /\ k.c = q.c /\ k.asked = q.asked
      BY <1>1, <1>2, <1>6, <3>1, ReadTold
    <3>3. PICK n : n = [k EXCEPT !.step = "gate", !.bearer = q.bearer, !.asked = q.asked]
      OBVIOUS
    <3>4. n = [k EXCEPT !.step = "gate"]
      BY <3>2, <3>3 DEF Workspace!ReadRecords
    <3>5. n \in Workspace!ReadRecords /\ Workspace!ReadInv(n)'
      BY <1>3, <3>2, <3>3, EarlyMoves DEF Workspace!Early
    <3>6. reads' = [Workspace!Watch(links, minted') EXCEPT ![r] = n]
      BY <1>9, <2>6, <3>1, <3>4
    <3> QED BY <1>6, <2>3, <2>4, <3>5, <3>6, ReadChanges
  <2> QED BY <1>1, <1>2, <1>7, <1>8, <1>9, <2>5, <2>6
<1> QED BY <1>7, <1>8, <1>9

-----------------------------------------------------------------------------
(* The requests of a read, and what is kept of it. *)

LEMMA ReadLate ==
  ASSUME Workspace!WorkspaceInv, NEW r \in Readers, reads[r].step \in Workspace!Late
  PROVE  /\ reads[r] \in Workspace!ReadRecords /\ Workspace!ConnectionInv(reads[r]) /\ Workspace!LateInv(reads[r])
         /\ reads[r].c \in Workspace!Connections
BY DEF Workspace!WorkspaceInv, Workspace!TypeOK, Workspace!ReadInv, Workspace!ReadRecords, Workspace!ConnectionInv, Workspace!Connections

(* A read that stays late: all but its step and its request is as it was. *)
Asks(q, s, asked) == [q EXCEPT !.step = s, !.request = asked]

LEMMA AsksTyped ==
  ASSUME NEW q \in Workspace!ReadRecords, NEW s \in Workspace!Late,
         NEW asked \in Workspace!Asked,
         NEW k, k = Asks(q, s, asked)
  PROVE  /\ k \in Workspace!ReadRecords /\ k.step = s /\ k.request = asked /\ k.held = q.held /\ k.live = q.live
         /\ k.kind = q.kind /\ k.id = q.id /\ k.c = q.c /\ k.text = q.text /\ k.tool = q.tool
         /\ k.known = q.known /\ k.bearer = q.bearer /\ k.listed = q.listed /\ k.ids = q.ids
         /\ k.peer = q.peer /\ k.items = q.items /\ k.spelled = q.spelled /\ k.out = q.out
<1>1. k = [q EXCEPT !.step = s, !.request = asked]
  BY DEF Asks
<1>2. k.step = s /\ k.request = asked /\ k.held = q.held /\ k.live = q.live /\ k.kind = q.kind
  BY <1>1 DEF Workspace!ReadRecords
<1>3. /\ k.id = q.id /\ k.c = q.c /\ k.text = q.text /\ k.tool = q.tool /\ k.known = q.known
      /\ k.bearer = q.bearer /\ k.listed = q.listed
  BY <1>1 DEF Workspace!ReadRecords
<1>4. k.ids = q.ids /\ k.peer = q.peer /\ k.items = q.items /\ k.spelled = q.spelled /\ k.out = q.out
  BY <1>1 DEF Workspace!ReadRecords
<1>5. k \in Workspace!ReadRecords
  <2>1. [q EXCEPT !.step = s] \in Workspace!ReadRecords
    BY DEF Workspace!ReadRecords
  <2>2. PICK d \in Workspace!ReadRecords : d = [q EXCEPT !.step = s]
    BY <2>1
  <2>3. [d EXCEPT !.request = asked] \in Workspace!ReadRecords
    BY DEF Workspace!ReadRecords
  <2>4. k = [d EXCEPT !.request = asked]
    BY <1>1, <2>2
  <2> QED BY <2>3, <2>4
<1> QED BY <1>2, <1>3, <1>4, <1>5

(* An answer that was read: it spells nothing known, and a listing offers the tool. *)
Heard(q) ==
  /\ q \in Workspace!ReadRecords /\ Workspace!ConnectionInv(q)
  /\ Workspace!Sensitive(q) \subseteq q.known /\ q.text \notin Workspace!Sensitive(q) /\ q.bearer.place = q.c.place
  /\ Workspace!Held(q) => q.spelled \cap Workspace!Sensitive(q) = {}
  /\ q.kind = "mcp" => /\ q.request \in {"initialize", "list", "call", "end"}
                       /\ q.request # "initialize" => q.tool \in q.listed
  /\ q.items # None => q.items.ids \subseteq q.ids /\ q.items.peer = q.peer
  /\ q.request \in {"query", "initialize"} => q.items = None

LEMMA OnwardKeeps ==
  ASSUME NEW q, Heard(q)
  PROVE  Workspace!Onward(q) \in Workspace!ReadRecords /\ Workspace!ReadInv(Workspace!Onward(q))
<1>1. q \in Workspace!ReadRecords /\ Workspace!ConnectionInv(q)
  BY DEF Heard
<1>2. PICK f : f = Workspace!Following(q)
  OBVIOUS
<1>3. f \in {"items", "list", "call", "end", None}
  BY <1>2 DEF Workspace!Following
<1>4. CASE f = None /\ q.kind \in {"test", "probe"}
  BY <1>2, <1>4, OutcomeTyped DEF Workspace!Onward
<1>5. CASE f # None \/ q.kind \notin {"test", "probe"}
  <2>1. PICK s, asked : s = (IF f # None THEN "send" ELSE "confirm") /\ asked = (IF f # None THEN f ELSE q.request)
    OBVIOUS
  <2>2. PICK k : k = Asks(q, s, asked)
    OBVIOUS
  <2>3. Workspace!Onward(q) = k
    <3>1. CASE f # None
      BY <1>2, <2>1, <2>2, <3>1 DEF Workspace!Onward, Asks
    <3>2. CASE f = None
      <4>1. k = [q EXCEPT !.step = "confirm"]
        BY <1>1, <2>1, <2>2, <3>2 DEF Asks, Workspace!ReadRecords
      <4> QED BY <1>2, <1>5, <3>2, <4>1 DEF Workspace!Onward
    <3> QED BY <3>1, <3>2
  <2>4. s \in Workspace!Late /\ asked \in Workspace!Asked
    <3>1. q.request \in Workspace!Asked
      BY <1>1 DEF Workspace!ReadRecords
    <3> QED BY <1>3, <2>1, <3>1 DEF Workspace!Late, Workspace!Asked
  <2>5. /\ k \in Workspace!ReadRecords /\ k.step = s /\ k.request = asked /\ k.held = q.held /\ k.live = q.live
        /\ k.kind = q.kind /\ k.id = q.id /\ k.c = q.c /\ k.text = q.text /\ k.tool = q.tool
        /\ k.known = q.known /\ k.bearer = q.bearer /\ k.listed = q.listed /\ k.ids = q.ids
        /\ k.peer = q.peer /\ k.items = q.items /\ k.spelled = q.spelled /\ k.out = q.out
    BY <1>1, <2>2, <2>4, AsksTyped
  <2>6. Workspace!ConnectionInv(k)
    BY <1>1, <2>5 DEF Workspace!ConnectionInv, Workspace!Current
  <2>7. f # None => /\ f = "items" => q.request = "query"
                    /\ f = "list" => q.request = "initialize"
                    /\ f \in {"call", "end"} => q.request \in {"list", "call"}
    BY <1>2 DEF Workspace!Following
  <2>8. f = None => q.request # "initialize"
    BY <1>2, WorkspaceAssumption DEF Workspace!Following
  <2>9. Workspace!LateInv(k)
    <3>1. /\ Workspace!Sensitive(k) \subseteq k.known /\ k.text \notin Workspace!Sensitive(k) /\ k.bearer.place = k.c.place
          /\ Workspace!Held(k) => k.spelled \cap Workspace!Sensitive(k) = {}
          /\ k.items # None => k.items.ids \subseteq k.ids /\ k.items.peer = k.peer
      BY <2>5 DEF Heard, Workspace!Sensitive, Workspace!Held
    <3>2. k.kind = "mcp" => /\ k.request \in {"initialize", "list", "call", "end"}
                            /\ k.step = "confirm" \/ k.request \in {"call", "end"} => k.tool \in k.listed
      BY <1>3, <2>1, <2>5, <2>7, <2>8 DEF Heard
    <3>3. k.request \in {"query", "initialize", "list"} /\ k.step # "confirm" => k.items = None
      BY <1>3, <2>1, <2>5, <2>7 DEF Heard
    <3>4. k.step = "confirm" => k.kind \notin {"test", "probe"}
      BY <1>5, <2>1, <2>5
    <3> QED BY <3>1, <3>2, <3>3, <3>4 DEF Workspace!LateInv
  <2>10. Workspace!ReadInv(k)
    BY <2>4, <2>5, <2>6, <2>9, WorkspaceAssumption DEF Workspace!ReadInv, Workspace!ConnectionInv, Workspace!Early, Workspace!Late
  <2> QED BY <2>3, <2>5, <2>10
<1> QED BY <1>4, <1>5

LEMMA SendRead ==
  ASSUME Workspace!WorkspaceInv, NEW r \in Readers, Workspace!Send(r)
  PROVE  Workspace!WorkspaceInv'
<1>1. reads[r].step \in Workspace!Late /\ reads[r].step = "send"
  BY DEF Workspace!Send, Workspace!At, Workspace!Late
<1>2. PICK q \in Workspace!ReadRecords : q = reads[r] /\ Workspace!ConnectionInv(q) /\ Workspace!LateInv(q)
  BY <1>1, ReadLate
<1>3. UNCHANGED <<platform, links, minted, barred, quarantined, drawn, issued, time>>
  BY DEF Workspace!Send, Workspace!store
<1>4. Workspace!TypeOK /\ Workspace!CustodyInv
  BY DEF Workspace!WorkspaceInv
<1>5. CASE Workspace!End(r, "refused") /\ UNCHANGED sent
  BY <1>3, <1>5, ReadEnds DEF Workspace!Kept, Workspace!store
<1>6. CASE /\ sent' = sent \cup {[credential |-> q.bearer, to |-> q.c.place]}
           /\ Workspace!Go(r, [q EXCEPT !.step = "sent"])
  <2>1. PICK k : k = Asks(q, "sent", q.request)
    OBVIOUS
  <2>2. k = [q EXCEPT !.step = "sent"]
    BY <1>2, <2>1 DEF Asks, Workspace!ReadRecords
  <2>3. q.request \in Workspace!Asked /\ "sent" \in Workspace!Late
    BY <1>2 DEF Workspace!ReadRecords, Workspace!Late
  <2>4. /\ k \in Workspace!ReadRecords /\ k.step = "sent" /\ k.request = q.request /\ k.held = q.held /\ k.live = q.live
        /\ k.kind = q.kind /\ k.id = q.id /\ k.c = q.c /\ k.text = q.text /\ k.tool = q.tool
        /\ k.known = q.known /\ k.bearer = q.bearer /\ k.listed = q.listed /\ k.ids = q.ids
        /\ k.peer = q.peer /\ k.items = q.items /\ k.spelled = q.spelled /\ k.out = q.out
    BY <1>2, <2>1, <2>3, AsksTyped
  <2>5. Workspace!ConnectionInv(k)
    BY <1>2, <2>4 DEF Workspace!ConnectionInv, Workspace!Current
  <2>6. Workspace!LateInv(k)
    BY <1>1, <1>2, <2>4 DEF Workspace!LateInv, Workspace!Sensitive, Workspace!Held
  <2>7. Workspace!ReadInv(k)
    BY <2>4, <2>5, <2>6, WorkspaceAssumption DEF Workspace!ReadInv, Workspace!ConnectionInv, Workspace!Early, Workspace!Late
  <2>8. PICK e : e = [credential |-> q.bearer, to |-> q.c.place]
    OBVIOUS
  <2>9. e.credential.place = e.to
    BY <1>2, <2>8 DEF Workspace!LateInv
  <2>10. \A d \in sent' : d.credential.place = d.to
    BY <1>4, <1>6, <2>8, <2>9 DEF Workspace!CustodyInv
  <2> QED BY <1>3, <1>4, <1>6, <2>2, <2>4, <2>7, <2>10, ReadMoves DEF Workspace!TypeOK
<1> QED BY <1>2, <1>5, <1>6 DEF Workspace!Send

(* An answer that goes on. *)
LEMMA HeardMoves ==
  ASSUME Workspace!WorkspaceInv, NEW r \in Readers, NEW m, Heard(m), Workspace!Go(r, Workspace!Onward(m)),
         UNCHANGED <<platform, links, minted, barred, drawn, time, sent>>,
         issued' \subseteq Workspace!Credentials, Workspace!IsFiniteSet(issued')
  PROVE  Workspace!WorkspaceInv'
<1>1. PICK k \in Workspace!ReadRecords : k = Workspace!Onward(m) /\ Workspace!ReadInv(k)
  BY OnwardKeeps
<1>2. \A e \in sent' : e.credential.place = e.to
  BY DEF Workspace!WorkspaceInv, Workspace!CustodyInv
<1> QED BY <1>1, <1>2, ReadMoves

(* An answer leaves a read a read. *)
LEMMA HeardTyped ==
  ASSUME NEW q \in Workspace!ReadRecords, NEW sp \in SUBSET Workspace!Credentials, NEW li \in SUBSET {"t1"},
         NEW id \in SUBSET {"i"}, NEW pe \in {"p", "q", None},
         NEW it \in [ids : SUBSET {"i"}, peer : {"p", "q"}] \cup {None},
         NEW m, m = [q EXCEPT !.spelled = sp, !.listed = li, !.ids = id, !.peer = pe, !.items = it]
  PROVE  m \in Workspace!ReadRecords
BY DEF Workspace!ReadRecords

LEMMA KnownTyped ==
  ASSUME NEW q \in Workspace!ReadRecords, NEW sp \in SUBSET Workspace!Credentials, NEW kn \in SUBSET Workspace!Credentials,
         NEW m, m = [q EXCEPT !.known = kn, !.spelled = sp]
  PROVE  m \in Workspace!ReadRecords
BY DEF Workspace!ReadRecords

LEMMA KeptTyped ==
  ASSUME NEW q \in Workspace!ReadRecords, NEW on \in BOOLEAN,
         NEW k, k = [q EXCEPT !.step = "done", !.out = "envelope", !.allowed = on]
  PROVE  k \in Workspace!ReadRecords
BY DEF Workspace!ReadRecords

LEMMA AnsweredRead ==
  ASSUME Workspace!WorkspaceInv, NEW r \in Readers, NEW spelled \in Workspace!Spells, NEW tools \in SUBSET {"t1"},
         NEW ids \in SUBSET {"i"}, NEW peer \in {"p", "q"}, Workspace!Answered(r, spelled, tools, ids, peer)
  PROVE  Workspace!WorkspaceInv'
<1>1. reads[r].step \in Workspace!Late /\ reads[r].step = "sent" /\ Workspace!Kept
  BY DEF Workspace!Answered, Workspace!At, Workspace!Late
<1>2. PICK q \in Workspace!ReadRecords : q = reads[r] /\ Workspace!ConnectionInv(q) /\ Workspace!LateInv(q)
  BY <1>1, ReadLate
<1>3. PICK sp, li, id, pe, it : /\ sp = q.spelled \cup ({spelled} \ {None})
                                /\ li = (IF q.request = "list" THEN tools ELSE q.listed)
                                /\ id = (IF q.request = "query" THEN ids ELSE q.ids)
                                /\ pe = (IF q.request = "query" THEN peer ELSE q.peer)
                                /\ it = (IF q.request = "items" THEN [ids |-> ids, peer |-> peer] ELSE q.items)
  OBVIOUS
<1>4. PICK m : m = [q EXCEPT !.spelled = sp, !.listed = li, !.ids = id, !.peer = pe, !.items = it]
  OBVIOUS
<1>5. \/ Workspace!End(r, "refused")
      \/ /\ Workspace!Go(r, Workspace!Onward(m)) /\ q.request \notin {"initialize", "end"}
         /\ ~(spelled \in q.known /\ Workspace!Held(q))
         /\ q.request = "list" /\ q.kind = "mcp" => q.tool \in tools
         /\ q.request = "items" => ids \subseteq q.ids /\ peer = q.peer
  BY <1>2, <1>3, <1>4 DEF Workspace!Answered, Workspace!NotOffered, Workspace!NotAsked
<1>6. CASE Workspace!End(r, "refused")
  BY <1>1, <1>6, ReadEnds
<1>7. CASE /\ Workspace!Go(r, Workspace!Onward(m)) /\ q.request \notin {"initialize", "end"}
           /\ ~(spelled \in q.known /\ Workspace!Held(q))
           /\ q.request = "list" /\ q.kind = "mcp" => q.tool \in tools
           /\ q.request = "items" => ids \subseteq q.ids /\ peer = q.peer
  <2>1. /\ sp \in SUBSET Workspace!Credentials /\ li \in SUBSET {"t1"} /\ id \in SUBSET {"i"} /\ pe \in {"p", "q", None}
        /\ it \in [ids : SUBSET {"i"}, peer : {"p", "q"}] \cup {None}
    <3>1. /\ q.spelled \in SUBSET Workspace!Credentials /\ q.listed \in SUBSET {"t1"} /\ q.ids \in SUBSET {"i"}
          /\ q.peer \in {"p", "q", None} /\ q.items \in [ids : SUBSET {"i"}, peer : {"p", "q"}] \cup {None}
      BY <1>2 DEF Workspace!ReadRecords
    <3>2. {spelled} \ {None} \subseteq Workspace!Credentials
      BY DEF Workspace!Spells, Workspace!WorkspaceInv, Workspace!TypeOK
    <3>3. [ids |-> ids, peer |-> peer] \in [ids : SUBSET {"i"}, peer : {"p", "q"}]
      OBVIOUS
    <3> QED BY <1>3, <3>1, <3>2, <3>3
  <2>2. m \in Workspace!ReadRecords
    BY <1>2, <1>4, <2>1, HeardTyped
  <2>3. /\ m.step = q.step /\ m.request = q.request /\ m.held = q.held /\ m.live = q.live
        /\ m.kind = q.kind /\ m.id = q.id /\ m.c = q.c /\ m.text = q.text /\ m.tool = q.tool
        /\ m.known = q.known /\ m.bearer = q.bearer /\ m.out = q.out
    BY <1>2, <1>4 DEF Workspace!ReadRecords
  <2>4. m.spelled = sp /\ m.listed = li /\ m.ids = id /\ m.peer = pe /\ m.items = it
    BY <1>2, <1>4 DEF Workspace!ReadRecords
  <2>5. Workspace!ConnectionInv(m)
    BY <1>2, <2>3 DEF Workspace!ConnectionInv, Workspace!Current
  <2>6. /\ Workspace!Sensitive(m) \subseteq m.known /\ m.text \notin Workspace!Sensitive(m) /\ m.bearer.place = m.c.place
        /\ Workspace!Sensitive(m) = Workspace!Sensitive(q) /\ Workspace!Held(m) = Workspace!Held(q)
    BY <1>2, <2>3 DEF Workspace!LateInv, Workspace!Sensitive, Workspace!Held
  <2>7. Workspace!Held(m) => m.spelled \cap Workspace!Sensitive(m) = {}
    BY <1>2, <1>3, <1>7, <2>3, <2>4, <2>6 DEF Workspace!LateInv
  <2>8. m.kind = "mcp" => /\ m.request \in {"initialize", "list", "call", "end"}
                          /\ m.request # "initialize" => m.tool \in m.listed
    BY <1>1, <1>2, <1>3, <1>7, <2>3, <2>4 DEF Workspace!LateInv
  <2>9. m.items # None => m.items.ids \subseteq m.ids /\ m.items.peer = m.peer
    <3>1. CASE q.request = "items"
      BY <1>3, <1>7, <2>4, <3>1
    <3>2. CASE q.request = "query"
      BY <1>1, <1>2, <1>3, <2>4, <3>2 DEF Workspace!LateInv
    <3>3. CASE q.request \notin {"items", "query"}
      BY <1>2, <1>3, <2>4, <3>3 DEF Workspace!LateInv
    <3> QED BY <3>1, <3>2, <3>3
  <2>10. m.request \in {"query", "initialize"} => m.items = None
    BY <1>1, <1>2, <1>3, <2>3, <2>4 DEF Workspace!LateInv
  <2>11. Heard(m)
    BY <2>2, <2>5, <2>6, <2>7, <2>8, <2>9, <2>10 DEF Heard
  <2> QED BY <1>1, <1>7, <2>11, HeardMoves DEF Workspace!Kept, Workspace!store, Workspace!WorkspaceInv, Workspace!TypeOK
<1> QED BY <1>5, <1>6, <1>7

LEMMA InitializedRead ==
  ASSUME Workspace!WorkspaceInv, NEW r \in Readers, NEW spelled \in Workspace!Spells, Workspace!Initialized(r, spelled)
  PROVE  Workspace!WorkspaceInv'
<1>1. reads[r].step \in Workspace!Late /\ reads[r].step = "sent" /\ reads[r].request = "initialize"
  BY DEF Workspace!Initialized, Workspace!At, Workspace!Late
<1>2. PICK q \in Workspace!ReadRecords : q = reads[r] /\ Workspace!ConnectionInv(q) /\ Workspace!LateInv(q)
  BY <1>1, ReadLate
<1>3. UNCHANGED <<platform, links, minted, barred, quarantined, drawn, time, sent>>
  BY DEF Workspace!Initialized, Workspace!store
<1>4. PICK session : session = Workspace!Credential(q.c.place)
  OBVIOUS
<1>5. Workspace!TypeOK /\ q.c.place \in Workspace!Places
  BY <1>2 DEF Workspace!WorkspaceInv, Workspace!ConnectionInv, Workspace!Connections
<1>6. session \in Workspace!Credentials /\ issued \cup {session} \subseteq Workspace!Credentials /\ Workspace!IsFiniteSet(issued \cup {session})
  BY <1>4, <1>5, CredentialTyped
<1>7. PICK sp, kn : sp = q.spelled \cup ({spelled} \ {None}) /\ kn = q.known \cup {session}
  OBVIOUS
<1>8. PICK m : m = [q EXCEPT !.known = kn, !.spelled = sp]
  OBVIOUS
<1>9. \/ Workspace!End(r, "refused") /\ UNCHANGED issued
      \/ spelled \notin q.known /\ issued' = issued \cup {session} /\ Workspace!Go(r, Workspace!Onward(m))
  BY <1>2, <1>4, <1>7, <1>8 DEF Workspace!Initialized
<1>10. CASE Workspace!End(r, "refused") /\ UNCHANGED issued
  BY <1>3, <1>10, ReadEnds DEF Workspace!Kept, Workspace!store
<1>11. CASE spelled \notin q.known /\ issued' = issued \cup {session} /\ Workspace!Go(r, Workspace!Onward(m))
  <2>1. sp \in SUBSET Workspace!Credentials /\ kn \in SUBSET Workspace!Credentials
    BY <1>2, <1>5, <1>6, <1>7 DEF Workspace!ReadRecords, Workspace!Spells, Workspace!TypeOK
  <2>2. m \in Workspace!ReadRecords
    BY <1>2, <1>8, <2>1, KnownTyped
  <2>3. /\ m.step = q.step /\ m.request = q.request /\ m.held = q.held /\ m.live = q.live
        /\ m.kind = q.kind /\ m.id = q.id /\ m.c = q.c /\ m.text = q.text /\ m.tool = q.tool
        /\ m.bearer = q.bearer /\ m.out = q.out
    BY <1>2, <1>8 DEF Workspace!ReadRecords
  <2>4. /\ m.spelled = sp /\ m.known = kn /\ m.listed = q.listed /\ m.ids = q.ids /\ m.peer = q.peer
        /\ m.items = q.items
    BY <1>2, <1>8 DEF Workspace!ReadRecords
  <2>5. Workspace!ConnectionInv(m)
    BY <1>2, <2>3 DEF Workspace!ConnectionInv, Workspace!Current
  <2>6. /\ Workspace!Sensitive(m) \subseteq m.known /\ m.text \notin Workspace!Sensitive(m) /\ m.bearer.place = m.c.place
        /\ Workspace!Held(m) => m.spelled \cap Workspace!Sensitive(m) = {}
    BY <1>2, <1>7, <1>11, <2>3, <2>4 DEF Workspace!LateInv, Workspace!Sensitive, Workspace!Held
  <2>7. m.kind = "mcp" => /\ m.request \in {"initialize", "list", "call", "end"}
                          /\ m.request # "initialize" => m.tool \in m.listed
    BY <1>1, <1>2, <2>3
  <2>8. m.items = None
    BY <1>1, <1>2, <2>4 DEF Workspace!LateInv
  <2>9. Heard(m)
    BY <2>2, <2>5, <2>6, <2>7, <2>8 DEF Heard
  <2> QED BY <1>3, <1>6, <1>11, <2>9, HeardMoves
<1> QED BY <1>9, <1>10, <1>11

LEMMA EndedRead ==
  ASSUME Workspace!WorkspaceInv, NEW r \in Readers, Workspace!Ended(r) \/ Workspace!Unanswered(r) \/ Workspace!Stop(r)
  PROVE  Workspace!WorkspaceInv'
<1>1. Workspace!Kept
  BY DEF Workspace!Ended, Workspace!Unanswered, Workspace!Stop
<1>2. CASE Workspace!End(r, "refused") \/ Workspace!End(r, "none")
  BY <1>1, <1>2, ReadEnds
<1>3. CASE Workspace!Ended(r) /\ Workspace!Go(r, Workspace!Onward(reads[r]))
  <2>1. reads[r].step \in Workspace!Late /\ reads[r].step = "sent" /\ reads[r].request = "end"
    BY <1>3 DEF Workspace!Ended, Workspace!At, Workspace!Late
  <2>2. PICK q \in Workspace!ReadRecords : q = reads[r] /\ Workspace!ConnectionInv(q) /\ Workspace!LateInv(q)
    BY <2>1, ReadLate
  <2>3. Heard(q)
    BY <2>1, <2>2 DEF Heard, Workspace!LateInv
  <2> QED BY <1>1, <1>3, <2>2, <2>3, HeardMoves DEF Workspace!Kept, Workspace!store, Workspace!WorkspaceInv, Workspace!TypeOK
<1> QED BY <1>2, <1>3 DEF Workspace!Ended, Workspace!Unanswered, Workspace!Stop

LEMMA ConfirmRead ==
  ASSUME Workspace!WorkspaceInv, NEW r \in Readers, Workspace!Confirm(r)
  PROVE  Workspace!WorkspaceInv'
<1>1. reads[r].step \in Workspace!Late /\ reads[r].step = "confirm" /\ Workspace!Kept
  BY DEF Workspace!Confirm, Workspace!At, Workspace!Late
<1>2. PICK q \in Workspace!ReadRecords : q = reads[r] /\ Workspace!ConnectionInv(q) /\ Workspace!LateInv(q)
  BY <1>1, ReadLate
<1>3. CASE Workspace!End(r, "refused")
  BY <1>1, <1>3, ReadEnds
<1>4. CASE Workspace!Keeping(r) /\ ~barred /\ Workspace!Current(q)
  <2>1. PICK k, on : k = [q EXCEPT !.step = "done", !.out = "envelope", !.allowed = on] /\ on = ~barred
    OBVIOUS
  <2>a. on = TRUE
    BY <1>4, <2>1
  <2>2. k \in Workspace!ReadRecords
    BY <1>2, <2>1, <2>a, KeptTyped
  <2>3. /\ k.step = "done" /\ k.out = "envelope" /\ k.c = q.c /\ k.live = q.live /\ k.bearer = q.bearer
        /\ k.spelled = q.spelled /\ k.held = q.held /\ k.kind = q.kind /\ k.tool = q.tool /\ k.listed = q.listed
        /\ k.items = q.items /\ k.ids = q.ids /\ k.peer = q.peer /\ k.allowed = TRUE
    BY <1>2, <2>1, <2>a DEF Workspace!ReadRecords
  <2>4. Workspace!KeptInv(k)
    BY <1>1, <1>2, <1>4, <2>3 DEF Workspace!KeptInv, Workspace!LateInv, Workspace!ConnectionInv, Workspace!Sensitive, Workspace!Held
  <2>5. Workspace!ReadInv(k)
    BY <2>3, <2>4 DEF Workspace!ReadInv, Workspace!Early, Workspace!Late
  <2>6. Workspace!Go(r, k)
    BY <1>2, <1>4, <2>1 DEF Workspace!Keeping
  <2> QED BY <1>1, <2>2, <2>5, <2>6, ReadMoves DEF Workspace!Kept, Workspace!store, Workspace!WorkspaceInv, Workspace!TypeOK, Workspace!CustodyInv
<1> QED BY <1>2, <1>3, <1>4 DEF Workspace!Confirm

LEMMA WorkspaceStep == Workspace!WorkspaceInv /\ Workspace!Next => Workspace!WorkspaceInv'
<1> SUFFICES ASSUME Workspace!WorkspaceInv, Workspace!Next PROVE Workspace!WorkspaceInv'
  OBVIOUS
<1>1. CASE Workspace!Operate
  BY <1>1, ConfigureLink, OtherOperations DEF Workspace!Operate
<1>2. ASSUME NEW r \in Readers, Workspace!Read(r) PROVE Workspace!WorkspaceInv'
  BY <1>2, SnapshotRead, GrantStep, ScreenStep, BearerStep, MintStep, MintedStep, KeepStep, SendRead,
     AnsweredRead, InitializedRead, EndedRead, ConfirmRead DEF Workspace!Read
<1> QED BY <1>1, <1>2 DEF Workspace!Next

LEMMA WorkspaceSays == Workspace!WorkspaceInv => Workspace!CredentialsStayHome /\ Workspace!ReadsAreCurrent
<1> SUFFICES ASSUME Workspace!WorkspaceInv PROVE Workspace!CredentialsStayHome /\ Workspace!ReadsAreCurrent
  OBVIOUS
<1>1. Workspace!CustodyInv /\ \A r \in Readers : Workspace!ReadInv(reads[r])
  BY DEF Workspace!WorkspaceInv
<1>2. Workspace!CredentialsStayHome
  BY <1>1 DEF Workspace!CredentialsStayHome, Workspace!CustodyInv, Workspace!ReadInv, Workspace!LateInv, Workspace!KeptInv, Workspace!Sensitive, Workspace!Late
<1>3. Workspace!ReadsAreCurrent
  BY <1>1 DEF Workspace!ReadsAreCurrent, Workspace!ReadInv, Workspace!KeptInv
<1> QED BY <1>2, <1>3

LEMMA WorkspaceStutters == Workspace!WorkspaceInv /\ UNCHANGED workspaceVars => Workspace!WorkspaceInv'
<1> SUFFICES ASSUME Workspace!WorkspaceInv, UNCHANGED workspaceVars PROVE Workspace!WorkspaceInv'
  OBVIOUS
<1>1. UNCHANGED <<platform, links, minted, barred, quarantined, drawn, issued, time, reads, sent>>
  BY DEF workspaceVars
<1>2. Workspace!TypeOK' /\ Workspace!CustodyInv'
  BY <1>1 DEF Workspace!WorkspaceInv, Workspace!TypeOK, Workspace!CustodyInv
<1>3. ASSUME NEW r \in Readers PROVE Workspace!ReadInv(reads[r])'
  <2>1. PICK q : q = reads[r]
    OBVIOUS
  <2>2. Workspace!ReadInv(q)'
    BY <1>1, <2>1, ReadStands DEF Workspace!WorkspaceInv
  <2> QED BY <1>1, <2>1, <2>2
<1> QED BY <1>2, <1>3 DEF Workspace!WorkspaceInv

(* However connections are configured again, blocked, disconnected and disabled while    *)
(* reads run and tokens are minted, and however many run at once: a credential is sent   *)
(* only where it was given for or minted, a token is held only for the connection its    *)
(* name has now, nothing sent or kept spells a credential, and what is kept of a read is *)
(* of the connection it began with, neither changed nor disconnected since, kept while   *)
(* the policy allows it, by a tool allowed and offered, of items asked for               *)
(* (configure, databricksBearerHeld, carries, databricksCurrent, azureDevOpsCurrent).    *)
THEOREM ReadsStayHome == MCSpec => []ConnectionsHold
<1> DEFINE Inv == part = "workspace" => Workspace!WorkspaceInv
<1>1. MCInit => Inv
  BY WorkspaceInitially DEF MCInit
<1>2. Inv /\ [MCNext]_allVars => Inv'
  <2> SUFFICES ASSUME Inv, [MCNext]_allVars, part' = "workspace" PROVE Workspace!WorkspaceInv'
    OBVIOUS
  <2>1. part' = part
    BY DEF MCNext, allVars
  <2>2. Workspace!WorkspaceInv
    BY <2>1
  <2>3. CASE Workspace!Next
    BY <2>2, <2>3, WorkspaceStep
  <2>4. CASE UNCHANGED workspaceVars
    BY <2>2, <2>4, WorkspaceStutters
  <2> QED BY <2>1, <2>3, <2>4 DEF MCNext, allVars
<1>3. Inv => ConnectionsHold
  BY WorkspaceSays DEF ConnectionsHold
<1> QED BY <1>1, <1>2, <1>3, PTL DEF MCSpec
=============================================================================
