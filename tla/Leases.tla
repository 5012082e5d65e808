------------------------------- MODULE Leases -------------------------------
(***************************************************************************)
(* The leases of one name, kept in a document that compares and sets       *)
(* (go/store_leases.go, documentLeases; the document is DocumentSpace's).  *)
(* A call reads the document, then the clock, and then writes against the  *)
(* revision it read; the calls of any number of processes interleave.      *)
(***************************************************************************)
EXTENDS Integers, Sequences

CONSTANTS
  Procs,      \* callers at one time, each a holder of its own
  TTLs,       \* times to live asked for
  MaxTime,    \* bound: the clock
  MaxWrites   \* bound: writes of the document

ASSUME LeasesAssumption ==
  TTLs \subseteq Nat \ {0} /\ MaxTime \in Nat \ {0} /\ MaxWrites \in Nat

VARIABLES
  now,       \* the clock every caller reads
  held,      \* the lease document: [token, expires]; token 0 before any grant
  revision,  \* the document's revision
  grants,    \* Seq([token, expires]): each grant, as its holder knows it
  pc, loc,   \* a call: its step, its arguments and what it read
  passed     \* [token, from]: the last fence that held, and the grants before

vars == <<now, held, revision, grants, pc, loc, passed>>

Leases == [token : Nat, expires : Nat]

(* given is the lease, or the fence, a call passes; before the grants made  *)
(* when it was called.                                                      *)
Ops == {"acquire", "renew", "release", "check"}
NoLease == [token |-> 0, expires |-> 0]

Locals == [op : Ops, given : 0 .. MaxWrites, read : Leases,
           revision : 0 .. MaxWrites, expires : Nat, before : 0 .. MaxWrites]

NoLocals == [op |-> "check", given |-> 0, read |-> NoLease, revision |-> 0,
             expires |-> 0, before |-> 0]

Init ==
  /\ now = 1
  /\ held = NoLease /\ revision = 0
  /\ grants = <<>>
  /\ pc = [p \in Procs |-> "idle"]
  /\ loc = [p \in Procs |-> NoLocals]
  /\ passed = [token |-> 0, before |-> 0]

Tick == now < MaxTime /\ now' = now + 1
        /\ UNCHANGED <<held, revision, grants, pc, loc, passed>>

-----------------------------------------------------------------------------
GoWith(p, step, l) ==
  /\ pc' = [pc EXCEPT ![p] = step]
  /\ loc' = [loc EXCEPT ![p] = l]

Return(p) == GoWith(p, "idle", NoLocals)

(* A call: acquireLease, or one of the others with a lease granted before.  *)
Call(p) ==
  /\ pc[p] = "idle"
  /\ \E op \in Ops : \E i \in IF op = "acquire" THEN {0} ELSE DOMAIN grants :
       GoWith(p, "read", [NoLocals EXCEPT !.op = op, !.given = i,
                            !.before = IF op = "check" THEN Len(grants) ELSE 0])
  /\ UNCHANGED <<now, held, revision, grants, passed>>

(* current: the document and its revision. *)
Read(p) ==
  /\ pc[p] = "read"
  /\ GoWith(p, "judge", [loc[p] EXCEPT !.read = held, !.revision = revision])
  /\ UNCHANGED <<now, held, revision, grants, passed>>

Live(lease) == now < lease.expires

(* Mutant: a fence is held to the clock and not to the token. *)
HoldingAny(l) == l.read.token # 0 /\ Live(l.read)

(* holding, and checkFence: the record read is the lease given, still live. *)
Holding(l) ==
  /\ l.read.token # 0 /\ l.read.token = grants[l.given].token
  /\ Live(l.read)

(* The clock is read and the call judged: a lease that is held refuses one  *)
(* more, and one no longer current is refused everything.                   *)
JudgeAcquire(p) ==
  LET l == loc[p]
  IN /\ pc[p] = "judge" /\ l.op = "acquire"
     /\ IF Live(l.read) THEN Return(p)
        ELSE \E ttl \in TTLs : GoWith(p, "put", [l EXCEPT !.expires = now + ttl])
     /\ UNCHANGED <<now, held, revision, grants, passed>>

JudgeHolding(p) ==
  LET l == loc[p]
  IN /\ pc[p] = "judge" /\ l.op \in {"renew", "release"}
     /\ IF ~ Holding(l) THEN Return(p)
        ELSE GoWith(p, IF l.op = "renew" THEN "stamp" ELSE "put", l)
     /\ UNCHANGED <<now, held, revision, grants, passed>>

(* A renewal counts its time to live from a clock it reads again. *)
Stamp(p) ==
  /\ pc[p] = "stamp"
  /\ \E ttl \in TTLs : GoWith(p, "put", [loc[p] EXCEPT !.expires = now + ttl])
  /\ UNCHANGED <<now, held, revision, grants, passed>>

CheckFence(p) ==
  LET l == loc[p]
  IN /\ pc[p] = "judge" /\ l.op = "check"
     /\ passed' = IF Holding(l)
                  THEN [token |-> grants[l.given].token, before |-> l.before]
                  ELSE passed
     /\ Return(p)
     /\ UNCHANGED <<now, held, revision, grants>>

(* What the call writes: a grant counts on from the last. *)
Record(l) ==
  [token |-> IF l.op = "acquire" THEN l.read.token + 1 ELSE l.read.token,
   expires |-> l.expires]

(* Mutant: the write does not compare. *)
PutBlind(p) ==
  LET l == loc[p]
      record == Record(l)
  IN /\ pc[p] = "put"
     /\ revision < MaxWrites
     /\ held' = record
     /\ revision' = revision + 1
     /\ grants' = IF l.op = "acquire" THEN Append(grants, record)
                  ELSE [grants EXCEPT ![l.given] = record]
     /\ Return(p)
     /\ UNCHANGED <<now, passed>>

(* putDocument against the revision that was read; a conflict is a lease    *)
(* that another was granted, or that changed hands.                         *)
Put(p) ==
  LET l == loc[p]
      record == Record(l)
  IN /\ pc[p] = "put"
     /\ IF l.revision # revision THEN UNCHANGED <<held, revision, grants>>
        ELSE /\ revision < MaxWrites
             /\ held' = record
             /\ revision' = revision + 1
             /\ grants' = IF l.op = "acquire" THEN Append(grants, record)
                          ELSE [grants EXCEPT ![l.given] = record]
     /\ Return(p)
     /\ UNCHANGED <<now, passed>>

(* The caller dies.  Its write may have been made and never known to it:    *)
(* that is a write followed by nothing, which Put already is.               *)
Stop(p) ==
  /\ pc[p] # "idle"
  /\ Return(p)
  /\ UNCHANGED <<now, held, revision, grants, passed>>

Next ==
  \/ \E p \in Procs : \/ Call(p) \/ Read(p) \/ Put(p) \/ Stop(p)
                       \/ JudgeAcquire(p) \/ JudgeHolding(p) \/ Stamp(p)
                       \/ CheckFence(p)
  \/ Tick

Spec == Init /\ [][Next]_vars

-----------------------------------------------------------------------------
(* What the leases promise. *)

(* However renewals, releases and grants interleave with the clock, one     *)
(* holder at most has a lease that has not expired.                         *)
OneLiveLease ==
  \A i, j \in DOMAIN grants : Live(grants[i]) /\ Live(grants[j]) => i = j

(* A fencing token grows with every grant and never starts again            *)
(* (store_contract.go, lease).                                              *)
TokensGrow ==
  \A i, j \in DOMAIN grants : i < j => grants[i].token < grants[j].token

(* A holder whose lease was granted to another is refused by every check    *)
(* that begins after that grant.                                            *)
StaleFenceRefused ==
  passed.before # 0 => passed.token >= grants[passed.before].token
=============================================================================
