----------------------------- MODULE KeyRotation -----------------------------
(***************************************************************************)
(* A signing key handed on to the next: gateway rotate-key and its         *)
(* --resume, the gateway's start under the registry's lock, and the walk   *)
(* that follows a registry's rotations (go/rotate_key.go, go/rotation.go,  *)
(* go/registry_lock_unix.go).                                              *)
(*                                                                         *)
(* Keys are numbered in the order they are made; the first is pinned by    *)
(* every verifier.  A process is one run of the tool or of a gateway; it   *)
(* dies, or a file operation of it fails, between any two of its effects.  *)
(* Operations on the seed's directory reach the disk in order and each     *)
(* sync of it comes before what relies on it, so that there a crash of the *)
(* host leaves a state some earlier death leaves.  Of the registry that is *)
(* so but once: a --resume that finds the record whole goes on without a   *)
(* sync of its own, though the run that wrote it may have died before its  *)
(* own sync.  A host that crashes after that is not modelled.              *)
(***************************************************************************)
EXTENDS Naturals, Sequences, FiniteSets, SequencesExt

CONSTANTS
  Procs,       \* runs of the tool or of a gateway, at one time
  MaxKeys,     \* bound: keys ever made
  MaxSeals,    \* bound: seals ever written
  MaxStops,    \* bound: processes that die
  Overlap,     \* TRUE: a --resume may run beside a rotate-key
  TornRecord,  \* TRUE: a process may die while it writes the kept record
  None, Torn

ASSUME RotationAssumption ==
  /\ MaxKeys \in Nat \ {0} /\ MaxSeals \in Nat /\ MaxStops \in Nat
  /\ Overlap \in BOOLEAN /\ TornRecord \in BOOLEAN
  /\ None \notin Nat /\ None \notin Procs /\ None # Torn

Keys == 1 .. MaxKeys
Ordinals == 1 .. MaxKeys

VARIABLES
  seed, next,  \* the key whose seed is at <seed> and at <seed>.next, or None
  kept,        \* [Ordinals -> key]: the seeds at <seed>.rotated-<n>
  record,      \* <seed>.rotation
  registry,    \* Seq(Lines)
  lock,        \* the process that holds the registry's lock, or None
  pc, key, rec,  \* a process: its step, the key and the record it has read
  made,        \* keys made so far
  sealed,      \* seals a gateway answered as written
  stops        \* processes that died

beside == <<seed, next, kept, record>>
vars == <<seed, next, kept, record, registry, lock, pc, key, rec, made, sealed, stops>>

(* A line, or the record of a rotation, of which only a part may be there:  *)
(* 1 less than its key-rotation, 2 that line, 3 less than the               *)
(* key-continuation after it, 4 that line but for its newline, 5 the whole. *)
Whole == 5
Rotations == [n : Ordinals, from : Keys, to : Keys]
SealLines == [kind : {"seal"}, id : 1 .. MaxSeals, key : Keys, whole : BOOLEAN]
RotationLines == [kind : {"rotation"}, r : Rotations, part : 1 .. Whole]
Lines == SealLines \cup RotationLines

(* keptRecord, with the registry before it for its length and digest.       *)
(* Torn is a file that does not read as one.                              *)
Records == [r : Rotations, before : Seq(Lines)]
ASSUME RecordAssumption == None \notin Records /\ Torn \notin Records

Steps == {"idle", "seed", "pending", "lock", "walk", "next", "keep", "keeping",
          "append", "abandon", "abandonNext", "aside", "switch", "done",
          "resume", "seeds", "resumeLock", "resumeWalk", "cut", "reappend",
          "orphan", "orphanWalk", "orphanRemove",
          "gwSeed", "gwPending", "gwLock", "gwCheck", "serving"}

TypeOK ==
  /\ seed \in Keys \cup {None} /\ next \in Keys \cup {None}
  /\ kept \in [Ordinals -> Keys \cup {None}]
  /\ record \in Records \cup {None, Torn}
  /\ registry \in Seq(Lines)
  /\ lock \in Procs \cup {None}
  /\ pc \in [Procs -> Steps]
  /\ key \in [Procs -> Keys \cup {None}]
  /\ rec \in [Procs -> Records \cup {None}]
  /\ made \in Keys
  /\ sealed \subseteq 1 .. MaxSeals
  /\ stops \in 0 .. MaxStops

Init ==
  /\ seed = 1 /\ next = None
  /\ kept = [n \in Ordinals |-> None]
  /\ record = None
  /\ registry = <<>>
  /\ lock = None
  /\ pc = [p \in Procs |-> "idle"]
  /\ key = [p \in Procs |-> None]
  /\ rec = [p \in Procs |-> None]
  /\ made = 1
  /\ sealed = {}
  /\ stops = 0

-----------------------------------------------------------------------------
(* The walk of a registry. *)

Current(w) == w.keys[Len(w.keys)]
Followed(w) == Len(w.keys) - 1

(* follow: the checks of a rotation, in their order; "none" of them failed. *)
Follow(w, l) ==
  IF l.r.from # Current(w) THEN "forged"
  ELSE IF l.r.n # Followed(w) + 1 THEN "order"
  ELSE IF l.r.to \in Range(w.keys) THEN "refused"
  ELSE IF l.part < 4 THEN "break"
  ELSE "none"

(* One line.  Less than a key-rotation is no statement, and no seal either. *)
ReadLine(w, l) ==
  IF l.kind = "seal"
  THEN IF l.whole /\ l.key = Current(w)
       THEN [w EXCEPT !.seals = @ \cup {l.id}] ELSE w
  ELSE IF w.finding # "none" \/ l.part = 1 THEN w
  ELSE IF Follow(w, l) = "none" THEN [w EXCEPT !.keys = Append(@, l.r.to)]
  ELSE [w EXCEPT !.finding = Follow(w, l)]

WalkRegistry(lines, pinned) ==
  LET walk[i \in 0 .. Len(lines)] ==
        IF i = 0 THEN [keys |-> <<pinned>>, seals |-> {}, finding |-> "none"]
        ELSE ReadLine(walk[i - 1], lines[i])
  IN walk[Len(lines)]

(* registryFirstKey: the previous of the first key-continuation. *)
FirstKey(lines, own) ==
  LET reverse == {i \in DOMAIN lines : lines[i].kind = "rotation" /\ lines[i].part >= 4}
  IN IF reverse = {} THEN own
     ELSE lines[CHOOSE i \in reverse : \A j \in reverse : i <= j].r.from

Walk(lines, own) == WalkRegistry(lines, FirstKey(lines, own))

(* engineWalk: the walk finds nothing and ends at the reader's own key. *)
Holds(lines, own) ==
  LET w == Walk(lines, own) IN w.finding = "none" /\ Current(w) = own

RotationPending == next # None \/ record # None

-----------------------------------------------------------------------------
Go(p, step) == pc' = [pc EXCEPT ![p] = step]

(* The process returns: its lock goes with it. *)
Return(p) ==
  /\ Go(p, "idle")
  /\ lock' = IF lock = p THEN None ELSE lock
  /\ key' = [key EXCEPT ![p] = None]
  /\ rec' = [rec EXCEPT ![p] = None]

Continue(p, step) == Go(p, step) /\ UNCHANGED <<lock, key, rec>>
ContinueIf(p, holds, step) == IF holds THEN Continue(p, step) ELSE Return(p)

Counts == <<made, sealed, stops>>

(* lockRegistry: refused at once when another holds it. *)
TakeLock(p, step) ==
  IF lock = None
  THEN lock' = p /\ Go(p, step) /\ UNCHANGED <<key, rec>>
  ELSE Return(p)

Rotating == {"seed", "pending", "lock", "walk", "next", "keep", "keeping",
             "append", "abandon", "abandonNext"}
Resuming == {"resume", "seeds", "resumeLock", "resumeWalk", "cut", "reappend",
             "orphan", "orphanWalk", "orphanRemove"}
Running(steps) == \E q \in Procs : pc[q] \in steps \cup {"aside", "switch", "done"}

-----------------------------------------------------------------------------
(* rotate-key. *)

BeginRotate(p) ==
  /\ pc[p] = "idle"
  /\ made < MaxKeys
  /\ Overlap \/ ~ Running(Resuming)
  /\ Continue(p, "seed")
  /\ UNCHANGED <<beside, registry, Counts>>

LoadSeed(p) ==
  /\ pc[p] = "seed"
  /\ IF seed = None THEN Return(p)
     ELSE key' = [key EXCEPT ![p] = seed] /\ Go(p, "pending") /\ UNCHANGED <<lock, rec>>
  /\ UNCHANGED <<beside, registry, Counts>>

PendingBeside(p) ==
  /\ pc[p] = "pending"
  /\ ContinueIf(p, ~ RotationPending, "lock")
  /\ UNCHANGED <<beside, registry, Counts>>

RotateLock(p) ==
  /\ pc[p] = "lock"
  /\ TakeLock(p, "walk")
  /\ UNCHANGED <<beside, registry, Counts>>

Ordinal(p) == Followed(Walk(registry, key[p])) + 1

(* The registry is walked; the seed rotated from must have a place to go.   *)
WalkToRotate(p) ==
  /\ pc[p] = "walk"
  /\ ContinueIf(p, Holds(registry, key[p]) /\ kept[Ordinal(p)] = None, "next")
  /\ UNCHANGED <<beside, registry, Counts>>

(* putSecret: the next seed, made once and never replaced. *)
MakeNext(p) ==
  /\ pc[p] = "next"
  /\ IF next = None /\ made < MaxKeys
     THEN next' = made + 1 /\ made' = made + 1 /\ Continue(p, "keep")
     ELSE Return(p) /\ UNCHANGED <<next, made>>
  /\ UNCHANGED <<seed, kept, record, registry, sealed, stops>>

(* writeNewSeed, which makes the record's file and then writes it: one that *)
(* is there, or cannot be made, ends the rotation, its next seed removed.   *)
MakeRecord(p) ==
  /\ pc[p] = "keep"
  /\ \/ record = None /\ record' = Torn /\ Continue(p, "keeping")
     \/ UNCHANGED record /\ Continue(p, "abandonNext")
  /\ UNCHANGED <<seed, next, kept, registry, Counts>>

KeepRecord(p) ==
  /\ pc[p] = "keeping"
  /\ LET k == [r |-> [n |-> Ordinal(p), from |-> key[p], to |-> made],
               before |-> registry]
     IN \/ record' = k /\ rec' = [rec EXCEPT ![p] = k] /\ Go(p, "append") /\ UNCHANGED <<lock, key>>
        \/ record' = None /\ Continue(p, "abandonNext")
  /\ UNCHANGED <<seed, next, kept, registry, Counts>>

Appended(p, part) ==
  Append(registry, [kind |-> "rotation", r |-> rec[p].r, part |-> part])

(* Mutant: an append that stopped part way is taken back as if nothing of   *)
(* it was written.                                                          *)
AppendAbandons(p) ==
  /\ pc[p] = "append"
  /\ \/ registry' = Appended(p, Whole) /\ Continue(p, "aside")
     \/ \E part \in 1 .. Whole : registry' = Appended(p, part) /\ Continue(p, "abandon")
  /\ UNCHANGED <<beside, Counts>>

(* appendRecord, to the registry that was walked: whole and synced, and the *)
(* switch follows; anything less, the rotation pending.  With nothing of it *)
(* written, the rotation is taken back.                                     *)
AppendRecord(p) ==
  /\ pc[p] = "append"
  /\ \/ UNCHANGED registry /\ Continue(p, "abandon")
     \/ /\ registry = rec[p].before
        /\ \/ registry' = Appended(p, Whole) /\ Continue(p, "aside")
           \/ \E part \in 1 .. Whole : registry' = Appended(p, part) /\ Return(p)
  /\ UNCHANGED <<beside, Counts>>

Abandon(p) ==
  /\ pc[p] = "abandon"
  /\ record' = None
  /\ Continue(p, "abandonNext")
  /\ UNCHANGED <<seed, next, kept, registry, Counts>>

AbandonNext(p) ==
  /\ pc[p] = "abandonNext"
  /\ next' = None
  /\ Return(p)
  /\ UNCHANGED <<seed, kept, record, registry, Counts>>

(* switchSeed: the seed aside, the next seed in its place, the record last. *)
(* A seed kept already where this one would go stops it.                    *)
SeedAside(p) ==
  LET n == rec[p].r.n
  IN /\ pc[p] = "aside"
     /\ IF next = None \/ seed = None
        THEN Continue(p, IF next = None THEN "done" ELSE "switch") /\ UNCHANGED <<seed, kept>>
        ELSE IF kept[n] # None
        THEN Return(p) /\ UNCHANGED <<seed, kept>>
        ELSE kept' = [kept EXCEPT ![n] = seed] /\ seed' = None /\ Continue(p, "switch")
     /\ UNCHANGED <<next, record, registry, Counts>>

SwitchSeed(p) ==
  /\ pc[p] = "switch"
  /\ IF next = None THEN Return(p) /\ UNCHANGED <<seed, next>>
     ELSE seed' = next /\ next' = None /\ Continue(p, "done")
  /\ UNCHANGED <<kept, record, registry, Counts>>

RemoveRecord(p) ==
  /\ pc[p] = "done"
  /\ record' = None
  /\ Return(p)
  /\ UNCHANGED <<seed, next, kept, registry, Counts>>

-----------------------------------------------------------------------------
(* rotate-key --resume. *)

BeginResume(p) ==
  /\ pc[p] = "idle"
  /\ Overlap \/ ~ Running(Rotating)
  /\ Continue(p, "resume")
  /\ UNCHANGED <<beside, registry, Counts>>

(* readKeptRecord; with no record there, resumeWithoutRecord, which takes   *)
(* no lock.                                                                 *)
ReadKept(p) ==
  /\ pc[p] = "resume"
  /\ IF record = None
     THEN Continue(p, "orphan")
     ELSE IF record = Torn THEN Return(p)
     ELSE rec' = [rec EXCEPT ![p] = record] /\ Go(p, "seeds") /\ UNCHANGED <<lock, key>>
  /\ UNCHANGED <<beside, registry, Counts>>

(* The two keys, among the seed, the next seed and the seed kept aside.     *)
FindSeeds(p) ==
  /\ pc[p] = "seeds"
  /\ ContinueIf(p, {rec[p].r.from, rec[p].r.to} \subseteq {seed, next, kept[rec[p].r.n]},
                "resumeLock")
  /\ UNCHANGED <<beside, registry, Counts>>

ResumeLock(p) ==
  /\ pc[p] = "resumeLock"
  /\ TakeLock(p, "resumeWalk")
  /\ UNCHANGED <<beside, registry, Counts>>

(* Mutant: only a registry that holds none of the record, or all, is taken. *)
ResumeRefusesPart(p) ==
  LET k == rec[p]
      whole == Append(k.before, [kind |-> "rotation", r |-> k.r, part |-> Whole])
  IN /\ pc[p] = "resumeWalk"
     /\ IF registry \in {k.before, whole}
        THEN Continue(p, IF registry = whole THEN "aside" ELSE "cut")
        ELSE Return(p)
     /\ UNCHANGED <<beside, registry, Counts>>

(* The registry before the rotation's place is the one kept and ends at the *)
(* key rotated from; what follows is the record, or a part of it to cut.    *)
ResumeWalk(p) ==
  LET k == rec[p]
      tail == SubSeq(registry, Len(k.before) + 1, Len(registry))
      own == Len(tail) = 1 /\ tail[1].kind = "rotation" /\ tail[1].r = k.r
  IN /\ pc[p] = "resumeWalk"
     /\ IF /\ IsPrefix(k.before, registry)
           /\ Holds(k.before, k.r.from)
           /\ Followed(Walk(k.before, k.r.from)) + 1 = k.r.n
           /\ tail = <<>> \/ own
        THEN Continue(p, IF own /\ tail[1].part = Whole THEN "aside" ELSE "cut")
        ELSE Return(p)
     /\ UNCHANGED <<beside, registry, Counts>>

CutRegistry(p) ==
  /\ pc[p] = "cut"
  /\ registry' = rec[p].before
  /\ Continue(p, "reappend")
  /\ UNCHANGED <<beside, Counts>>

Reappend(p) ==
  /\ pc[p] = "reappend"
  /\ registry' = Appended(p, Whole)
  /\ Continue(p, "aside")
  /\ UNCHANGED <<beside, Counts>>

(* It stops part way again, with nothing taken back. *)
ReappendFails(p) ==
  /\ pc[p] = "reappend"
  /\ stops < MaxStops
  /\ \E part \in 1 .. Whole : registry' = Appended(p, part)
  /\ stops' = stops + 1
  /\ Return(p)
  /\ UNCHANGED <<beside, made, sealed>>

Orphan(p) ==
  /\ pc[p] = "orphan"
  /\ IF next = None \/ seed = None THEN Return(p)
     ELSE key' = [key EXCEPT ![p] = seed] /\ Go(p, "orphanWalk") /\ UNCHANGED <<lock, rec>>
  /\ UNCHANGED <<beside, registry, Counts>>

OrphanWalk(p) ==
  /\ pc[p] = "orphanWalk"
  /\ ContinueIf(p, Holds(registry, key[p]), "orphanRemove")
  /\ UNCHANGED <<beside, registry, Counts>>

OrphanRemove(p) ==
  /\ pc[p] = "orphanRemove"
  /\ next' = None
  /\ Return(p)
  /\ UNCHANGED <<seed, kept, record, registry, Counts>>

-----------------------------------------------------------------------------
(* A gateway. *)

BeginGateway(p) ==
  /\ pc[p] = "idle"
  /\ Continue(p, "gwSeed")
  /\ UNCHANGED <<beside, registry, Counts>>

(* start and serve: the seed is read; a rotation under way refuses, and the *)
(* service is built on a registry that ends at the seed's key.              *)
GatewaySeed(p) ==
  /\ pc[p] = "gwSeed"
  /\ IF seed = None THEN Return(p)
     ELSE key' = [key EXCEPT ![p] = seed] /\ Go(p, "gwPending") /\ UNCHANGED <<lock, rec>>
  /\ UNCHANGED <<beside, registry, Counts>>

GatewayPending(p) ==
  /\ pc[p] = "gwPending"
  /\ ContinueIf(p, ~ RotationPending /\ Holds(registry, key[p]), "gwLock")
  /\ UNCHANGED <<beside, registry, Counts>>

GatewayLock(p) ==
  /\ pc[p] = "gwLock"
  /\ TakeLock(p, "gwCheck")
  /\ UNCHANGED <<beside, registry, Counts>>

(* holdEngineRegistry: both checks again, under the lock. *)
HoldEngineRegistry(p) ==
  /\ pc[p] = "gwCheck"
  /\ ContinueIf(p, ~ RotationPending /\ Holds(registry, key[p]), "serving")
  /\ UNCHANGED <<beside, registry, Counts>>

NextSeal == Cardinality({i \in DOMAIN registry : registry[i].kind = "seal"}) + 1

(* registryWriter.seal: written, or written in part. *)
Seal(p) ==
  LET line(whole) == [kind |-> "seal", id |-> NextSeal, key |-> key[p], whole |-> whole]
  IN /\ pc[p] = "serving"
     /\ NextSeal <= MaxSeals
     /\ Holds(registry, key[p])
     /\ \/ registry' = Append(registry, line(TRUE)) /\ sealed' = sealed \cup {NextSeal}
        \/ registry' = Append(registry, line(FALSE)) /\ UNCHANGED sealed
     /\ UNCHANGED <<beside, lock, pc, key, rec, made, stops>>

StopGateway(p) ==
  /\ pc[p] = "serving"
  /\ Return(p)
  /\ UNCHANGED <<beside, registry, Counts>>

-----------------------------------------------------------------------------
(* The process dies, or a file operation it only returns from fails. *)
Stop(p) ==
  /\ pc[p] \notin {"idle", "serving"}
  /\ stops < MaxStops
  /\ TornRecord \/ pc[p] # "keeping"
  /\ stops' = stops + 1
  /\ Return(p)
  /\ UNCHANGED <<beside, registry, made, sealed>>

(* The operator destroys a seed rotated from, "once nothing needs it".      *)
Destroy(n) ==
  /\ kept[n] # None
  /\ ~ RotationPending
  /\ kept' = [kept EXCEPT ![n] = None]
  /\ UNCHANGED <<seed, next, record, registry, lock, pc, key, rec, Counts>>

ProcStep(p) ==
  \/ LoadSeed(p) \/ PendingBeside(p) \/ RotateLock(p) \/ WalkToRotate(p)
  \/ MakeNext(p) \/ MakeRecord(p) \/ KeepRecord(p) \/ AppendRecord(p)
  \/ Abandon(p) \/ AbandonNext(p) \/ SeedAside(p) \/ SwitchSeed(p)
  \/ RemoveRecord(p) \/ ReadKept(p) \/ FindSeeds(p) \/ ResumeLock(p)
  \/ ResumeWalk(p) \/ CutRegistry(p) \/ Reappend(p) \/ Orphan(p)
  \/ OrphanWalk(p) \/ OrphanRemove(p) \/ GatewaySeed(p) \/ GatewayPending(p) \/ GatewayLock(p)
  \/ HoldEngineRegistry(p) \/ StopGateway(p)

Next ==
  \/ \E p \in Procs :
       \/ BeginRotate(p) \/ BeginResume(p) \/ BeginGateway(p)
       \/ ProcStep(p) \/ Seal(p) \/ ReappendFails(p) \/ Stop(p)
  \/ \E n \in Ordinals : Destroy(n)

Spec == Init /\ [][Next]_vars

-----------------------------------------------------------------------------
(* What a rotation promises. *)

Verified == WalkRegistry(registry, 1)

(* The seed of the key the registry ends at is never lost: it is at the     *)
(* seed's name, or the next's while the switch is not made (SPEC.md 3b,     *)
(* "only then switches the signer").                                        *)
CurrentSeedHeld == Current(Verified) \in {seed, next}

(* A gateway that serves signs with the key the registry ends at, whoever   *)
(* rotated or resumed while it started ("a gateway does not start under a   *)
(* key its registry rotated from").                                         *)
ServesCurrentKey ==
  \A p \in Procs : pc[p] = "serving" =>
    Verified.finding = "none" /\ key[p] = Current(Verified)

(* A seal that was answered as written loads for every verifier for good,   *)
(* through every rotation, cut and resume.                                  *)
SealsKept == sealed \subseteq Verified.seals

(* A walk that finds anything finds the pending rotation broken off, and    *)
(* the record that finishes it is kept.                                     *)
BreakIsPending ==
  Verified.finding # "none" =>
    /\ Verified.finding = "break"
    /\ record \notin {None, Torn}
    /\ record.r.n = Followed(Verified) + 1

(***************************************************************************)
(* Why they hold, where no --resume runs beside a rotate-key.  The trunk   *)
(* is the registry without a rotation that is not switched to: what every  *)
(* key a process holds was read from, and what a cut leaves.               *)
(***************************************************************************)
Locked == {"walk", "next", "keep", "keeping", "append", "abandon", "abandonNext",
           "aside", "switch", "done", "resumeWalk", "cut", "reappend", "gwCheck",
           "serving"}

Root(lines) == WalkRegistry(lines, 1)
Continues(l) == l.kind = "rotation" /\ l.part >= 4
Line(r, part) == [kind |-> "rotation", r |-> r, part |-> part]
Kept == record \in Records
Trunk == IF Kept /\ next # None THEN record.before ELSE registry

(* The first key-continuation, where there is one, leaves the pinned key. *)
Rooted(lines) ==
  \/ Root(lines).keys = <<1>> /\ \A i \in DOMAIN lines : ~ Continues(lines[i])
  \/ \E i \in DOMAIN lines :
       /\ Continues(lines[i]) /\ lines[i].r.from = 1
       /\ \A j \in 1 .. i - 1 : ~ Continues(lines[j])

LockInv ==
  /\ \A p \in Procs : lock = p <=> pc[p] \in Locked
  /\ \A p, q \in Procs : ~ (pc[p] \in Rotating /\ pc[q] \in Resuming)

(* The keys of the trunk were made before the next one. *)
TrunkInv ==
  /\ Rooted(Trunk)
  /\ Root(Trunk).finding = "none"
  /\ sealed \subseteq Root(Trunk).seals
  /\ LET last == IF next = None THEN made ELSE made - 1
     IN /\ Len(Root(Trunk).keys) <= last
        /\ \A i \in DOMAIN Root(Trunk).keys : Root(Trunk).keys[i] <= last
  /\ next \in {made, None}
  /\ seed \in {Current(Root(Trunk)), None}
  /\ seed = None => Kept /\ next # None /\ registry = Append(record.before, Line(record.r, Whole))
  /\ record = Torn => next # None

(* A record that is kept whole, and what the registry holds of it. *)
KeptInv ==
  Kept =>
    /\ Root(record.before).finding = "none"
    /\ \A i \in DOMAIN Root(record.before).keys : Root(record.before).keys[i] < made
    /\ record.r = [n |-> Len(Root(record.before).keys),
                   from |-> Current(Root(record.before)), to |-> made]
    /\ \/ registry = record.before /\ next # None
       \/ \E part \in 1 .. Whole :
            registry = Append(record.before, Line(record.r, part)) /\ (part = Whole \/ next # None)

(* What a process relies on at its step. *)
AtWhole(p) == Kept /\ record = rec[p] /\ registry = Append(record.before, Line(record.r, Whole))
AtPart(p) == /\ Kept /\ record = rec[p] /\ next # None
             /\ registry # Append(record.before, Line(record.r, Whole))
Relies(p) ==
  /\ key[p] # None => key[p] \in Range(Root(Trunk).keys)
  /\ pc[p] \in {"pending", "lock", "walk", "next", "keep", "keeping", "orphanWalk",
               "gwPending", "gwLock", "gwCheck", "serving"} => key[p] # None
  /\ pc[p] \in {"lock", "walk", "next"} /\ Kept /\ next = None => key[p] # made
  /\ pc[p] = "next" /\ next = None => key[p] = Current(Root(registry))
  /\ pc[p] \in {"keep", "keeping"} => next # None /\ key[p] = Current(Root(registry))
  /\ pc[p] = "keep" => record = None
  /\ pc[p] = "keeping" => record = Torn
  /\ pc[p] \in {"append", "abandon", "reappend"} => AtPart(p) /\ registry = record.before
  /\ pc[p] = "cut" => AtPart(p)
  /\ pc[p] = "abandonNext" => record = None
  /\ pc[p] = "aside" => AtWhole(p) \/ (record = None /\ next = None /\ rec[p] \in Records)
  /\ pc[p] = "switch" => AtWhole(p) /\ seed = None
  /\ pc[p] = "done" => next = None /\ record # Torn
  /\ pc[p] \in {"seeds", "resumeLock", "resumeWalk"} =>
       /\ rec[p] \in Records
       /\ \/ record = rec[p]
          \/ /\ record = None /\ next = None
             /\ Len(registry) > Len(rec[p].before)
             /\ registry[Len(rec[p].before) + 1] = Line(rec[p].r, Whole)
  /\ pc[p] \in {"orphan", "orphanWalk", "orphanRemove"} => record = None
  /\ pc[p] = "serving" => record = None /\ next = None /\ key[p] = Current(Root(registry))

RotationInv == LockInv /\ TrunkInv /\ KeptInv /\ \A p \in Procs : Relies(p)

(* An operator who runs --resume again while a rotation is pending, however *)
(* often something else is started, and does not keep a rotate-key running  *)
(* for ever beside it; and processes that go on unless they die.            *)
FairSpec ==
  /\ Spec
  /\ []<> ~ Running(Rotating)
  /\ \A p \in Procs : WF_vars(ProcStep(p))
  /\ SF_vars(RotationPending /\ \E p \in Procs : BeginResume(p))

(* "--resume finishes a rotation that stopped anywhere after the next seed  *)
(* was made" (rotate_key.go): a rotation is not pending for ever.           *)
ResumeFinishes == RotationPending ~> ~ RotationPending

(* Where the record was kept whole, so it is: whatever died and wherever,   *)
(* --resume finishes the rotation or takes it back.                         *)
WholeRecordFinishes == RotationPending ~> (~ RotationPending \/ record = Torn)
=============================================================================
