----------------------------- MODULE WitnessLog ------------------------------
(***************************************************************************)
(* A witness's signed log, its marks, its registrations and what repair    *)
(* sets aside (go/witness_log.go, go/witness.go), under one key.           *)
(*                                                                         *)
(* A file is its whole lines and its tail: the last bytes after its last   *)
(* newline, torn or a whole line but its newline.  file is what a process  *)
(* reads, disk what is durable; a crash of the host leaves a file anywhere *)
(* between the two.  One process holds the locks of the files at a time: a *)
(* witness serving, a repair or an offline registration.  A signature is   *)
(* the number of signatures made before it, so that no two statements      *)
(* signed are the same.  Last bytes fit one set-aside record.              *)
(***************************************************************************)
EXTENDS Integers, Sequences, FiniteSets, FiniteSetsExt, SequencesExt

CONSTANTS
  Trails, Submitters, Values,
  Submissions,         \* functions from sequences to the checkpoints offered
  FirstSubmission,     \* TRUE: an unregistered trail is registered by its first
  TrailsPerSubmitter,  \* 0: unbounded
  MaxSigns,            \* bound: statements ever signed
  MaxRegistrations,    \* bound: lines of the registrations
  MaxFaults,           \* bound: failed writes and syncs, deaths, host crashes,
                       \* lines damaged and copies put back
  Operators,           \* TRUE: log lines are damaged and copies put back
  None

ASSUME WitnessAssumption ==
  /\ IsFiniteSet(Trails) /\ IsFiniteSet(Submitters)
  /\ FirstSubmission \in BOOLEAN /\ Operators \in BOOLEAN
  /\ TrailsPerSubmitter \in Nat /\ MaxSigns \in Nat
  /\ MaxRegistrations \in Nat /\ MaxFaults \in Nat
  /\ \A s \in Submissions :
       /\ DOMAIN s # {} /\ IsFiniteSet(DOMAIN s) /\ DOMAIN s \subseteq Nat
       /\ \A n \in DOMAIN s : s[n] \in Values
  /\ None \notin Trails \cup Submitters \cup Values

VARIABLES
  file, disk,  \* the four files, as read and as durable
  pc, job,     \* the process that holds them: its step and what it works on
  mem,         \* what a serving witness holds in memory
  signs,       \* statements signed
  faults,
  published,   \* every statement a read or an answer could have given
  cut,         \* every tail a repair cut off, as its record keeps it
  copy,        \* the operator's copy of the log
  operated     \* whether the operator damaged the log or put a copy back

vars == <<file, disk, pc, job, mem, signs, faults, published, cut, copy, operated>>
history == <<published, cut, copy, operated>>

Names == {"log", "marks", "registrations", "set-aside"}
Held == {"log", "marks", "registrations"}

-----------------------------------------------------------------------------
(* Lines and chains. *)

Seqs == UNION {DOMAIN s : s \in Submissions}
Statements ==
  [trail : Trails, index : 0 .. MaxSigns, kind : {"checkpoint", "conflict", "retirement"},
   seq : Seqs, val : Values, prev : 0 .. MaxSigns, sig : 1 .. MaxSigns]
Damaged ==
  [trail |-> None, index |-> 0, kind |-> "damaged", seq |-> 0, val |-> None,
   prev |-> 0, sig |-> 0]

MarkOf(st) == [trail |-> st.trail, index |-> st.index, sig |-> st.sig]
Chain(lines, t) ==
  LET chain[i \in 0 .. Len(lines)] ==
        IF i = 0 THEN <<>>
        ELSE IF lines[i].trail = t THEN Append(chain[i - 1], lines[i]) ELSE chain[i - 1]
  IN  chain[Len(lines)]
Retired(chain) == chain # <<>> /\ Last(chain).kind = "retirement"

(* The chain's last checkpoint statement, or None. *)
Latest(chain) ==
  LET at == {i \in DOMAIN chain : chain[i].kind = "checkpoint"}
  IN  IF at = {} THEN None ELSE chain[Max(at)]

ChainFollows(chain, st) ==
  LET latest == Latest(chain)
  IN  /\ st.index = Len(chain)
      /\ st.prev = IF chain = <<>> THEN 0 ELSE Last(chain).sig
      /\ ~ Retired(chain)
      /\ CASE st.kind = "checkpoint" -> latest = None \/ st.seq > latest.seq
           [] st.kind = "conflict" -> latest # None /\ st.seq <= latest.seq
           [] st.kind = "retirement" ->
                latest # None /\ st.seq = latest.seq /\ st.val = latest.val
           [] OTHER -> FALSE

-----------------------------------------------------------------------------
(* Files. *)

Empty == [lines |-> <<>>, tail |-> None]
Ends(f) == f # None /\ f.tail = None                       \* endsCleanly
With(f, line) == [lines |-> Append(f.lines, line), tail |-> None]
Part(line, whole) == [of |-> line, whole |-> whole]

(* The file's first n lines and bytes of the next, all of them or fewer. *)
CutAfter(f, n) ==
  {[lines |-> SubSeq(f.lines, 1, n), tail |-> Part(f.lines[n + 1], w)] : w \in BOOLEAN}

(* What a crash of the host may leave of a file durable as d and read as c:*)
(* a prefix of what was appended, or the tail that was cut.                *)
Survivors(d, c) ==
  IF c = None \/ d = None THEN {c}
  ELSE {d, c}
    \cup {[lines |-> SubSeq(c.lines, 1, n), tail |-> None] : n \in Len(d.lines) + 1 .. Len(c.lines)}
    \cup (UNION {CutAfter(c, n) :
            n \in (IF d.tail = None THEN Len(d.lines) ELSE Len(d.lines) + 1) .. Len(c.lines) - 1})
    \cup (IF d.tail = None /\ c.tail # None
            THEN {[lines |-> c.lines, tail |-> Part(c.tail.of, FALSE)]} ELSE {})

(* syncRead: the three files read, durable before anything rests on them. *)
SyncRead(read) == [f \in Names |-> IF f \in Held THEN read[f] ELSE disk[f]]

-----------------------------------------------------------------------------
(* The start-up checks. *)

(* The lines of the log that fail: those that do not read, and the first   *)
(* that does not follow its chain, after which none is walked.             *)
Failing(lines) ==
  LET bad == {i \in DOMAIN lines : lines[i].kind = "damaged"}
      broken == {i \in DOMAIN lines \ bad :
                   ~ ChainFollows(Chain(SubSeq(lines, 1, i - 1), lines[i].trail), lines[i])}
  IN  bad \cup {i \in broken : \A j \in bad \cup broken : i <= j}

Unmarked(lines, marks) ==
  {i \in DOMAIN lines : MarkOf(lines[i]) \notin Range(marks.lines)}

(* Mutant: the marks are not asked for what the log lost. *)
UnreachedForgiven(lines, marks) == {}

(* Marks no statement of the log reaches, or a second one for an index. *)
Unreached(lines, marks) ==
  {m \in Range(marks.lines) :
     \/ \A i \in DOMAIN lines : MarkOf(lines[i]) # m
     \/ \E o \in Range(marks.lines) :
          o.trail = m.trail /\ o.index = m.index /\ o.sig # m.sig}

LogOutcome(log, marks) ==
  LET lines == log.lines
      last == {Len(lines)}
      unmarked == Unmarked(lines, marks)
      failing == Failing(lines)
  IN  IF marks = None THEN IF log = Empty THEN "start" ELSE "new-key"
      ELSE IF marks.tail # None THEN "new-key"
      ELSE IF Unreached(lines, marks) # {} THEN "refused"
      ELSE IF unmarked # {} /\ (unmarked # last \/ log.tail # None) THEN "refused"
      ELSE IF failing # {} /\ ~ (failing = last /\ unmarked = last) THEN "refused"
      ELSE IF log.tail # None THEN
             IF ~ log.tail.whole THEN "set-aside"
             ELSE IF failing = {} /\ ~ ChainFollows(Chain(lines, log.tail.of.trail), log.tail.of)
                    THEN "new-key" ELSE "newline-and-mark-completed"
      ELSE IF unmarked = {} THEN "start"
      ELSE IF failing # {} THEN "new-key" ELSE "mark-completed"

HasStatement(log) ==
  ({l.trail : l \in Range(log.lines)} \ {None})
    \cup (IF log.tail # None /\ log.tail.whole THEN {log.tail.of.trail} ELSE {})

Outcome(log, marks, registrations) ==
  LET o == LogOutcome(log, marks)
  IN  IF o \in {"new-key", "refused"} THEN o
      ELSE IF ~ HasStatement(log) \subseteq {r.trail : r \in Range(registrations.lines)}
             THEN "refused"
      ELSE IF registrations.tail # None /\ o = "start" THEN "registration-set-aside"
      ELSE o

Judged == Outcome(file["log"], file["marks"], file["registrations"])

-----------------------------------------------------------------------------
(* What a witness holds in memory. *)

NoJob == [st |-> None, reg |-> None, sub |-> None, cut |-> None]
NoMem ==
  [trails |-> [t \in Trails |-> <<>>], regs |-> [t \in Trails |-> None],
   counts |-> [s \in Submitters |-> 0]]

Registered(lines) ==
  [t \in Trails |->
     LET own == SelectSeq(lines, LAMBDA r : r.trail = t)
     IN  IF own = <<>> THEN None ELSE Last(own).by]

(* A retired trail is no longer one its submitter submits for. *)
Counts(trails, regs) ==
  [s \in Submitters |->
     Cardinality({t \in Trails : trails[t] # <<>> /\ ~ Retired(trails[t]) /\ regs[t] = s})]

Loaded(log, registrations) ==
  LET trails == [t \in Trails |-> Chain(log.lines, t)]
      regs == Registered(registrations.lines)
  IN  [trails |-> trails, regs |-> regs, counts |-> Counts(trails, regs)]

CountTrail(counts, s, by) ==
  IF s = None THEN counts ELSE [counts EXCEPT ![s] = Max({0, @ + by})]

(* Mutant: a retired trail moves too. *)
MoveEveryTrail(counts, chain, old, new) ==
  IF chain = <<>> THEN counts ELSE CountTrail(CountTrail(counts, old, -1), new, 1)

(* A trail that holds statements moves to the submitter it is now of. *)
MoveTrail(counts, chain, old, new) ==
  IF chain = <<>> \/ Retired(chain) THEN counts
  ELSE CountTrail(CountTrail(counts, old, -1), new, 1)

(* A trail's first statement takes a place, and its retirement gives it back. *)
CountStatement(counts, st, s) ==
  IF st.index = 0 THEN CountTrail(counts, s, 1)
  ELSE IF st.kind = "retirement" THEN CountTrail(counts, s, -1) ELSE counts

-----------------------------------------------------------------------------
Init ==
  /\ file = [f \in Names |-> IF f = "marks" THEN None ELSE Empty]
  /\ disk = file
  /\ pc = "idle" /\ job = NoJob /\ mem = NoMem
  /\ signs = 0 /\ faults = 0
  /\ published = {} /\ cut = {} /\ copy = Empty /\ operated = FALSE

Move(step) == pc' = step /\ UNCHANGED <<job, mem, signs, faults>>
Write(f, line) == file' = [file EXCEPT ![f] = With(@, line)] /\ UNCHANGED disk
Sync(f) == disk' = [disk EXCEPT ![f] = file[f]] /\ UNCHANGED file

(* openWitnessLog: what was read is made durable, the files that are not   *)
(* there are made, and only then is anything served.                       *)
Start ==
  /\ pc = "idle" /\ Judged = "start"
  /\ file' = [file EXCEPT !["marks"] = IF @ = None THEN Empty ELSE @]
  /\ disk' = SyncRead(file')
  /\ mem' = Loaded(file["log"], file["registrations"])
  /\ published' = published \cup Range(file["log"].lines)
  /\ pc' = "serving"
  /\ UNCHANGED <<job, signs, faults, cut, copy, operated>>

(* The first offer for a sequence is its evidence. *)
HasConflict(chain, n) ==
  \E i \in DOMAIN chain : chain[i].kind = "conflict" /\ chain[i].seq = n

(* The statement a submission asks for, or None where it is answered with  *)
(* statements held: the trail's retirement, the conflict kept for the      *)
(* first sequence that differs, its checkpoint, or the head above it.      *)
Offer(chain, sub) ==
  LET heldAt(n) == {i \in DOMAIN chain : chain[i].kind = "checkpoint" /\ chain[i].seq = n}
      differing == {n \in DOMAIN sub : \E i \in heldAt(n) : chain[i].val # sub[n]}
      latest == Latest(chain)
      of(kind, n) == [kind |-> kind, seq |-> n, val |-> sub[n]]
  IN  IF Retired(chain) THEN None
      ELSE IF differing # {} THEN
             IF HasConflict(chain, Min(differing)) THEN None ELSE of("conflict", Min(differing))
      ELSE IF heldAt(Max(DOMAIN sub)) # {} \/ (latest # None /\ Max(DOMAIN sub) < latest.seq)
             THEN None ELSE of("checkpoint", Max(DOMAIN sub))

(* statement: the trail's next, held to its chain before it is written. *)
NextStatement(t, offer) ==
  LET chain == mem.trails[t]
  IN  [trail |-> t, index |-> Len(chain), kind |-> offer.kind, seq |-> offer.seq,
       val |-> offer.val, prev |-> IF chain = <<>> THEN 0 ELSE Last(chain).sig,
       sig |-> signs + 1]

Sign(t, offer) ==
  /\ UNCHANGED faults
  /\ IF offer # None /\ ChainFollows(mem.trails[t], NextStatement(t, offer))
       THEN /\ pc' = "append" /\ job' = [NoJob EXCEPT !.st = NextStatement(t, offer)]
            /\ signs' = signs + 1
       ELSE pc' = "serving" /\ job' = NoJob /\ UNCHANGED signs

Submit(s, t, sub) ==
  /\ pc = "serving" /\ signs < MaxSigns
  /\ mem.regs[t] = s \/ (mem.regs[t] = None /\ FirstSubmission)
  /\ mem.trails[t] = <<>> /\ TrailsPerSubmitter > 0 => mem.counts[s] < TrailsPerSubmitter
  /\ IF mem.regs[t] = None
       THEN /\ Len(file["registrations"].lines) < MaxRegistrations
            /\ pc' = "register"
            /\ job' = [NoJob EXCEPT !.reg = [trail |-> t, by |-> s], !.sub = sub]
            /\ UNCHANGED <<mem, signs, faults>>
       ELSE Sign(t, Offer(mem.trails[t], sub)) /\ UNCHANGED mem
  /\ UNCHANGED <<file, disk, history>>

Retire(t) ==
  /\ pc = "serving" /\ signs < MaxSigns
  /\ Latest(mem.trails[t]) # None /\ ~ Retired(mem.trails[t])
  /\ LET latest == Latest(mem.trails[t])
     IN  Sign(t, [kind |-> "retirement", seq |-> latest.seq, val |-> latest.val])
  /\ UNCHANGED <<file, disk, mem, history>>

(* The operator's registration on a running witness. *)
Reregister(s, t) ==
  /\ pc = "serving" /\ mem.regs[t] # s
  /\ Len(file["registrations"].lines) < MaxRegistrations
  /\ pc' = "register" /\ job' = [NoJob EXCEPT !.reg = [trail |-> t, by |-> s]]
  /\ UNCHANGED <<file, disk, mem, signs, faults, history>>

KeepRegistration ==
  /\ pc = "register" /\ Ends(file["registrations"])
  /\ Write("registrations", job.reg) /\ Move("register-sync")
  /\ UNCHANGED history

(* Mutant: indexed and signed for before it is durable. *)
RegistrationUnsynced ==
  /\ pc = "register-sync"
  /\ UNCHANGED <<file, disk>>
  /\ LET t == job.reg.trail
     IN  /\ mem' = [mem EXCEPT !.regs[t] = job.reg.by,
                               !.counts = MoveTrail(@, mem.trails[t], mem.regs[t], job.reg.by)]
         /\ Sign(t, IF job.sub = None THEN None ELSE Offer(mem.trails[t], job.sub))
  /\ UNCHANGED history

(* Durable, then indexed; and only then is anything signed for its trail. *)
RegistrationKept ==
  /\ pc = "register-sync"
  /\ Sync("registrations")
  /\ LET t == job.reg.trail
     IN  /\ mem' = [mem EXCEPT !.regs[t] = job.reg.by,
                               !.counts = MoveTrail(@, mem.trails[t], mem.regs[t], job.reg.by)]
         /\ Sign(t, IF job.sub = None THEN None ELSE Offer(mem.trails[t], job.sub))
  /\ UNCHANGED history

-----------------------------------------------------------------------------
(* signAndKeep: signed, durable, marked, published. *)

AppendStatement ==
  /\ pc = "append" /\ Ends(file["log"]) /\ Ends(file["marks"])
  /\ Write("log", job.st) /\ Move("append-sync")
  /\ UNCHANGED history

StatementDurable ==
  /\ pc = "append-sync" /\ Sync("log") /\ Move("mark")
  /\ UNCHANGED history

AppendMark ==
  /\ pc = "mark" /\ Write("marks", MarkOf(job.st)) /\ Move("mark-sync")
  /\ UNCHANGED history

Publish ==
  /\ pc = "mark-sync" /\ Sync("marks")
  /\ mem' = [mem EXCEPT !.trails[job.st.trail] = Append(@, job.st),
               !.counts = CountStatement(@, job.st, mem.regs[job.st.trail])]
  /\ published' = published \cup {job.st}
  /\ pc' = "serving" /\ job' = NoJob
  /\ UNCHANGED <<signs, faults, cut, copy, operated>>

-----------------------------------------------------------------------------
(* registerWitnessTrail: a registration while the witness is not running. *)

RegisterOffline(s, t) ==
  /\ pc = "idle" /\ Ends(file["registrations"])
  /\ Len(file["registrations"].lines) < MaxRegistrations
  /\ disk' = SyncRead(file)
  /\ pc' = "offline" /\ job' = [NoJob EXCEPT !.reg = [trail |-> t, by |-> s]]
  /\ UNCHANGED <<file, mem, signs, faults, history>>

OfflineAppend ==
  /\ pc = "offline" /\ Write("registrations", job.reg) /\ Move("offline-sync")
  /\ UNCHANGED history

OfflineDurable ==
  /\ pc = "offline-sync" /\ Sync("registrations")
  /\ pc' = "idle" /\ job' = NoJob
  /\ UNCHANGED <<mem, signs, faults, history>>

-----------------------------------------------------------------------------
(* repairWitnessLog. *)

(* After the log and the marks, the registrations' last bytes. *)
ThenRegistrations ==
  /\ IF file["registrations"].tail # None
       THEN pc' = "aside" /\ job' = [NoJob EXCEPT !.cut = "registrations"]
       ELSE pc' = "check" /\ job' = NoJob
  /\ UNCHANGED <<mem, signs, faults>>

BeginRepair ==
  /\ pc = "idle" /\ Judged \notin {"start", "refused", "new-key"}
  /\ disk' = SyncRead(file)
  /\ CASE Judged = "set-aside" ->
            pc' = "aside" /\ job' = [NoJob EXCEPT !.cut = "log"]
       [] Judged = "newline-and-mark-completed" ->
            pc' = "newline" /\ job' = [NoJob EXCEPT !.st = file["log"].tail.of]
       [] Judged = "mark-completed" ->
            pc' = "complete" /\ job' = [NoJob EXCEPT !.st = Last(file["log"].lines)]
       [] Judged = "registration-set-aside" ->
            pc' = "aside" /\ job' = [NoJob EXCEPT !.cut = "registrations"]
  /\ UNCHANGED <<file, mem, signs, faults, history>>

EndLine ==
  /\ pc = "newline" /\ Write("log", job.st) /\ Move("newline-sync")
  /\ UNCHANGED history

LineDurable ==
  /\ pc = "newline-sync" /\ Sync("log") /\ Move("complete")
  /\ UNCHANGED history

CompleteMark ==
  /\ pc = "complete" /\ Ends(file["marks"])
  /\ Write("marks", MarkOf(job.st)) /\ Move("complete-sync")
  /\ UNCHANGED history

MarkDurable ==
  /\ pc = "complete-sync" /\ Sync("marks") /\ ThenRegistrations
  /\ UNCHANGED history

(* The set-aside file: records, and the parts of records that interrupted  *)
(* repairs left, each ended where it stands and kept by a record.          *)
Record(f, at, bytes) == [file |-> f, at |-> at, bytes |-> bytes]
TailRecord == Record(job.cut, Len(file[job.cut].lines), file[job.cut].tail)
Unkept(lines) ==
  {i \in DOMAIN lines :
     lines[i].file = "part" /\ Record("set-aside", i, lines[i].bytes) \notin Range(lines)}

(* The record that keeps the first part no record keeps yet. *)
PartRecord ==
  LET lines == file["set-aside"].lines
      i == Min(Unkept(lines))
  IN  Record("set-aside", i, lines[i].bytes)

OpenAside ==
  /\ pc = "aside"
  /\ disk' = [disk EXCEPT !["set-aside"] = file["set-aside"]]
  /\ LET tail == file["set-aside"].tail
         line == IF tail.whole THEN tail.of ELSE Record("part", 0, tail.of)
     IN  IF tail = None THEN UNCHANGED file
         ELSE file' = [file EXCEPT !["set-aside"] = With(@, line)]
  /\ Move("settle") /\ UNCHANGED history

Settle ==
  /\ pc = "settle"
  /\ IF Unkept(file["set-aside"].lines) = {}
       THEN Move("keep") /\ UNCHANGED <<file, disk>>
       ELSE Write("set-aside", PartRecord) /\ Move("settle")
  /\ UNCHANGED history

KeepTail ==
  /\ pc = "keep" /\ Write("set-aside", TailRecord) /\ Move("keep-sync")
  /\ UNCHANGED history

TailKept ==
  /\ pc = "keep-sync" /\ Sync("set-aside") /\ Move("cut")
  /\ UNCHANGED history

(* readBack: every line is a record or kept by one, and the last keeps the *)
(* bytes to be cut.                                                        *)
ReadBack ==
  LET lines == file["set-aside"].lines
  IN  Unkept(lines) = {} /\ Last(lines) = TailRecord

Cut ==
  /\ pc = "cut" /\ ReadBack
  /\ file' = [file EXCEPT ![job.cut].tail = None]
  /\ cut' = cut \cup {TailRecord}
  /\ Move("cut-sync") /\ UNCHANGED <<disk, published, copy, operated>>

CutDurable ==
  /\ pc = "cut-sync" /\ Sync(job.cut) /\ ThenRegistrations
  /\ UNCHANGED history

(* The checks once more: after a repair they must find nothing. *)
CheckAgain ==
  /\ pc = "check" /\ pc' = "idle" /\ job' = NoJob
  /\ UNCHANGED <<file, disk, mem, signs, faults, history>>

-----------------------------------------------------------------------------
(* Failures. *)

Fault == faults < MaxFaults /\ faults' = faults + 1

Pending ==
  CASE pc \in {"register", "offline"} -> [f |-> "registrations", line |-> job.reg]
    [] pc = "append" -> [f |-> "log", line |-> job.st]
    [] pc \in {"mark", "complete"} -> [f |-> "marks", line |-> MarkOf(job.st)]
    [] pc = "settle" -> [f |-> "set-aside", line |-> PartRecord]
    [] pc = "keep" -> [f |-> "set-aside", line |-> TailRecord]

(* A short write: the writer is stopped, and only reads are answered. *)
WriteFails ==
  /\ pc \in {"register", "offline", "append", "mark", "complete", "settle", "keep"}
  /\ pc = "settle" => Unkept(file["set-aside"].lines) # {}
  /\ Fault
  /\ \E w \in BOOLEAN : file' = [file EXCEPT ![Pending.f].tail = Part(Pending.line, w)]
  /\ pc' = "stopped" /\ job' = NoJob
  /\ UNCHANGED <<disk, mem, signs, history>>

SyncFails ==
  /\ pc \in {"register-sync", "offline-sync", "append-sync", "mark-sync", "newline-sync",
             "complete-sync", "keep-sync", "cut-sync"}
  /\ Fault
  /\ pc' = "stopped" /\ job' = NoJob
  /\ UNCHANGED <<file, disk, mem, signs, history>>

Stop ==
  /\ pc # "idle"
  /\ IF pc \in {"serving", "stopped"} THEN UNCHANGED faults ELSE Fault
  /\ pc' = "idle" /\ job' = NoJob /\ mem' = NoMem
  /\ UNCHANGED <<file, disk, signs, history>>

HostCrash ==
  /\ Fault /\ file # disk
  /\ \E log \in Survivors(disk["log"], file["log"]),
        marks \in Survivors(disk["marks"], file["marks"]),
        regs \in Survivors(disk["registrations"], file["registrations"]),
        aside \in Survivors(disk["set-aside"], file["set-aside"]) :
       file' = [f \in Names |-> CASE f = "log" -> log [] f = "marks" -> marks
                                  [] f = "registrations" -> regs [] f = "set-aside" -> aside]
  /\ disk' = file'
  /\ pc' = "idle" /\ job' = NoJob /\ mem' = NoMem
  /\ UNCHANGED <<signs, history>>

(* The operator copies the log, once and between writes, and puts the copy *)
(* back, or an empty log, on a witness that is not running; the marks are  *)
(* never restored.                                                         *)
CopyLog ==
  /\ Operators /\ pc \in {"idle", "serving"} /\ copy = Empty /\ file["log"] # Empty /\ copy' = file["log"]
  /\ UNCHANGED <<file, disk, pc, job, mem, signs, faults, published, cut, operated>>

PutBack(log) ==
  /\ Operators /\ pc = "idle" /\ Fault
  /\ file' = [file EXCEPT !["log"] = log]
  /\ disk' = [disk EXCEPT !["log"] = log]
  /\ operated' = TRUE
  /\ UNCHANGED <<pc, job, mem, signs, published, cut, copy>>

Restore == copy # file["log"] /\ PutBack(copy)

Damage(i) ==
  /\ i \in DOMAIN file["log"].lines
  /\ PutBack([file["log"] EXCEPT !.lines[i] = Damaged])

Next ==
  \/ Start \/ KeepRegistration \/ RegistrationKept
  \/ \E s \in Submitters, t \in Trails, sub \in Submissions : Submit(s, t, sub)
  \/ \E t \in Trails : Retire(t)
  \/ \E s \in Submitters, t \in Trails : Reregister(s, t) \/ RegisterOffline(s, t)
  \/ AppendStatement \/ StatementDurable \/ AppendMark \/ Publish
  \/ OfflineAppend \/ OfflineDurable
  \/ BeginRepair \/ EndLine \/ LineDurable \/ CompleteMark \/ MarkDurable
  \/ OpenAside \/ Settle \/ KeepTail \/ TailKept \/ Cut \/ CutDurable \/ CheckAgain
  \/ WriteFails \/ SyncFails \/ Stop \/ HostCrash
  \/ CopyLog \/ Restore \/ \E i \in 1 .. MaxSigns : Damage(i)

Spec == Init /\ [][Next]_vars

-----------------------------------------------------------------------------
Files(Lines) == [lines : Seq(Lines), tail : {None} \cup [of : Lines, whole : BOOLEAN]]
TypeOK ==
  /\ DOMAIN file = Names /\ DOMAIN disk = Names
  /\ \A d \in {file, disk} :
       /\ d["log"] \in Files(Statements \cup {Damaged})
       /\ d["marks"] \in {None} \cup Files([trail : Trails, index : 0 .. MaxSigns, sig : 1 .. MaxSigns])
       /\ d["registrations"] \in Files([trail : Trails, by : Submitters])
  /\ job.st \in {None} \cup Statements
  /\ mem.trails \in [Trails -> Seq(Statements)]
  /\ mem.regs \in [Trails -> {None} \cup Submitters]
  /\ mem.counts \in [Submitters -> 0 .. Cardinality(Trails)]
  /\ signs \in 0 .. MaxSigns /\ faults \in 0 .. MaxFaults

(* No two statements a reader may hold are at one index of a trail: the    *)
(* witness never shows two histories, through failed writes, crashes,      *)
(* repairs that release an index and older copies of the log put back.     *)
NoFork ==
  \A p, q \in published : p.trail = q.trail /\ p.index = q.index => p = q

(***************************************************************************)
(* Why it holds.  A statement is known by its signature, and the marks of  *)
(* the statements served are durable and one for an index: an index is     *)
(* signed for in memory, or completed by a repair, only where no mark has  *)
(* it yet.                                                                 *)
(***************************************************************************)
Sequenced(s) == s \in Seq(Range(s))
Plain(f) == f = [lines |-> f.lines, tail |-> f.tail] /\ Sequenced(f.lines)
Said(f) == Range(f.lines) \cup {x.of : x \in {f.tail} \ {None}}

Signing == {"append", "append-sync", "mark", "mark-sync"}
Completing == {"newline", "newline-sync", "complete"}
Stated == IF pc \in Signing \cup Completing THEN {job.st} ELSE {}
Known == published \cup Said(file["log"]) \cup Said(disk["log"]) \cup Said(copy) \cup Stated

MarkFiles == Files([trail : Trails, index : Nat, sig : Nat \ {0}])
ASSUME MarksAssumption == None \notin MarkFiles
MarksOf(f) == IF f = None THEN {} ELSE Range(f.lines)
Marks == MarksOf(file["marks"])

FileInv ==
  /\ DOMAIN file = Names /\ DOMAIN disk = Names
  /\ Plain(file["log"]) /\ Plain(disk["log"]) /\ Plain(copy)
  /\ file["marks"] \in {None} \cup MarkFiles /\ disk["marks"] \in {None} \cup MarkFiles
  /\ disk["marks"] # None =>
       /\ file["marks"] # None
       /\ Len(disk["marks"].lines) <= Len(file["marks"].lines)
       /\ \A i \in 1 .. Len(disk["marks"].lines) :
            disk["marks"].lines[i] = file["marks"].lines[i]

SignedInv ==
  /\ signs \in Nat
  /\ \A x \in Known : x = Damaged \/ (x.trail \in Trails /\ x.index \in Nat /\ x.sig \in 1 .. signs)
  /\ \A x, y \in Known : x.sig = y.sig => x = y

MarkInv ==
  /\ \A m, o \in Marks : m.trail = o.trail /\ m.index = o.index => m.sig = o.sig
  /\ \A st \in published : MarkOf(st) \in MarksOf(disk["marks"])

StepInv ==
  /\ DOMAIN mem = {"trails", "regs", "counts"}
  /\ DOMAIN mem.trails = Trails /\ \A t \in Trails : Sequenced(mem.trails[t])
  /\ pc \in {"serving", "register", "register-sync"} \cup Signing =>
       /\ file["marks"] # None
       /\ \A m \in Marks :
            \/ m.index < Len(mem.trails[m.trail])
            \/ pc = "mark-sync" /\ m = MarkOf(job.st)
  /\ pc \in {"register", "register-sync"} => job.reg.trail \in Trails
  /\ pc \in Signing \cup Completing => job.st # Damaged
  /\ pc \in Signing => job.st.index = Len(mem.trails[job.st.trail])
  /\ pc = "mark-sync" => MarkOf(job.st) \in Marks
  /\ pc \in Completing =>
       /\ file["marks"] # None
       /\ \A m \in Marks : ~ (m.trail = job.st.trail /\ m.index = job.st.index)
  /\ pc \in {"aside", "settle", "keep", "keep-sync", "cut", "cut-sync"} =>
       job.cut \in {"log", "registrations"}

ForkInv == FileInv /\ SignedInv /\ MarkInv /\ StepInv

(* A statement that was served has a durable mark, which a log put back is *)
(* judged against; and it stays in the log unless the operator took it.    *)
PublishedIsMarked ==
  \A st \in published :
    /\ MarkOf(st) \in Range(disk["marks"].lines)
    /\ operated \/ st \in Range(disk["log"].lines)

(* What readers hold of a trail is one chain: every statement but the      *)
(* first follows a published one, nothing follows a retirement, a sequence *)
(* has one checkpoint, and one conflict at most, with a checkpoint before  *)
(* it that differs.                                                        *)
PublishedIsChain ==
  \A st \in published :
    LET own == {p \in published : p.trail = st.trail /\ p.index < st.index}
    IN  /\ st.index > 0 => \E p \in own : p.index = st.index - 1 /\ p.sig = st.prev
        /\ \A p \in own :
             /\ p.kind # "retirement"
             /\ p.kind = st.kind => p.seq # st.seq
        /\ st.kind = "conflict" =>
             \E p \in own : p.kind = "checkpoint" /\ p.seq = st.seq /\ p.val # st.val

(* "nothing is relied on, served or built upon until the bytes it rests on *)
(* are durable": what a serving witness holds in memory, and its counts of *)
(* a submitter's trails, are what a start would load from the disk.        *)
ServesTheDisk ==
  pc = "serving" => mem = Loaded(disk["log"], disk["registrations"])

(* Failures and crashes alone never leave a log that is refused, and cost  *)
(* the key only where the marks' last line was left in parts.              *)
CrashesAreRepaired ==
  pc = "idle" /\ ~ operated =>
    /\ Judged # "refused"
    /\ Judged = "new-key" => file["marks"].tail # None

(* "after a repair the checks must find nothing" (repairWitnessLog). *)
RepairHeals == pc = "check" => Judged = "start"

(* What a repair cut off a file is kept in a durable record, and stays so. *)
CutIsKept == cut \subseteq Range(disk["set-aside"].lines)
=============================================================================
