---------------------------- MODULE ActionJournal ----------------------------
(***************************************************************************)
(* The keyed-action journal of /act: what one action key goes through when *)
(* requests of several gateway processes, in several scopes, reserve it,   *)
(* dispatch under it, close it and answer from it (go/act.go, the keyed    *)
(* section of actKeyed; go/action_journal.go; go/action_key_index.go).     *)
(*                                                                         *)
(* One key is modelled: keys share nothing but directories.  A step is one *)
(* effect on the journal that another process can see, so a request is     *)
(* interleaved with every other between any two of its file operations.    *)
(*                                                                         *)
(* A file's name is durable once the directory naming it was synced.  A    *)
(* crash of the host keeps every durable name and any part of the others;  *)
(* a process that dies leaves what every other sees as it is.              *)
(***************************************************************************)
EXTENDS Naturals, Sequences

CONSTANTS
  Requests,     \* request slots; a slot serves one request at a time
  Processes,    \* gateway processes sharing one store
  Process,      \* [Requests -> Processes]: the process serving a slot
  Scopes,       \* journal namespaces that use the key
  Delegated,    \* the scopes of one delegated subject, one per root actor
  Contents,     \* approved contents (fingerprints) a request may carry
  MaxAttempts,  \* actionDispatchAttempts
  Shapes,       \* the requests that arrive
  IndexLoss,    \* TRUE: the first-scope record may be lost with its directory
  None

Attempts == 1 .. MaxAttempts

(* The members and the sender of a request on the key (parseActionKeyScope): *)
(* under a delegation no keyScope is sent; under none reconcile needs it.    *)
(* leaf is what an actor's own chain allows: "full", "names" (it names the   *)
(* source and tool and refuses the effect) or "none".                        *)
RequestShape ==
  {q \in [scope : Scopes, content : Contents,
          sender : {"undelegated", "actor", "other"},
          leaf : {"full", "names", "none"},
          keyScope : BOOLEAN, reconcile : BOOLEAN] :
     /\ q.sender = "undelegated" <=> q.scope \notin Delegated
     /\ q.sender # "actor" => q.leaf = "full"
     /\ q.keyScope => q.sender = "undelegated"
     /\ q.reconcile /\ q.sender = "undelegated" => q.keyScope}

ASSUME ConstantsAssumption ==
  /\ MaxAttempts \in Nat \ {0}
  /\ Process \in [Requests -> Processes]
  /\ Delegated \subseteq Scopes
  /\ Shapes \subseteq RequestShape
  /\ IndexLoss \in BOOLEAN
  /\ None \notin Scopes /\ None \notin Contents

VARIABLES
  entry,    \* [Scopes -> content]: intent.json, published by one rename
  marker,   \* [Scopes -> [Attempts -> ...]]: dispatch-<n>.json
  freed,    \* the same: not-dispatched-<n>.json, torn until its bytes are synced
  record,   \* [Scopes -> Records]: action.json, and the receipt it cites
  index,    \* the key's first scope
  subject,  \* the delegated subject's first root actor
  durable,  \* the names of these a crash of the host leaves
  pc,     \* [Requests -> step]
  req,    \* [Requests -> RequestShape]: the request a slot serves
  loc,    \* [Requests -> Locals]: actKeyed's local variables
  sent,   \* [Scopes -> Seq]: every start of the write program, in order
  told    \* every answer given that says what happened under the key

files == <<entry, marker, freed, record, index, subject>>
vars == <<entry, marker, freed, record, index, subject, durable,
          pc, req, loc, sent, told>>

Steps ==
  {"idle", "leaf", "first", "scope", "subjectSync", "missing", "hold",
   "holdSync", "reserve", "reserveSync", "closed", "rehold", "reholdSync",
   "record", "attempt", "close", "closeSync", "closedSync", "closedHold",
   "closedHoldSync", "admit", "claim", "claimSync", "recheck", "run",
   "running", "release", "releaseWrite", "releaseSync", "stamp", "evidence",
   "publish", "publishSync"}

Outcomes == {"response", "uncertain"}

(* A receipt is "linked" under best-effort syncs, "synced" by               *)
(* syncActionEvidence, or "lost" to a crash of the host.                    *)
Records == [outcome : Outcomes, receipt : {"linked", "synced", "lost"}]

(* <<kind, scope, attempt>>, with None or 0 where a name has none. *)
Names == {"entry", "marker", "freed", "record", "index", "subject"}
           \X (Scopes \cup {None}) \X (0 .. MaxAttempts)

Locals == [n : Attempts, fresh : BOOLEAN, foreign : BOOLEAN,
           indexed : BOOLEAN, uncertain : BOOLEAN,
           receipt : {"none", "linked", "synced"}]

Answers == {"response", "uncertain", "not-dispatched", "key-closed", "retry"}

Sends == [n : Attempts, content : Contents, held : BOOLEAN]
Told == [scope : Scopes, content : Contents, answer : Answers, n : Attempts]

TypeOK ==
  /\ entry \in [Scopes -> Contents \cup {None}]
  /\ marker \in [Scopes -> [Attempts -> {"none", "claimed", "closed"}]]
  /\ freed \in [Scopes -> [Attempts -> {"none", "torn", "whole"}]]
  /\ record \in [Scopes -> Records \cup {None}]
  /\ index \in Scopes \cup {None}
  /\ subject \in Delegated \cup {None}
  /\ durable \subseteq Names
  /\ pc \in [Requests -> Steps]
  /\ req \in [Requests -> RequestShape \cup {None}]
  /\ loc \in [Requests -> Locals]
  /\ sent \in [Scopes -> Seq(Sends)]
  /\ told \subseteq Told

NoLocals == [n |-> 1, fresh |-> FALSE, foreign |-> FALSE,
             indexed |-> FALSE, uncertain |-> FALSE, receipt |-> "none"]

Init ==
  /\ entry = [s \in Scopes |-> None]
  /\ marker = [s \in Scopes |-> [n \in Attempts |-> "none"]]
  /\ freed = [s \in Scopes |-> [n \in Attempts |-> "none"]]
  /\ record = [s \in Scopes |-> None]
  /\ index = None
  /\ subject = None
  /\ durable = {}
  /\ pc = [r \in Requests |-> "idle"]
  /\ req = [r \in Requests |-> None]
  /\ loc = [r \in Requests |-> NoLocals]
  /\ sent = [s \in Scopes |-> <<>>]
  /\ told = {}

-----------------------------------------------------------------------------
(* The directories and what syncing one makes durable. *)

(* The names in the journal's root: entries and subject records. *)
RootNames ==
  {<<"entry", s, 0>> : s \in {t \in Scopes : entry[t] # None}}
    \cup {<<"subject", s, 0>> : s \in {subject} \ {None}}

(* The names in the entry of one scope. *)
EntryNames(s) ==
  {<<"marker", s, n>> : n \in {m \in Attempts : marker[s][m] # "none"}}
    \cup {<<"freed", s, n>> : n \in {m \in Attempts : freed[s][m] # "none"}}
    \cup (IF record[s] # None THEN {<<"record", s, 0>>} ELSE {})

IndexNames == {<<"index", s, 0>> : s \in {index} \ {None}}

(* syncActionDirectory on the root and on an entry; holdKeyIndex syncs the  *)
(* index directory, then the root.                                          *)
SyncRoot == durable' = durable \cup RootNames
SyncEntry(s) == durable' = durable \cup EntryNames(s)
SyncIndex == durable' = durable \cup IndexNames \cup RootNames

-----------------------------------------------------------------------------
(* What a request reads. *)

Scope(r) == req[r].scope
Holds(r) == req[r].keyScope \/ req[r].sender = "actor"      \* mayHold
Has(s) == entry[s] # None
ClosedAt(s, n) == marker[s][n] = "closed"
IsClosed(s) == \E n \in Attempts : ClosedAt(s, n)

Answered(s, n) ==
  marker[s][n] = "claimed" /\ freed[s][n] = "whole"

(* attempt(): the first attempt whose marker is missing, closed or has no   *)
(* readable answer; none of them, and the key is exhausted.                 *)
Stops(s, n) == ~ Answered(s, n) /\ \A m \in 1 .. n - 1 : Answered(s, m)
Exhausted(s) == \A n \in Attempts : Answered(s, n)

(* The request's next step, with its locals; they are gone once it returns. *)
GoWith(r, step, l) ==
  /\ pc' = [pc EXCEPT ![r] = step]
  /\ loc' = [loc EXCEPT ![r] = IF step = "idle" THEN NoLocals ELSE l]
  /\ req' = [req EXCEPT ![r] = IF step = "idle" THEN None ELSE @]

Go(r, step) == GoWith(r, step, loc[r])

(* An answer that does. *)
Answer(r, answer) ==
  /\ Go(r, "idle")
  /\ told' = told \cup {[scope |-> Scope(r), content |-> req[r].content,
                         answer |-> answer,
                         n |-> IF answer = "retry" THEN loc[r].n ELSE 1]}

(* closedKey(): what a request that finds a close does next. *)
ClosedKey(r, l) ==
  IF \/ l.foreign
     \/ req[r].sender = "other" /\ ~ (req[r].reconcile /\ l.indexed)
  THEN "idle"
  ELSE "closedSync"

(* Where a request goes once its scope and subject are settled. *)
AfterScope(r, l) ==
  IF req[r].reconcile THEN "missing"
  ELSE IF Holds(r) /\ ~ l.foreign THEN "hold" ELSE "reserve"

-----------------------------------------------------------------------------
(* The keyed section of actKeyed, one action per step. *)

(* The request takes the in-process lock of its namespace: one request per  *)
(* key and scope at a time in one process.                                  *)
Begin(r) ==
  /\ pc[r] = "idle"
  /\ \E q \in Shapes :
       /\ \A p \in Requests :
            (Process[p] = Process[r] /\ pc[p] # "idle") => Scope(p) # q.scope
       /\ req' = [req EXCEPT ![r] = q]
       /\ pc' = [pc EXCEPT ![r] = IF q.sender = "actor" THEN "leaf" ELSE "first"]
  /\ UNCHANGED <<files, durable, loc, sent, told>>

(* What a leaf of the actor's chain may do, before any first scope is read. *)
Leaf(r) ==
  /\ pc[r] = "leaf"
  /\ Go(r, IF \/ req[r].leaf = "none"
              \/ req[r].leaf = "names" /\ ~ req[r].reconcile /\ ~ Has(Scope(r))
           THEN "idle" ELSE "first")
  /\ UNCHANGED <<files, durable, sent, told>>

(* keyIndexed: a first scope that is another's leaves a request only what   *)
(* its own scope already holds.                                             *)
FirstScope(r) ==
  LET foreign == index \notin {None, Scope(r)}
      l == [loc[r] EXCEPT !.foreign = foreign, !.indexed = index = Scope(r)]
  IN /\ pc[r] = "first"
     /\ IF foreign /\ ~ Has(Scope(r))
        THEN Go(r, "idle")
        ELSE GoWith(r, IF req[r].sender # "undelegated" THEN "scope"
                        ELSE AfterScope(r, l), l)
     /\ UNCHANGED <<files, durable, sent, told>>

(* Only the actor makes a reservation.  holdSubjectKey publishes the        *)
(* subject's record unless one is there.                                    *)
DelegatedScope(r) ==
  /\ pc[r] = "scope"
  /\ \/ /\ req[r].sender = "other"
        /\ Go(r, IF Has(Scope(r)) THEN AfterScope(r, loc[r]) ELSE "idle")
        /\ UNCHANGED subject
     \/ /\ req[r].sender = "actor" /\ loc[r].foreign
        /\ Go(r, AfterScope(r, loc[r]))
        /\ UNCHANGED subject
     \/ /\ req[r].sender = "actor" /\ ~ loc[r].foreign
        /\ subject' = IF subject = None THEN Scope(r) ELSE subject
        /\ Go(r, "subjectSync")
  /\ UNCHANGED <<entry, marker, freed, record, index, durable, sent, told>>

(* Mutant: a subject record another root actor made is not compared. *)
SubjectUnchecked(r) ==
  /\ pc[r] = "subjectSync"
  /\ SyncRoot
  /\ Go(r, AfterScope(r, loc[r]))
  /\ UNCHANGED <<files, sent, told>>

(* holdSubjectKey, after holdEntry synced the root. *)
SubjectSync(r) ==
  /\ pc[r] = "subjectSync"
  /\ SyncRoot
  /\ Go(r, IF subject = Scope(r) THEN AfterScope(r, loc[r]) ELSE "idle")
  /\ UNCHANGED <<files, sent, told>>

(* A reconciling request with no reservation in its scope: with a first     *)
(* scope recorded it says nothing; with none, reserveClosed publishes       *)
(* intent and close in one rename.                                          *)
Missing(r) ==
  LET s == Scope(r)
  IN /\ pc[r] = "missing"
     /\ \/ Has(s) /\ Go(r, "reserve") /\ UNCHANGED <<files, durable>>
        \/ ~ Has(s) /\ loc[r].indexed /\ Go(r, "idle") /\ UNCHANGED <<files, durable>>
        \/ /\ ~ Has(s) /\ ~ loc[r].indexed
           /\ entry' = [entry EXCEPT ![s] = req[r].content]
           /\ marker' = [marker EXCEPT ![s][1] = "closed"]
           /\ durable' = durable \cup {<<"marker", s, 1>>}
           /\ Go(r, "reserve")
           /\ UNCHANGED <<freed, record, index, subject>>
     /\ UNCHANGED <<sent, told>>

(* holdKeyIndex, up to its syncs: the first scope is published unless one   *)
(* is there; one that is another's is errActionKeyFirstScope.               *)
HoldKeyIndex(r, held, conflict) ==
  /\ index' = IF index = None THEN Scope(r) ELSE index
  /\ UNCHANGED <<entry, marker, freed, record, subject>>
  /\ IF index \in {None, Scope(r)}
     THEN Go(r, held)
     ELSE GoWith(r, conflict, [loc[r] EXCEPT !.foreign = TRUE])

Hold(r) ==
  /\ pc[r] = "hold"
  /\ HoldKeyIndex(r, "holdSync", IF Has(Scope(r)) THEN "reserve" ELSE "idle")
  /\ UNCHANGED <<durable, sent, told>>

(* Mutant: the first scope is relied on before it is durable. *)
HoldNoSync(r) ==
  /\ pc[r] = "holdSync"
  /\ Go(r, "reserve")
  /\ UNCHANGED <<files, durable, sent, told>>

HoldSync(r) ==
  /\ pc[r] = "holdSync"
  /\ SyncIndex
  /\ Go(r, "reserve")
  /\ UNCHANGED <<files, sent, told>>

(* openReservation makes nothing; reserveScoped publishes an entry unless   *)
(* one is there.                                                            *)
Reserve(r) ==
  LET s == Scope(r)
      fresh == ~ req[r].reconcile /\ ~ loc[r].foreign /\ ~ Has(s)
  IN /\ pc[r] = "reserve"
     /\ entry' = [entry EXCEPT ![s] = IF fresh THEN req[r].content ELSE @]
     /\ GoWith(r, "reserveSync", [loc[r] EXCEPT !.fresh = fresh])
     /\ UNCHANGED <<marker, freed, record, index, subject, durable, sent, told>>

(* holdEntry syncs the root and opens the entry; holdsIdentity holds one    *)
(* that was there to the request's content.                                 *)
ReserveSync(r) ==
  LET s == Scope(r)
  IN /\ pc[r] = "reserveSync"
     /\ SyncRoot
     /\ Go(r, IF loc[r].fresh THEN "attempt"
              ELSE IF entry[s] = req[r].content THEN "closed" ELSE "idle")
     /\ UNCHANGED <<files, sent, told>>

(* A close is read before anything else that is retained. *)
Closed(r) ==
  /\ pc[r] = "closed"
  /\ Go(r, IF IsClosed(Scope(r)) THEN ClosedKey(r, loc[r])
           ELSE IF req[r].reconcile /\ Holds(r) /\ ~ loc[r].foreign
           THEN "rehold" ELSE "record")
  /\ UNCHANGED <<files, durable, sent, told>>

(* A reconciling request holds the first scope before it is answered. *)
Rehold(r) ==
  /\ pc[r] = "rehold"
  /\ HoldKeyIndex(r, "reholdSync", "record")
  /\ UNCHANGED <<durable, sent, told>>

ReholdSync(r) ==
  /\ pc[r] = "reholdSync"
  /\ SyncIndex
  /\ GoWith(r, "record", [loc[r] EXCEPT !.indexed = TRUE])
  /\ UNCHANGED <<files, sent, told>>

(* action.json answers: a response as it was, an uncertainty with its       *)
(* read-back.  readActionResponse refuses a record whose receipt is gone.   *)
ReadRecord(r) ==
  LET kept == record[Scope(r)]
  IN /\ pc[r] = "record"
     /\ IF kept = None THEN Go(r, "attempt") /\ UNCHANGED told
        ELSE IF kept.receipt = "lost" THEN Go(r, "idle") /\ UNCHANGED told
        ELSE Answer(r, kept.outcome)
     /\ UNCHANGED <<files, durable, sent>>

(* Mutant: attempt() looks one attempt past the last. *)
FindAttemptPastEnd(r) ==
  /\ pc[r] = "attempt"
  /\ \E n \in 1 .. MaxAttempts + 1 :
       /\ \A m \in 1 .. n - 1 : Answered(Scope(r), m)
       /\ n \in Attempts => ~ Answered(Scope(r), n)
       /\ GoWith(r, IF n \in Attempts /\ ClosedAt(Scope(r), n)
                    THEN "closedSync" ELSE "admit",
                 [loc[r] EXCEPT !.n = n])
  /\ UNCHANGED <<files, durable, sent, told>>

(* What the request does with the attempt it found: a close answers; a      *)
(* marker without its answer is recorded as uncertain; on a free one a      *)
(* request that may neither dispatch nor close is refused.                  *)
Found(r, n) ==
  LET s == Scope(r)
  IN IF ClosedAt(s, n) THEN ClosedKey(r, loc[r])
     ELSE IF marker[s][n] = "claimed" THEN "admit"
     ELSE IF loc[r].foreign \/ req[r].sender = "other" THEN "idle"
     ELSE IF req[r].reconcile THEN "close" ELSE "admit"

FindAttempt(r) ==
  LET s == Scope(r)
  IN /\ pc[r] = "attempt"
     /\ \/ Exhausted(s) /\ Go(r, "idle")
        \/ \E n \in Attempts :
             /\ Stops(s, n)
             /\ GoWith(r, Found(r, n),
                       [loc[r] EXCEPT !.n = n,
                          !.uncertain = marker[s][n] = "claimed"])
     /\ UNCHANGED <<files, durable, sent, told>>

(* closeDispatch: the close takes the name a dispatch of attempt n would.   *)
CloseDispatch(r) ==
  LET s == Scope(r)
      n == loc[r].n
      later == \E m \in n + 1 .. MaxAttempts : marker[s][m] # "none"
  IN /\ pc[r] = "close"
     /\ \/ /\ ~ later /\ marker[s][n] = "none"
           /\ marker' = [marker EXCEPT ![s][n] = "closed"]
           /\ Go(r, "closeSync")
        \/ /\ ~ later /\ ClosedAt(s, n)
           /\ Go(r, ClosedKey(r, loc[r]))
           /\ UNCHANGED marker
        \/ /\ later \/ marker[s][n] = "claimed"
           /\ GoWith(r, "admit", [loc[r] EXCEPT !.uncertain = TRUE])
           /\ UNCHANGED marker
     /\ UNCHANGED <<entry, freed, record, index, subject, durable, sent, told>>

(* publishActionRecord's own sync. *)
CloseSync(r) ==
  /\ pc[r] = "closeSync"
  /\ SyncEntry(Scope(r))
  /\ Go(r, ClosedKey(r, loc[r]))
  /\ UNCHANGED <<files, sent, told>>

(* Mutant: a close that was found is answered without syncing it. *)
ClosedNoSync(r) ==
  /\ pc[r] = "closedSync"
  /\ IF req[r].reconcile
     THEN Go(r, "closedHold") /\ UNCHANGED told
     ELSE Answer(r, "key-closed")
  /\ UNCHANGED <<files, durable, sent>>

(* closedKey and closedAnswer sync the close, found or made, before either  *)
(* says anything: its maker may have died first.                            *)
ClosedSync(r) ==
  /\ pc[r] = "closedSync"
  /\ SyncEntry(Scope(r))
  /\ IF req[r].reconcile
     THEN Go(r, "closedHold") /\ UNCHANGED told
     ELSE Answer(r, "key-closed")
  /\ UNCHANGED <<files, sent>>

ClosedHold(r) ==
  /\ pc[r] = "closedHold"
  /\ HoldKeyIndex(r, "closedHoldSync", "idle")
  /\ UNCHANGED <<durable, sent, told>>

ClosedAnswer(r) ==
  /\ pc[r] = "closedHoldSync"
  /\ SyncIndex
  /\ Answer(r, "not-dispatched")
  /\ UNCHANGED <<files, sent>>

-----------------------------------------------------------------------------
(* Admission, dispatch, and the record of what came of it. *)

(* The publisher policy, the session's admission and the delegation's all   *)
(* pass; Stop is where one of them refuses.                                 *)
Admit(r) ==
  /\ pc[r] = "admit"
  /\ Go(r, IF loc[r].uncertain THEN "recheck" ELSE "claim")
  /\ UNCHANGED <<files, durable, sent, told>>

(* claimDispatchUnder creates the marker exclusively. *)
ClaimDispatch(r) ==
  LET s == Scope(r)
      n == loc[r].n
  IN /\ pc[r] = "claim"
     /\ \/ /\ marker[s][n] = "none"
           /\ marker' = [marker EXCEPT ![s][n] = "claimed"]
           /\ Go(r, "claimSync")
        \/ /\ ClosedAt(s, n)
           /\ Go(r, ClosedKey(r, loc[r]))
           /\ UNCHANGED marker
        \/ /\ marker[s][n] = "claimed"
           /\ GoWith(r, "recheck", [loc[r] EXCEPT !.uncertain = TRUE])
           /\ UNCHANGED marker
     /\ UNCHANGED <<entry, freed, record, index, subject, durable, sent, told>>

(* Mutant: the write program is started before its marker is durable. *)
ClaimNoSync(r) ==
  /\ pc[r] = "claimSync"
  /\ Go(r, "run")
  /\ UNCHANGED <<files, durable, sent, told>>

(* Only a marker made durable permits starting the write program. *)
ClaimSync(r) ==
  /\ pc[r] = "claimSync"
  /\ SyncEntry(Scope(r))
  /\ Go(r, "run")
  /\ UNCHANGED <<files, sent, told>>

(* About to record uncertainty for a marker found: the key may have been    *)
(* closed after that marker was answered.                                   *)
Recheck(r) ==
  /\ pc[r] = "recheck"
  /\ Go(r, IF IsClosed(Scope(r)) THEN ClosedKey(r, loc[r]) ELSE "stamp")
  /\ UNCHANGED <<files, durable, sent, told>>

(* runSource starts the write program: from here the mutation may have been *)
(* sent.                                                                    *)
Start(r) ==
  /\ pc[r] = "run"
  /\ sent' = [sent EXCEPT ![Scope(r)] =
                Append(@, [n |-> loc[r].n, content |-> req[r].content,
                           held |-> Holds(r)])]
  /\ Go(r, "running")
  /\ UNCHANGED <<files, durable, told>>

(* sourceNotStarted: the program was never started. *)
NotStarted(r) ==
  /\ pc[r] = "run"
  /\ Go(r, "release")
  /\ UNCHANGED <<files, durable, sent, told>>

(* A result, or an error of a program that ran. *)
Finish(r) ==
  /\ pc[r] = "running"
  /\ \E uncertain \in BOOLEAN : GoWith(r, "stamp", [loc[r] EXCEPT !.uncertain = uncertain])
  /\ UNCHANGED <<files, durable, sent, told>>

(* releaseDispatch is put: the answer's file is created, written and synced *)
(* in place, then named durably.                                            *)
Release(r) ==
  /\ pc[r] = "release"
  /\ freed[Scope(r)][loc[r].n] = "none"
  /\ freed' = [freed EXCEPT ![Scope(r)][loc[r].n] = "torn"]
  /\ Go(r, "releaseWrite")
  /\ UNCHANGED <<entry, marker, record, index, subject, durable, sent, told>>

ReleaseWrite(r) ==
  /\ pc[r] = "releaseWrite"
  /\ freed' = [freed EXCEPT ![Scope(r)][loc[r].n] = "whole"]
  /\ Go(r, "releaseSync")
  /\ UNCHANGED <<entry, marker, record, index, subject, durable, sent, told>>

ReleaseSync(r) ==
  /\ pc[r] = "releaseSync"
  /\ SyncEntry(Scope(r))
  /\ Answer(r, "retry")
  /\ UNCHANGED <<files, sent>>

(* The answer could not be made durable: the attempt is uncertain. *)
ReleaseFails(r) ==
  /\ pc[r] \in {"release", "releaseWrite", "releaseSync"}
  /\ GoWith(r, "stamp", [loc[r] EXCEPT !.uncertain = TRUE])
  /\ UNCHANGED <<files, durable, sent, told>>

Outcome(r) == IF loc[r].uncertain THEN "uncertain" ELSE "response"

(* The receipt of the outcome, under best-effort syncs. *)
Stamp(r) ==
  /\ pc[r] = "stamp"
  /\ GoWith(r, "evidence", [loc[r] EXCEPT !.receipt = "linked"])
  /\ UNCHANGED <<files, durable, sent, told>>

(* Mutant: the record is written over a receipt that is not durable. *)
EvidenceNotSynced(r) ==
  /\ pc[r] = "evidence"
  /\ Go(r, "publish")
  /\ UNCHANGED <<files, durable, sent, told>>

(* syncActionEvidence. *)
SyncEvidence(r) ==
  /\ pc[r] = "evidence"
  /\ GoWith(r, "publish", [loc[r] EXCEPT !.receipt = "synced"])
  /\ UNCHANGED <<files, durable, sent, told>>

(* action.json, whole and exclusively. *)
Publish(r) ==
  /\ pc[r] = "publish"
  /\ IF record[Scope(r)] = None
     THEN /\ record' = [record EXCEPT ![Scope(r)] =
                          [outcome |-> Outcome(r), receipt |-> loc[r].receipt]]
          /\ Go(r, "publishSync")
     ELSE Go(r, "idle") /\ UNCHANGED record
  /\ UNCHANGED <<entry, marker, freed, index, subject, durable, sent, told>>

PublishSync(r) ==
  /\ pc[r] = "publishSync"
  /\ SyncEntry(Scope(r))
  /\ Answer(r, Outcome(r))
  /\ UNCHANGED <<files, sent>>

-----------------------------------------------------------------------------
(* What ends a request or the host. *)

(* An I/O error, a refusal of admission or the death of the process: the    *)
(* request goes no further, and what it did stays.                          *)
Stop(r) ==
  /\ pc[r] # "idle"
  /\ Go(r, "idle")
  /\ UNCHANGED <<files, durable, sent, told>>

Present == RootNames \cup IndexNames \cup UNION {EntryNames(s) : s \in Scopes}

(* The host goes down: no request survives, and of the names that are not   *)
(* durable any part does.  What is inside an entry is gone with the entry,  *)
(* and a receipt that was only linked may be gone from under its record.    *)
HostCrash ==
  \E lost \in SUBSET (Present \ durable) :
    LET gone(kind, s, n) == <<kind, s, n>> \in lost \/ <<"entry", s, 0>> \in lost
    IN /\ entry' = [s \in Scopes |-> IF gone("entry", s, 0) THEN None ELSE entry[s]]
       /\ marker' = [s \in Scopes |-> [n \in Attempts |->
                       IF gone("marker", s, n) THEN "none" ELSE marker[s][n]]]
       /\ freed' = [s \in Scopes |-> [n \in Attempts |->
                       IF gone("freed", s, n) THEN "none" ELSE freed[s][n]]]
       /\ \E torn \in SUBSET {s \in Scopes : record[s] # None
                                           /\ record[s].receipt = "linked"} :
            record' = [s \in Scopes |->
                         IF gone("record", s, 0) THEN None
                         ELSE IF s \in torn
                         THEN [outcome |-> record[s].outcome, receipt |-> "lost"]
                         ELSE record[s]]
       /\ index' = IF <<"index", index, 0>> \in lost THEN None ELSE index
       /\ subject' = IF <<"subject", subject, 0>> \in lost THEN None ELSE subject
       /\ durable' = {x \in Present : /\ x \notin lost
                                      /\ \/ x[1] \in {"index", "subject"}
                                         \/ <<"entry", x[2], 0>> \notin lost}
       /\ pc' = [r \in Requests |-> "idle"]
       /\ req' = [r \in Requests |-> None]
       /\ loc' = [r \in Requests |-> NoLocals]
       /\ UNCHANGED <<sent, told>>

(* The operator loses the first-scope record (an index not restored with    *)
(* the store): the subject record is what then holds (SPEC.md 11.8).        *)
LoseIndex ==
  /\ IndexLoss
  /\ index # None
  /\ index' = None
  /\ durable' = durable \ IndexNames
  /\ UNCHANGED <<entry, marker, freed, record, subject, pc, req, loc, sent, told>>

RequestStep(r) ==
  \/ Leaf(r) \/ FirstScope(r) \/ DelegatedScope(r) \/ SubjectSync(r)
  \/ Missing(r) \/ Hold(r) \/ HoldSync(r) \/ Reserve(r) \/ ReserveSync(r)
  \/ Closed(r) \/ Rehold(r) \/ ReholdSync(r) \/ ReadRecord(r)
  \/ FindAttempt(r) \/ CloseDispatch(r) \/ CloseSync(r) \/ ClosedSync(r)
  \/ ClosedHold(r) \/ ClosedAnswer(r) \/ Admit(r) \/ ClaimDispatch(r)
  \/ ClaimSync(r) \/ Recheck(r) \/ Start(r) \/ NotStarted(r) \/ Finish(r)
  \/ Release(r) \/ ReleaseWrite(r) \/ ReleaseSync(r) \/ ReleaseFails(r)
  \/ Stamp(r) \/ SyncEvidence(r) \/ Publish(r) \/ PublishSync(r)

Next ==
  \/ \E r \in Requests : Begin(r) \/ RequestStep(r) \/ Stop(r)
  \/ HostCrash
  \/ LoseIndex

Spec == Init /\ [][Next]_vars

-----------------------------------------------------------------------------
(* What the journal promises. *)

Sent(s) == sent[s] # <<>>

(* A close is final once its marker and the entry holding it are durable.   *)
FinallyClosed(s) ==
  /\ <<"entry", s, 0>> \in durable
  /\ \E n \in Attempts : ClosedAt(s, n) /\ <<"marker", s, n>> \in durable

(* The journal implements the promise of ActionKey: under every             *)
(* interleaving and crash a scope's key is sent once or closed, for good,   *)
(* and no answer contradicts which.                                         *)
Key == INSTANCE ActionKey WITH
         status <- [s \in Scopes |-> IF Sent(s) THEN "sent"
                                     ELSE IF FinallyClosed(s) THEN "closed"
                                     ELSE "open"],
         said <- {<<a.scope, a.answer>> : a \in told}

ImplementsActionKey == Key!Spec

WasTold(s, answer) == \E a \in told : a.scope = s /\ a.answer = answer

(* Whatever dies and whoever retries, the write program is started at most  *)
(* once under a key in one scope ("never repeat a mutation that may have    *)
(* been sent", docs/design/action-reconciliation.md).                       *)
AtMostOneSend == \A s \in Scopes : Len(sent[s]) <= 1

(* A request told that the key is closed, or that nothing was dispatched    *)
(* and nothing will be, was told the truth: nothing was sent in its scope,  *)
(* before or since, through any crash.                                      *)
ClosedMeansUnsent ==
  \A s \in Scopes :
    WasTold(s, "not-dispatched") \/ WasTold(s, "key-closed") => ~ Sent(s)

(* Across scopes: of the requests that take a first scope (keyScope, or a   *)
(* delegated run's actor) only one scope's ever send, and none other's      *)
(* after a reconciling request was told nothing was dispatched.             *)
OneScopeSends ==
  \A s, t \in Scopes :
    s # t => ~ /\ \E i \in DOMAIN sent[s] : sent[s][i].held
               /\ \/ \E i \in DOMAIN sent[t] : sent[t][i].held
                  \/ WasTold(t, "not-dispatched")

(* Two root actors of one subject never both send under the key.            *)
OneRootActorSends ==
  \A s, t \in Delegated : Sent(s) /\ Sent(t) => s = t

(* A response returned under the key, first or replayed, is the response of *)
(* a write that was sent in that scope with that content.                   *)
ResponseWasSent ==
  \A a \in told :
    a.answer = "response" =>
      \E i \in DOMAIN sent[a.scope] : sent[a.scope][i].content = a.content

(* A request told that nothing was sent and that it may retry: its attempt  *)
(* was not sent, and no crash makes the attempt count as begun again.       *)
RetryIsFree ==
  \A a \in told :
    a.answer = "retry" =>
      /\ \A i \in DOMAIN sent[a.scope] : sent[a.scope][i].n # a.n
      /\ freed[a.scope][a.n] = "whole" /\ <<"freed", a.scope, a.n>> \in durable

(* The record never outlives the receipt it cites: a key is never refused   *)
(* for good because a crash took the receipt (#352 L4).                     *)
RecordHasReceipt ==
  \A s \in Scopes : record[s] # None => record[s].receipt # "lost"

(* Every answer given stays true, through any crash and whoever retries: a  *)
(* close said nothing was sent and nothing ever is, a response is of a      *)
(* write that was sent with that content, an attempt said free was not      *)
(* used, and a record never outlives the receipt it cites (closedKey,       *)
(* publishActionRecord, releaseDispatch, syncActionEvidence).               *)
AnswersAreTrue == ClosedMeansUnsent /\ ResponseWasSent /\ RetryIsFree /\ RecordHasReceipt

(* "final-name durability [is] required before a result is relied on"       *)
(* (docs/design/action-reconciliation.md): a response that was returned is  *)
(* still the key's answer after the host crashes.                           *)
ResponseIsKept ==
  \A s \in Scopes : WasTold(s, "response") => <<"record", s, 0>> \in durable

-----------------------------------------------------------------------------
(* The inductive invariant behind those promises. *)

SentContent(s, c) == \E i \in DOMAIN sent[s] : sent[s][i].content = c

(* The steps of a request that holds its entry, and of the one that owns a  *)
(* dispatch marker it has not started a program under.                      *)
Entered ==
  Steps \ {"idle", "leaf", "first", "scope", "subjectSync", "missing", "hold",
           "holdSync", "reserve", "reserveSync"}
Owning == {"claimSync", "run", "release", "releaseWrite", "releaseSync"}

EntrySafe(s) == entry[s] # None /\ <<"entry", s, 0>> \in durable
ClaimSafe(s, n) == marker[s][n] = "claimed" /\ <<"marker", s, n>> \in durable
FreedSafe(s, n) == freed[s][n] = "whole" /\ <<"freed", s, n>> \in durable

(* The files of one scope. *)
FilesInv(s) ==
  \* before its entry is durable, a scope holds at most a close born with it
  /\ ~ EntrySafe(s) =>
       /\ sent[s] = <<>> /\ record[s] = None
       /\ \A n \in Attempts : /\ freed[s][n] = "none"
                              /\ marker[s][n] # "claimed"
                              /\ n # 1 => marker[s][n] = "none"
  /\ entry[s] = None => \A n \in Attempts : marker[s][n] = "none"
  \* an answer stands beside a durable marker, a marker above durable ones
  /\ \A n \in Attempts :
       /\ freed[s][n] # "none" => ClaimSafe(s, n)
       /\ marker[s][n] # "none" => \A m \in 1 .. n - 1 : ClaimSafe(s, m)
  \* a send is the only one, under a durable marker, above answered attempts
  /\ Len(sent[s]) <= 1
  /\ \A i \in DOMAIN sent[s] :
       /\ ClaimSafe(s, sent[s][i].n)
       /\ freed[s][sent[s][i].n] # "whole"
       /\ \A m \in 1 .. sent[s][i].n - 1 : FreedSafe(s, m)
  /\ IsClosed(s) => sent[s] = <<>>
  \* a record cites a durable receipt, and a response was sent
  /\ record[s] # None =>
       /\ record[s].receipt = "synced"
       /\ record[s].outcome = "response" => SentContent(s, entry[s])

Owns(r) ==
  LET s == Scope(r)
      n == loc[r].n
  IN /\ marker[s][n] = "claimed"
     /\ \A i \in DOMAIN sent[s] : sent[s][i].n # n
     /\ \A m \in 1 .. n - 1 : Answered(s, m)
     /\ pc[r] # "claimSync" =>
          ClaimSafe(s, n) /\ \A m \in 1 .. n - 1 : FreedSafe(s, m)
     /\ pc[r] = "releaseSync" <=> freed[s][n] = "whole"
     /\ pc[r] \in {"claimSync", "run"} => ~ IsClosed(s)

(* One request. *)
RequestInv(r) ==
  LET s == Scope(r)
  IN /\ pc[r] = "reserveSync" /\ loc[r].fresh => entry[s] = req[r].content
     /\ pc[r] \in Entered => EntrySafe(s) /\ entry[s] = req[r].content
     /\ pc[r] \in {"close", "admit", "claim"} =>
          \A m \in 1 .. loc[r].n - 1 : Answered(s, m)
     /\ pc[r] \in Owning => Owns(r)
     /\ pc[r] \in {"closeSync", "closedSync"} => IsClosed(s)
     /\ pc[r] \in {"closedHold", "closedHoldSync"} => FinallyClosed(s)
     /\ pc[r] = "recheck" => loc[r].uncertain
     /\ \/ pc[r] = "running"
        \/ /\ pc[r] \in {"stamp", "evidence", "publish", "publishSync"}
           /\ ~ loc[r].uncertain
       => SentContent(s, req[r].content)
     /\ pc[r] = "publish" => loc[r].receipt = "synced"

(* No two requests own one marker. *)
OneOwner ==
  \A p, q \in Requests :
    /\ pc[p] \in Owning /\ pc[q] \in Owning
    /\ Scope(p) = Scope(q) /\ loc[p].n = loc[q].n
    => p = q

(* One answer. *)
ToldInv(a) ==
  /\ a.answer \in {"not-dispatched", "key-closed"} => FinallyClosed(a.scope)
  /\ a.answer = "retry" => FreedSafe(a.scope, a.n)
  /\ a.answer = "response" => SentContent(a.scope, a.content)

JournalInv ==
  /\ \A s \in Scopes : FilesInv(s)
  /\ \A r \in Requests : RequestInv(r)
  /\ OneOwner
  /\ \A a \in told : ToldInv(a)

(* What keeps the scopes apart: a first scope, or a subject's root actor,   *)
(* recorded for good.                                                       *)
IndexSafe(s) == index = s /\ <<"index", s, 0>> \in durable
SubjectSafe(s) == subject = s /\ <<"subject", s, 0>> \in durable

(* A request that will send neither reconciles, nor is another sender's,    *)
(* nor found another first scope. *)
MaySend(r) == ~ loc[r].foreign /\ ~ req[r].reconcile /\ req[r].sender # "other"

ScopeInv(r) ==
  LET s == Scope(r)
  IN /\ pc[r] = "missing" => req[r].reconcile
     /\ \/ pc[r] \in {"claim", "claimSync", "run"}
        \/ pc[r] = "admit" /\ ~ loc[r].uncertain
       => MaySend(r)
     /\ /\ pc[r] \notin {"idle", "leaf", "first", "scope", "subjectSync"}
        /\ req[r].sender = "actor" /\ ~ loc[r].foreign
       => SubjectSafe(s)
     /\ ~ IndexLoss =>
          /\ pc[r] \in {"holdSync", "reholdSync", "closedHoldSync"} => index = s
          /\ /\ pc[r] \in Entered \cup {"reserve", "reserveSync"}
             /\ Holds(r) /\ ~ req[r].reconcile /\ ~ loc[r].foreign
            => IndexSafe(s)

SentScopes ==
  /\ \A s \in Delegated : Sent(s) => SubjectSafe(s)
  /\ ~ IndexLoss =>
       /\ \A s \in Scopes : (\E i \in DOMAIN sent[s] : sent[s][i].held) => IndexSafe(s)
       /\ \A a \in told : a.answer = "not-dispatched" => IndexSafe(a.scope)

ScopesInv == (\A r \in Requests : ScopeInv(r)) /\ SentScopes
=============================================================================
