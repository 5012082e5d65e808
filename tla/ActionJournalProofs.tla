------------------------- MODULE ActionJournalProofs -------------------------
(* Proofs about the action journal, for every number of requests, scopes,   *)
(* contents and attempts: its types, and then that its invariant is         *)
(* inductive, so that a key is sent at most once and every answer stays     *)
(* true, under every interleaving, process death and host crash.            *)
EXTENDS ActionJournal, TLAPS

-----------------------------------------------------------------------------
(* Types *)

(* A slot serves a request whenever it is not idle, and writes its record   *)
(* over a receipt it synced.                                                *)
Active ==
  \A r \in Requests : /\ pc[r] # "idle" => req[r] \in RequestShape
                      /\ pc[r] = "publish" => loc[r].receipt = "synced"

TypeInv == TypeOK /\ Active

LocalType ==
  /\ pc \in [Requests -> Steps]
  /\ req \in [Requests -> RequestShape \cup {None}]
  /\ loc \in [Requests -> Locals]
  /\ Active

FileType ==
  /\ entry \in [Scopes -> Contents \cup {None}]
  /\ marker \in [Scopes -> [Attempts -> {"none", "claimed", "closed"}]]
  /\ freed \in [Scopes -> [Attempts -> {"none", "torn", "whole"}]]
  /\ record \in [Scopes -> Records \cup {None}]
  /\ index \in Scopes \cup {None}
  /\ subject \in Delegated \cup {None}
  /\ durable \subseteq Names

HistoryType == sent \in [Scopes -> Seq(Sends)] /\ told \subseteq Told

(* Every step of a request is a move to a step of the code. *)
Moves(r) ==
  /\ pc[r] # "idle"
  /\ \E step \in Steps, l \in Locals :
       GoWith(r, step, l) /\ (step = "publish" => l.receipt = "synced")

LEMMA InitType == Init => TypeInv
BY ConstantsAssumption
   DEF Init, TypeInv, TypeOK, Active, NoLocals, Locals, Steps,
       Attempts, Records

LEMMA MoveType ==
  ASSUME TypeInv, NEW r \in Requests, Moves(r)
  PROVE  LocalType'
<1>1. NoLocals \in Locals
  BY ConstantsAssumption DEF NoLocals, Locals, Attempts
<1> QED BY <1>1 DEF TypeInv, TypeOK, Active, GoWith, LocalType, Moves

(* What is known of a request that is being served. *)
LEMMA Served ==
  ASSUME TypeInv, NEW r \in Requests, pc[r] # "idle"
  PROVE  /\ req[r] \in RequestShape /\ Scope(r) \in Scopes
         /\ req[r].content \in Contents
         /\ loc[r] \in Locals /\ loc[r].n \in Attempts
         /\ loc[r].uncertain \in BOOLEAN
         /\ loc[r].receipt \in {"none", "linked", "synced"}
         /\ req[r].sender = "actor" => Scope(r) \in Delegated
         /\ Holds(r) \in BOOLEAN
BY DEF TypeInv, TypeOK, Active, RequestShape, Scope, Locals, Holds

LEMMA ChoiceTypes ==
  ASSUME NEW r \in Requests, NEW l, NEW n
  PROVE  /\ ClosedKey(r, l) \in Steps \ {"publish"}
         /\ AfterScope(r, l) \in Steps \ {"publish"}
         /\ Found(r, n) \in Steps \ {"publish"}
BY DEF ClosedKey, AfterScope, Found, Steps

LEMMA LocalTypes ==
  ASSUME NEW l \in Locals, NEW n \in Attempts, NEW b \in BOOLEAN, NEW c \in BOOLEAN
  PROVE  /\ [l EXCEPT !.n = n, !.uncertain = b] \in Locals
         /\ [l EXCEPT !.uncertain = b] \in Locals
         /\ [l EXCEPT !.foreign = b, !.indexed = c] \in Locals
         /\ [l EXCEPT !.foreign = b] \in Locals
         /\ [l EXCEPT !.fresh = b] \in Locals
         /\ [l EXCEPT !.indexed = b] \in Locals
         /\ [l EXCEPT !.receipt = "linked"] \in Locals
         /\ [l EXCEPT !.receipt = "synced"] \in Locals
         /\ [l EXCEPT !.receipt = "synced"].receipt = "synced"
BY DEF Locals

LEMMA StepMoves ==
  ASSUME TypeInv, NEW r \in Requests, RequestStep(r) \/ Stop(r)
  PROVE  Moves(r)
<1>1. pc[r] # "idle"
  BY DEF RequestStep, Stop, Leaf, FirstScope, DelegatedScope, SubjectSync,
    Missing, Hold, HoldSync, Reserve, ReserveSync, Closed, Rehold, ReholdSync,
    ReadRecord, FindAttempt, CloseDispatch, CloseSync, ClosedSync, ClosedHold,
    ClosedAnswer, Admit, ClaimDispatch, ClaimSync, Recheck, Start, NotStarted,
    Finish, Release, ReleaseWrite, ReleaseSync, ReleaseFails, Stamp,
    SyncEvidence, Publish, PublishSync
<1> DEFINE l == loc[r]
<1>2. l \in Locals /\ \A b \in BOOLEAN, c \in BOOLEAN :
        /\ [l EXCEPT !.uncertain = b] \in Locals
        /\ [l EXCEPT !.foreign = b, !.indexed = c] \in Locals
        /\ [l EXCEPT !.foreign = b] \in Locals
        /\ [l EXCEPT !.fresh = b] \in Locals
        /\ [l EXCEPT !.indexed = b] \in Locals
        /\ [l EXCEPT !.receipt = "linked"] \in Locals
        /\ [l EXCEPT !.receipt = "synced"] \in Locals
  BY <1>1, Served, LocalTypes
<1>3. ASSUME NEW step, Go(r, step), step \in Steps \ {"publish"} PROVE Moves(r)
  BY <1>1, <1>2, <1>3 DEF Moves, Go
<1>20. CASE Leaf(r)
  <2>1. "idle" \in Steps \ {"publish"} /\ "first" \in Steps \ {"publish"}
    BY DEF Steps
  <2>2. Go(r, "idle") \/ Go(r, "first")
    BY <1>20 DEF Leaf
  <2> QED BY <1>3, <2>1, <2>2
<1>21. CASE Admit(r)
  <2>1. (IF loc[r].uncertain THEN "recheck" ELSE "claim")
          \in Steps \ {"publish"}
    BY ChoiceTypes DEF Steps
  <2> QED BY <1>3, <1>21, <2>1 DEF Admit
<1>22. CASE Recheck(r)
  <2>1. (IF IsClosed(Scope(r)) THEN ClosedKey(r, loc[r]) ELSE "stamp")
          \in Steps \ {"publish"}
    BY ChoiceTypes DEF Steps
  <2> QED BY <1>3, <1>22, <2>1 DEF Recheck
<1>23. CASE Closed(r)
  <2>1. (IF IsClosed(Scope(r)) THEN ClosedKey(r, loc[r])
           ELSE IF req[r].reconcile /\ Holds(r) /\ ~ loc[r].foreign
           THEN "rehold" ELSE "record")
          \in Steps \ {"publish"}
    BY ChoiceTypes DEF Steps
  <2> QED BY <1>3, <1>23, <2>1 DEF Closed
<1>24. CASE SubjectSync(r)
  <2>1. (IF subject = Scope(r) THEN AfterScope(r, loc[r]) ELSE "idle")
          \in Steps \ {"publish"}
    BY ChoiceTypes DEF Steps
  <2> QED BY <1>3, <1>24, <2>1 DEF SubjectSync
<1>25. CASE DelegatedScope(r)
  <2>1. AfterScope(r, loc[r]) \in Steps \ {"publish"}
        /\ (IF Has(Scope(r)) THEN AfterScope(r, loc[r]) ELSE "idle")
             \in Steps \ {"publish"}
        /\ "subjectSync" \in Steps \ {"publish"}
    BY ChoiceTypes DEF Steps
  <2> QED BY <1>3, <1>25, <2>1 DEF DelegatedScope
<1>26. CASE Missing(r)
  <2>1. "reserve" \in Steps \ {"publish"} /\ "idle" \in Steps \ {"publish"}
    BY DEF Steps
  <2> QED BY <1>3, <1>26, <2>1 DEF Missing
<1>27. CASE ReserveSync(r)
  <2>1. (IF loc[r].fresh THEN "attempt"
           ELSE IF entry[Scope(r)] = req[r].content THEN "closed" ELSE "idle")
          \in Steps \ {"publish"}
    BY ChoiceTypes DEF Steps
  <2> QED BY <1>3, <1>27, <2>1 DEF ReserveSync
<1>28. CASE CloseSync(r)
  <2>1. (ClosedKey(r, loc[r]))
          \in Steps \ {"publish"}
    BY ChoiceTypes DEF Steps
  <2> QED BY <1>3, <1>28, <2>1 DEF CloseSync
<1>29. CASE HoldSync(r) \/ ClaimSync(r) \/ Start(r) \/ NotStarted(r)
            \/ Release(r) \/ ReleaseWrite(r) \/ Publish(r) \/ Stop(r)
  BY <1>3, <1>29
     DEF HoldSync, ClaimSync, Start, NotStarted, Release, ReleaseWrite,
       Publish, Stop, Steps
<1>30. CASE ClosedSync(r) \/ ClosedAnswer(r) \/ ReleaseSync(r)
            \/ PublishSync(r) \/ ReadRecord(r)
  BY <1>3, <1>30
     DEF ClosedSync, ClosedAnswer, ReleaseSync, PublishSync, ReadRecord,
       Answer, Steps
<1>4. CASE FirstScope(r)
  <2> DEFINE foreign == index \notin {None, Scope(r)}
             k == [l EXCEPT !.foreign = foreign, !.indexed = index = Scope(r)]
  <2>1. k \in Locals
    BY <1>1, <1>2, Served, LocalTypes
  <2>2. CASE Go(r, "idle")
    BY <1>3, <2>2 DEF Steps
  <2>3. CASE ~ Go(r, "idle")
    BY <1>1, <1>4, <2>1, <2>3, ChoiceTypes DEF Moves, FirstScope, Steps
  <2> QED BY <2>2, <2>3
<1>5. CASE Hold(r) \/ Rehold(r) \/ ClosedHold(r)
  BY <1>1, <1>2, <1>5 DEF Moves, Go, Hold, Rehold, ClosedHold, HoldKeyIndex, Steps
<1>6. CASE Reserve(r)
  BY <1>1, <1>2, <1>6 DEF Moves, Reserve, Steps
<1>7. CASE FindAttempt(r)
  <2>1. CASE Go(r, "idle")
    BY <1>1, <1>2, <2>1 DEF Moves, Go, Steps
  <2>2. CASE ~ Go(r, "idle")
    <3>1. PICK n \in Attempts :
            GoWith(r, Found(r, n),
                   [l EXCEPT !.n = n,
                      !.uncertain = marker[Scope(r)][n] = "claimed"])
      BY <1>7, <2>2 DEF FindAttempt
    <3>2. [l EXCEPT !.n = n, !.uncertain = marker[Scope(r)][n] = "claimed"] \in Locals
      BY <1>2, LocalTypes
    <3> QED BY <1>1, <3>1, <3>2, ChoiceTypes DEF Moves
  <2> QED BY <2>1, <2>2
<1>8. CASE CloseDispatch(r)
  BY <1>1, <1>2, <1>8, ChoiceTypes DEF Moves, Go, CloseDispatch, Steps
<1>9. CASE ClaimDispatch(r)
  BY <1>1, <1>2, <1>9, ChoiceTypes DEF Moves, Go, ClaimDispatch, Steps
<1>10. CASE Finish(r) \/ ReleaseFails(r) \/ ReholdSync(r) \/ Stamp(r)
  BY <1>1, <1>2, <1>10 DEF Moves, Finish, ReleaseFails, ReholdSync, Stamp, Steps
<1>11. CASE SyncEvidence(r)
  <2>1. [l EXCEPT !.receipt = "synced"].receipt = "synced"
    BY <1>1, Served, LocalTypes
  <2> QED BY <1>1, <1>2, <1>11, <2>1 DEF Moves, SyncEvidence, Steps
<1> QED BY <1>20, <1>21, <1>22, <1>23, <1>24, <1>25, <1>26, <1>27, <1>28,
       <1>29, <1>30, <1>4, <1>5, <1>6, <1>7, <1>8, <1>9, <1>10, <1>11 DEF RequestStep

(* What a sync makes durable is a name. *)
LEMMA NamesTypes ==
  ASSUME TypeInv
  PROVE  /\ RootNames \subseteq Names
         /\ \A s \in Scopes : EntryNames(s) \subseteq Names
         /\ IndexNames \subseteq Names
BY ConstantsAssumption
   DEF TypeInv, TypeOK, RootNames, EntryNames, IndexNames, Names, Attempts

(* A change of one attempt's file. *)
LEMMA AttemptWrite ==
  ASSUME NEW V, NEW f \in [Scopes -> [Attempts -> V]], NEW s \in Scopes,
         NEW n \in Attempts, NEW v \in V
  PROVE  /\ [f EXCEPT ![s][n] = v] \in [Scopes -> [Attempts -> V]]
         /\ [f EXCEPT ![s][n] = v][s][n] = v
         /\ \A t \in Scopes, m \in Attempts :
              t # s \/ m # n => [f EXCEPT ![s][n] = v][t][m] = f[t][m]
OBVIOUS

LEMMA StepFiles ==
  ASSUME TypeInv, NEW r \in Requests, RequestStep(r)
  PROVE  FileType'
<1>1. pc[r] # "idle"
  BY StepMoves DEF Moves
<1> DEFINE s == Scope(r)
           n == loc[r].n
<1>2. /\ s \in Scopes /\ n \in Attempts /\ req[r].content \in Contents /\ FileType
      /\ 1 \in Attempts
  BY <1>1, Served, ConstantsAssumption DEF TypeInv, TypeOK, FileType, Attempts
<1>3. CASE UNCHANGED <<files, durable>>
  BY <1>2, <1>3 DEF FileType, files
<1>4. CASE UNCHANGED files /\ (SyncRoot \/ SyncEntry(s) \/ SyncIndex)
  BY <1>2, <1>4, NamesTypes DEF FileType, files, SyncRoot, SyncEntry, SyncIndex
<1>5. CASE DelegatedScope(r)
  BY <1>1, <1>2, <1>5, Served DEF DelegatedScope, FileType
<1>6. CASE Missing(r)
  <2>1. CASE UNCHANGED <<files, durable>>
    BY <1>3, <2>1
  <2>2. CASE ~ UNCHANGED <<files, durable>>
    <3>1. /\ entry' = [entry EXCEPT ![s] = req[r].content]
          /\ marker' = [marker EXCEPT ![s][1] = "closed"]
          /\ durable' = durable \cup {<<"marker", s, 1>>}
          /\ UNCHANGED <<freed, record, index, subject>>
      BY <1>6, <2>2 DEF Missing
    <3>2. marker' \in [Scopes -> [Attempts -> {"none", "claimed", "closed"}]]
      BY <1>2, <3>1, AttemptWrite DEF FileType
    <3>3. <<"marker", s, 1>> \in Names
      BY <1>2, ConstantsAssumption DEF Names, Attempts
    <3> QED BY <1>2, <3>1, <3>2, <3>3 DEF FileType
  <2> QED BY <2>1, <2>2
<1>7. CASE Hold(r) \/ Rehold(r) \/ ClosedHold(r)
  BY <1>2, <1>7 DEF Hold, Rehold, ClosedHold, HoldKeyIndex, FileType
<1>8. CASE Reserve(r)
  BY <1>2, <1>8 DEF Reserve, FileType
<1>9. CASE CloseDispatch(r)
  <2>1. \/ UNCHANGED <<files, durable>>
        \/ /\ marker' = [marker EXCEPT ![s][n] = "closed"]
           /\ UNCHANGED <<entry, freed, record, index, subject, durable>>
    BY <1>9 DEF CloseDispatch, files
  <2>2. [marker EXCEPT ![s][n] = "closed"]
          \in [Scopes -> [Attempts -> {"none", "claimed", "closed"}]]
    BY <1>2, AttemptWrite DEF FileType
  <2> QED BY <1>2, <1>3, <2>1, <2>2 DEF FileType
<1>10. CASE ClaimDispatch(r)
  <2>1. \/ UNCHANGED <<files, durable>>
        \/ /\ marker' = [marker EXCEPT ![s][n] = "claimed"]
           /\ UNCHANGED <<entry, freed, record, index, subject, durable>>
    BY <1>10 DEF ClaimDispatch, files
  <2>2. [marker EXCEPT ![s][n] = "claimed"]
          \in [Scopes -> [Attempts -> {"none", "claimed", "closed"}]]
    BY <1>2, AttemptWrite DEF FileType
  <2> QED BY <1>2, <1>3, <2>1, <2>2 DEF FileType
<1>11. CASE Release(r)
  BY <1>2, <1>11, AttemptWrite DEF Release, FileType
<1>12. CASE ReleaseWrite(r)
  BY <1>2, <1>12, AttemptWrite DEF ReleaseWrite, FileType
<1>13. CASE Publish(r)
  <2>1. loc[r].receipt = "synced" /\ Outcome(r) \in Outcomes
    BY <1>13 DEF Publish, TypeInv, Active, Outcome, Outcomes
  <2>2. [outcome |-> Outcome(r), receipt |-> loc[r].receipt] \in Records
    BY <2>1 DEF Records
  <2> QED BY <1>2, <1>13, <2>2 DEF Publish, FileType
<1>14. CASE \/ Leaf(r) \/ FirstScope(r) \/ Closed(r) \/ ReadRecord(r)
            \/ FindAttempt(r) \/ Admit(r) \/ Recheck(r) \/ Start(r)
            \/ NotStarted(r) \/ Finish(r) \/ ReleaseFails(r) \/ Stamp(r)
            \/ SyncEvidence(r)
  BY <1>3, <1>14
     DEF Leaf, FirstScope, Closed, ReadRecord, FindAttempt, Admit, Recheck,
       Start, NotStarted, Finish, ReleaseFails, Stamp, SyncEvidence
<1>15. CASE \/ SubjectSync(r) \/ HoldSync(r) \/ ReserveSync(r)
            \/ ReholdSync(r) \/ CloseSync(r) \/ ClosedSync(r)
            \/ ClosedAnswer(r) \/ ClaimSync(r) \/ ReleaseSync(r)
            \/ PublishSync(r)
  BY <1>4, <1>15
     DEF SubjectSync, HoldSync, ReserveSync, ReholdSync, CloseSync,
       ClosedSync, ClosedAnswer, ClaimSync, ReleaseSync, PublishSync
<1> QED BY <1>5, <1>6, <1>7, <1>8, <1>9, <1>10, <1>11, <1>12, <1>13, <1>14,
           <1>15 DEF RequestStep

LEMMA StepHistory ==
  ASSUME TypeInv, NEW r \in Requests, RequestStep(r)
  PROVE  HistoryType'
<1>1. pc[r] # "idle"
  BY StepMoves DEF Moves
<1> DEFINE s == Scope(r)
           n == loc[r].n
<1>2. s \in Scopes /\ n \in Attempts /\ req[r].content \in Contents /\ HistoryType
  BY <1>1, Served DEF TypeInv, TypeOK, HistoryType
<1>3. ASSUME UNCHANGED sent, \/ UNCHANGED told
                             \/ \E x \in Answers : Answer(r, x)
      PROVE  HistoryType'
  BY <1>2, <1>3, ConstantsAssumption DEF HistoryType, Answer, Told, Attempts
<1>4. CASE Start(r)
  <2>1. [n |-> n, content |-> req[r].content, held |-> Holds(r)] \in Sends
    BY <1>1, <1>2, Served DEF Sends
  <2> QED BY <1>2, <1>4, <2>1 DEF Start, HistoryType
<1>5. CASE ReadRecord(r)
  BY <1>2, <1>3, <1>5 DEF ReadRecord, TypeInv, TypeOK, Records, Outcomes, Answers
<1>6. CASE ClosedSync(r) \/ ClosedAnswer(r) \/ ReleaseSync(r) \/ PublishSync(r)
  BY <1>3, <1>6 DEF ClosedSync, ClosedAnswer, ReleaseSync, PublishSync, Outcome, Answers
<1>7. CASE ~ Start(r) /\ ~ ReadRecord(r) /\ ~ ClosedSync(r) /\ ~ ClosedAnswer(r)
           /\ ~ ReleaseSync(r) /\ ~ PublishSync(r)
  BY <1>3, <1>7
     DEF RequestStep, Leaf, FirstScope, DelegatedScope, SubjectSync, Missing,
       Hold, HoldSync, Reserve, ReserveSync, Closed, Rehold, ReholdSync,
       FindAttempt, CloseDispatch, CloseSync, ClosedHold, Admit,
       ClaimDispatch, ClaimSync, Recheck, NotStarted, Finish, Release,
       ReleaseWrite, ReleaseFails, Stamp, SyncEvidence, Publish
<1> QED BY <1>4, <1>5, <1>6, <1>7

LEMMA CrashType ==
  ASSUME TypeInv, HostCrash
  PROVE  TypeInv'
<1>1. NoLocals \in Locals
  BY ConstantsAssumption DEF NoLocals, Locals, Attempts
<1>2. PICK lost \in SUBSET (Present \ durable) : HostCrash!(lost)
  BY DEF HostCrash
<1>3. FileType'
  <2>1. Present \subseteq Names
    BY NamesTypes DEF Present
  <2>2. \A s \in Scopes : record[s] # None =>
          [outcome |-> record[s].outcome, receipt |-> "lost"] \in Records
    <3> SUFFICES ASSUME NEW s \in Scopes, record[s] # None
                 PROVE  [outcome |-> record[s].outcome, receipt |-> "lost"] \in Records
      OBVIOUS
    <3>1. record[s] \in Records
      BY DEF TypeInv, TypeOK
    <3> QED BY <3>1 DEF Records
  <2>3. record' \in [Scopes -> Records \cup {None}]
    BY <1>2, <2>2 DEF TypeInv, TypeOK
  <2> QED BY <1>2, <2>1, <2>3 DEF TypeInv, TypeOK, FileType
<1> QED BY <1>1, <1>2, <1>3 DEF TypeInv, TypeOK, FileType, Active, Steps

LEMMA NextType == TypeInv /\ [Next]_vars => TypeInv'
<1> SUFFICES ASSUME TypeInv, [Next]_vars PROVE TypeInv'
  OBVIOUS
<1>1. CASE UNCHANGED vars
  BY <1>1 DEF vars, TypeInv, TypeOK, Active
<1>2. ASSUME NEW r \in Requests, Begin(r) PROVE TypeInv'
  BY <1>2, ConstantsAssumption DEF Begin, TypeInv, TypeOK, Active, Steps, files
<1>3. ASSUME NEW r \in Requests, RequestStep(r) PROVE TypeInv'
  BY <1>3, StepMoves, MoveType, StepFiles, StepHistory
     DEF TypeInv, TypeOK, LocalType, FileType, HistoryType
<1>4. ASSUME NEW r \in Requests, Stop(r) PROVE TypeInv'
  BY <1>4, StepMoves, MoveType DEF Stop, TypeInv, TypeOK, LocalType, files
<1>5. CASE HostCrash
  BY <1>5, CrashType
<1>6. CASE LoseIndex
  BY <1>6 DEF LoseIndex, TypeInv, TypeOK, Active
<1> QED BY <1>1, <1>2, <1>3, <1>4, <1>5, <1>6 DEF Next

(* The type invariant of the journal holds of every behaviour. *)
THEOREM JournalTypes == Spec => []TypeOK
<1>1. Spec => []TypeInv
  BY InitType, NextType, PTL DEF Spec
<1> QED BY <1>1, PTL DEF TypeInv

-----------------------------------------------------------------------------
(* What no step but a crash of the host takes back, in one scope. *)
Grows(s) ==
  /\ entry[s] # None => entry'[s] = entry[s]
  /\ \A n \in Attempts :
       /\ marker[s][n] # "none" => marker'[s][n] = marker[s][n]
       /\ freed[s][n] = "whole" => freed'[s][n] = "whole"
  /\ \A i \in DOMAIN sent[s] : i \in DOMAIN sent'[s] /\ sent'[s][i] = sent[s][i]
  /\ \A kind \in {"entry", "marker", "freed"}, n \in 0 .. MaxAttempts :
       <<kind, s, n>> \in durable => <<kind, s, n>> \in durable'

(* A step that leaves a scope's files alone but may make them durable. *)
Quiet(s) ==
  /\ entry'[s] = entry[s] /\ marker'[s] = marker[s] /\ freed'[s] = freed[s]
  /\ record'[s] = record[s] /\ sent'[s] = sent[s]
  /\ \A kind \in {"entry", "marker", "freed"}, n \in 0 .. MaxAttempts :
       <<kind, s, n>> \in durable => <<kind, s, n>> \in durable'

(* Every other request stands where it stood. *)
Alone(r) ==
  \A p \in Requests \ {r} :
    pc'[p] = pc[p] /\ req'[p] = req[p] /\ loc'[p] = loc[p]

(* What no other request's step does to the owner of a marker. *)
Undisturbed(p) ==
  LET s == Scope(p)
      n == loc[p].n
  IN pc[p] \in Owning =>
       /\ \A i \in DOMAIN sent'[s] : sent'[s][i].n # n
       /\ freed'[s][n] = "whole" => freed[s][n] = "whole"
       /\ pc[p] \in {"claimSync", "run"} => ~ (\E m \in Attempts : marker'[s][m] = "closed")

LEMMA AttemptFacts ==
  /\ 0 \in 0 .. MaxAttempts /\ 1 \in Attempts
  /\ \A n \in Attempts : n \in 0 .. MaxAttempts /\ n \in Nat /\ n >= 1
  /\ \A n \in Attempts : \A m \in 1 .. n - 1 : m \in Attempts /\ m < n
  /\ \A n, m \in Attempts : m < n => m \in 1 .. n - 1
BY ConstantsAssumption DEF Attempts

LEMMA SentTypes ==
  ASSUME TypeInv, NEW s \in Scopes
  PROVE  /\ sent[s] \in Seq(Sends) /\ DOMAIN sent[s] = 1 .. Len(sent[s])
         /\ Len(sent[s]) \in Nat
         /\ \A i \in DOMAIN sent[s] : sent[s][i].n \in Attempts
<1>1. sent[s] \in Seq(Sends)
  BY DEF TypeInv, TypeOK
<1>2. \A i \in DOMAIN sent[s] : sent[s][i] \in Sends
  BY <1>1
<1>3. \A x \in Sends : x.n \in Attempts
  BY DEF Sends
<1> QED BY <1>1, <1>2, <1>3

LEMMA QuietGrows ==
  ASSUME TypeInv, NEW s \in Scopes, Quiet(s)
  PROVE  Grows(s)
BY DEF Quiet, Grows

LEMMA GrowthKeeps ==
  ASSUME TypeInv, NEW s \in Scopes, Grows(s)
  PROVE  /\ EntrySafe(s) => EntrySafe(s)' /\ entry'[s] = entry[s]
         /\ \A n \in Attempts : /\ ClaimSafe(s, n) => ClaimSafe(s, n)'
                                /\ FreedSafe(s, n) => FreedSafe(s, n)'
                                /\ Answered(s, n) => Answered(s, n)'
                                /\ ClosedAt(s, n) => ClosedAt(s, n)'
         /\ IsClosed(s) => IsClosed(s)'
         /\ FinallyClosed(s) => FinallyClosed(s)'
         /\ \A c \in Contents : SentContent(s, c) => SentContent(s, c)'
BY AttemptFacts
   DEF Grows, EntrySafe, ClaimSafe, FreedSafe, Answered, ClosedAt, IsClosed,
     FinallyClosed, SentContent

LEMMA QuietFiles ==
  ASSUME TypeInv, NEW s \in Scopes, Quiet(s), FilesInv(s)
  PROVE  FilesInv(s)'
<1>1. /\ EntrySafe(s) => EntrySafe(s)'
      /\ \A n \in Attempts : /\ ClaimSafe(s, n) => ClaimSafe(s, n)'
                             /\ FreedSafe(s, n) => FreedSafe(s, n)'
  BY QuietGrows, GrowthKeeps
<1>2. \A n \in Attempts : \A m \in 1 .. n - 1 : m \in Attempts
  BY AttemptFacts
<1>3. \A i \in DOMAIN sent[s] : sent[s][i].n \in Attempts
  BY SentTypes
<1>4. IsClosed(s)' <=> IsClosed(s)
  BY DEF Quiet, IsClosed, ClosedAt
<1>5. SentContent(s, entry[s])' <=> SentContent(s, entry[s])
  BY DEF Quiet, SentContent
<1> QED BY <1>1, <1>2, <1>3, <1>4, <1>5 DEF Quiet, FilesInv

(* A request that does not step keeps its invariant. *)
LEMMA RequestKept ==
  ASSUME TypeInv, NEW p \in Requests, RequestInv(p), Grows(Scope(p)),
         pc'[p] = pc[p], req'[p] = req[p], loc'[p] = loc[p], Undisturbed(p)
  PROVE  RequestInv(p)'
<1> DEFINE s == Scope(p)
           n == loc[p].n
<1>1. CASE pc[p] = "idle"
  BY <1>1 DEF RequestInv, Entered, Owning
<1>2. CASE pc[p] # "idle"
  <2>1. s \in Scopes /\ n \in Attempts /\ req[p].content \in Contents /\ s' = s /\ n' = n
    BY <1>2, Served DEF Scope
  <2>2. /\ EntrySafe(s) => EntrySafe(s)' /\ entry'[s] = entry[s]
        /\ \A m \in Attempts : /\ ClaimSafe(s, m) => ClaimSafe(s, m)'
                               /\ FreedSafe(s, m) => FreedSafe(s, m)'
                               /\ Answered(s, m) => Answered(s, m)'
        /\ IsClosed(s) => IsClosed(s)'
        /\ FinallyClosed(s) => FinallyClosed(s)'
        /\ \A c \in Contents : SentContent(s, c) => SentContent(s, c)'
    BY <2>1, GrowthKeeps
  <2>3. \A m \in 1 .. n - 1 : m \in Attempts
    BY <2>1, AttemptFacts
  <2>4. pc[p] \in Owning => Owns(p)'
    <3> SUFFICES ASSUME pc[p] \in Owning, Owns(p) PROVE Owns(p)'
      BY DEF RequestInv
    <3>1. marker'[s][n] = "claimed"
      BY <2>1 DEF Owns, Grows
    <3>2. pc[p] = "releaseSync" <=> freed'[s][n] = "whole"
      BY <2>1 DEF Owns, Grows, Undisturbed
    <3>3. pc[p] \in {"claimSync", "run"} => ~ IsClosed(s)'
      BY <2>1 DEF Undisturbed, IsClosed, ClosedAt
    <3>4. \A i \in DOMAIN sent'[s] : sent'[s][i].n # n
      BY DEF Undisturbed
    <3> QED BY <2>1, <2>2, <2>3, <3>1, <3>2, <3>3, <3>4 DEF Owns, Scope
  <2>5. pc[p] = "reserveSync" /\ loc[p].fresh => entry'[s] = req[p].content
    BY <1>2, <2>1, Served, ConstantsAssumption DEF RequestInv, Grows
  <2> QED BY <2>1, <2>2, <2>3, <2>4, <2>5 DEF RequestInv, Scope
<1> QED BY <1>1, <1>2

LEMMA ToldKept ==
  ASSUME TypeInv, NEW a \in told, ToldInv(a), Grows(a.scope)
  PROVE  ToldInv(a)'
<1>1. a.scope \in Scopes /\ a.n \in Attempts /\ a.content \in Contents
  BY DEF TypeInv, TypeOK, Told
<1> QED BY <1>1, GrowthKeeps DEF ToldInv

(* The invariant after a step of one request, from what the step must show. *)
LEMMA StepKeeps ==
  ASSUME TypeInv, JournalInv, NEW r \in Requests, Alone(r),
         \A s \in Scopes : Grows(s) /\ FilesInv(s)',
         \A p \in Requests \ {r} : pc[p] # "idle" => Undisturbed(p),
         RequestInv(r)',
         pc'[r] \in Owning =>
           \/ pc[r] \in Owning /\ Scope(r)' = Scope(r) /\ loc'[r].n = loc[r].n
           \/ \A p \in Requests \ {r} :
                ~ (pc[p] \in Owning /\ Scope(p) = Scope(r)' /\ loc[p].n = loc'[r].n),
         \A a \in told' : a \in told \/ ToldInv(a)'
  PROVE  JournalInv'
<1>1. \A p \in Requests : RequestInv(p)'
  <2> SUFFICES ASSUME NEW p \in Requests \ {r} PROVE RequestInv(p)'
    OBVIOUS
  <2>1. CASE pc[p] = "idle"
    BY <2>1 DEF RequestInv, Entered, Owning, Alone
  <2>2. CASE pc[p] # "idle"
    BY <2>2, Served, RequestKept DEF Alone, JournalInv
  <2> QED BY <2>1, <2>2
<1>2. \A a \in told' : ToldInv(a)'
  <2> SUFFICES ASSUME NEW a \in told PROVE ToldInv(a)'
    OBVIOUS
  <2>1. a.scope \in Scopes
    BY DEF TypeInv, TypeOK, Told
  <2> QED BY <2>1, ToldKept DEF JournalInv
<1>3. OneOwner'
  BY DEF OneOwner, JournalInv, Alone, Scope
<1> QED BY <1>1, <1>2, <1>3 DEF JournalInv

-----------------------------------------------------------------------------
(* Steps that leave every file alone but may make some durable. *)

LEMMA MoveFacts ==
  ASSUME TypeInv, NEW r \in Requests, pc[r] # "idle", NEW step, NEW l,
         GoWith(r, step, l)
  PROVE  /\ pc'[r] = step /\ Alone(r)
         /\ step # "idle" => /\ loc'[r] = l /\ req'[r] = req[r]
                             /\ Scope(r)' = Scope(r)
BY DEF TypeInv, TypeOK, GoWith, Alone, Scope

LEMMA GoFacts ==
  ASSUME TypeInv, NEW r \in Requests, pc[r] # "idle", NEW step, Go(r, step)
  PROVE  /\ pc'[r] = step /\ Alone(r)
         /\ step # "idle" => /\ loc'[r] = loc[r] /\ req'[r] = req[r]
                             /\ Scope(r)' = Scope(r)
BY MoveFacts DEF Go

SameFiles ==
  UNCHANGED <<entry, marker, freed, record, sent>> /\ durable \subseteq durable'

LEMMA SameQuiet ==
  ASSUME SameFiles
  PROVE  \A s \in Scopes : Quiet(s)
BY DEF SameFiles, Quiet

LEMMA QuietUndisturbed ==
  ASSUME TypeInv, NEW p \in Requests, RequestInv(p), pc[p] # "idle",
         Quiet(Scope(p))
  PROVE  Undisturbed(p)
BY Served DEF RequestInv, Owns, Undisturbed, Quiet, IsClosed, ClosedAt

LEMMA QuietStep ==
  ASSUME TypeInv, JournalInv, NEW r \in Requests, Alone(r),
         \A s \in Scopes : Quiet(s),
         RequestInv(r)',
         pc'[r] \in Owning =>
           pc[r] \in Owning /\ Scope(r)' = Scope(r) /\ loc'[r].n = loc[r].n,
         \A a \in told' : a \in told \/ ToldInv(a)'
  PROVE  JournalInv'
<1>1. \A s \in Scopes : Grows(s) /\ FilesInv(s)'
  BY QuietGrows, QuietFiles DEF JournalInv
<1>2. \A p \in Requests \ {r} : pc[p] # "idle" => Undisturbed(p)
  BY QuietUndisturbed, Served DEF JournalInv
<1> QED BY <1>1, <1>2, StepKeeps

(* The steps nothing is required of. *)
Unheld ==
  {"idle", "leaf", "first", "scope", "subjectSync", "missing", "hold",
   "holdSync", "reserve"}

LEMMA UnheldFree ==
  ASSUME NEW r \in Requests, pc'[r] \in Unheld
  PROVE  RequestInv(r)' /\ pc'[r] \notin Owning
BY DEF Unheld, RequestInv, Entered, Owning

(* A request is stopped, or has not come to its entry. *)
LEMMA UnheldStep ==
  ASSUME TypeInv, JournalInv, NEW r \in Requests, Alone(r), SameFiles,
         pc'[r] \in Unheld, UNCHANGED told
  PROVE  JournalInv'
BY UnheldFree, SameQuiet, QuietStep

LEMMA SyncSame ==
  ASSUME UNCHANGED <<files, sent>>,
         \/ UNCHANGED durable \/ SyncRoot \/ SyncIndex
         \/ \E s : SyncEntry(s)
  PROVE  SameFiles
BY DEF SameFiles, files, SyncRoot, SyncIndex, SyncEntry

LEMMA Unheld1 ==
  ASSUME TypeInv, JournalInv, NEW r \in Requests,
         \/ Begin(r) \/ Leaf(r) \/ FirstScope(r) \/ DelegatedScope(r)
         \/ SubjectSync(r) \/ Hold(r) \/ HoldSync(r) \/ Stop(r)
  PROVE  JournalInv'
<1>1. \A l : AfterScope(r, l) \in Unheld
  BY DEF AfterScope, Unheld
<1>2. CASE Begin(r)
  <2>1. Alone(r) /\ pc'[r] \in Unheld /\ SameFiles
    BY <1>2 DEF Begin, Alone, TypeInv, TypeOK, Unheld, SameFiles, files
  <2> QED BY <1>2, <2>1, UnheldStep DEF Begin
<1>3. CASE Leaf(r)
  <2>1. Go(r, "idle") \/ Go(r, "first")
    BY <1>3 DEF Leaf
  <2>2. Alone(r) /\ pc'[r] \in Unheld
    BY <1>3, <2>1, GoFacts DEF Leaf, Unheld
  <2> QED BY <1>3, <2>2, SyncSame, UnheldStep DEF Leaf
<1>4. CASE FirstScope(r)
  <2>1. \E step \in Unheld : \E l : GoWith(r, step, l)
    BY <1>1, <1>4 DEF FirstScope, Go, Unheld
  <2>2. Alone(r) /\ pc'[r] \in Unheld
    BY <1>4, <2>1, MoveFacts DEF FirstScope
  <2> QED BY <1>4, <2>2, SyncSame, UnheldStep DEF FirstScope
<1>5. CASE DelegatedScope(r)
  <2>1. \E step \in Unheld : Go(r, step)
    BY <1>1, <1>5 DEF DelegatedScope, Unheld
  <2>2. Alone(r) /\ pc'[r] \in Unheld
    BY <1>5, <2>1, GoFacts DEF DelegatedScope
  <2>3. SameFiles
    BY <1>5 DEF DelegatedScope, SameFiles
  <2> QED BY <1>5, <2>2, <2>3, UnheldStep DEF DelegatedScope
<1>6. CASE SubjectSync(r)
  <2>1. \E step \in Unheld : Go(r, step)
    BY <1>1, <1>6 DEF SubjectSync, Unheld
  <2>2. Alone(r) /\ pc'[r] \in Unheld
    BY <1>6, <2>1, GoFacts DEF SubjectSync
  <2> QED BY <1>6, <2>2, SyncSame, UnheldStep DEF SubjectSync
<1>7. CASE Hold(r)
  <2>1. \E step \in Unheld : \E l : GoWith(r, step, l)
    BY <1>1, <1>7 DEF Hold, HoldKeyIndex, Go, Unheld
  <2>2. Alone(r) /\ pc'[r] \in Unheld
    BY <1>7, <2>1, MoveFacts DEF Hold
  <2>3. SameFiles
    BY <1>7 DEF Hold, HoldKeyIndex, SameFiles
  <2> QED BY <1>7, <2>2, <2>3, UnheldStep DEF Hold
<1>8. CASE HoldSync(r)
  <2>2. Alone(r) /\ pc'[r] \in Unheld
    BY <1>8, GoFacts DEF HoldSync, Unheld
  <2> QED BY <1>8, <2>2, SyncSame, UnheldStep DEF HoldSync
<1>9. CASE Stop(r)
  <2>2. Alone(r) /\ pc'[r] \in Unheld
    BY <1>9, GoFacts DEF Stop, Unheld
  <2> QED BY <1>9, <2>2, SyncSame, UnheldStep DEF Stop
<1> QED BY <1>2, <1>3, <1>4, <1>5, <1>6, <1>7, <1>8, <1>9

-----------------------------------------------------------------------------
(* Quiet steps of a request that holds its entry. *)

LEMMA EnteredNow ==
  ASSUME TypeInv, JournalInv, NEW r \in Requests, pc[r] \in Entered
  PROVE  /\ pc[r] # "idle" /\ Scope(r) \in Scopes /\ loc[r].n \in Attempts
         /\ req[r].content \in Contents
         /\ EntrySafe(Scope(r)) /\ entry[Scope(r)] = req[r].content
         /\ \A m \in 1 .. loc[r].n - 1 : m \in Attempts
<1>1. pc[r] # "idle"
  BY DEF Entered
<1>2. EntrySafe(Scope(r)) /\ entry[Scope(r)] = req[r].content
  BY DEF JournalInv, RequestInv
<1> QED BY <1>1, <1>2, Served, AttemptFacts

LEMMA EnteredKeeps ==
  ASSUME TypeInv, JournalInv, NEW r \in Requests, pc[r] \in Entered, SameFiles,
         req'[r] = req[r]
  PROVE  /\ EntrySafe(Scope(r))' /\ entry'[Scope(r)'] = req'[r].content
         /\ \A n \in Attempts : /\ Answered(Scope(r), n) => Answered(Scope(r), n)'
                                /\ ClaimSafe(Scope(r), n) => ClaimSafe(Scope(r), n)'
                                /\ FreedSafe(Scope(r), n) => FreedSafe(Scope(r), n)'
         /\ IsClosed(Scope(r))' <=> IsClosed(Scope(r))
         /\ FinallyClosed(Scope(r)) => FinallyClosed(Scope(r))'
         /\ \A c \in Contents : SentContent(Scope(r), c) => SentContent(Scope(r), c)'
<1>1. Scope(r)' = Scope(r)
  BY DEF Scope
<1>2. Scope(r) \in Scopes /\ EntrySafe(Scope(r)) /\ entry[Scope(r)] = req[r].content
  BY EnteredNow
<1>3. Quiet(Scope(r)) /\ Grows(Scope(r))
  BY <1>2, SameQuiet, QuietGrows
<1>4. IsClosed(Scope(r))' <=> IsClosed(Scope(r))
  BY <1>1, <1>3 DEF Quiet, IsClosed, ClosedAt
<1>5. PICK s \in Scopes : s = Scope(r)
  BY <1>2
<1>6. s = Scope(r)' /\ Grows(s)
  BY <1>1, <1>3, <1>5
<1>7. /\ EntrySafe(s) => EntrySafe(s)' /\ entry'[s] = entry[s]
      /\ \A n \in Attempts : /\ ClaimSafe(s, n) => ClaimSafe(s, n)'
                             /\ FreedSafe(s, n) => FreedSafe(s, n)'
                             /\ Answered(s, n) => Answered(s, n)'
      /\ FinallyClosed(s) => FinallyClosed(s)'
      /\ \A c \in Contents : SentContent(s, c) => SentContent(s, c)'
  BY <1>6, GrowthKeeps
<1>8. EntrySafe(Scope(r))' /\ entry'[Scope(r)'] = req'[r].content
  BY <1>2, <1>5, <1>6, <1>7 DEF EntrySafe
<1>9. \A n \in Attempts : /\ Answered(Scope(r), n) => Answered(Scope(r), n)'
                          /\ ClaimSafe(Scope(r), n) => ClaimSafe(Scope(r), n)'
                          /\ FreedSafe(Scope(r), n) => FreedSafe(Scope(r), n)'
  BY <1>1, <1>5, <1>7 DEF Answered, ClaimSafe, FreedSafe
<1>10. FinallyClosed(Scope(r)) => FinallyClosed(Scope(r))'
  BY <1>1, <1>5, <1>7 DEF FinallyClosed, ClosedAt
<1>11. \A c \in Contents : SentContent(Scope(r), c) => SentContent(Scope(r), c)'
  BY <1>1, <1>5, <1>7 DEF SentContent
<1> QED BY <1>4, <1>8, <1>9, <1>10, <1>11

LEMMA EnteredStep ==
  ASSUME TypeInv, JournalInv, NEW r \in Requests, pc[r] \in Entered, SameFiles,
         NEW step, NEW l, GoWith(r, step, l),
         step # "idle" => RequestInv(r)',
         step \in Owning => pc[r] \in Owning /\ l.n = loc[r].n,
         \A a \in told' : a \in told \/ ToldInv(a)'
  PROVE  JournalInv'
<1>1. /\ pc'[r] = step /\ Alone(r)
      /\ step # "idle" => /\ loc'[r] = l /\ req'[r] = req[r]
                          /\ Scope(r)' = Scope(r)
  BY EnteredNow, MoveFacts
<1>2. CASE step = "idle"
  <2>1. RequestInv(r)' /\ pc'[r] \notin Owning
    BY <1>1, <1>2, UnheldFree DEF Unheld
  <2> QED BY <1>1, <2>1, SameQuiet, QuietStep
<1>3. CASE step # "idle"
  BY <1>1, <1>3, SameQuiet, QuietStep
<1> QED BY <1>2, <1>3

(* Steps whose destination asks only for the entry. *)
Plain == {"closed", "rehold", "reholdSync", "record", "attempt"}

LEMMA PlainStep ==
  ASSUME TypeInv, JournalInv, NEW r \in Requests, pc[r] \in Entered, SameFiles,
         NEW step \in Plain \cup {"idle"}, NEW l, GoWith(r, step, l), UNCHANGED told
  PROVE  JournalInv'
<1>1. step # "idle" => RequestInv(r)'
  <2> SUFFICES ASSUME step # "idle" PROVE RequestInv(r)'
    OBVIOUS
  <2>1. pc'[r] = step /\ req'[r] = req[r] /\ Scope(r)' = Scope(r)
    BY EnteredNow, MoveFacts
  <2> QED BY <2>1, EnteredKeeps DEF RequestInv, Plain, Owning
<1>2. step \notin Owning
  BY DEF Plain, Owning
<1> QED BY <1>1, <1>2, EnteredStep

(* Where a request that found a close goes. *)
LEMMA ClosedKeyStep ==
  ASSUME TypeInv, JournalInv, NEW r \in Requests, pc[r] \in Entered, SameFiles,
         NEW l, NEW k, GoWith(r, ClosedKey(r, k), l), UNCHANGED told, IsClosed(Scope(r))
  PROVE  JournalInv'
<1>1. ClosedKey(r, k) \in {"idle", "closedSync"}
  BY DEF ClosedKey
<1>2. ClosedKey(r, k) # "idle" => RequestInv(r)'
  <2> SUFFICES ASSUME ClosedKey(r, k) = "closedSync" PROVE RequestInv(r)'
    BY <1>1
  <2>1. pc'[r] = "closedSync" /\ req'[r] = req[r] /\ Scope(r)' = Scope(r)
    BY EnteredNow, MoveFacts
  <2> QED BY <2>1, EnteredKeeps DEF RequestInv, Owning
<1>3. ClosedKey(r, k) \notin Owning
  BY <1>1 DEF Owning
<1> QED BY <1>2, <1>3, EnteredStep

LEMMA ReadSteps ==
  ASSUME TypeInv, JournalInv, NEW r \in Requests,
         Closed(r) \/ Rehold(r) \/ ReholdSync(r) \/ CloseSync(r) \/ Recheck(r)
  PROVE  JournalInv'
<1>1. CASE Closed(r)
  <2>1. SameFiles /\ pc[r] \in Entered /\ UNCHANGED told
    BY <1>1, SyncSame DEF Closed, Entered, Steps
  <2>2. CASE IsClosed(Scope(r))
    BY <1>1, <2>1, <2>2, ClosedKeyStep DEF Closed, Go
  <2>3. CASE ~ IsClosed(Scope(r))
    <3>1. \E step \in Plain : GoWith(r, step, loc[r])
      BY <1>1, <2>3 DEF Closed, Go, Plain
    <3> QED BY <2>1, <3>1, PlainStep
  <2> QED BY <2>2, <2>3
<1>2. CASE Rehold(r)
  <2>1. SameFiles /\ pc[r] \in Entered /\ UNCHANGED told
    BY <1>2 DEF Rehold, HoldKeyIndex, SameFiles, Entered, Steps
  <2>2. \E step \in Plain : \E l : GoWith(r, step, l)
    BY <1>2 DEF Rehold, HoldKeyIndex, Go, Plain
  <2> QED BY <2>1, <2>2, PlainStep
<1>3. CASE ReholdSync(r)
  <2>1. SameFiles /\ pc[r] \in Entered /\ UNCHANGED told
    BY <1>3, SyncSame DEF ReholdSync, Entered, Steps
  <2>2. \E step \in Plain : \E l : GoWith(r, step, l)
    BY <1>3 DEF ReholdSync, Plain
  <2> QED BY <2>1, <2>2, PlainStep
<1>4. CASE CloseSync(r)
  <2>1. SameFiles /\ pc[r] \in Entered /\ UNCHANGED told
    BY <1>4, SyncSame DEF CloseSync, Entered, Steps
  <2>2. IsClosed(Scope(r))
    BY <1>4 DEF CloseSync, JournalInv, RequestInv
  <2> QED BY <1>4, <2>1, <2>2, ClosedKeyStep DEF CloseSync, Go
<1>5. CASE Recheck(r)
  <2>1. SameFiles /\ pc[r] \in Entered /\ UNCHANGED told
    BY <1>5, SyncSame DEF Recheck, Entered, Steps
  <2>2. CASE IsClosed(Scope(r))
    BY <1>5, <2>1, <2>2, ClosedKeyStep DEF Recheck, Go
  <2>3. CASE ~ IsClosed(Scope(r))
    <3>1. GoWith(r, "stamp", loc[r])
      BY <1>5, <2>3 DEF Recheck, Go
    <3>2. /\ pc'[r] = "stamp" /\ req'[r] = req[r] /\ loc'[r] = loc[r]
          /\ Scope(r)' = Scope(r)
      BY <2>1, <3>1, EnteredNow, MoveFacts
    <3>3. loc[r].uncertain
      BY <1>5 DEF Recheck, JournalInv, RequestInv
    <3>4. RequestInv(r)'
      BY <2>1, <3>2, <3>3, EnteredKeeps DEF RequestInv, Owning
    <3> QED BY <2>1, <3>1, <3>4, EnteredStep DEF Owning
  <2> QED BY <2>2, <2>3
<1> QED BY <1>1, <1>2, <1>3, <1>4, <1>5

-----------------------------------------------------------------------------
(* Answers. *)

LEMMA AnswerStep ==
  ASSUME TypeInv, JournalInv, NEW r \in Requests, pc[r] \in Entered, SameFiles,
         NEW x, Answer(r, x),
         NEW s \in Scopes, s = Scope(r), NEW n \in Attempts, n = loc[r].n,
         NEW c \in Contents, c = req[r].content,
         x \in {"not-dispatched", "key-closed"} => FinallyClosed(s)',
         x = "retry" => FreedSafe(s, n)',
         x = "response" => SentContent(s, c)
  PROVE  JournalInv'
<1>1. GoWith(r, "idle", loc[r])
  BY DEF Answer, Go
<1>2. x = "response" => SentContent(s, c)'
  BY DEF SentContent, SameFiles
<1>3. ASSUME NEW a \in told', a \notin told
      PROVE  ToldInv(a)'
  <2>1. a = [scope |-> s, content |-> c, answer |-> x,
             n |-> IF x = "retry" THEN n ELSE 1]
    BY <1>3 DEF Answer
  <2> QED BY <1>2, <2>1 DEF ToldInv
<1> QED BY <1>1, <1>3, EnteredStep DEF Owning

LEMMA AnswerSteps ==
  ASSUME TypeInv, JournalInv, NEW r \in Requests,
         \/ ReadRecord(r) \/ ClosedSync(r) \/ ClosedAnswer(r)
         \/ ReleaseSync(r) \/ PublishSync(r)
  PROVE  JournalInv'
<1>1. SameFiles /\ pc[r] \in Entered
  BY SyncSame
     DEF ReadRecord, ClosedSync, ClosedAnswer, ReleaseSync, PublishSync, Entered, Steps
<1>2. Scope(r) \in Scopes /\ loc[r].n \in Attempts /\ req[r].content \in Contents
  BY <1>1, EnteredNow
<1>3. PICK s \in Scopes, n \in Attempts, c \in Contents :
        s = Scope(r) /\ n = loc[r].n /\ c = req[r].content
  BY <1>2
<1>4. /\ EntrySafe(s) /\ entry[s] = c /\ FilesInv(s) /\ RequestInv(r)
  BY <1>1, <1>3, EnteredNow DEF JournalInv
<1>5. CASE ReadRecord(r)
  <2>1. CASE record[s] = None
    BY <1>1, <1>3, <1>5, <2>1, PlainStep DEF ReadRecord, Go, Plain
  <2>2. CASE record[s] # None
    <3>1. record[s].receipt = "synced" /\ record[s] \in Records
      BY <1>4, <2>2 DEF FilesInv, TypeInv, TypeOK
    <3>2. Answer(r, record[s].outcome) /\ record[s].outcome \in {"response", "uncertain"}
      BY <1>3, <1>5, <2>2, <3>1 DEF ReadRecord, Records, Outcomes
    <3>3. record[s].outcome = "response" => SentContent(s, c)
      BY <1>4, <2>2 DEF FilesInv
    <3> QED BY <1>1, <1>3, <3>2, <3>3, AnswerStep
  <2> QED BY <2>1, <2>2
<1>6. CASE ClosedSync(r)
  <2>1. FinallyClosed(s)'
    <3>1. PICK m \in Attempts : marker[s][m] = "closed"
      BY <1>3, <1>4, <1>6 DEF ClosedSync, RequestInv, IsClosed, ClosedAt
    <3>2. <<"entry", s, 0>> \in durable' /\ <<"marker", s, m>> \in durable'
      BY <1>3, <1>4, <1>6, <3>1 DEF ClosedSync, SyncEntry, EntryNames, EntrySafe
    <3>3. marker'[s][m] = "closed"
      BY <1>1, <3>1 DEF SameFiles
    <3> QED BY <3>2, <3>3 DEF FinallyClosed, ClosedAt
  <2>2. CASE req[r].reconcile
    <3>1. GoWith(r, "closedHold", loc[r]) /\ UNCHANGED told
      BY <1>6, <2>2 DEF ClosedSync, Go
    <3>2. pc'[r] = "closedHold" /\ req'[r] = req[r] /\ Scope(r)' = s
      BY <1>1, <1>3, <3>1, EnteredNow, MoveFacts
    <3>3. FinallyClosed(Scope(r))'
      BY <2>1, <3>2 DEF FinallyClosed, ClosedAt
    <3>4. RequestInv(r)'
      BY <1>1, <3>2, <3>3, EnteredKeeps DEF RequestInv, Owning
    <3> QED BY <1>1, <3>1, <3>4, EnteredStep DEF Owning
  <2>3. CASE ~ req[r].reconcile
    BY <1>1, <1>3, <1>6, <2>1, <2>3, AnswerStep DEF ClosedSync
  <2> QED BY <2>2, <2>3
<1>7. CASE ClosedAnswer(r)
  <2>1. FinallyClosed(s)
    BY <1>3, <1>4, <1>7 DEF ClosedAnswer, RequestInv
  <2>2. FinallyClosed(s)'
    BY <1>1, <2>1, SameQuiet, QuietGrows, GrowthKeeps
  <2> QED BY <1>1, <1>3, <1>7, <2>2, AnswerStep DEF ClosedAnswer
<1>8. CASE ReleaseSync(r)
  <2>1. freed[s][n] = "whole"
    BY <1>3, <1>4, <1>8 DEF ReleaseSync, RequestInv, Owning, Owns
  <2>2. FreedSafe(s, n)'
    BY <1>1, <1>3, <1>8, <2>1
       DEF ReleaseSync, SyncEntry, EntryNames, SameFiles, FreedSafe
  <2> QED BY <1>1, <1>3, <1>8, <2>2, AnswerStep DEF ReleaseSync
<1>9. CASE PublishSync(r)
  <2>1. Outcome(r) \in {"response", "uncertain"}
        /\ (Outcome(r) = "response" => ~ loc[r].uncertain)
    BY DEF Outcome
  <2>2. Outcome(r) = "response" => SentContent(s, c)
    BY <1>3, <1>4, <1>9, <2>1 DEF PublishSync, RequestInv
  <2> QED BY <1>1, <1>3, <1>9, <2>1, <2>2, AnswerStep DEF PublishSync
<1> QED BY <1>5, <1>6, <1>7, <1>8, <1>9

-----------------------------------------------------------------------------
(* The other steps that change no file. *)

LEMMA ReserveSyncStep ==
  ASSUME TypeInv, JournalInv, NEW r \in Requests, ReserveSync(r)
  PROVE  JournalInv'
<1>1. SameFiles /\ UNCHANGED told /\ pc[r] = "reserveSync"
  BY SyncSame DEF ReserveSync
<1>2. PICK s \in Scopes : s = Scope(r)
  BY <1>1, Served
<1>3. PICK step \in {"attempt", "closed", "idle"} :
        /\ Go(r, step)
        /\ step # "idle" => loc[r].fresh \/ entry[s] = req[r].content
  BY <1>2 DEF ReserveSync
<1>4. /\ pc'[r] = step /\ Alone(r)
      /\ step # "idle" => req'[r] = req[r] /\ Scope(r)' = s
  BY <1>1, <1>2, <1>3, GoFacts
<1>5. CASE step = "idle"
  BY <1>1, <1>4, <1>5, UnheldStep DEF Unheld
<1>6. CASE step # "idle"
  <2>1. entry[s] = req[r].content
    BY <1>1, <1>2, <1>3, <1>6 DEF JournalInv, RequestInv
  <2>2. entry[s] # None
    BY <1>1, <2>1, Served, ConstantsAssumption
  <2>3. <<"entry", s, 0>> \in durable'
    BY <2>2 DEF ReserveSync, SyncRoot, RootNames
  <2>4. EntrySafe(Scope(r))' /\ entry'[Scope(r)'] = req'[r].content
    BY <1>1, <1>4, <1>6, <2>1, <2>2, <2>3 DEF SameFiles, EntrySafe
  <2>5. RequestInv(r)' /\ pc'[r] \notin Owning
    BY <1>3, <1>4, <1>6, <2>4 DEF RequestInv, Owning
  <2> QED BY <1>1, <1>4, <2>5, SameQuiet, QuietStep
<1> QED BY <1>5, <1>6

LEMMA FindAttemptStep ==
  ASSUME TypeInv, JournalInv, NEW r \in Requests, FindAttempt(r)
  PROVE  JournalInv'
<1>1. SameFiles /\ UNCHANGED told /\ pc[r] \in Entered
  BY SyncSame DEF FindAttempt, Entered, Steps
<1>2. CASE Go(r, "idle")
  BY <1>1, <1>2, PlainStep DEF Go
<1>3. CASE ~ Go(r, "idle")
  <2>1. PICK n \in Attempts :
          /\ Stops(Scope(r), n)
          /\ GoWith(r, Found(r, n),
                    [loc[r] EXCEPT !.n = n,
                       !.uncertain = marker[Scope(r)][n] = "claimed"])
    BY <1>3 DEF FindAttempt
  <2>2. CASE ClosedAt(Scope(r), n)
    <3>1. IsClosed(Scope(r)) /\ Found(r, n) = ClosedKey(r, loc[r])
      BY <2>2 DEF IsClosed, Found
    <3> QED BY <1>1, <2>1, <3>1, ClosedKeyStep
  <2>3. CASE ~ ClosedAt(Scope(r), n)
    <3>1. Found(r, n) \in {"admit", "idle", "close"}
      BY <2>3 DEF Found
    <3>2. CASE Found(r, n) = "idle"
      BY <1>1, <2>1, <3>2, PlainStep
    <3>3. CASE Found(r, n) \in {"admit", "close"}
      <4>1. /\ pc'[r] = Found(r, n) /\ req'[r] = req[r] /\ Scope(r)' = Scope(r)
            /\ loc'[r] = [loc[r] EXCEPT !.n = n,
                       !.uncertain = marker[Scope(r)][n] = "claimed"]
        BY <1>1, <2>1, <3>3, EnteredNow, MoveFacts
      <4>2. loc'[r].n = n /\ \A m \in 1 .. n - 1 : m \in Attempts
        BY <1>1, <4>1, AttemptFacts, EnteredNow, Served DEF Locals
      <4>3. \A m \in 1 .. loc'[r].n - 1 : Answered(Scope(r), m)'
        BY <1>1, <2>1, <4>1, <4>2, EnteredKeeps DEF Stops
      <4>4. RequestInv(r)'
        BY <1>1, <3>3, <4>1, <4>3, EnteredKeeps DEF RequestInv, Owning
      <4> QED BY <1>1, <2>1, <3>3, <4>4, EnteredStep DEF Owning
    <3> QED BY <3>1, <3>2, <3>3
  <2> QED BY <2>2, <2>3
<1> QED BY <1>2, <1>3

(* A request that goes on with its locals, but for those that say how the   *)
(* run ended and which receipt was written.                                 *)
LEMMA OnwardStep ==
  ASSUME TypeInv, JournalInv, NEW r \in Requests, pc[r] \in Entered, SameFiles,
         UNCHANGED told, NEW step, NEW l, GoWith(r, step, l), step # "idle",
         step \in Entered, l.n = loc[r].n,
         step \in {"close", "admit", "claim"} => pc[r] \in {"close", "admit", "claim"},
         step \notin {"closeSync", "closedSync", "running", "recheck"},
         step \notin Owning,
         step \in {"closedHold", "closedHoldSync"} => pc[r] = "closedHold",
         step \in {"stamp", "evidence", "publish", "publishSync"} /\ ~ l.uncertain =>
           \/ pc[r] = "running"
           \/ /\ pc[r] \in {"stamp", "evidence", "publish", "publishSync"}
              /\ ~ loc[r].uncertain,
         step = "publish" => l.receipt = "synced"
  PROVE  JournalInv'
<1>1. /\ pc'[r] = step /\ req'[r] = req[r] /\ loc'[r] = l /\ Scope(r)' = Scope(r)
  BY EnteredNow, MoveFacts
<1>2. RequestInv(r)
  BY DEF JournalInv
<1>3. step \in {"close", "admit", "claim"} =>
        \A m \in 1 .. loc'[r].n - 1 : Answered(Scope(r), m)'
  BY <1>1, <1>2, EnteredNow, EnteredKeeps DEF RequestInv
<1>4. step \in {"closedHold", "closedHoldSync"} => FinallyClosed(Scope(r))'
  BY <1>1, <1>2, EnteredKeeps DEF RequestInv
<1>5. step \in {"stamp", "evidence", "publish", "publishSync"} /\ ~ l.uncertain
        => SentContent(Scope(r), req[r].content)'
  <2> SUFFICES ASSUME step \in {"stamp", "evidence", "publish", "publishSync"},
                      ~ l.uncertain
               PROVE  SentContent(Scope(r), req[r].content)'
    OBVIOUS
  <2>1. SentContent(Scope(r), req[r].content)
    BY <1>2 DEF RequestInv
  <2> QED BY <1>1, <2>1 DEF SentContent, SameFiles
<1>6. RequestInv(r)'
  BY <1>1, <1>3, <1>4, <1>5, EnteredKeeps DEF RequestInv
<1> QED BY <1>6, EnteredStep

LEMMA OnwardSteps ==
  ASSUME TypeInv, JournalInv, NEW r \in Requests,
         \/ ClosedHold(r) \/ Finish(r) \/ ReleaseFails(r) \/ Stamp(r)
         \/ SyncEvidence(r) \/ Admit(r)
  PROVE  JournalInv'
<1>1. SameFiles /\ pc[r] \in Entered /\ UNCHANGED told
  BY SyncSame DEF ClosedHold, HoldKeyIndex, Finish, ReleaseFails, Stamp,
       SyncEvidence, Admit, Entered, Steps, SameFiles, files
<1>2. loc[r] \in Locals
  BY <1>1, EnteredNow, Served
<1>3. CASE ClosedHold(r)
  <2>1. GoWith(r, "closedHoldSync", loc[r])
        \/ GoWith(r, "idle", [loc[r] EXCEPT !.foreign = TRUE])
    BY <1>3 DEF ClosedHold, HoldKeyIndex, Go
  <2>2. CASE GoWith(r, "closedHoldSync", loc[r])
    BY <1>1, <1>3, <2>2, OnwardStep DEF ClosedHold, Owning, Entered, Steps
  <2>3. CASE GoWith(r, "idle", [loc[r] EXCEPT !.foreign = TRUE])
    BY <1>1, <2>3, PlainStep
  <2> QED BY <2>1, <2>2, <2>3
<1>9. {"stamp", "evidence", "publish"} \subseteq Entered \ Owning
  BY DEF Entered, Owning, Steps
<1>4. CASE Finish(r)
  <2>1. PICK b \in BOOLEAN : GoWith(r, "stamp", [loc[r] EXCEPT !.uncertain = b])
    BY <1>4 DEF Finish
  <2> DEFINE l == [loc[r] EXCEPT !.uncertain = b]
  <2>2. GoWith(r, "stamp", l) /\ l.n = loc[r].n /\ pc[r] = "running"
    BY <1>2, <1>4, <2>1 DEF Locals, Finish
  <2> HIDE DEF l
  <2> QED BY <1>1, <1>9, <2>2, OnwardStep
<1>5. CASE ReleaseFails(r)
  <2> DEFINE l == [loc[r] EXCEPT !.uncertain = TRUE]
  <2>2. GoWith(r, "stamp", l) /\ l.n = loc[r].n /\ l.uncertain
    BY <1>2, <1>5 DEF Locals, ReleaseFails
  <2> HIDE DEF l
  <2> QED BY <1>1, <1>9, <2>2, OnwardStep
<1>6. CASE Stamp(r)
  <2> DEFINE l == [loc[r] EXCEPT !.receipt = "linked"]
  <2>2. /\ GoWith(r, "evidence", l) /\ l.n = loc[r].n
        /\ l.uncertain = loc[r].uncertain /\ pc[r] = "stamp"
    BY <1>2, <1>6 DEF Locals, Stamp
  <2> HIDE DEF l
  <2> QED BY <1>1, <1>9, <2>2, OnwardStep
<1>7. CASE SyncEvidence(r)
  <2> DEFINE l == [loc[r] EXCEPT !.receipt = "synced"]
  <2>2. /\ GoWith(r, "publish", l) /\ l.n = loc[r].n
        /\ l.uncertain = loc[r].uncertain /\ l.receipt = "synced" /\ pc[r] = "evidence"
    BY <1>2, <1>7 DEF Locals, SyncEvidence
  <2> HIDE DEF l
  <2> QED BY <1>1, <1>9, <2>2, OnwardStep
<1>8. CASE Admit(r)
  <2>1. CASE ~ loc[r].uncertain
    BY <1>1, <1>8, <2>1, OnwardStep DEF Admit, Go, Owning, Entered, Steps
  <2>2. CASE loc[r].uncertain
    <3>1. GoWith(r, "recheck", loc[r])
      BY <1>8, <2>2 DEF Admit, Go
    <3>2. /\ pc'[r] = "recheck" /\ req'[r] = req[r] /\ loc'[r] = loc[r]
      BY <1>1, <3>1, EnteredNow, MoveFacts
    <3>3. RequestInv(r)'
      BY <1>1, <2>2, <3>2, EnteredKeeps DEF RequestInv, Owning
    <3> QED BY <1>1, <3>1, <3>3, EnteredStep DEF Owning
  <2> QED BY <2>1, <2>2
<1> QED BY <1>3, <1>4, <1>5, <1>6, <1>7, <1>8

-----------------------------------------------------------------------------
(* The owner of a marker. *)

LEMMA OwnerNow ==
  ASSUME TypeInv, JournalInv, NEW r \in Requests, pc[r] \in Owning
  PROVE  /\ pc[r] \in Entered /\ Owns(r) /\ FilesInv(Scope(r))
         /\ Scope(r) \in Scopes /\ loc[r].n \in Attempts
<1>1. pc[r] \in Entered
  BY DEF Owning, Entered, Steps
<1> QED BY <1>1, EnteredNow DEF JournalInv, RequestInv

(* Nothing was sent under a key whose marker has an owner that found no     *)
(* answer to it: a send would stand above answered attempts, and below it   *)
(* there is one the owner found answered.                                   *)
LEMMA NothingSent ==
  ASSUME TypeInv, NEW s \in Scopes, FilesInv(s), NEW n \in Attempts,
         freed[s][n] # "whole", \A m \in 1 .. n - 1 : Answered(s, m),
         \A i \in DOMAIN sent[s] : sent[s][i].n # n
  PROVE  sent[s] = <<>>
<1> SUFFICES ASSUME sent[s] # <<>> PROVE FALSE
  OBVIOUS
<1>1. 1 \in DOMAIN sent[s]
  BY SentTypes
<1> DEFINE k == sent[s][1].n
<1>2. k \in Attempts /\ k # n /\ freed[s][k] # "whole"
      /\ \A m \in 1 .. k - 1 : FreedSafe(s, m)
  BY <1>1, SentTypes DEF FilesInv
<1>3. k < n \/ n < k
  BY <1>2, AttemptFacts
<1> HIDE DEF k
<1> QED BY <1>2, <1>3, AttemptFacts DEF Answered, FreedSafe

LEMMA ClaimSyncStep ==
  ASSUME TypeInv, JournalInv, NEW r \in Requests, ClaimSync(r) \/ NotStarted(r)
  PROVE  JournalInv'
<1>1. SameFiles /\ UNCHANGED told /\ pc[r] \in Owning \ {"releaseSync"}
  BY SyncSame DEF ClaimSync, NotStarted, Owning
<1>2. PICK step \in {"run", "release"} : GoWith(r, step, loc[r])
        /\ (step = "run" => ClaimSync(r)) /\ (step = "release" => NotStarted(r))
  BY DEF ClaimSync, NotStarted, Go
<1>3. PICK s \in Scopes, n \in Attempts : s = Scope(r) /\ n = loc[r].n
  BY <1>1, OwnerNow
<1>4. pc'[r] = step /\ req'[r] = req[r] /\ loc'[r] = loc[r] /\ Scope(r)' = s
  BY <1>1, <1>2, <1>3, OwnerNow, EnteredNow, MoveFacts
<1>5. Owns(r) /\ FilesInv(s) /\ pc[r] \in Entered
  BY <1>1, <1>3, OwnerNow
<1>6. \A m \in 1 .. n - 1 : m \in Attempts
  BY AttemptFacts
<1>7. ClaimSafe(s, n)' /\ \A m \in 1 .. n - 1 : FreedSafe(s, m)'
  <2>1. CASE step = "run"
    BY <1>1, <1>2, <1>3, <1>5, <1>6, <2>1
       DEF ClaimSync, SyncEntry, EntryNames, SameFiles, Owns, Answered,
           ClaimSafe, FreedSafe
  <2>2. CASE step = "release"
    BY <1>1, <1>2, <1>3, <1>5, <1>6, <2>2
       DEF NotStarted, SameFiles, Owns, ClaimSafe, FreedSafe
  <2> QED BY <2>1, <2>2
<1>8. Owns(r)'
  <2>1. /\ marker'[s][n] = "claimed" /\ freed'[s][n] # "whole"
        /\ \A i \in DOMAIN sent'[s] : sent'[s][i].n # n
        /\ \A m \in 1 .. n - 1 : Answered(s, m)'
    BY <1>1, <1>3, <1>5, <1>6 DEF Owns, SameFiles, Answered
  <2>2. step = "run" => ~ IsClosed(s)'
    BY <1>1, <1>2, <1>3, <1>5 DEF Owns, SameFiles, IsClosed, ClosedAt, ClaimSync
  <2>3. n' = loc'[r].n
    BY <1>3, <1>4
  <2>4. step # "releaseSync" /\ step # "claimSync"
    BY <1>2
  <2> QED BY <1>2, <1>3, <1>4, <1>7, <2>1, <2>2, <2>3, <2>4 DEF Owns
<1>9. RequestInv(r)'
  BY <1>1, <1>2, <1>4, <1>5, <1>8, EnteredKeeps DEF RequestInv, Owning
<1> QED BY <1>1, <1>2, <1>5, <1>9, EnteredStep DEF Owning

LEMMA ReleaseStep ==
  ASSUME TypeInv, JournalInv, NEW r \in Requests, Release(r) \/ ReleaseWrite(r)
  PROVE  JournalInv'
<1>1. pc[r] \in {"release", "releaseWrite"} /\ pc[r] \in Owning /\ UNCHANGED told
  BY DEF Release, ReleaseWrite, Owning
<1>2. PICK s \in Scopes, n \in Attempts : s = Scope(r) /\ n = loc[r].n
  BY <1>1, OwnerNow
<1>3. Owns(r) /\ FilesInv(s) /\ pc[r] \in Entered
  BY <1>1, <1>2, OwnerNow
<1>4. PICK v \in {"torn", "whole"}, step \in {"releaseWrite", "releaseSync"} :
        /\ GoWith(r, step, loc[r])
        /\ freed' = [freed EXCEPT ![s][n] = v]
        /\ v = "whole" <=> step = "releaseSync"
        /\ UNCHANGED <<entry, marker, record, index, subject, durable, sent, told>>
  BY <1>2 DEF Release, ReleaseWrite, Go
<1>5. /\ Alone(r) /\ pc'[r] = step /\ req'[r] = req[r] /\ loc'[r] = loc[r]
      /\ Scope(r)' = s
  BY <1>2, <1>3, <1>4, EnteredNow, MoveFacts
<1>6. /\ freed[s][n] # "whole" /\ freed'[s][n] = v
      /\ \A t \in Scopes, m \in Attempts : t # s \/ m # n => freed'[t][m] = freed[t][m]
      /\ \A t \in Scopes : t # s => freed'[t] = freed[t]
  BY <1>1, <1>2, <1>3, <1>4, AttemptWrite DEF Owns, TypeInv, TypeOK
<1>7. \A t \in Scopes : t # s => Quiet(t)
  BY <1>4, <1>6 DEF Quiet
<1>8. Grows(s)
  BY <1>4, <1>6 DEF Grows
<1>9. FilesInv(s)'
  <2>1. \A m \in Attempts : (ClaimSafe(s, m) <=> ClaimSafe(s, m)')
                         /\ (FreedSafe(s, m) => FreedSafe(s, m)')
    BY <1>4, <1>6 DEF ClaimSafe, FreedSafe
  <2>2. EntrySafe(s) /\ EntrySafe(s)'
    BY <1>2, <1>3, <1>4, EnteredNow DEF EntrySafe
  <2>3. ClaimSafe(s, n) /\ \A i \in DOMAIN sent[s] : sent[s][i].n # n
    BY <1>1, <1>2, <1>3 DEF Owns
  <2>4. (IsClosed(s)' <=> IsClosed(s)) /\ (SentContent(s, entry[s])' <=> SentContent(s, entry[s]))
    BY <1>4 DEF IsClosed, ClosedAt, SentContent
  <2>5. \A m \in Attempts : \A k \in 1 .. m - 1 : k \in Attempts
    BY AttemptFacts
  <2>6. \A m \in Attempts : freed'[s][m] # "none" => ClaimSafe(s, m)'
    BY <1>3, <1>6, <2>1, <2>3 DEF FilesInv
  <2>7. \A i \in DOMAIN sent[s] : /\ sent[s][i].n \in Attempts
                                  /\ freed'[s][sent[s][i].n] # "whole"
    BY <1>3, <1>6, <2>3, SentTypes DEF FilesInv
  <2> QED BY <1>3, <1>4, <2>1, <2>2, <2>4, <2>5, <2>6, <2>7 DEF FilesInv
<1>10. \A t \in Scopes : Grows(t) /\ FilesInv(t)'
  BY <1>7, <1>8, <1>9, QuietGrows, QuietFiles DEF JournalInv
<1>11. ASSUME NEW p \in Requests \ {r}, pc[p] # "idle"
       PROVE  Undisturbed(p)
  <2>1. CASE Scope(p) # s
    BY <1>7, <1>11, <2>1, QuietUndisturbed, Served DEF JournalInv
  <2>2. CASE Scope(p) = s
    <3> SUFFICES ASSUME pc[p] \in Owning PROVE Undisturbed(p)
      BY DEF Undisturbed
    <3>1. loc[p].n # n /\ loc[p].n \in Attempts /\ Owns(p)
      BY <1>1, <1>2, <2>2, OwnerNow DEF JournalInv, OneOwner
    <3> QED BY <1>4, <1>6, <2>2, <3>1 DEF Undisturbed, Owns, IsClosed, ClosedAt
  <2> QED BY <2>1, <2>2
<1>12. RequestInv(r)'
  <2>1. EntrySafe(Scope(r))' /\ entry'[Scope(r)'] = req'[r].content
    BY <1>2, <1>3, <1>4, <1>5, EnteredNow DEF EntrySafe
  <2>2. \A m \in 1 .. n - 1 : m \in Attempts /\ m # n
    BY AttemptFacts
  <2>3. /\ marker'[s][n] = "claimed" /\ ClaimSafe(s, n)'
        /\ \A i \in DOMAIN sent'[s] : sent'[s][i].n # n
        /\ \A m \in 1 .. n - 1 : Answered(s, m)' /\ FreedSafe(s, m)'
    BY <1>1, <1>2, <1>3, <1>4, <1>6, <2>2 DEF Owns, Answered, FreedSafe, ClaimSafe
  <2>4. n = loc'[r].n
    BY <1>2, <1>5
  <2>5. Owns(r)'
    BY <1>4, <1>5, <1>6, <2>3, <2>4 DEF Owns
  <2> QED BY <1>4, <1>5, <2>1, <2>5 DEF RequestInv
<1>13. Scope(r)' = Scope(r) /\ loc'[r].n = loc[r].n
  BY <1>2, <1>5
<1> QED BY <1>1, <1>5, <1>10, <1>11, <1>12, <1>13, StepKeeps

-----------------------------------------------------------------------------
(* The steps that write an entry, a marker, a record or a send. *)

LEMMA StartStep ==
  ASSUME TypeInv, JournalInv, NEW r \in Requests, Start(r)
  PROVE  JournalInv'
<1>1. /\ pc[r] = "run" /\ pc[r] \in Owning /\ UNCHANGED told
      /\ UNCHANGED <<entry, marker, freed, record, durable>>
  BY DEF Start, Owning, files
<1>2. PICK s \in Scopes, n \in Attempts : s = Scope(r) /\ n = loc[r].n
  BY <1>1, OwnerNow
<1>3. Owns(r) /\ FilesInv(s) /\ pc[r] \in Entered
  BY <1>1, <1>2, OwnerNow
<1>4. /\ Alone(r) /\ pc'[r] = "running" /\ req'[r] = req[r] /\ Scope(r)' = s
  BY <1>2, <1>3, EnteredNow, GoFacts DEF Start
<1>5. sent[s] = <<>>
  BY <1>1, <1>2, <1>3, NothingSent DEF Owns
<1> DEFINE e == [n |-> n, content |-> req[r].content, held |-> Holds(r)]
<1>6. sent'[s] = <<e>> /\ \A t \in Scopes : t # s => sent'[t] = sent[t]
  BY <1>2, <1>5 DEF Start, TypeInv, TypeOK
<1>7. /\ DOMAIN sent'[s] = {1} /\ Len(sent'[s]) = 1
      /\ sent'[s][1].n = n /\ sent'[s][1].content = req[r].content
  BY <1>6
<1>8. \A t \in Scopes : t # s => Quiet(t)
  BY <1>1, <1>6 DEF Quiet
<1>9. Grows(s)
  BY <1>1, <1>5, <1>7 DEF Grows
<1>10. EntrySafe(s) /\ EntrySafe(s)' /\ entry'[s] = req[r].content
  BY <1>1, <1>2, <1>3, EnteredNow DEF EntrySafe
<1>11. FilesInv(s)'
  <2>1. ClaimSafe(s, n) /\ freed[s][n] # "whole" /\ ~ IsClosed(s)
        /\ \A m \in 1 .. n - 1 : FreedSafe(s, m)
    BY <1>1, <1>2, <1>3 DEF Owns
  <2>2. ClaimSafe(s, n)' /\ freed'[s][n] # "whole" /\ ~ IsClosed(s)'
        /\ \A m \in 1 .. n - 1 : FreedSafe(s, m)'
    BY <1>1, <2>1 DEF ClaimSafe, FreedSafe, IsClosed, ClosedAt
  <2>3. \A m \in Attempts : ClaimSafe(s, m) <=> ClaimSafe(s, m)'
    BY <1>1 DEF ClaimSafe
  <2>4. \A m \in Attempts : \A k \in 1 .. m - 1 : k \in Attempts
    BY AttemptFacts
  <2>5. SentContent(s, entry[s])'
    BY <1>7, <1>10 DEF SentContent
  <2> QED BY <1>1, <1>3, <1>7, <1>10, <2>2, <2>3, <2>4, <2>5 DEF FilesInv
<1>12. \A t \in Scopes : Grows(t) /\ FilesInv(t)'
  BY <1>8, <1>9, <1>11, QuietGrows, QuietFiles DEF JournalInv
<1>13. ASSUME NEW p \in Requests \ {r}, pc[p] # "idle"
       PROVE  Undisturbed(p)
  <2>1. CASE Scope(p) # s
    BY <1>8, <1>13, <2>1, QuietUndisturbed, Served DEF JournalInv
  <2>2. CASE Scope(p) = s
    <3> SUFFICES ASSUME pc[p] \in Owning PROVE Undisturbed(p)
      BY DEF Undisturbed
    <3>1. loc[p].n # n /\ loc[p].n \in Attempts /\ Owns(p)
      BY <1>1, <1>2, <2>2, OwnerNow DEF JournalInv, OneOwner
    <3> QED BY <1>1, <1>7, <2>2, <3>1 DEF Undisturbed, Owns, IsClosed, ClosedAt
  <2> QED BY <2>1, <2>2
<1>14. RequestInv(r)' /\ pc'[r] \notin Owning
  <2>1. EntrySafe(Scope(r))' /\ entry'[Scope(r)'] = req'[r].content
    BY <1>4, <1>10 DEF EntrySafe
  <2>2. SentContent(Scope(r), req[r].content)'
    BY <1>4, <1>7 DEF SentContent
  <2> QED BY <1>4, <2>1, <2>2 DEF RequestInv, Owning
<1> QED BY <1>1, <1>4, <1>12, <1>13, <1>14, StepKeeps

LEMMA PublishStep ==
  ASSUME TypeInv, JournalInv, NEW r \in Requests, Publish(r)
  PROVE  JournalInv'
<1>1. pc[r] = "publish" /\ pc[r] \in Entered /\ UNCHANGED told
      /\ UNCHANGED <<entry, marker, freed, sent, durable>>
  BY DEF Publish, Entered, Steps
<1>2. PICK s \in Scopes : s = Scope(r)
  BY <1>1, EnteredNow
<1>3. CASE record[s] # None
  <2>1. GoWith(r, "idle", loc[r]) /\ SameFiles
    BY <1>2, <1>3 DEF Publish, Go, SameFiles
  <2> QED BY <1>1, <2>1, PlainStep
<1>4. CASE record[s] = None
  <2>1. /\ record' = [record EXCEPT ![s] =
                        [outcome |-> Outcome(r), receipt |-> loc[r].receipt]]
        /\ Go(r, "publishSync")
    BY <1>2, <1>4 DEF Publish
  <2>2. /\ Alone(r) /\ pc'[r] = "publishSync" /\ req'[r] = req[r]
        /\ loc'[r] = loc[r] /\ Scope(r)' = s
    BY <1>1, <1>2, <2>1, GoFacts
  <2>3. record'[s] = [outcome |-> Outcome(r), receipt |-> loc[r].receipt]
        /\ \A t \in Scopes : t # s => record'[t] = record[t]
    BY <2>1 DEF TypeInv, TypeOK
  <2>4. \A t \in Scopes : t # s => Quiet(t)
    BY <1>1, <2>3 DEF Quiet
  <2>5. Grows(s)
    BY <1>1 DEF Grows
  <2>6. /\ EntrySafe(s) /\ EntrySafe(s)' /\ entry[s] = req[r].content
        /\ loc[r].receipt = "synced" /\ FilesInv(s)
        /\ ~ loc[r].uncertain => SentContent(s, req[r].content)
    BY <1>1, <1>2, EnteredNow DEF EntrySafe, JournalInv, RequestInv
  <2>7. Outcome(r) = "response" => ~ loc[r].uncertain
    BY DEF Outcome
  <2>8. SentContent(s, entry[s]) <=> SentContent(s, entry[s])'
    BY <1>1 DEF SentContent
  <2>9. FilesInv(s)'
    <3>1. /\ record'[s].receipt = "synced"
          /\ record'[s].outcome = "response" => SentContent(s, entry[s])'
      BY <2>3, <2>6, <2>7, <2>8
    <3>2. \A m \in Attempts : /\ ClaimSafe(s, m) <=> ClaimSafe(s, m)'
                              /\ FreedSafe(s, m) <=> FreedSafe(s, m)'
      BY <1>1 DEF ClaimSafe, FreedSafe
    <3>3. \A m \in Attempts : \A k \in 1 .. m - 1 : k \in Attempts
      BY AttemptFacts
    <3>4. IsClosed(s)' <=> IsClosed(s)
      BY <1>1 DEF IsClosed, ClosedAt
    <3>5. \A i \in DOMAIN sent[s] : sent[s][i].n \in Attempts
      BY SentTypes
    <3> QED BY <1>1, <2>6, <3>1, <3>2, <3>3, <3>4, <3>5 DEF FilesInv
  <2>10. \A t \in Scopes : Grows(t) /\ FilesInv(t)'
    BY <2>4, <2>5, <2>9, QuietGrows, QuietFiles DEF JournalInv
  <2>11. ASSUME NEW p \in Requests \ {r}, pc[p] # "idle" PROVE Undisturbed(p)
    BY <1>1, <2>11, Served
       DEF JournalInv, RequestInv, Owns, Undisturbed, IsClosed, ClosedAt
  <2>12. RequestInv(r)' /\ pc'[r] \notin Owning
    <3>1. EntrySafe(Scope(r))' /\ entry'[Scope(r)'] = req'[r].content
      BY <1>1, <2>2, <2>6 DEF EntrySafe
    <3>2. ~ loc[r].uncertain => SentContent(Scope(r), req[r].content)'
      BY <1>1, <2>2, <2>6 DEF SentContent
    <3> QED BY <2>2, <3>1, <3>2 DEF RequestInv, Owning
  <2> QED BY <1>1, <2>2, <2>10, <2>11, <2>12, StepKeeps
<1> QED BY <1>3, <1>4

(* An entry is made where there was none: nothing in its scope is relied on. *)
LEMMA NewEntry ==
  ASSUME TypeInv, JournalInv, NEW r \in Requests, NEW s \in Scopes,
         entry[s] = None, NEW c \in Contents, entry' = [entry EXCEPT ![s] = c],
         \/ marker' = marker
         \/ marker' = [marker EXCEPT ![s][1] = "closed"],
         UNCHANGED <<freed, record, sent, told>>, durable \subseteq durable',
         Alone(r), RequestInv(r)', pc'[r] \notin Owning
  PROVE  JournalInv'
<1>1. /\ FilesInv(s) /\ ~ EntrySafe(s) /\ c # None
      /\ \A n \in Attempts : marker[s][n] = "none" /\ freed[s][n] = "none"
      /\ sent[s] = <<>> /\ record[s] = None
  BY ConstantsAssumption DEF JournalInv, FilesInv, EntrySafe
<1>2. entry'[s] = c /\ \A t \in Scopes : t # s => entry'[t] = entry[t]
  BY DEF TypeInv, TypeOK
<1>3. /\ \A t \in Scopes : t # s => marker'[t] = marker[t]
      /\ \A n \in Attempts : n # 1 => marker'[s][n] = "none"
      /\ marker'[s][1] # "claimed"
  BY <1>1, AttemptWrite, AttemptFacts DEF TypeInv, TypeOK
<1>4. \A t \in Scopes : t # s => Quiet(t)
  BY <1>2, <1>3 DEF Quiet
<1>5. Grows(s)
  BY <1>1 DEF Grows
<1>6. FilesInv(s)'
  <2>1. sent'[s] = <<>> /\ DOMAIN sent'[s] = {} /\ Len(sent'[s]) = 0 /\ record'[s] = None
    BY <1>1
  <2>2. \A n \in Attempts : freed'[s][n] = "none" /\ (n # 1 => marker'[s][n] = "none")
                            /\ marker'[s][n] # "claimed"
    BY <1>1, <1>3
  <2>3. \A n \in Attempts : marker'[s][n] # "none" => 1 .. n - 1 = {}
    BY <2>2
  <2> QED BY <1>1, <1>2, <2>1, <2>2, <2>3 DEF FilesInv
<1>7. \A t \in Scopes : Grows(t) /\ FilesInv(t)'
  BY <1>4, <1>5, <1>6, QuietGrows, QuietFiles DEF JournalInv
<1>8. ASSUME NEW p \in Requests \ {r}, pc[p] # "idle"
      PROVE  Undisturbed(p)
  <2>1. CASE Scope(p) # s
    BY <1>4, <1>8, <2>1, QuietUndisturbed, Served DEF JournalInv
  <2>2. CASE Scope(p) = s
    BY <1>1, <2>2, OwnerNow, EnteredNow DEF Undisturbed
  <2> QED BY <2>1, <2>2
<1> QED BY <1>7, <1>8, StepKeeps

LEMMA ReserveStep ==
  ASSUME TypeInv, JournalInv, NEW r \in Requests, Reserve(r)
  PROVE  JournalInv'
<1>1. pc[r] = "reserve" /\ UNCHANGED <<marker, freed, record, durable, sent, told>>
  BY DEF Reserve
<1>2. PICK s \in Scopes, c \in Contents : s = Scope(r) /\ c = req[r].content
  BY <1>1, Served
<1> DEFINE fresh == ~ req[r].reconcile /\ ~ loc[r].foreign /\ ~ Has(s)
<1>3. /\ entry' = [entry EXCEPT ![s] = IF fresh THEN c ELSE @]
      /\ GoWith(r, "reserveSync", [loc[r] EXCEPT !.fresh = fresh])
  BY <1>2 DEF Reserve
<1>4. /\ Alone(r) /\ pc'[r] = "reserveSync" /\ req'[r] = req[r] /\ Scope(r)' = s
      /\ loc'[r].fresh = fresh
  BY <1>1, <1>2, <1>3, MoveFacts, Served DEF Locals
<1>5. pc'[r] \notin Owning
  BY <1>4 DEF Owning
<1>6. CASE fresh
  <2>1. entry[s] = None /\ entry' = [entry EXCEPT ![s] = c] /\ entry'[s] = c
    BY <1>3, <1>6 DEF Has, TypeInv, TypeOK
  <2>2. RequestInv(r)'
    BY <1>2, <1>4, <2>1 DEF RequestInv, Entered, Owning
  <2> QED BY <1>1, <1>4, <1>5, <2>1, <2>2, NewEntry
<1>7. CASE ~ fresh
  <2>1. SameFiles
    BY <1>1, <1>3, <1>7 DEF SameFiles, TypeInv, TypeOK
  <2>2. RequestInv(r)'
    BY <1>4, <1>7 DEF RequestInv, Entered, Owning
  <2> QED BY <1>1, <1>4, <1>5, <2>1, <2>2, SameQuiet, QuietStep
<1> QED BY <1>6, <1>7

LEMMA MissingStep ==
  ASSUME TypeInv, JournalInv, NEW r \in Requests, Missing(r)
  PROVE  JournalInv'
<1>1. pc[r] = "missing" /\ UNCHANGED <<sent, told>>
  BY DEF Missing
<1>2. PICK s \in Scopes, c \in Contents : s = Scope(r) /\ c = req[r].content
  BY <1>1, Served
<1>3. PICK step \in {"reserve", "idle"} : Go(r, step)
  BY DEF Missing
<1>4. Alone(r) /\ pc'[r] \in Unheld
  BY <1>1, <1>3, GoFacts DEF Unheld
<1>5. CASE UNCHANGED <<files, durable>>
  BY <1>1, <1>4, <1>5, SyncSame, UnheldStep
<1>6. CASE ~ UNCHANGED <<files, durable>>
  <2>1. /\ entry[s] = None /\ entry' = [entry EXCEPT ![s] = c]
        /\ marker' = [marker EXCEPT ![s][1] = "closed"]
        /\ durable \subseteq durable' /\ UNCHANGED <<freed, record>>
    BY <1>2, <1>6 DEF Missing, Has
  <2> QED BY <1>1, <1>4, <2>1, UnheldFree, NewEntry
<1> QED BY <1>5, <1>6

-----------------------------------------------------------------------------
(* The steps that take the name of an attempt. *)

(* A marker is made where there was none, above answered attempts. *)
LEMMA NewMarker ==
  ASSUME TypeInv, NEW s \in Scopes, NEW n \in Attempts, FilesInv(s), EntrySafe(s),
         marker[s][n] = "none", \A m \in 1 .. n - 1 : Answered(s, m),
         NEW v \in {"claimed", "closed"},
         v = "closed" => sent[s] = <<>>,
         marker' = [marker EXCEPT ![s][n] = v],
         UNCHANGED <<entry, freed, record, durable, sent>>
  PROVE  /\ FilesInv(s)' /\ Grows(s)
         /\ \A t \in Scopes : t # s => Quiet(t)
         /\ marker'[s][n] = v
         /\ \A m \in Attempts : m # n => marker'[s][m] = marker[s][m]
         /\ \A m \in Attempts : m > n => marker[s][m] = "none"
         /\ freed[s][n] = "none"
<1>1. /\ marker'[s][n] = v
      /\ \A m \in Attempts : m # n => marker'[s][m] = marker[s][m]
      /\ \A t \in Scopes : t # s => marker'[t] = marker[t]
  BY AttemptWrite DEF TypeInv, TypeOK
<1>2. ~ ClaimSafe(s, n) /\ freed[s][n] = "none"
  BY DEF ClaimSafe, FilesInv
<1>3. \A m \in Attempts : m > n => marker[s][m] = "none"
  BY <1>2, AttemptFacts DEF FilesInv
<1>4. \A m \in Attempts : /\ ClaimSafe(s, m) => ClaimSafe(s, m)'
                          /\ FreedSafe(s, m) <=> FreedSafe(s, m)'
  BY <1>1, <1>2 DEF ClaimSafe, FreedSafe
<1>5. \A m \in 1 .. n - 1 : m \in Attempts /\ ClaimSafe(s, m)
  BY AttemptFacts DEF Answered, FilesInv
<1>6. \A m \in Attempts : \A k \in 1 .. m - 1 : k \in Attempts
  BY AttemptFacts
<1>7. EntrySafe(s)' /\ (SentContent(s, entry[s])' <=> SentContent(s, entry[s]))
  BY DEF EntrySafe, SentContent
<1>8. \A m \in Attempts : marker'[s][m] # "none" => \A k \in 1 .. m - 1 : ClaimSafe(s, k)'
  BY <1>1, <1>4, <1>5, <1>6 DEF FilesInv
<1>9. IsClosed(s)' => sent'[s] = <<>>
  <2>1. CASE v = "closed"
    BY <2>1
  <2>2. CASE v # "closed"
    <3>1. IsClosed(s)' => IsClosed(s)
      BY <1>1, <2>2 DEF IsClosed, ClosedAt
    <3> QED BY <3>1 DEF FilesInv
  <2> QED BY <2>1, <2>2
<1>10. \A i \in DOMAIN sent[s] : sent[s][i].n \in Attempts
  BY SentTypes
<1>11. \A i \in DOMAIN sent[s] : \A k \in Attempts :
         k = sent[s][i].n =>
           /\ ClaimSafe(s, k)' /\ freed'[s][k] # "whole"
           /\ \A m \in 1 .. k - 1 : FreedSafe(s, m)'
  BY <1>4, <1>6, <1>10 DEF FilesInv
<1>12. \A m \in Attempts : freed'[s][m] # "none" => ClaimSafe(s, m)'
  BY <1>4 DEF FilesInv
<1>13. FilesInv(s)'
  BY <1>7, <1>8, <1>9, <1>10, <1>11, <1>12 DEF FilesInv, EntrySafe
<1>14. Grows(s) /\ \A t \in Scopes : t # s => Quiet(t)
  BY <1>1 DEF Grows, Quiet
<1> QED BY <1>1, <1>2, <1>3, <1>13, <1>14

LEMMA ClaimStep ==
  ASSUME TypeInv, JournalInv, NEW r \in Requests, ClaimDispatch(r)
  PROVE  JournalInv'
<1>1. /\ pc[r] = "claim" /\ pc[r] \in Entered
      /\ UNCHANGED <<entry, freed, record, durable, sent, told>>
  BY DEF ClaimDispatch, Entered, Steps
<1>2. PICK s \in Scopes, n \in Attempts : s = Scope(r) /\ n = loc[r].n
  BY <1>1, EnteredNow
<1>3. /\ FilesInv(s) /\ EntrySafe(s) /\ entry[s] = req[r].content
      /\ \A m \in 1 .. n - 1 : Answered(s, m)
  BY <1>1, <1>2, EnteredNow DEF JournalInv, RequestInv
<1>4. CASE ClosedAt(s, n)
  <2>1. Go(r, ClosedKey(r, loc[r])) /\ UNCHANGED marker
    BY <1>2, <1>4 DEF ClaimDispatch, ClosedAt
  <2> QED BY <1>1, <1>2, <1>4, <2>1, ClosedKeyStep DEF Go, SameFiles, IsClosed
<1>5. CASE marker[s][n] = "claimed"
  <2>1. GoWith(r, "recheck", [loc[r] EXCEPT !.uncertain = TRUE]) /\ UNCHANGED marker
    BY <1>2, <1>5 DEF ClaimDispatch, ClosedAt
  <2>2. pc'[r] = "recheck" /\ req'[r] = req[r] /\ loc'[r].uncertain
    BY <1>1, <2>1, EnteredNow, MoveFacts, Served DEF Locals
  <2>3. SameFiles
    BY <1>1, <2>1 DEF SameFiles
  <2>4. RequestInv(r)'
    BY <1>1, <2>2, <2>3, EnteredKeeps DEF RequestInv, Owning
  <2> QED BY <1>1, <2>1, <2>3, <2>4, EnteredStep DEF Owning
<1>6. CASE marker[s][n] = "none"
  <2>1. marker' = [marker EXCEPT ![s][n] = "claimed"] /\ Go(r, "claimSync")
    BY <1>2, <1>6 DEF ClaimDispatch, ClosedAt
  <2>2. /\ Alone(r) /\ pc'[r] = "claimSync" /\ req'[r] = req[r]
        /\ loc'[r] = loc[r] /\ Scope(r)' = s
    BY <1>1, <1>2, <2>1, GoFacts
  <2>3. /\ FilesInv(s)' /\ Grows(s)
        /\ \A t \in Scopes : t # s => Quiet(t)
        /\ marker'[s][n] = "claimed"
        /\ \A m \in Attempts : m # n => marker'[s][m] = marker[s][m]
        /\ \A m \in Attempts : m > n => marker[s][m] = "none"
        /\ freed[s][n] = "none"
    BY <1>1, <1>3, <1>6, <2>1, NewMarker
  <2>4. \A t \in Scopes : Grows(t) /\ FilesInv(t)'
    BY <2>3, QuietGrows, QuietFiles DEF JournalInv
  <2>5. ASSUME NEW p \in Requests \ {r}, pc[p] # "idle"
        PROVE  Undisturbed(p)
    <3>1. CASE Scope(p) # s
      BY <2>3, <2>5, <3>1, QuietUndisturbed, Served DEF JournalInv
    <3>2. CASE Scope(p) = s
      BY <1>1, <2>3, <3>2, OwnerNow DEF Undisturbed, Owns, IsClosed, ClosedAt
    <3> QED BY <3>1, <3>2
  <2>6. \A p \in Requests \ {r} :
          ~ (pc[p] \in Owning /\ Scope(p) = s /\ loc[p].n = n)
    BY <1>6, OwnerNow DEF Owns
  <2>7. RequestInv(r)'
    <3>1. EntrySafe(Scope(r))' /\ entry'[Scope(r)'] = req'[r].content
      BY <1>1, <1>3, <2>2 DEF EntrySafe
    <3>2. \A i \in DOMAIN sent'[s] : sent'[s][i].n # n
      BY <1>1, <1>3, <1>6 DEF FilesInv, ClaimSafe
    <3>3. \A m \in 1 .. n - 1 : Answered(s, m)'
      BY <1>1, <1>3, <2>3, AttemptFacts DEF Answered
    <3>4. ~ IsClosed(s)'
      <4> SUFFICES ASSUME NEW m \in Attempts, marker'[s][m] = "closed" PROVE FALSE
        BY DEF IsClosed, ClosedAt
      <4>1. m # n /\ ~ (m > n)
        BY <2>3
      <4>2. m \in 1 .. n - 1
        BY <4>1, AttemptFacts
      <4> QED BY <1>3, <2>3, <4>1, <4>2 DEF Answered
    <3>5. n = loc'[r].n /\ freed'[s][n] # "whole"
      BY <1>1, <1>2, <2>2, <2>3
    <3>6. Owns(r)'
      BY <2>2, <2>3, <3>2, <3>3, <3>4, <3>5 DEF Owns
    <3> QED BY <2>2, <3>1, <3>6 DEF RequestInv
  <2> QED BY <1>1, <1>2, <2>2, <2>4, <2>5, <2>6, <2>7, StepKeeps
<1> QED BY <1>2, <1>4, <1>5, <1>6 DEF TypeInv, TypeOK, ClosedAt

(* A close finds no marker above the name it takes and none below it        *)
(* without its answer, so that no other request owns one it may send under. *)
LEMMA CloseStep ==
  ASSUME TypeInv, JournalInv, NEW r \in Requests, CloseDispatch(r)
  PROVE  JournalInv'
<1>1. /\ pc[r] = "close" /\ pc[r] \in Entered
      /\ UNCHANGED <<entry, freed, record, durable, sent, told>>
  BY DEF CloseDispatch, Entered, Steps
<1>2. PICK s \in Scopes, n \in Attempts : s = Scope(r) /\ n = loc[r].n
  BY <1>1, EnteredNow
<1>3. /\ FilesInv(s) /\ EntrySafe(s) /\ entry[s] = req[r].content
      /\ \A m \in 1 .. n - 1 : Answered(s, m)
  BY <1>1, <1>2, EnteredNow DEF JournalInv, RequestInv
<1> DEFINE later == \E m \in n + 1 .. MaxAttempts : marker[s][m] # "none"
<1>4. \/ /\ ~ later /\ marker[s][n] = "none"
         /\ marker' = [marker EXCEPT ![s][n] = "closed"]
         /\ Go(r, "closeSync")
      \/ /\ ~ later /\ ClosedAt(s, n)
         /\ Go(r, ClosedKey(r, loc[r]))
         /\ UNCHANGED marker
      \/ /\ GoWith(r, "admit", [loc[r] EXCEPT !.uncertain = TRUE])
         /\ UNCHANGED marker
  BY <1>2 DEF CloseDispatch
<1>5. CASE ClosedAt(s, n) /\ Go(r, ClosedKey(r, loc[r])) /\ UNCHANGED marker
  BY <1>1, <1>2, <1>5, ClosedKeyStep DEF Go, SameFiles, IsClosed
<1>6. CASE GoWith(r, "admit", [loc[r] EXCEPT !.uncertain = TRUE]) /\ UNCHANGED marker
  <2> DEFINE l == [loc[r] EXCEPT !.uncertain = TRUE]
  <2>1. l.n = loc[r].n /\ GoWith(r, "admit", l)
    BY <1>1, <1>6, EnteredNow, Served DEF Locals
  <2>2. SameFiles /\ "admit" \in Entered \ Owning
    BY <1>1, <1>6 DEF SameFiles, Entered, Owning, Steps
  <2> HIDE DEF l
  <2> QED BY <1>1, <2>1, <2>2, OnwardStep
<1>7. CASE /\ ~ later /\ marker[s][n] = "none"
           /\ marker' = [marker EXCEPT ![s][n] = "closed"]
           /\ Go(r, "closeSync")
  <2>1. \A m \in Attempts : m > n => marker[s][m] = "none"
    BY <1>7, AttemptFacts DEF Attempts
  <2>2. \A k \in Attempts : marker[s][k] = "claimed" => freed[s][k] = "whole"
    <3> SUFFICES ASSUME NEW k \in Attempts, marker[s][k] = "claimed"
                 PROVE  freed[s][k] = "whole"
      OBVIOUS
    <3>1. k # n /\ ~ (k > n)
      BY <1>7, <2>1
    <3>2. k \in 1 .. n - 1
      BY <3>1, AttemptFacts
    <3> QED BY <1>3, <3>2 DEF Answered
  <2>3. sent[s] = <<>>
    <3> SUFFICES ASSUME sent[s] # <<>> PROVE FALSE
      OBVIOUS
    <3>1. 1 \in DOMAIN sent[s]
      BY SentTypes
    <3> QED BY <1>3, <2>2, <3>1, SentTypes DEF FilesInv, ClaimSafe
  <2>4. /\ Alone(r) /\ pc'[r] = "closeSync" /\ req'[r] = req[r] /\ Scope(r)' = s
    BY <1>1, <1>2, <1>7, GoFacts
  <2>5. /\ FilesInv(s)' /\ Grows(s)
        /\ \A t \in Scopes : t # s => Quiet(t)
        /\ marker'[s][n] = "closed"
    BY <1>1, <1>3, <1>7, <2>3, NewMarker
  <2>6. \A t \in Scopes : Grows(t) /\ FilesInv(t)'
    BY <2>5, QuietGrows, QuietFiles DEF JournalInv
  <2>7. ASSUME NEW p \in Requests \ {r}, pc[p] # "idle"
        PROVE  Undisturbed(p)
    <3>1. CASE Scope(p) # s
      BY <2>5, <2>7, <3>1, QuietUndisturbed, Served DEF JournalInv
    <3>2. CASE Scope(p) = s
      BY <1>1, <2>2, <3>2, OwnerNow DEF Undisturbed, Owns
    <3> QED BY <3>1, <3>2
  <2>8. RequestInv(r)' /\ pc'[r] \notin Owning
    <3>1. EntrySafe(Scope(r))' /\ entry'[Scope(r)'] = req'[r].content
      BY <1>1, <1>3, <2>4 DEF EntrySafe
    <3>2. IsClosed(Scope(r))'
      BY <2>4, <2>5 DEF IsClosed, ClosedAt
    <3> QED BY <2>4, <3>1, <3>2 DEF RequestInv, Owning
  <2> QED BY <1>1, <2>4, <2>6, <2>7, <2>8, StepKeeps
<1> QED BY <1>4, <1>5, <1>6, <1>7

-----------------------------------------------------------------------------
(* The host and the operator. *)

LEMMA StillKeeps ==
  ASSUME TypeInv, JournalInv, \A s \in Scopes : Quiet(s), UNCHANGED <<pc, req, loc, told>>
  PROVE  JournalInv'
<1>2. \A s \in Scopes : Grows(s) /\ FilesInv(s)'
  BY QuietGrows, QuietFiles DEF JournalInv
<1>3. \A p \in Requests : RequestInv(p)'
  <2> SUFFICES ASSUME NEW p \in Requests PROVE RequestInv(p)'
    OBVIOUS
  <2>1. CASE pc[p] = "idle"
    BY <2>1, UnheldFree DEF Unheld
  <2>2. CASE pc[p] # "idle"
    BY <1>2, <2>2, Served, QuietUndisturbed, RequestKept DEF JournalInv
  <2> QED BY <2>1, <2>2
<1>4. ASSUME NEW a \in told PROVE ToldInv(a)'
  <2>1. a.scope \in Scopes
    BY DEF TypeInv, TypeOK, Told
  <2> QED BY <1>2, <2>1, ToldKept DEF JournalInv
<1>5. OneOwner'
  BY DEF JournalInv, OneOwner, Scope
<1> QED BY <1>2, <1>3, <1>4, <1>5 DEF JournalInv

LEMMA LoseIndexKeeps ==
  ASSUME TypeInv, JournalInv, LoseIndex
  PROVE  JournalInv'
<1>1. \A s \in Scopes : Quiet(s)
  BY DEF LoseIndex, IndexNames, Quiet
<1> QED BY <1>1, StillKeeps DEF LoseIndex

(* What a crash of the host leaves of one scope. *)
LEMMA CrashLeaves ==
  ASSUME TypeInv, HostCrash, NEW s \in Scopes
  PROVE  /\ EntrySafe(s) => EntrySafe(s)' /\ entry'[s] = entry[s]
         /\ entry'[s] # None => entry'[s] = entry[s] /\ EntrySafe(s)'
         /\ entry'[s] = None => \/ entry[s] = None
                                \/ \A n \in Attempts : /\ marker'[s][n] = "none"
                                                       /\ freed'[s][n] = "none"
         /\ entry'[s] = None /\ entry[s] # None => record'[s] = None
         /\ \A n \in Attempts :
              /\ marker'[s][n] \in {"none", marker[s][n]}
              /\ freed'[s][n] \in {"none", freed[s][n]}
              /\ EntrySafe(s) /\ marker[s][n] # "none" /\ <<"marker", s, n>> \in durable =>
                   marker'[s][n] = marker[s][n] /\ <<"marker", s, n>> \in durable'
              /\ EntrySafe(s) /\ freed[s][n] # "none" /\ <<"freed", s, n>> \in durable =>
                   freed'[s][n] = freed[s][n] /\ <<"freed", s, n>> \in durable'
         /\ record'[s] # None =>
              /\ record[s] # None /\ record'[s].outcome = record[s].outcome
              /\ record[s].receipt = "synced" => record'[s].receipt = "synced"
         /\ sent' = sent /\ told' = told
<1>1. PICK lost \in SUBSET (Present \ durable) : HostCrash!(lost)
  BY DEF HostCrash
<1> DEFINE gone == <<"entry", s, 0>> \in lost
<1>2. /\ entry'[s] = IF gone THEN None ELSE entry[s]
      /\ \A n \in Attempts :
           /\ marker'[s][n] = IF <<"marker", s, n>> \in lost \/ gone
                              THEN "none" ELSE marker[s][n]
           /\ freed'[s][n] = IF <<"freed", s, n>> \in lost \/ gone
                             THEN "none" ELSE freed[s][n]
      /\ sent' = sent /\ told' = told
  BY <1>1
<1>3. \A kind \in {"entry", "marker", "freed"}, n \in 0 .. MaxAttempts :
        <<kind, s, n>> \in durable' <=>
          <<kind, s, n>> \in Present /\ <<kind, s, n>> \notin lost /\ ~ gone
  BY <1>1
<1>4. entry[s] # None => <<"entry", s, 0>> \in Present
  BY DEF Present, RootNames
<1>5. \A n \in Attempts :
        /\ marker[s][n] # "none" => <<"marker", s, n>> \in Present
        /\ freed[s][n] # "none" => <<"freed", s, n>> \in Present
  <2>1. EntryNames(s) \subseteq Present
    BY DEF Present
  <2> QED BY <2>1 DEF EntryNames
<1>6. /\ gone => record'[s] = None
      /\ record'[s] # None =>
           /\ record[s] # None /\ record'[s].outcome = record[s].outcome
           /\ record[s].receipt = "synced" => record'[s].receipt = "synced"
  <2>1. PICK torn \in SUBSET {t \in Scopes : record[t] # None
                                             /\ record[t].receipt = "linked"} :
          record'[s] = IF <<"record", s, 0>> \in lost \/ gone THEN None
                       ELSE IF s \in torn
                       THEN [outcome |-> record[s].outcome, receipt |-> "lost"]
                       ELSE record[s]
    BY <1>1
  <2> QED BY <2>1
<1>7. gone => ~ EntrySafe(s) /\ <<"entry", s, 0>> \notin durable
  BY <1>1 DEF EntrySafe
<1>8. \A x \in durable : x \notin lost
  BY <1>1
<1>9. /\ EntrySafe(s) => EntrySafe(s)' /\ entry'[s] = entry[s]
      /\ entry'[s] # None => entry'[s] = entry[s] /\ EntrySafe(s)'
  BY <1>2, <1>3, <1>4, <1>7, AttemptFacts DEF EntrySafe
<1> HIDE DEF gone
<1> QED BY <1>2, <1>3, <1>5, <1>6, <1>7, <1>8, <1>9, AttemptFacts

LEMMA CrashKeeps ==
  ASSUME TypeInv, JournalInv, HostCrash
  PROVE  JournalInv'
<1>1. \A p \in Requests : pc'[p] = "idle"
  BY DEF HostCrash
<1>2. ASSUME NEW s \in Scopes PROVE FilesInv(s)'
  <2>0. FilesInv(s) /\ sent'[s] = sent[s]
    BY CrashLeaves DEF JournalInv
  <2>1. CASE EntrySafe(s)
    <3>1. /\ EntrySafe(s)' /\ entry'[s] = entry[s] /\ entry'[s] # None
          /\ \A n \in Attempts : /\ ClaimSafe(s, n) => ClaimSafe(s, n)'
                                 /\ FreedSafe(s, n) => FreedSafe(s, n)'
                                 /\ marker'[s][n] \in {"none", marker[s][n]}
                                 /\ freed'[s][n] \in {"none", freed[s][n]}
      BY <2>1, CrashLeaves DEF EntrySafe, ClaimSafe, FreedSafe
    <3>2. IsClosed(s)' => IsClosed(s)
      BY <3>1 DEF IsClosed, ClosedAt
    <3>3. SentContent(s, entry[s])' <=> SentContent(s, entry[s])
      BY <2>0, <3>1 DEF SentContent
    <3>4. record'[s] # None =>
            /\ record'[s].receipt = "synced"
            /\ record'[s].outcome = "response" => SentContent(s, entry[s])'
      BY <2>0, <3>3, CrashLeaves DEF FilesInv
    <3>5. \A m \in Attempts : \A k \in 1 .. m - 1 : k \in Attempts
      BY AttemptFacts
    <3>6. \A i \in DOMAIN sent[s] : sent[s][i].n \in Attempts
      BY SentTypes
    <3> QED BY <2>0, <3>1, <3>2, <3>4, <3>5, <3>6 DEF FilesInv
  <2>2. CASE ~ EntrySafe(s)
    <3>1. /\ sent'[s] = <<>> /\ record[s] = None
          /\ \A n \in Attempts : /\ freed[s][n] = "none"
                                 /\ marker[s][n] # "claimed"
                                 /\ n # 1 => marker[s][n] = "none"
      BY <2>0, <2>2 DEF FilesInv
    <3>6. /\ record'[s] # None => record[s] # None
          /\ \A n \in Attempts : /\ marker'[s][n] \in {"none", marker[s][n]}
                                 /\ freed'[s][n] \in {"none", freed[s][n]}
          /\ entry'[s] = None => \/ entry[s] = None
                                 \/ \A n \in Attempts : marker'[s][n] = "none"
      BY CrashLeaves
    <3>2. /\ record'[s] = None
          /\ \A n \in Attempts : /\ freed'[s][n] = "none"
                                 /\ marker'[s][n] # "claimed"
                                 /\ n # 1 => marker'[s][n] = "none"
      BY <3>1, <3>6
    <3>3. entry'[s] = None => \A n \in Attempts : marker'[s][n] = "none"
      BY <2>0, <3>6 DEF FilesInv
    <3>4. \A n \in Attempts : marker'[s][n] # "none" => 1 .. n - 1 = {}
      BY <3>2
    <3>5. DOMAIN sent'[s] = {} /\ Len(sent'[s]) = 0
      BY <3>1
    <3> QED BY <3>1, <3>2, <3>3, <3>4, <3>5 DEF FilesInv
  <2> QED BY <2>1, <2>2
<1>3. ASSUME NEW a \in told PROVE ToldInv(a)'
  <2>1. a.scope \in Scopes /\ a.n \in Attempts /\ a.content \in Contents
    BY DEF TypeInv, TypeOK, Told
  <2>2. PICK s \in Scopes : s = a.scope
    BY <2>1
  <2>3. FilesInv(s) /\ ToldInv(a)
    BY DEF JournalInv
  <2>4. FinallyClosed(s) => FinallyClosed(s)'
    <3> SUFFICES ASSUME FinallyClosed(s) PROVE FinallyClosed(s)'
      OBVIOUS
    <3>1. PICK n \in Attempts : marker[s][n] = "closed" /\ <<"marker", s, n>> \in durable
      BY DEF FinallyClosed, ClosedAt
    <3>2. EntrySafe(s)
      BY <2>3, <3>1 DEF FinallyClosed, FilesInv, EntrySafe
    <3> QED BY <3>1, <3>2, CrashLeaves DEF FinallyClosed, ClosedAt, EntrySafe
  <2>5. FreedSafe(s, a.n) => FreedSafe(s, a.n)'
    <3> SUFFICES ASSUME FreedSafe(s, a.n) PROVE FreedSafe(s, a.n)'
      OBVIOUS
    <3>1. EntrySafe(s)
      BY <2>1, <2>3 DEF FreedSafe, FilesInv
    <3> QED BY <2>1, <3>1, CrashLeaves DEF FreedSafe
  <2>6. SentContent(s, a.content) => SentContent(s, a.content)'
    BY CrashLeaves DEF SentContent
  <2> QED BY <2>2, <2>3, <2>4, <2>5, <2>6 DEF ToldInv
<1>4. OneOwner' /\ \A p \in Requests : RequestInv(p)'
  BY <1>1, UnheldFree DEF OneOwner, Unheld, Owning
<1> QED BY <1>2, <1>3, <1>4 DEF HostCrash, JournalInv

-----------------------------------------------------------------------------
(* The invariant is inductive. *)

LEMMA InitJournal == Init => JournalInv
<1> SUFFICES ASSUME Init PROVE JournalInv
  OBVIOUS
<1>1. \A s \in Scopes : FilesInv(s)
  <2> SUFFICES ASSUME NEW s \in Scopes PROVE FilesInv(s)
    OBVIOUS
  <2>1. /\ sent[s] = <<>> /\ DOMAIN sent[s] = {} /\ Len(sent[s]) = 0
        /\ record[s] = None /\ entry[s] = None
        /\ \A n \in Attempts : marker[s][n] = "none" /\ freed[s][n] = "none"
    BY DEF Init
  <2> QED BY <2>1 DEF FilesInv
<1>2. \A r \in Requests : RequestInv(r)
  BY DEF Init, RequestInv, Entered, Owning
<1> QED BY <1>1, <1>2 DEF Init, JournalInv, OneOwner, Owning

LEMMA NextJournal == TypeInv /\ JournalInv /\ [Next]_vars => JournalInv'
<1> SUFFICES ASSUME TypeInv, JournalInv, [Next]_vars PROVE JournalInv'
  OBVIOUS
<1>1. CASE UNCHANGED vars
  <2>1. \A s \in Scopes : Quiet(s)
    BY <1>1 DEF vars, Quiet
  <2> QED BY <1>1, <2>1, StillKeeps DEF vars
<1>2. ASSUME NEW r \in Requests, Begin(r) \/ RequestStep(r) \/ Stop(r)
      PROVE  JournalInv'
  BY <1>2, Unheld1, ReadSteps, AnswerSteps, OnwardSteps, ReserveSyncStep,
     FindAttemptStep, ClaimSyncStep, ReleaseStep, StartStep, PublishStep,
     ReserveStep, MissingStep, ClaimStep, CloseStep
     DEF RequestStep
<1> QED BY <1>1, <1>2, CrashKeeps, LoseIndexKeeps DEF Next

(* The journal's inductive invariant holds of every behaviour: what a scope *)
(* holds, what each request relies on, and what each answer said.           *)
THEOREM JournalIsSafe == Spec => [](TypeInv /\ JournalInv)
BY InitType, NextType, InitJournal, NextJournal, PTL DEF Spec

(* The write program is started at most once under a key in one scope,      *)
(* whatever dies and whoever retries.                                       *)
THEOREM AtMostOneSendAlways == Spec => []AtMostOneSend
<1>1. JournalInv => AtMostOneSend
  BY DEF JournalInv, FilesInv, AtMostOneSend
<1> QED BY <1>1, JournalIsSafe, PTL

(* Every answer given stays true: a close, a response, an attempt said to   *)
(* be free; and a record never outlives the receipt it cites.               *)
THEOREM AnswersStayTrue == Spec => []AnswersAreTrue
<1>1. TypeInv /\ JournalInv => AnswersAreTrue
  <2> SUFFICES ASSUME TypeInv, JournalInv PROVE AnswersAreTrue
    OBVIOUS
  <2>1. \A a \in told : a.scope \in Scopes /\ a.n \in Attempts /\ a.content \in Contents
    BY DEF TypeInv, TypeOK, Told
  <2>6. \A s \in Scopes : FinallyClosed(s) => ~ Sent(s)
    BY DEF FinallyClosed, JournalInv, FilesInv, IsClosed, Sent
  <2>2. ClosedMeansUnsent
    BY <2>1, <2>6 DEF ClosedMeansUnsent, WasTold, JournalInv, ToldInv
  <2>3. ResponseWasSent
    BY DEF ResponseWasSent, JournalInv, ToldInv, SentContent
  <2>4. RetryIsFree
    BY <2>1 DEF RetryIsFree, JournalInv, ToldInv, FreedSafe, FilesInv
  <2>5. RecordHasReceipt
    BY DEF RecordHasReceipt, JournalInv, FilesInv
  <2> QED BY <2>2, <2>3, <2>4, <2>5 DEF AnswersAreTrue
<1> QED BY <1>1, JournalIsSafe, PTL

-----------------------------------------------------------------------------
(* The journal implements ActionKey: a start of the write program is Send,  *)
(* every other step is Close of the scopes whose close it makes final, with *)
(* the answer it gives, if any.                                             *)

StatusOf(s) == IF Sent(s) THEN "sent" ELSE IF FinallyClosed(s) THEN "closed" ELSE "open"

LEMMA StepCloses ==
  ASSUME TypeInv, NEW r \in Requests, Begin(r) \/ RequestStep(r) \/ Stop(r)
  PROVE  /\ durable \subseteq durable'
         /\ \A s \in Scopes, n \in Attempts :
              marker[s][n] = "closed" => marker'[s][n] = "closed"
         /\ Start(r) \/ sent' = sent
         /\ told' = told \/ \E a : told' = told \cup {a}
<1>1. Begin(r) \/ pc[r] # "idle"
  BY StepMoves DEF Moves
<1>2. durable \subseteq durable' /\ (Start(r) \/ sent' = sent)
      /\ (told' = told \/ \E a : told' = told \cup {a})
  BY DEF RequestStep, Begin, Stop, Leaf, FirstScope, DelegatedScope, SubjectSync,
    Missing, Hold, HoldSync, Reserve, ReserveSync, Closed, Rehold, ReholdSync,
    ReadRecord, FindAttempt, CloseDispatch, CloseSync, ClosedSync, ClosedHold,
    ClosedAnswer, Admit, ClaimDispatch, ClaimSync, Recheck, Start, NotStarted,
    Finish, Release, ReleaseWrite, ReleaseSync, ReleaseFails, Stamp,
    SyncEvidence, Publish, PublishSync, SyncRoot, SyncEntry, SyncIndex, Answer
<1>3. \A s \in Scopes, n \in Attempts :
        marker[s][n] = "closed" => marker'[s][n] = "closed"
  <2>1. CASE UNCHANGED marker
    BY <2>1
  <2>2. CASE Missing(r) /\ ~ UNCHANGED marker
    <3>1. Scope(r) \in Scopes /\ marker' = [marker EXCEPT ![Scope(r)][1] = "closed"]
      BY <1>1, <2>2, Served DEF Missing, files, Begin
    <3> QED BY <3>1, AttemptWrite, AttemptFacts DEF TypeInv, TypeOK
  <2>3. CASE (CloseDispatch(r) \/ ClaimDispatch(r)) /\ ~ UNCHANGED marker
    <3>1. PICK v \in {"closed", "claimed"} :
            /\ marker[Scope(r)][loc[r].n] = "none"
            /\ marker' = [marker EXCEPT ![Scope(r)][loc[r].n] = v]
      BY <2>3 DEF CloseDispatch, ClaimDispatch
    <3>2. Scope(r) \in Scopes /\ loc[r].n \in Attempts
      BY <2>3, Served DEF CloseDispatch, ClaimDispatch
    <3> QED BY <3>1, <3>2, AttemptWrite DEF TypeInv, TypeOK
  <2>4. UNCHANGED marker \/ Missing(r) \/ CloseDispatch(r) \/ ClaimDispatch(r)
    BY DEF RequestStep, Begin, Stop, Leaf, FirstScope, DelegatedScope, SubjectSync,
      Hold, HoldSync, Reserve, ReserveSync, Closed, Rehold, ReholdSync,
      ReadRecord, FindAttempt, CloseSync, ClosedSync, ClosedHold,
      ClosedAnswer, Admit, ClaimSync, Recheck, Start, NotStarted,
      Finish, Release, ReleaseWrite, ReleaseSync, ReleaseFails, Stamp,
      SyncEvidence, Publish, PublishSync, HoldKeyIndex, files
  <2> QED BY <2>1, <2>2, <2>3, <2>4
<1> QED BY <1>2, <1>3

(* A close that is final stays so, and only Start sends. *)
LEMMA NextCloses ==
  ASSUME TypeInv, JournalInv, [Next]_vars
  PROVE  /\ \A s \in Scopes : FinallyClosed(s) => FinallyClosed(s)'
         /\ sent' = sent \/ \E r \in Requests : Start(r)
         /\ told' = told \/ \E a : told' = told \cup {a}
<1>1. CASE UNCHANGED vars
  BY <1>1 DEF vars, FinallyClosed, ClosedAt
<1>2. CASE \E r \in Requests : Begin(r) \/ RequestStep(r) \/ Stop(r)
  BY <1>2, StepCloses DEF FinallyClosed, ClosedAt
<1>3. CASE LoseIndex
  BY <1>3 DEF LoseIndex, IndexNames, FinallyClosed, ClosedAt
<1>4. CASE HostCrash
  <2>1. ASSUME NEW s \in Scopes, FinallyClosed(s) PROVE FinallyClosed(s)'
    <3>1. PICK n \in Attempts : marker[s][n] = "closed" /\ <<"marker", s, n>> \in durable
      BY <2>1 DEF FinallyClosed, ClosedAt
    <3>2. EntrySafe(s)
      BY <2>1, <3>1 DEF FinallyClosed, JournalInv, FilesInv, EntrySafe
    <3> QED BY <1>4, <3>1, <3>2, CrashLeaves DEF FinallyClosed, ClosedAt, EntrySafe
  <2> QED BY <1>4, <2>1 DEF HostCrash
<1> QED BY <1>1, <1>2, <1>3, <1>4 DEF Next

LEMMA StepImplements ==
  ASSUME TypeInv, JournalInv, TypeInv', JournalInv', [Next]_vars
  PROVE  [Key!Next]_(Key!vars)
<1>0. PICK status, said, status1, said1 :
        /\ status = [s \in Scopes |-> StatusOf(s)]
        /\ said = {<<a.scope, a.answer>> : a \in told}
        /\ status1 = [s \in Scopes |-> StatusOf(s)']
        /\ said1 = {<<a.scope, a.answer>> : a \in told'}
  OBVIOUS
<1>1. \A s \in Scopes : /\ FinallyClosed(s) => ~ Sent(s)
                        /\ FinallyClosed(s)' => ~ Sent(s)'
  BY DEF JournalInv, FilesInv, FinallyClosed, IsClosed, ClosedAt, Sent
<1>2. CASE \E r \in Requests : Start(r)
  <2>1. PICK r \in Requests : Start(r)
    BY <1>2
  <2>2. PICK s \in Scopes, n \in Attempts : s = Scope(r) /\ n = loc[r].n
    BY <2>1, OwnerNow DEF Start, Owning
  <2>3. Owns(r) /\ FilesInv(s) /\ pc[r] = "run"
    BY <2>1, <2>2, OwnerNow DEF Start, Owning
  <2>4. sent[s] = <<>> /\ ~ IsClosed(s)
    BY <2>2, <2>3, NothingSent DEF Owns
  <2>5. sent'[s] # <<>> /\ \A t \in Scopes : t # s => sent'[t] = sent[t]
    BY <2>1, <2>2, <2>4 DEF Start, TypeInv, TypeOK
  <2>6. \A t \in Scopes : FinallyClosed(t)' <=> FinallyClosed(t)
    BY <2>1 DEF Start, files, FinallyClosed, ClosedAt
  <2>7. StatusOf(s) = "open" /\ StatusOf(s)' = "sent"
        /\ \A t \in Scopes : t # s => StatusOf(t)' = StatusOf(t)
    BY <2>4, <2>5, <2>6 DEF StatusOf, Sent, FinallyClosed, IsClosed
  <2>8. status1 = [status EXCEPT ![s] = "sent"] /\ status[s] = "open" /\ said1 = said
    BY <1>0, <2>1, <2>7 DEF Start
  <2>9. Key!Send(s)
    BY <1>0, <2>8 DEF Key!Send, Key!Open, StatusOf
  <2> QED BY <2>9 DEF Key!Next
<1>3. CASE sent' = sent
  <2>0. PICK final \in SUBSET Scopes :
          final = {s \in Scopes : StatusOf(s) = "open" /\ FinallyClosed(s)'}
    OBVIOUS
  <2>1. \A s \in Scopes : FinallyClosed(s) => FinallyClosed(s)'
    BY NextCloses
  <2>2. \A s \in Scopes : StatusOf(s)' = IF s \in final THEN "closed" ELSE StatusOf(s)
    BY <1>1, <1>3, <2>0, <2>1 DEF StatusOf, Sent
  <2>3. final \subseteq {s \in Scopes : status[s] = "open"}
    BY <1>0, <2>0
  <2>4. status1 = [s \in Scopes |-> IF s \in final THEN "closed" ELSE status[s]]
    BY <1>0, <2>2
  <2>5. \/ said1 = said
        \/ \E s \in Scopes, answer \in Answers :
             /\ answer = "response" => status1[s] = "sent"
             /\ answer \in {"not-dispatched", "key-closed"} => status1[s] = "closed"
             /\ said1 = said \cup {<<s, answer>>}
    <3>1. CASE told' = told
      BY <1>0, <3>1
    <3>2. CASE \E a : told' = told \cup {a}
      <4>1. PICK a : told' = told \cup {a}
        BY <3>2
      <4>2. a.scope \in Scopes /\ a.answer \in Answers /\ ToldInv(a)'
        BY <4>1 DEF TypeInv, TypeOK, Told, JournalInv
      <4>3. PICK s \in Scopes : s = a.scope
        BY <4>2
      <4>4. a.answer = "response" => StatusOf(s)' = "sent"
        BY <4>2, <4>3 DEF ToldInv, SentContent, StatusOf, Sent
      <4>5. a.answer \in {"not-dispatched", "key-closed"} => StatusOf(s)' = "closed"
        BY <1>1, <4>2, <4>3 DEF ToldInv, StatusOf
      <4>7. said1 = said \cup {<<s, a.answer>>}
        BY <1>0, <4>1, <4>3
      <4> QED BY <1>0, <4>2, <4>4, <4>5, <4>7
    <3> QED BY <3>1, <3>2, NextCloses
  <2>6. Key!Close(final)
    BY <1>0, <2>3, <2>4, <2>5 DEF Key!Close, Key!Open, Key!Permitted, StatusOf, Answers
  <2> QED BY <2>6 DEF Key!Next
<1> QED BY <1>2, <1>3, NextCloses

(* The journal implements the promise of ActionKey, step by step: under     *)
(* every interleaving and crash a scope's key is sent once or closed, each  *)
(* for good, and no answer contradicts which.                               *)
THEOREM JournalImplementsKey == Spec => ImplementsActionKey
<1>1. Init => Key!Init
  BY DEF Init, Key!Init, Sent, FinallyClosed
<1>2. TypeInv /\ JournalInv /\ (TypeInv /\ JournalInv)' /\ [Next]_vars
        => [Key!Next]_(Key!vars)
  BY StepImplements
<1> QED BY <1>1, <1>2, JournalIsSafe, PTL DEF Spec, ImplementsActionKey, Key!Spec

-----------------------------------------------------------------------------
(* Across scopes: the first scope and the subject's root actor. *)

(* What no step but a crash, or the operator's loss of the index, takes     *)
(* back: a record that is there, and its durability.                        *)
Steady ==
  /\ subject # None => subject' = subject
  /\ \A s \in Scopes : <<"subject", s, 0>> \in durable => <<"subject", s, 0>> \in durable'
  /\ ~ IndexLoss =>
       /\ index # None => index' = index
       /\ \A s \in Scopes : <<"index", s, 0>> \in durable => <<"index", s, 0>> \in durable'

LEMMA SteadyKeeps ==
  ASSUME Steady, NEW s \in Scopes
  PROVE  /\ SubjectSafe(s) => SubjectSafe(s)'
         /\ ~ IndexLoss => (IndexSafe(s) => IndexSafe(s)') /\ (index = s => index' = s)
BY ConstantsAssumption DEF Steady, SubjectSafe, IndexSafe

LEMMA StepSteady ==
  ASSUME TypeInv, NEW r \in Requests, Begin(r) \/ RequestStep(r) \/ Stop(r)
  PROVE  Steady
<1>1. durable \subseteq durable'
  BY StepCloses
<1>2. CASE Hold(r) \/ Rehold(r) \/ ClosedHold(r)
  BY <1>1, <1>2 DEF Hold, Rehold, ClosedHold, HoldKeyIndex, Steady
<1>3. CASE DelegatedScope(r)
  BY <1>1, <1>3 DEF DelegatedScope, Steady
<1>4. CASE UNCHANGED <<index, subject>>
  BY <1>1, <1>4 DEF Steady
<1>5. UNCHANGED <<index, subject>> \/ Hold(r) \/ Rehold(r) \/ ClosedHold(r)
      \/ DelegatedScope(r)
  BY DEF RequestStep, Begin, Stop, Leaf, FirstScope, SubjectSync, Missing,
      HoldSync, Reserve, ReserveSync, Closed, ReholdSync,
      ReadRecord, FindAttempt, CloseDispatch, CloseSync, ClosedSync,
      ClosedAnswer, Admit, ClaimDispatch, ClaimSync, Recheck, Start, NotStarted,
      Finish, Release, ReleaseWrite, ReleaseSync, ReleaseFails, Stamp,
      SyncEvidence, Publish, PublishSync, files
<1> QED BY <1>2, <1>3, <1>4, <1>5

(* A request that does not step. *)
LEMMA ScopeKept ==
  ASSUME TypeInv, NEW p \in Requests, ScopeInv(p), Steady,
         pc'[p] = pc[p], req'[p] = req[p], loc'[p] = loc[p]
  PROVE  ScopeInv(p)'
<1>1. CASE pc[p] = "idle"
  BY <1>1 DEF ScopeInv, Entered
<1>2. CASE pc[p] # "idle"
  <2>1. PICK s \in Scopes : s = Scope(p)
    BY <1>2, Served
  <2>2. Scope(p)' = s /\ (Holds(p)' <=> Holds(p)) /\ (MaySend(p)' <=> MaySend(p))
    BY <2>1 DEF Scope, Holds, MaySend
  <2>3. /\ SubjectSafe(s) => SubjectSafe(Scope(p))'
        /\ ~ IndexLoss => (IndexSafe(s) => IndexSafe(Scope(p))') /\ (index = s => index' = s)
    BY <2>2, SteadyKeeps DEF SubjectSafe, IndexSafe
  <2> QED BY <2>1, <2>2, <2>3 DEF ScopeInv
<1> QED BY <1>1, <1>2

(* The invariant after a step of one request, from what the step must show. *)
LEMMA ScopesStep ==
  ASSUME TypeInv, ScopesInv, NEW r \in Requests, Alone(r), Steady, ScopeInv(r)',
         sent' = sent, \A a \in told' \ told : ~ IndexLoss /\ a.answer = "not-dispatched"
                                                 => IndexSafe(a.scope)'
  PROVE  ScopesInv'
<1>1. \A p \in Requests : ScopeInv(p)'
  BY ScopeKept DEF ScopesInv, Alone
<1>2. ASSUME NEW s \in Delegated, Sent(s)' PROVE SubjectSafe(s)'
  BY <1>2, SteadyKeeps, ConstantsAssumption DEF ScopesInv, SentScopes, Sent
<1>3. ASSUME ~ IndexLoss, NEW s \in Scopes, \E i \in DOMAIN sent'[s] : sent'[s][i].held
      PROVE  IndexSafe(s)'
  BY <1>3, SteadyKeeps DEF ScopesInv, SentScopes
<1>4. ASSUME ~ IndexLoss, NEW a \in told, a.answer = "not-dispatched"
      PROVE  IndexSafe(a.scope)'
  <2>1. PICK s \in Scopes : s = a.scope
    BY DEF TypeInv, TypeOK, Told
  <2> QED BY <1>4, <2>1, SteadyKeeps DEF ScopesInv, SentScopes
<1> QED BY <1>1, <1>2, <1>3, <1>4 DEF ScopesInv, SentScopes

(* The steps before the subject's record is held. *)
Early == {"idle", "leaf", "first", "scope", "subjectSync"}

LEMMA EarlyFree ==
  ASSUME NEW r \in Requests, pc'[r] \in Early
  PROVE  ScopeInv(r)'
BY DEF Early, ScopeInv, Entered

(* A request that goes on as it came, or that found another first scope. *)
LEMMA ScopeOn ==
  ASSUME TypeInv, NEW r \in Requests, ScopeInv(r), Steady, NEW step, NEW l,
         GoWith(r, step, l), pc[r] \notin Early,
         l.foreign \/ ~ loc[r].foreign,
         step # "missing",
         step \notin {"holdSync", "reholdSync", "closedHoldSync"},
         (step \in {"claim", "claimSync", "run"} \/ (step = "admit" /\ ~ l.uncertain))
           => l.foreign = loc[r].foreign /\ MaySend(r),
         step \in Entered \cup {"reserve", "reserveSync"} =>
           \/ pc[r] \in Entered \cup {"reserve", "reserveSync"}
           \/ l.foreign \/ req[r].reconcile \/ IndexLoss \/ ~ Holds(r)
           \/ IndexSafe(Scope(r))
  PROVE  ScopeInv(r)'
<1>0. pc[r] # "idle"
  BY DEF Early
<1>1. CASE step = "idle"
  BY <1>0, <1>1, MoveFacts, EarlyFree DEF Early
<1>2. CASE step # "idle"
  <2>1. PICK s \in Scopes : s = Scope(r)
    BY <1>0, Served
  <2>2. pc'[r] = step /\ req'[r] = req[r] /\ loc'[r] = l /\ Scope(r)' = s
    BY <1>0, <1>2, <2>1, MoveFacts
  <2>3. Holds(r)' <=> Holds(r)
    BY <2>2 DEF Holds
  <2>4. /\ SubjectSafe(s) => SubjectSafe(Scope(r))'
        /\ ~ IndexLoss => (IndexSafe(s) => IndexSafe(Scope(r))')
    BY <2>2, SteadyKeeps DEF SubjectSafe, IndexSafe
  <2>5. l.foreign = loc[r].foreign /\ MaySend(r) => MaySend(r)'
    BY <2>2 DEF MaySend
  <2>6. (step \in {"claim", "claimSync", "run"} \/ (step = "admit" /\ ~ l.uncertain))
          => MaySend(r)'
    BY <2>5
  <2>7. step \notin Early /\ req[r].sender = "actor" /\ ~ l.foreign => SubjectSafe(Scope(r))'
    BY <2>1, <2>4 DEF ScopeInv, Early
  <2>8. ~ IndexLoss /\ step \in Entered \cup {"reserve", "reserveSync"}
          /\ Holds(r) /\ ~ req[r].reconcile /\ ~ l.foreign => IndexSafe(Scope(r))'
    BY <2>1, <2>4 DEF ScopeInv
  <2> QED BY <2>2, <2>3, <2>6, <2>7, <2>8 DEF ScopeInv, Early
<1> QED BY <1>1, <1>2

(* A step that leaves the request's finding about the first scope as it is. *)
LEMMA ScopeSame ==
  ASSUME TypeInv, NEW r \in Requests, ScopeInv(r), Steady, NEW step, NEW l,
         GoWith(r, step, l), pc[r] \in Entered \cup {"reserve", "reserveSync"},
         l.foreign = loc[r].foreign,
         step \notin {"missing", "holdSync", "reholdSync", "closedHoldSync"},
         (step \in {"claim", "claimSync", "run"} \/ (step = "admit" /\ ~ l.uncertain))
           => MaySend(r)
  PROVE  ScopeInv(r)'
<1>1. pc[r] \notin Early
  BY DEF Early, Entered
<1>2. l.foreign \/ ~ loc[r].foreign
  OBVIOUS
<1> QED BY <1>1, <1>2, ScopeOn

LEMMA ScopeSameGo ==
  ASSUME TypeInv, NEW r \in Requests, ScopeInv(r), Steady, NEW step, Go(r, step),
         pc[r] \in Entered \cup {"reserve", "reserveSync"},
         step \notin {"missing", "holdSync", "reholdSync", "closedHoldSync"},
         step \in {"admit", "claim", "claimSync", "run"} => MaySend(r)
  PROVE  ScopeInv(r)'
BY ScopeSame DEF Go

LEMMA LateScope ==
  ASSUME TypeInv, NEW r \in Requests, ScopeInv(r), Steady,
         \/ Reserve(r) \/ ReserveSync(r) \/ Closed(r) \/ ReholdSync(r)
         \/ ReadRecord(r) \/ FindAttempt(r) \/ CloseDispatch(r) \/ CloseSync(r)
         \/ ClosedSync(r) \/ ClosedAnswer(r) \/ Admit(r) \/ ClaimDispatch(r)
         \/ ClaimSync(r) \/ Recheck(r) \/ Start(r) \/ NotStarted(r) \/ Finish(r)
         \/ Release(r) \/ ReleaseWrite(r) \/ ReleaseSync(r) \/ ReleaseFails(r)
         \/ Stamp(r) \/ SyncEvidence(r) \/ Publish(r) \/ PublishSync(r)
  PROVE  ScopeInv(r)'
<1>1. pc[r] \in Entered \cup {"reserve", "reserveSync"}
  BY DEF Reserve, ReserveSync, Closed, ReholdSync, ReadRecord, FindAttempt,
       CloseDispatch, CloseSync, ClosedSync, ClosedAnswer, Admit, ClaimDispatch,
       ClaimSync, Recheck, Start, NotStarted, Finish, Release, ReleaseWrite,
       ReleaseSync, ReleaseFails, Stamp, SyncEvidence, Publish, PublishSync,
       Entered, Steps
<1>2. pc[r] # "idle"
  BY <1>1 DEF Entered
<1>3. loc[r] \in Locals
  BY <1>2, Served
<1>4. \A l : ClosedKey(r, l) \in {"idle", "closedSync"}
  BY DEF ClosedKey
<1>5. CASE \/ Closed(r) \/ CloseSync(r) \/ ReadRecord(r) \/ Recheck(r)
           \/ ClosedSync(r) \/ ClosedAnswer(r) \/ Start(r) \/ NotStarted(r)
           \/ Release(r) \/ ReleaseWrite(r) \/ ReleaseSync(r) \/ Publish(r)
           \/ PublishSync(r) \/ ReserveSync(r)
  <2>1. PICK step \in {"idle", "closed", "closedSync", "rehold", "record", "attempt", "stamp",
                       "closedHold", "running", "release", "releaseWrite",
                       "releaseSync", "publishSync"} : Go(r, step)
    BY <1>4, <1>5
       DEF Closed, CloseSync, ReadRecord, Recheck, ClosedSync, ClosedAnswer, Start,
         NotStarted, Release, ReleaseWrite, ReleaseSync, Publish, PublishSync,
         ReserveSync, Answer
  <2> QED BY <1>1, <2>1, ScopeSameGo
<1>6. CASE ClaimSync(r) \/ Admit(r)
  <2>1. PICK step \in {"run", "claim", "recheck"} : Go(r, step)
          /\ (step = "run" => pc[r] = "claimSync")
          /\ (step = "claim" => pc[r] = "admit" /\ ~ loc[r].uncertain)
    BY <1>6 DEF ClaimSync, Admit
  <2>2. step \in {"run", "claim"} => MaySend(r)
    BY <2>1 DEF ScopeInv
  <2> QED BY <1>1, <2>1, <2>2, ScopeSameGo
<1>7. CASE ReholdSync(r)
  <2> DEFINE l == [loc[r] EXCEPT !.indexed = TRUE]
  <2>1. GoWith(r, "record", l) /\ l.foreign = loc[r].foreign
    BY <1>3, <1>7 DEF ReholdSync, Locals
  <2> HIDE DEF l
  <2> QED BY <1>1, <2>1, ScopeSame
<1>8. CASE Reserve(r)
  <2>1. PICK b : GoWith(r, "reserveSync", [loc[r] EXCEPT !.fresh = b])
    BY <1>8 DEF Reserve
  <2> DEFINE l == [loc[r] EXCEPT !.fresh = b]
  <2>2. GoWith(r, "reserveSync", l) /\ l.foreign = loc[r].foreign
    BY <1>3, <2>1 DEF Locals
  <2> HIDE DEF l
  <2> QED BY <1>1, <2>2, ScopeSame
<1>9. CASE Finish(r) \/ ReleaseFails(r)
  <2>1. PICK b \in BOOLEAN : GoWith(r, "stamp", [loc[r] EXCEPT !.uncertain = b])
    BY <1>9 DEF Finish, ReleaseFails
  <2> DEFINE l == [loc[r] EXCEPT !.uncertain = b]
  <2>2. GoWith(r, "stamp", l) /\ l.foreign = loc[r].foreign
    BY <1>3, <2>1 DEF Locals
  <2> HIDE DEF l
  <2> QED BY <1>1, <2>2, ScopeSame
<1>10. CASE Stamp(r)
  <2> DEFINE l == [loc[r] EXCEPT !.receipt = "linked"]
  <2>1. GoWith(r, "evidence", l) /\ l.foreign = loc[r].foreign
    BY <1>3, <1>10 DEF Stamp, Locals
  <2> HIDE DEF l
  <2> QED BY <1>1, <2>1, ScopeSame
<1>11. CASE SyncEvidence(r)
  <2> DEFINE l == [loc[r] EXCEPT !.receipt = "synced"]
  <2>1. GoWith(r, "publish", l) /\ l.foreign = loc[r].foreign
    BY <1>3, <1>11 DEF SyncEvidence, Locals
  <2> HIDE DEF l
  <2> QED BY <1>1, <2>1, ScopeSame
<1>12. CASE CloseDispatch(r) \/ ClaimDispatch(r)
  <2> DEFINE l == [loc[r] EXCEPT !.uncertain = TRUE]
  <2>1. l.foreign = loc[r].foreign /\ l.uncertain
    BY <1>3 DEF Locals
  <2>2. \/ \E step \in {"closeSync", "idle", "closedSync", "claimSync"} :
             Go(r, step) /\ (step = "claimSync" => pc[r] = "claim")
        \/ \E step \in {"admit", "recheck"} : GoWith(r, step, l)
    BY <1>4, <1>12 DEF CloseDispatch, ClaimDispatch
  <2>3. pc[r] = "claim" => MaySend(r)
    BY DEF ScopeInv
  <2> HIDE DEF l
  <2>4. CASE \E step \in {"closeSync", "idle", "closedSync", "claimSync"} :
               Go(r, step) /\ (step = "claimSync" => pc[r] = "claim")
    BY <1>1, <2>3, <2>4, ScopeSameGo
  <2>5. CASE \E step \in {"admit", "recheck"} : GoWith(r, step, l)
    BY <1>1, <2>1, <2>5, ScopeSame
  <2> QED BY <2>2, <2>4, <2>5
<1>13. CASE FindAttempt(r)
  <2>1. CASE Go(r, "idle")
    BY <1>1, <2>1, ScopeSameGo
  <2>2. CASE ~ Go(r, "idle")
    <3>1. PICK n \in Attempts :
            GoWith(r, Found(r, n), [loc[r] EXCEPT !.n = n,
                                      !.uncertain = marker[Scope(r)][n] = "claimed"])
      BY <1>13, <2>2 DEF FindAttempt
    <3> DEFINE l == [loc[r] EXCEPT !.n = n, !.uncertain = marker[Scope(r)][n] = "claimed"]
    <3>2. /\ GoWith(r, Found(r, n), l) /\ l.foreign = loc[r].foreign
          /\ l.uncertain = (marker[Scope(r)][n] = "claimed")
      BY <1>3, <3>1 DEF Locals
    <3>3. Found(r, n) \in {"idle", "closedSync", "admit", "close"}
      BY <1>4 DEF Found
    <3>4. Found(r, n) = "admit" /\ marker[Scope(r)][n] # "claimed" => MaySend(r)
      BY <1>4 DEF Found, MaySend
    <3> HIDE DEF l
    <3> QED BY <1>1, <3>2, <3>3, <3>4, ScopeSame
  <2> QED BY <2>1, <2>2
<1> QED BY <1>5, <1>6, <1>7, <1>8, <1>9, <1>10, <1>11, <1>12, <1>13

LEMMA EarlyScope ==
  ASSUME TypeInv, NEW r \in Requests, ScopeInv(r), Steady,
         \/ Begin(r) \/ Stop(r) \/ Leaf(r) \/ FirstScope(r) \/ DelegatedScope(r)
         \/ SubjectSync(r) \/ Missing(r) \/ Hold(r) \/ HoldSync(r) \/ Rehold(r)
         \/ ClosedHold(r)
  PROVE  ScopeInv(r)'
<1>1. CASE Begin(r)
  <2>1. pc'[r] \in Early
    BY <1>1 DEF Begin, TypeInv, TypeOK, Early
  <2> QED BY <2>1, EarlyFree
<1>2. CASE Stop(r) \/ Leaf(r)
  <2>1. PICK step \in {"idle", "first"} : Go(r, step)
    BY <1>2 DEF Stop, Leaf
  <2>2. pc'[r] \in Early
    BY <1>2, <2>1, GoFacts DEF Stop, Leaf, Early
  <2> QED BY <2>2, EarlyFree
<1>3. CASE ~ Begin(r) /\ ~ Stop(r) /\ ~ Leaf(r)
  <2>1. pc[r] # "idle"
    BY <1>3 DEF FirstScope, DelegatedScope, SubjectSync, Missing, Hold, HoldSync,
         Rehold, ClosedHold
  <2>2. PICK s \in Scopes : s = Scope(r)
    BY <2>1, Served
  <2>3. loc[r] \in Locals /\ req[r] \in RequestShape
    BY <2>1, Served
  <2>4. \A l : /\ AfterScope(r, l) \in {"missing", "hold", "reserve"}
               /\ AfterScope(r, l) = "missing" => req[r].reconcile
               /\ AfterScope(r, l) = "reserve" => ~ Holds(r) \/ l.foreign
    BY DEF AfterScope
  \* where a scope and subject are settled
  <2>5. ASSUME NEW l \in Locals, GoWith(r, AfterScope(r, l), l),
               req[r].sender = "actor" /\ ~ l.foreign => SubjectSafe(s)'
        PROVE  ScopeInv(r)'
    <3>1. pc'[r] = AfterScope(r, l) /\ req'[r] = req[r] /\ loc'[r] = l /\ Scope(r)' = s
      BY <2>1, <2>2, <2>4, <2>5, MoveFacts
    <3>2. req[r].sender = "actor" /\ ~ l.foreign => SubjectSafe(Scope(r))'
      BY <2>5, <3>1 DEF SubjectSafe
    <3>3. (Holds(r)' <=> Holds(r))
      BY <3>1 DEF Holds
    <3> QED BY <2>4, <3>1, <3>2, <3>3 DEF ScopeInv, Entered
  <2>6. CASE FirstScope(r)
    <3> DEFINE foreign == index \notin {None, Scope(r)}
               l == [loc[r] EXCEPT !.foreign = foreign, !.indexed = index = Scope(r)]
    <3>1. l \in Locals
      BY <2>3, LocalTypes, AttemptFacts
    <3>2. CASE Go(r, "idle")
      BY <2>1, <3>2, GoFacts, EarlyFree DEF Early
    <3>3. CASE ~ Go(r, "idle")
      <4>1. GoWith(r, IF req[r].sender # "undelegated" THEN "scope" ELSE AfterScope(r, l), l)
        BY <2>6, <3>3 DEF FirstScope
      <4> HIDE DEF l, foreign
      <4>2. CASE req[r].sender # "undelegated"
        BY <2>1, <4>1, <4>2, MoveFacts, EarlyFree DEF Early
      <4>3. CASE req[r].sender = "undelegated"
        BY <2>5, <3>1, <4>1, <4>3
      <4> QED BY <4>2, <4>3
    <3> QED BY <3>2, <3>3
  <2>7. CASE DelegatedScope(r)
    <3>1. \/ Go(r, "idle") \/ Go(r, "subjectSync")
          \/ Go(r, AfterScope(r, loc[r])) /\ (req[r].sender = "actor" => loc[r].foreign)
      BY <2>7 DEF DelegatedScope
    <3>2. CASE Go(r, "idle") \/ Go(r, "subjectSync")
      BY <2>1, <3>2, GoFacts, EarlyFree DEF Early
    <3>3. CASE Go(r, AfterScope(r, loc[r])) /\ (req[r].sender = "actor" => loc[r].foreign)
      BY <2>3, <2>5, <3>3 DEF Go
    <3> QED BY <3>1, <3>2, <3>3
  <2>8. CASE SubjectSync(r)
    <3>1. CASE subject # s
      BY <2>1, <2>2, <2>8, <3>1, GoFacts, EarlyFree DEF SubjectSync, Early
    <3>2. CASE subject = s
      <4>1. SubjectSafe(s)'
        BY <2>8, <3>2, ConstantsAssumption
           DEF SubjectSync, SyncRoot, RootNames, SubjectSafe, files
      <4> QED BY <2>2, <2>3, <2>5, <2>8, <3>2, <4>1 DEF SubjectSync, Go
    <3> QED BY <3>1, <3>2
  <2>9. CASE Missing(r)
    <3>1. pc[r] \notin Early /\ req[r].reconcile
      BY <2>9 DEF Missing, Early, ScopeInv
    <3>2. PICK step \in {"reserve", "idle"} : GoWith(r, step, loc[r])
      BY <2>9 DEF Missing, Go
    <3> QED BY <3>1, <3>2, ScopeOn
  <2>10. CASE HoldSync(r)
    <3>1. pc[r] \notin Early /\ GoWith(r, "reserve", loc[r])
      BY <2>10 DEF HoldSync, Early, Go
    <3>2. pc'[r] = "reserve" /\ req'[r] = req[r] /\ loc'[r] = loc[r] /\ Scope(r)' = s
      BY <2>1, <2>2, <3>1, MoveFacts
    <3>3. ~ IndexLoss => IndexSafe(Scope(r))'
      <4> SUFFICES ASSUME ~ IndexLoss PROVE index' = s /\ <<"index", s, 0>> \in durable'
        BY <3>2 DEF IndexSafe
      <4>1. index = s
        BY <2>2, <2>10 DEF HoldSync, ScopeInv
      <4> QED BY <2>10, <4>1, ConstantsAssumption DEF HoldSync, SyncIndex, IndexNames, files
    <3>4. req[r].sender = "actor" /\ ~ loc[r].foreign => SubjectSafe(Scope(r))'
      BY <2>2, <2>10, <3>1, <3>2, SteadyKeeps DEF HoldSync, ScopeInv, SubjectSafe
    <3> QED BY <3>2, <3>3, <3>4 DEF ScopeInv
  <2>11. CASE Hold(r) \/ Rehold(r) \/ ClosedHold(r)
    <3> DEFINE l == [loc[r] EXCEPT !.foreign = TRUE]
    <3>1. pc[r] \notin Early /\ l.foreign
      BY <2>3, <2>11 DEF Hold, Rehold, ClosedHold, Early, Locals
    <3>2. CASE index \notin {None, s}
      <4>1. PICK step \in {"reserve", "idle", "record"} : GoWith(r, step, l)
        BY <2>2, <2>11, <3>2 DEF Hold, Rehold, ClosedHold, HoldKeyIndex
      <4> HIDE DEF l
      <4> QED BY <3>1, <4>1, ScopeOn
    <3>3. CASE index \in {None, s}
      <4>1. PICK step \in {"holdSync", "reholdSync", "closedHoldSync"} :
              /\ Go(r, step)
              /\ step # "holdSync" => pc[r] \in Entered
              /\ index' = s
        BY <2>2, <2>11, <3>3
           DEF Hold, Rehold, ClosedHold, HoldKeyIndex, Entered, Steps
      <4>2. pc'[r] = step /\ req'[r] = req[r] /\ loc'[r] = loc[r] /\ Scope(r)' = s
        BY <2>1, <2>2, <4>1, GoFacts
      <4>3. req[r].sender = "actor" /\ ~ loc[r].foreign => SubjectSafe(Scope(r))'
        BY <2>2, <3>1, <4>2, SteadyKeeps DEF ScopeInv, SubjectSafe, Early
      <4>4. ~ IndexLoss /\ step \in Entered /\ Holds(r) /\ ~ req[r].reconcile
              /\ ~ loc[r].foreign => IndexSafe(Scope(r))'
        BY <2>2, <4>1, <4>2, SteadyKeeps DEF ScopeInv, IndexSafe, Entered
      <4>5. Holds(r)' <=> Holds(r)
        BY <4>2 DEF Holds
      <4> QED BY <4>1, <4>2, <4>3, <4>4, <4>5 DEF ScopeInv
    <3> QED BY <3>2, <3>3
  <2> QED BY <1>3, <2>6, <2>7, <2>8, <2>9, <2>10, <2>11
<1> QED BY <1>1, <1>2, <1>3

LEMMA StepScopes ==
  ASSUME TypeInv, ScopesInv, NEW r \in Requests, Begin(r) \/ RequestStep(r) \/ Stop(r)
  PROVE  ScopesInv'
<1>1. Steady
  BY StepSteady
<1>2. ScopeInv(r)
  BY DEF ScopesInv
<1>3. ScopeInv(r)'
  BY <1>1, <1>2, LateScope, EarlyScope DEF RequestStep
<1>4. Alone(r)
  <2>1. CASE Begin(r)
    BY <2>1 DEF Begin, Alone, TypeInv, TypeOK
  <2>2. CASE ~ Begin(r)
    BY <2>2, StepMoves, MoveFacts DEF Moves
  <2> QED BY <2>1, <2>2
<1>5. CASE ClosedAnswer(r)
  <2>1. pc[r] = "closedHoldSync" /\ sent' = sent
    BY <1>5 DEF ClosedAnswer
  <2>2. PICK s \in Scopes : s = Scope(r)
    BY <2>1, Served
  <2>3. ASSUME NEW a \in told' \ told, ~ IndexLoss, a.answer = "not-dispatched"
        PROVE  IndexSafe(a.scope)'
    <3>1. a.scope = s
      BY <1>5, <2>2, <2>3 DEF ClosedAnswer, Answer
    <3>2. index = s
      BY <1>2, <2>1, <2>2, <2>3 DEF ScopeInv
    <3>3. index' = s /\ <<"index", s, 0>> \in durable'
      BY <1>5, <3>2, ConstantsAssumption DEF ClosedAnswer, SyncIndex, IndexNames, files
    <3> QED BY <3>1, <3>3 DEF IndexSafe
  <2> QED BY <1>1, <1>3, <1>4, <2>1, <2>3, ScopesStep
<1>6. CASE Start(r)
  <2>1. pc[r] = "run" /\ told' = told
    BY <1>6 DEF Start
  <2>2. PICK s \in Scopes : s = Scope(r)
    BY <2>1, Served
  <2>3. MaySend(r) /\ pc[r] \in Entered
    BY <1>2, <2>1 DEF ScopeInv, Entered, Steps
  <2>4. \A p \in Requests : ScopeInv(p)'
    BY <1>1, <1>3, <1>4, ScopeKept DEF ScopesInv, Alone
  <2>5. \A t \in Scopes : t # s => sent'[t] = sent[t]
    BY <1>6, <2>2 DEF Start, TypeInv, TypeOK
  <2>6. ASSUME NEW t \in Delegated, Sent(t)' PROVE SubjectSafe(t)'
    <3>1. t \in Scopes
      BY ConstantsAssumption
    <3>2. CASE t # s
      BY <1>1, <2>5, <2>6, <3>1, <3>2, SteadyKeeps DEF ScopesInv, SentScopes, Sent
    <3>3. CASE t = s
      <4>1. req[r].sender = "actor" /\ ~ loc[r].foreign
        BY <2>1, <2>2, <2>3, <3>3, Served DEF MaySend, RequestShape, Scope
      <4>2. SubjectSafe(s)
        BY <1>2, <2>1, <2>2, <4>1 DEF ScopeInv
      <4> QED BY <1>1, <3>3, <4>2, SteadyKeeps
    <3> QED BY <3>2, <3>3
  <2>7. ASSUME ~ IndexLoss, NEW t \in Scopes, \E i \in DOMAIN sent'[t] : sent'[t][i].held
        PROVE  IndexSafe(t)'
    <3>1. CASE \E i \in DOMAIN sent[t] : sent[t][i].held
      BY <1>1, <2>7, <3>1, SteadyKeeps DEF ScopesInv, SentScopes
    <3>2. CASE ~ \E i \in DOMAIN sent[t] : sent[t][i].held
      <4>1. t = s
        BY <2>5, <2>7, <3>2
      <4> DEFINE e == [n |-> loc[r].n, content |-> req[r].content, held |-> Holds(r)]
      <4>2. sent'[s] = Append(sent[s], e)
        BY <1>6, <2>2 DEF Start, TypeInv, TypeOK
      <4>3. e \in Sends
        BY <2>1, Served DEF Sends
      <4>4. e.held = Holds(r)
        OBVIOUS
      <4> HIDE DEF e
      <4>5. \A i \in DOMAIN sent'[s] : \/ i \in DOMAIN sent[s] /\ sent'[s][i] = sent[s][i]
                                       \/ sent'[s][i] = e
        BY <4>2, <4>3, SentTypes
      <4>6. Holds(r)
        BY <2>7, <3>2, <4>1, <4>4, <4>5
      <4>7. IndexSafe(s)
        BY <1>2, <2>2, <2>3, <2>7, <4>6 DEF ScopeInv, MaySend
      <4> QED BY <1>1, <2>7, <4>1, <4>7, SteadyKeeps
    <3> QED BY <3>1, <3>2
  <2>8. ASSUME ~ IndexLoss, NEW a \in told, a.answer = "not-dispatched"
        PROVE  IndexSafe(a.scope)'
    <3>1. PICK t \in Scopes : t = a.scope
      BY DEF TypeInv, TypeOK, Told
    <3> QED BY <1>1, <2>8, <3>1, SteadyKeeps DEF ScopesInv, SentScopes
  <2> QED BY <2>1, <2>4, <2>6, <2>7, <2>8 DEF ScopesInv, SentScopes
<1>7. CASE ~ Start(r) /\ ~ ClosedAnswer(r)
  <2>1. sent' = sent
    BY <1>7, StepCloses
  <2>2. ASSUME NEW a \in told' \ told PROVE a.answer # "not-dispatched"
    <3>1. told' # told
      BY <2>2
    <3>2. \E x : Answer(r, x) /\ x # "not-dispatched"
      <4>1. CASE ReadRecord(r)
        <5>1. pc[r] # "idle"
          BY <4>1 DEF ReadRecord
        <5>2. record[Scope(r)] \in Records \cup {None}
          BY <5>1, Served DEF TypeInv, TypeOK
        <5> QED BY <3>1, <4>1, <5>2 DEF ReadRecord, Records, Outcomes
      <4>2. CASE ClosedSync(r) \/ ReleaseSync(r) \/ PublishSync(r)
        BY <3>1, <4>2 DEF ClosedSync, ReleaseSync, PublishSync, Outcome
      <4>3. ReadRecord(r) \/ ClosedSync(r) \/ ReleaseSync(r) \/ PublishSync(r)
        BY <1>7, <3>1
           DEF RequestStep, Begin, Stop, Leaf, FirstScope, DelegatedScope, SubjectSync,
             Missing, Hold, HoldSync, Reserve, ReserveSync, Closed, Rehold, ReholdSync,
             FindAttempt, CloseDispatch, CloseSync, ClosedHold, Admit,
             ClaimDispatch, ClaimSync, Recheck, NotStarted, Finish, Release,
             ReleaseWrite, ReleaseFails, Stamp, SyncEvidence, Publish
      <4> QED BY <4>1, <4>2, <4>3
    <3> QED BY <2>2, <3>2 DEF Answer
  <2> QED BY <1>1, <1>3, <1>4, <2>1, <2>2, ScopesStep
<1> QED BY <1>5, <1>6, <1>7

LEMMA NextScopes == TypeInv /\ JournalInv /\ ScopesInv /\ [Next]_vars => ScopesInv'
<1> SUFFICES ASSUME TypeInv, JournalInv, ScopesInv, [Next]_vars PROVE ScopesInv'
  OBVIOUS
<1>1. ASSUME Steady, UNCHANGED <<pc, req, loc, sent, told>> PROVE ScopesInv'
  <2>1. \A p \in Requests : ScopeInv(p)'
    BY <1>1, ScopeKept DEF ScopesInv
  <2>2. ASSUME NEW s \in Delegated, Sent(s)' PROVE SubjectSafe(s)'
    BY <1>1, <2>2, SteadyKeeps, ConstantsAssumption DEF ScopesInv, SentScopes, Sent
  <2>3. ASSUME ~ IndexLoss, NEW s \in Scopes, \E i \in DOMAIN sent'[s] : sent'[s][i].held
        PROVE  IndexSafe(s)'
    BY <1>1, <2>3, SteadyKeeps DEF ScopesInv, SentScopes
  <2>4. ASSUME ~ IndexLoss, NEW a \in told, a.answer = "not-dispatched"
        PROVE  IndexSafe(a.scope)'
    <3>1. PICK s \in Scopes : s = a.scope
      BY DEF TypeInv, TypeOK, Told
    <3> QED BY <1>1, <2>4, <3>1, SteadyKeeps DEF ScopesInv, SentScopes
  <2> QED BY <1>1, <2>1, <2>2, <2>3, <2>4 DEF ScopesInv, SentScopes
<1>2. CASE UNCHANGED vars
  <2>1. Steady
    BY <1>2 DEF vars, Steady
  <2> QED BY <1>1, <1>2, <2>1 DEF vars
<1>3. CASE LoseIndex
  <2>1. Steady
    BY <1>3 DEF LoseIndex, IndexNames, Steady
  <2> QED BY <1>1, <1>3, <2>1 DEF LoseIndex
<1>4. CASE HostCrash
  <2>1. PICK lost \in SUBSET (Present \ durable) : HostCrash!(lost)
    BY <1>4 DEF HostCrash
  <2>2. UNCHANGED <<sent, told>> /\ \A p \in Requests : pc'[p] = "idle"
    BY <2>1
  <2>3. ASSUME NEW s \in Scopes, IndexSafe(s) PROVE IndexSafe(s)'
    <3>1. <<"index", s, 0>> \in Present /\ <<"index", s, 0>> \notin lost
      BY <2>1, <2>3, ConstantsAssumption DEF IndexSafe, Present, IndexNames
    <3> QED BY <2>1, <2>3, <3>1 DEF IndexSafe
  <2>4. ASSUME NEW s \in Scopes, SubjectSafe(s) PROVE SubjectSafe(s)'
    <3>1. <<"subject", s, 0>> \in Present /\ <<"subject", s, 0>> \notin lost
      BY <2>1, <2>4, ConstantsAssumption DEF SubjectSafe, Present, RootNames
    <3> QED BY <2>1, <2>4, <3>1 DEF SubjectSafe
  <2>5. \A p \in Requests : ScopeInv(p)'
    BY <2>2, EarlyFree DEF Early
  <2>6. \A a \in told : a.scope \in Scopes
    BY DEF TypeInv, TypeOK, Told
  <2>7. ASSUME NEW a \in told, ~ IndexLoss, a.answer = "not-dispatched"
        PROVE  IndexSafe(a.scope)'
    BY <2>3, <2>6, <2>7 DEF ScopesInv, SentScopes
  <2>8. ASSUME NEW s \in Delegated, Sent(s)' PROVE SubjectSafe(s)'
    BY <2>2, <2>4, <2>8, ConstantsAssumption DEF ScopesInv, SentScopes, Sent
  <2>9. ASSUME ~ IndexLoss, NEW s \in Scopes, \E i \in DOMAIN sent'[s] : sent'[s][i].held
        PROVE  IndexSafe(s)'
    BY <2>2, <2>3, <2>9 DEF ScopesInv, SentScopes
  <2> QED BY <2>2, <2>5, <2>7, <2>8, <2>9 DEF ScopesInv, SentScopes
<1> QED BY <1>2, <1>3, <1>4, StepScopes DEF Next

LEMMA InitScopes == Init => ScopesInv
BY ConstantsAssumption DEF Init, ScopesInv, ScopeInv, SentScopes, Sent, Entered

LEMMA ScopesAreSafe == Spec => [](TypeInv /\ JournalInv /\ ScopesInv)
BY InitType, NextType, InitJournal, NextJournal, InitScopes, NextScopes, PTL DEF Spec

(* Two root actors of one subject never both send under the key, whether or *)
(* not the operator loses the first-scope record.                           *)
THEOREM OneRootActorAlways == Spec => []OneRootActorSends
<1>1. ScopesInv => OneRootActorSends
  BY DEF ScopesInv, SentScopes, OneRootActorSends, SubjectSafe
<1> QED BY <1>1, ScopesAreSafe, PTL

(* Where the first-scope record is not lost with its directory, only one    *)
(* scope's holders of the key ever send, and none other's after a           *)
(* reconciling request was told nothing was dispatched.                     *)
THEOREM OneScopeAlways ==
  ASSUME IndexLoss = FALSE
  PROVE  Spec => []OneScopeSends
<1>1. ScopesInv => OneScopeSends
  BY DEF ScopesInv, SentScopes, OneScopeSends, WasTold, IndexSafe
<1> QED BY <1>1, ScopesAreSafe, PTL
=============================================================================
