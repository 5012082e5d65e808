------------------------------ MODULE Sessions ------------------------------
(***************************************************************************)
(* The signer's sessions: acquisitions and actions admitted into a         *)
(* session, run outside the lock and stamped into the session's chain, the *)
(* seal that counts its receipts, and the maintenance gate in front of     *)
(* admission (go/serve.go; go/act.go, sessionOpen to abandonUnminted;      *)
(* go/gate.go; go/store.go).                                               *)
(*                                                                         *)
(* One signer runs at a time: it holds the registry's lock.  It dies and   *)
(* starts again at any moment; its session map is lost, the store and the  *)
(* registry are kept.  A step is one section under the service's mutex or  *)
(* one read outside it.                                                    *)
(***************************************************************************)
EXTENDS Naturals, Sequences, FiniteSets

CONSTANTS
  Requests,    \* request slots
  Sessions,    \* session ids
  MaxIndex,    \* bound: receipts a session is given
  MaxRuns,     \* bound: starts of the signer
  MaxSeals,    \* bound: lines the registry is given
  Strangers,   \* TRUE: sessions may turn up in the store, or lose receipts
  None

ASSUME SessionsAssumption ==
  /\ IsFiniteSet(Requests)
  /\ MaxIndex \in Nat \ {0} /\ MaxRuns \in Nat \ {0} /\ MaxSeals \in Nat
  /\ Strangers \in BOOLEAN
  /\ None \notin Nat \X Nat
  /\ None \notin [run : Nat, prev : (Nat \X Nat) \cup {None}]

VARIABLES
  \* kept: receipts/<session> and the registry
  dir,       \* sessions whose directory is there
  receipts,  \* [Sessions -> [Index -> Receipts]]
  registry,  \* Seq(Seals): the seal lines
  \* the signer's memory
  run,       \* the start it is in; receipts of an earlier one are not its own
  known,     \* the sessions in g.sessions
  state,     \* [Sessions -> SessionState], NewState where not known
  gate,      \* admissionGate
  \* requests
  pc, kind, session

store == <<dir, receipts, registry>>
memory == <<known, state, gate>>
requests == <<pc, kind, session>>
vars == <<dir, receipts, registry, run, known, state, gate, pc, kind, session>>

Index == 0 .. MaxIndex - 1
Runs == 1 .. MaxRuns

(* A receipt by the run that signed it and the signature it chains to; a    *)
(* signature is named by its run and index.  Run 0 is a stranger's.         *)
Signatures == (0 .. MaxRuns) \X Index
Receipts == [run : 0 .. MaxRuns, prev : Signatures \cup {None}]

(* A seal line: part of one does not load.  One not synced may be lost.     *)
Seals == [session : Sessions, count : 0 .. MaxIndex,
          whole : BOOLEAN, synced : BOOLEAN]

SessionState == [index : 0 .. MaxIndex, prev : Signatures \cup {None},
                 sealed : BOOLEAN, created : BOOLEAN,
                 inFlight : 0 .. Cardinality(Requests)]

NewState == [index |-> 0, prev |-> None, sealed |-> FALSE, created |-> FALSE,
             inFlight |-> 0]

Gates == [closed : BOOLEAN, pending : 0 .. Cardinality(Requests),
          drained : BOOLEAN]

Steps == {"idle", "held", "lookup", "admit", "open", "minted", "admitAction",
          "run", "stamp", "abandon", "release"}

TypeOK ==
  /\ dir \subseteq Sessions
  /\ receipts \in [Sessions -> [Index -> Receipts \cup {None}]]
  /\ registry \in Seq(Seals)
  /\ run \in Runs
  /\ known \subseteq Sessions
  /\ state \in [Sessions -> SessionState]
  /\ gate \in Gates
  /\ pc \in [Requests -> Steps]
  /\ kind \in [Requests -> {"read", "action"}]
  /\ session \in [Requests -> Sessions]

OpenGate == [closed |-> FALSE, pending |-> 0, drained |-> FALSE]

Init ==
  /\ dir = {}
  /\ receipts = [s \in Sessions |-> [i \in Index |-> None]]
  /\ registry = <<>>
  /\ run = 1
  /\ known = {}
  /\ state = [s \in Sessions |-> NewState]
  /\ gate = OpenGate
  /\ pc = [r \in Requests |-> "idle"]
  /\ kind = [r \in Requests |-> "read"]
  /\ session \in [Requests -> Sessions]

-----------------------------------------------------------------------------
(* What is read. *)

(* loadEngineSeals: the sessions a seal loads for. *)
Loaded(s) == {i \in DOMAIN registry : registry[i].session = s /\ registry[i].whole}
SealedOnDisk(s) == Loaded(s) # {}
Held(s) == {i \in Index : receipts[s][i] # None}

Admitted == {"run", "stamp", "abandon", "release"}

Go(r, step) == pc' = [pc EXCEPT ![r] = step]

(* A session's state, in the map from now on. *)
Update(s, new) ==
  /\ known' = known \cup {s}
  /\ state' = [state EXCEPT ![s] = new]

Forget(s) ==
  /\ known' = known \ {s}
  /\ state' = [state EXCEPT ![s] = NewState]

-----------------------------------------------------------------------------
(* The gate, under the owner's lock. *)

Room(s) == Cardinality(Held(s)) + Cardinality({r \in Requests : pc[r] # "idle" /\ session[r] = s})
             < MaxIndex

CloseAdmission ==
  /\ ~ gate.closed
  /\ gate' = [gate EXCEPT !.closed = TRUE, !.drained = gate.pending = 0]
  /\ UNCHANGED <<store, run, known, state, requests>>

OpenAdmission ==
  /\ gate.closed
  /\ gate' = [gate EXCEPT !.closed = FALSE, !.drained = FALSE]
  /\ UNCHANGED <<store, run, known, state, requests>>

AdmitLocked == [gate EXCEPT !.pending = @ + 1]

(* Mutant: the last to finish does not drain the closure. *)
FinishUnsaid == [gate EXCEPT !.pending = @ - 1]

(* finishLocked: the last of what was admitted drains the closure. *)
FinishLocked ==
  [gate EXCEPT !.pending = @ - 1,
               !.drained = @ \/ (gate.closed /\ gate.pending = 1)]

-----------------------------------------------------------------------------
(* An acquisition. *)

Begin(r) ==
  /\ pc[r] = "idle"
  /\ \E s \in Sessions, k \in {"read", "action"} :
       /\ Room(s)
       /\ session' = [session EXCEPT ![r] = s]
       /\ kind' = [kind EXCEPT ![r] = k]
       /\ Go(r, IF k = "read" THEN "held" ELSE "open")
  /\ UNCHANGED <<store, run, memory>>

(* sealedElsewhere: a session this process holds is judged by its map; any  *)
(* other is looked up in the registry, the lock let go.                     *)
SeenHere(r) ==
  /\ pc[r] = "held"
  /\ Go(r, IF session[r] \in known THEN "admit" ELSE "lookup")
  /\ UNCHANGED <<store, run, memory, kind, session>>

Lookup(r) ==
  /\ pc[r] = "lookup"
  /\ Go(r, IF SealedOnDisk(session[r]) THEN "idle" ELSE "admit")
  /\ UNCHANGED <<store, run, memory, kind, session>>

(* admit: the gate, then the seal, then the reservation.  A refusal for the *)
(* seal leaves the map as it was: only a known session is sealed.           *)
Admit(r) ==
  LET s == session[r]
  IN /\ pc[r] = "admit"
     /\ \/ /\ gate.closed \/ state[s].sealed
           /\ Go(r, "idle")
           /\ UNCHANGED memory
        \/ /\ ~ gate.closed /\ ~ state[s].sealed
           /\ Update(s, [state[s] EXCEPT !.inFlight = @ + 1])
           /\ gate' = AdmitLocked
           /\ Go(r, "run")
     /\ UNCHANGED <<store, run, kind, session>>

(* sessionOpen: the registry first, then, under the lock, whether the       *)
(* session is one this process made, or is not in the store at all.         *)
SessionOpen(r) ==
  /\ pc[r] = "open"
  /\ Go(r, IF SealedOnDisk(session[r]) THEN "idle" ELSE "minted")
  /\ UNCHANGED <<store, run, memory, kind, session>>

SessionMintedHere(r) ==
  LET s == session[r]
  IN /\ pc[r] = "minted"
     /\ Go(r, IF state[s].created \/ s \notin dir THEN "admitAction" ELSE "idle")
     /\ UNCHANGED <<store, run, memory, kind, session>>

(* Mutant: an action is admitted as a read is, the directory not taken. *)
AdmitActionAsRead(r) ==
  LET s == session[r]
  IN /\ pc[r] = "admitAction"
     /\ ~ gate.closed /\ ~ state[s].sealed
     /\ Update(s, [state[s] EXCEPT !.inFlight = @ + 1])
     /\ gate' = AdmitLocked
     /\ Go(r, "run")
     /\ UNCHANGED <<store, run, kind, session>>

(* admitAction: as admit, and the session's directory is taken by Mkdir     *)
(* before any executor runs; a refusal forgets a session only this request  *)
(* knew.                                                                    *)
AdmitAction(r) ==
  LET s == session[r]
      mine == state[s].created \/ s \notin dir
  IN /\ pc[r] = "admitAction"
     /\ \/ /\ gate.closed \/ state[s].sealed
           /\ Go(r, "idle")
           /\ UNCHANGED <<dir, memory>>
        \/ /\ ~ gate.closed /\ ~ state[s].sealed /\ ~ mine
           /\ IF state[s].index = 0 /\ state[s].inFlight = 0
              THEN Forget(s) ELSE UNCHANGED <<known, state>>
           /\ Go(r, "idle")
           /\ UNCHANGED <<dir, gate>>
        \/ /\ ~ gate.closed /\ ~ state[s].sealed /\ mine
           /\ dir' = dir \cup {s}
           /\ Update(s, [state[s] EXCEPT !.created = TRUE, !.inFlight = @ + 1])
           /\ gate' = AdmitLocked
           /\ Go(r, "run")
     /\ UNCHANGED <<receipts, registry, run, kind, session>>

(* The source ends with a result, with an error, or, for an action, was     *)
(* never dispatched.                                                        *)
RunSource(r) ==
  /\ pc[r] = "run"
  /\ \/ Go(r, "stamp")
     \/ Go(r, "release")
     \/ kind[r] = "action" /\ Go(r, "abandon")
  /\ UNCHANGED <<store, run, memory, kind, session>>

(* stampInto: the session's directory is made where it is not there, the    *)
(* receipt is linked at its index, which never replaces one, and only then  *)
(* does the chain move on.  A read that made the directory owns it.         *)
Stamp(r) ==
  LET s == session[r]
      i == state[s].index
      owns == state[s].created \/ (kind[r] = "read" /\ s \notin dir)
  IN /\ pc[r] = "stamp"
     /\ dir' = dir \cup {s}
     /\ IF receipts[s][i] = None
        THEN /\ receipts' = [receipts EXCEPT ![s][i] =
                               [run |-> run, prev |-> state[s].prev]]
             /\ state' = [state EXCEPT ![s] =
                            [index |-> i + 1, prev |-> <<run, i>>,
                             sealed |-> state[s].sealed, created |-> owns,
                             inFlight |-> state[s].inFlight]]
        ELSE UNCHANGED <<receipts, state>>
     /\ Go(r, "release")
     /\ UNCHANGED <<registry, run, known, gate, kind, session>>

(* The artifact, the directory or the receipt could not be written. *)
StampFails(r) ==
  /\ pc[r] = "stamp"
  /\ \/ UNCHANGED dir
     \/ session[r] \notin dir /\ dir' = dir \cup {session[r]}
  /\ Go(r, "release")
  /\ UNCHANGED <<receipts, registry, run, memory, kind, session>>

(* abandonUnminted: os.Remove takes an empty directory only. *)
AbandonUnminted(r) ==
  LET s == session[r]
      alone == /\ s \in known /\ state[s].created /\ ~ state[s].sealed
               /\ state[s].index = 0 /\ state[s].inFlight = 1
  IN /\ pc[r] = "abandon"
     /\ IF alone /\ s \in dir /\ Held(s) = {}
        THEN /\ dir' = dir \ {s}
             /\ state' = [state EXCEPT ![s] = [@ EXCEPT !.created = FALSE]]
        ELSE UNCHANGED <<dir, state>>
     /\ Go(r, "release")
     /\ UNCHANGED <<receipts, registry, run, known, gate, kind, session>>

(* release: a session left with nothing is forgotten, so that it cannot be  *)
(* sealed.                                                                  *)
Release(r) ==
  LET s == session[r]
      left == [state[s] EXCEPT !.inFlight = @ - 1]
  IN /\ pc[r] = "release"
     /\ IF s \notin known THEN UNCHANGED memory
        ELSE /\ gate' = FinishLocked
             /\ IF /\ left.inFlight = 0 /\ left.index = 0
                   /\ ~ left.sealed /\ ~ left.created
                THEN Forget(s) ELSE Update(s, left)
     /\ Go(r, "idle")
     /\ UNCHANGED <<store, run, kind, session>>

-----------------------------------------------------------------------------
(* The seal. *)

Line(s, whole, synced) ==
  [session |-> s, count |-> state[s].index, whole |-> whole, synced |-> synced]

(* What an append that reached the registry's end makes of the lines there: *)
(* a sync that succeeds is of the whole file.                               *)
Synced(lines) == [i \in DOMAIN lines |-> [lines[i] EXCEPT !.synced = TRUE]]

(* Mutant: a seal overtakes work in flight. *)
SealOvertakes(s) ==
  /\ s \in known
  /\ ~ SealedOnDisk(s)
  /\ Len(registry) < MaxSeals
  /\ registry' = Synced(Append(registry, Line(s, TRUE, TRUE)))
  /\ state' = [state EXCEPT ![s] = [@ EXCEPT !.sealed = TRUE]]
  /\ UNCHANGED <<dir, receipts, run, known, gate, requests>>

(* sealSession: refused with work in flight, or with a seal that loads.     *)
(* Otherwise the line is appended: whole and synced; or in part, or whole   *)
(* and not synced, and then the session is taken as sealed; or not at all.  *)
SealSession(s) ==
  /\ s \in known
  /\ state[s].inFlight = 0
  /\ ~ SealedOnDisk(s)
  /\ Len(registry) < MaxSeals
  /\ \/ registry' = Synced(Append(registry, Line(s, TRUE, TRUE)))
     \/ registry' = Append(registry, Line(s, TRUE, FALSE))
     \/ registry' = Append(registry, Line(s, FALSE, FALSE))
  /\ state' = [state EXCEPT ![s] = [@ EXCEPT !.sealed = TRUE]]
  /\ UNCHANGED <<dir, receipts, run, known, gate, requests>>

-----------------------------------------------------------------------------
(* What the signer cannot prevent. *)

(* The process ends and starts again: its memory is gone.  When the host    *)
(* went down with it, what the registry had not synced may be gone too, or  *)
(* be there in part.                                                        *)
Restart ==
  LET loose == {i \in DOMAIN registry : ~ registry[i].synced}
  IN
  /\ run < MaxRuns
  /\ run' = run + 1
  /\ \E n \in 0 .. Len(registry), torn \in SUBSET loose :
       /\ n + 1 .. Len(registry) \subseteq loose
       /\ registry' = [i \in 1 .. n |->
                         [registry[i] EXCEPT !.whole = @ /\ i \notin torn,
                                             !.synced = TRUE]]
  /\ known' = {}
  /\ state' = [s \in Sessions |-> NewState]
  /\ gate' = OpenGate
  /\ pc' = [r \in Requests |-> "idle"]
  /\ UNCHANGED <<dir, receipts, kind, session>>

(* Something puts a session there, empty or holding a receipt: it was       *)
(* restored, or another made it.                                            *)
Appears(s) ==
  /\ Strangers
  /\ s \notin dir
  /\ dir' = dir \cup {s}
  /\ \/ UNCHANGED receipts
     \/ receipts' = [receipts EXCEPT ![s][0] = [run |-> 0, prev |-> None]]
  /\ UNCHANGED <<registry, run, memory, requests>>

(* A session of an earlier run loses a receipt. *)
LosesReceipt(s) ==
  /\ Strangers
  /\ \E i \in Held(s) :
       /\ receipts[s][i].run # run
       /\ receipts' = [receipts EXCEPT ![s][i] = None]
  /\ UNCHANGED <<dir, registry, run, memory, requests>>

RequestStep(r) ==
  \/ SeenHere(r) \/ Lookup(r) \/ Admit(r) \/ SessionOpen(r)
  \/ SessionMintedHere(r) \/ AdmitAction(r) \/ RunSource(r) \/ Stamp(r)
  \/ StampFails(r) \/ AbandonUnminted(r) \/ Release(r)

SignerStep ==
  \/ \E r \in Requests : Begin(r) \/ RequestStep(r)
  \/ \E s \in Sessions : SealSession(s)
  \/ CloseAdmission \/ OpenAdmission \/ Restart

StrangerStep == \E s \in Sessions : Appears(s) \/ LosesReceipt(s)

Next == SignerStep \/ StrangerStep

Spec == Init /\ [][Next]_vars

(* Every source ends: it is killed at its timeout (runSource), and every    *)
(* section under the lock ends.                                             *)
FairSpec == Spec /\ \A r \in Requests : WF_vars(RequestStep(r))

-----------------------------------------------------------------------------
(* What the sessions promise. *)

(* A seal is exact, for good: once one loads, the receipts of its session   *)
(* are those it counts, no fewer and no more, through any interleaving of   *)
(* acquisitions, failed seals and restarts (SPEC.md 3, serve.go             *)
(* sealSession).                                                            *)
SealIsExact ==
  \A s \in Sessions : \A i \in Loaded(s) :
    Held(s) = 0 .. registry[i].count - 1

(* No source is ever run for a session whose seal loads: the check before   *)
(* admission and the one under its lock leave no gap (sealedElsewhere).     *)
SealedIsQuiet ==
  \A r \in Requests : pc[r] \in Admitted => ~ SealedOnDisk(session[r])

(* A session's receipts form one chain from its first: each names the       *)
(* signature of the one before it.                                          *)
ChainHolds ==
  \A s \in Sessions : \A i \in Held(s) :
    receipts[s][i].prev =
      IF i = 0 \/ receipts[s][i].run = 0 THEN None
      ELSE <<receipts[s][i - 1].run, i - 1>>

(* A write that runs can be receipted: from its admission on, the session   *)
(* is this process's own, every receipt in it this run's, and the index its *)
(* receipt goes to is free ("a write that ran and could not be receipted is *)
(* the one outcome this design exists to refuse", act.go sessionOpen).      *)
WriteIsReceipted ==
  \A r \in Requests :
    kind[r] = "action" /\ pc[r] \in {"run", "stamp"} =>
      LET s == session[r]
      IN /\ s \in dir /\ state[s].created
         /\ Held(s) = 0 .. state[s].index - 1
         /\ \A i \in Held(s) : receipts[s][i].run = run

(* A session whose only acquisitions failed cannot be sealed: a seal that   *)
(* counts nothing is of a session an action's admission made (release's     *)
(* "zero-receipt phantom").                                                 *)
NoPhantomSeal ==
  \A s \in known :
    (state[s].index = 0 /\ state[s].inFlight = 0) => s \in dir /\ state[s].created

(* Once a closure is drained, and until admission reopens, nothing admitted *)
(* is in flight (gate.go, "what the gate let in before a closure is exactly *)
(* what the closure waits for").                                            *)
DrainedIsQuiet ==
  gate.closed /\ gate.drained => \A r \in Requests : pc[r] \notin Admitted

(* A closure ends: what was admitted before it finishes, and it drains,     *)
(* unless admission reopens or the process ends.                            *)
ClosureDrains == gate.closed ~> (gate.drained \/ ~ gate.closed)

-----------------------------------------------------------------------------
(* The inductive invariants behind those promises. *)

InFlight(s) == {r \in Requests : pc[r] \in Admitted /\ session[r] = s}
AllInFlight == {r \in Requests : pc[r] \in Admitted}
Unstamped(s) == {r \in Requests : pc[r] \notin {"idle", "release"} /\ session[r] = s}

(* What is counted is what is there. *)
CountInv ==
  /\ gate.pending = Cardinality(AllInFlight)
  /\ gate.drained => gate.closed /\ gate.pending = 0
  /\ \A s \in Sessions :
       /\ state[s].inFlight = Cardinality(InFlight(s))
       /\ s \notin known => state[s] = NewState
       /\ state[s].index + Cardinality(Unstamped(s)) <= MaxIndex

(* A session this process stamps into, and one it made. *)
OwnInv(s) ==
  /\ Held(s) # {} => s \in dir
  /\ \A i \in Index :
       i < state[s].index => i \in Held(s) /\ receipts[s][i].run = run
  /\ state[s].created => s \in dir /\ Held(s) = 0 .. state[s].index - 1

(* An action goes by its own admission, and runs in a session made here.    *)
ActionInv ==
  \A r \in Requests : kind[r] = "action" =>
    /\ pc[r] \notin {"held", "lookup", "admit"}
    /\ pc[r] \in {"run", "stamp"} => state[session[r]].created

SessionInv == CountInv /\ ActionInv /\ \A s \in Sessions : OwnInv(s)

(* In a store of the signer's own. *)
SealInv(s) ==
  /\ \A i \in Held(s) : 0 .. i \subseteq Held(s)
  /\ state[s].prev = IF state[s].index = 0 THEN None ELSE <<run, state[s].index - 1>>
  /\ state[s].index > 0 => Held(s) = 0 .. state[s].index - 1
  /\ s \in known /\ state[s].inFlight = 0 => state[s].index > 0 \/ state[s].created
  /\ state[s].sealed => s \in known /\ state[s].inFlight = 0
  /\ SealedOnDisk(s) /\ s \in known => state[s].sealed
  /\ \A r \in Requests :
       (pc[r] \in {"admit", "minted", "admitAction"} /\ session[r] = s /\ SealedOnDisk(s))
         => state[s].sealed

StoreInv == SealIsExact /\ ChainHolds /\ \A s \in Sessions : SealInv(s)
=============================================================================
