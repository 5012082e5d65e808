--------------------------- MODULE WitnessService ---------------------------
(***************************************************************************)
(* The endpoints of a running witness (go/witness_serve.go,                *)
(* go/witness_admin.go, go/witness_config.go): submissions under a token   *)
(* for the witness's audience, the operator's two acts under a token for   *)
(* the engine's, and the open reads; the minute windows, the places in     *)
(* flight and what each path gives back.  The log behind them              *)
(* (WitnessLog) is its registrations, and per trail the statements' count, *)
(* the latest sequence and whether it is retired; one call of it is one    *)
(* step, as it runs under the writer's lock.  A token here is one the      *)
(* issuer signed and whose time has come (Delegation verifies tokens).     *)
(***************************************************************************)
EXTENDS Integers, Sequences, FiniteSets

CONSTANTS
  Requests,            \* bound: requests ever made
  Subjects, Trails,
  Tokens,              \* [sub, auds, exp]: who, for whom, the last minute it holds
  Specs,               \* witness configurations to start from
  Bodies,              \* submissions: sequences of [trail, seq, ok, whole]
  PerMinute, SubmitterInFlight, SubmissionsInFlight, ReadsInFlight,
  MaxRateSubmitters,
  MaxClock,            \* bound: minutes
  MaxStatements,       \* bound: statements signed for a trail
  None

VARIABLES
  spec,                \* witnessSpec
  now,                 \* the clock's minute
  req,                 \* the requests
  flying, submitting, reading,    \* places taken
  minute, counts,      \* the minute windows
  reg, len, latest, retired, stopped,   \* the log
  acts,                \* every act the log took: what, token, trail, registrant
  taken                \* the submissions counted in each minute of the clock

log == <<reg, len, latest, retired, stopped, acts>>
places == <<flying, submitting, reading>>
windows == <<minute, counts, taken>>
vars == <<spec, now, req, places, windows, log>>

Kinds == {"submit", "register", "retire", "read"}     \* read: the head, or statements
Idle == [pc |-> "new", kind |-> None, tok |-> None, trail |-> None, to |-> None,
         body |-> <<>>, minute |-> 0, answer |-> None]

-----------------------------------------------------------------------------
(* The configuration: roles, and what makes two of them one. *)

SpecOk(s) ==
  /\ s.audience # "engine"
  /\ s.operators # None /\ s.submitters # None => s.operators \cap s.submitters = {}

Listed(list, sub) == list # None => sub \in list
Submits(s, sub) == Listed(s.submitters, sub)
Operates(s, sub) == Listed(s.operators, sub)
RefusesToken(s, tok) ==
  \/ s.audience \in tok.auds
  \/ s.submitters # None /\ tok.sub \in s.submitters

EngineCaller(s, tok, t) ==
  "engine" \in tok.auds /\ t <= tok.exp /\ ~ RefusesToken(s, tok)
BearerCallerFor(s, tok, t) == s.audience \in tok.auds /\ t <= tok.exp

-----------------------------------------------------------------------------

Init ==
  /\ spec \in {s \in Specs : SpecOk(s)}
  /\ now = 0
  /\ req = [r \in Requests |-> Idle]
  /\ flying = [s \in Subjects |-> 0] /\ submitting = 0 /\ reading = 0
  /\ minute = 0 /\ counts = [s \in {} |-> 0]
  /\ taken = [m \in 0 .. MaxClock |-> [s \in Subjects |-> 0]]
  /\ reg = [t \in Trails |-> None] /\ len = [t \in Trails |-> 0]
  /\ latest = [t \in Trails |-> 0] /\ retired = {} /\ stopped = FALSE
  /\ acts = {}

At(r, pc) == req[r].pc = pc
Go(r, pc) == req' = [req EXCEPT ![r].pc = pc]
Answer(r, a) == req' = [req EXCEPT ![r] = [Idle EXCEPT !.pc = "done", !.answer = a]]

(* A request arrives: its method, path and query are held first, and then  *)
(* its token, for the endpoint it names; a read has none.                  *)
Refused(k, tok) ==
  \/ k = "submit" /\ ~ (BearerCallerFor(spec, tok, now) /\ Submits(spec, tok.sub))
  \/ k \in {"register", "retire"} /\ ~ (EngineCaller(spec, tok, now) /\ Operates(spec, tok.sub))

Admit(r, k, tok) ==
  \E b \in IF k = "submit" THEN Bodies ELSE {<<>>},
     t \in IF k = "submit" THEN {None} ELSE Trails,
     to \in IF k = "register" THEN Subjects ELSE {None} :
    req' = [req EXCEPT ![r] =
      [Idle EXCEPT !.kind = k, !.tok = tok, !.trail = t, !.to = to, !.body = b,
         !.pc = CASE k = "submit" -> "clock" [] k = "read" -> "place" [] OTHER -> "enter"]]

Arrive(r) ==
  /\ At(r, "new")
  /\ \/ Answer(r, "refused")            \* its method, its path, its query, no token
     \/ \E k \in Kinds : \E tok \in IF k = "read" THEN {None} ELSE Tokens :
          IF Refused(k, tok) THEN Answer(r, "refused") ELSE Admit(r, k, tok)
  /\ UNCHANGED <<spec, now, places, windows, log>>

-----------------------------------------------------------------------------
(* count: the clock is read, and then the window's lock is taken. *)

ReadClock(r) ==
  /\ At(r, "clock")
  /\ req' = [req EXCEPT ![r].pc = "window", ![r].minute = now]
  /\ UNCHANGED <<spec, now, places, windows, log>>

Count(r) ==
  LET s == req[r].tok.sub
      turned == req[r].minute # minute
      held == IF turned THEN [x \in {} |-> 0] ELSE counts
      n == IF s \in DOMAIN held THEN held[s] ELSE 0
      over == n >= PerMinute \/ (s \notin DOMAIN held /\ Cardinality(DOMAIN held) >= MaxRateSubmitters)
  IN  /\ At(r, "window")
      /\ minute' = req[r].minute
      /\ counts' = IF over THEN held ELSE [x \in DOMAIN held \cup {s} |-> IF x = s THEN n + 1 ELSE held[x]]
      /\ IF over THEN Answer(r, "rate") /\ UNCHANGED taken
         ELSE /\ taken' = [taken EXCEPT ![req[r].minute][s] = @ + 1]
              /\ Go(r, "enter")
      /\ UNCHANGED <<spec, now, places, log>>

-----------------------------------------------------------------------------
(* Places: the submitter's, once the media type and the length the request  *)
(* states are held, and then one of the witness's own.                      *)

Enter(r) ==
  LET s == req[r].tok.sub
  IN  /\ At(r, "enter")
      /\ \/ Answer(r, "malformed") /\ UNCHANGED flying
         \/ flying[s] >= SubmitterInFlight /\ Answer(r, "busy") /\ UNCHANGED flying
         \/ /\ flying[s] < SubmitterInFlight
            /\ flying' = [flying EXCEPT ![s] = @ + 1] /\ Go(r, "place")
      /\ UNCHANGED <<spec, now, submitting, reading, windows, log>>

(* Mutant: a refusal for want of the witness's place keeps the submitter's.*)
NoPlaceKept(r) ==
  /\ submitting >= SubmissionsInFlight
  /\ Answer(r, "busy")
  /\ UNCHANGED <<flying, submitting>>

NoPlace(r) ==
  /\ submitting >= SubmissionsInFlight
  /\ flying' = [flying EXCEPT ![req[r].tok.sub] = @ - 1]
  /\ Answer(r, "busy")
  /\ UNCHANGED submitting

Place(r) ==
  /\ At(r, "place") /\ req[r].kind # "read"
  /\ \/ NoPlace(r)
     \/ /\ submitting < SubmissionsInFlight
        /\ submitting' = submitting + 1
        /\ Go(r, "body")
        /\ UNCHANGED flying
  /\ UNCHANGED <<spec, now, reading, windows, log>>

Leave(r) ==
  /\ flying' = [flying EXCEPT ![req[r].tok.sub] = @ - 1]
  /\ submitting' = submitting - 1

-----------------------------------------------------------------------------
(* The body, read through its bound a line at a time. *)

ReadCheckpointLines(b) ==
  /\ b # <<>>
  /\ \A i \in DOMAIN b : b[i].whole /\ b[i].ok
  /\ \A i \in DOMAIN b : i > 1 => b[i].trail = b[1].trail /\ b[i].seq > b[i - 1].seq

ReadRegistration(to) == Submits(spec, to)

BodyRead(r) ==
  /\ At(r, "body") /\ req[r].kind # "retire"
  /\ \/ /\ IF req[r].kind = "submit" THEN ReadCheckpointLines(req[r].body) ELSE ReadRegistration(req[r].to)
        /\ Go(r, "log") /\ UNCHANGED <<flying, submitting>>
     \/ /\ Answer(r, "malformed")      \* not of its form, over its bound, or unreadable
        /\ Leave(r)
  /\ UNCHANGED <<spec, now, reading, windows, log>>

-----------------------------------------------------------------------------
(* The log's calls, and the answer each becomes. *)

Recorded(r, what, t) ==
  acts' = acts \cup {[what |-> what, tok |-> req[r].tok, trail |-> t, registrant |-> reg'[t]]}

(* A write that fails stops the log, and is answered so. *)
Stops(r) == stopped' = TRUE /\ Answer(r, "stopped") /\ UNCHANGED <<reg, len, latest, retired, acts>>

(* submit: the registration is read under the writer's lock, and a first    *)
(* one is kept before anything is signed.                                   *)
LogSubmit(r) ==
  LET b == req[r].body
      t == b[1].trail
      s == req[r].tok.sub
      seq == b[Len(b)].seq
      mine == reg[t] = s \/ (reg[t] = None /\ spec.first)
  IN  /\ At(r, "log") /\ req[r].kind = "submit"
      /\ \/ (stopped \/ ~ mine) /\ Answer(r, "refused") /\ UNCHANGED log
         \/ ~ stopped /\ mine /\ len[t] = 0 /\ Answer(r, "refused") /\ UNCHANGED log   \* a trail too many
         \/ ~ stopped /\ mine /\ reg[t] = None /\ Stops(r)
         \/ /\ ~ stopped /\ mine
            /\ reg' = [reg EXCEPT ![t] = s]
            /\ \/ /\ t \in retired
                  /\ \E a \in {"retired", "internal"} : Answer(r, a)
                  /\ UNCHANGED <<len, latest, retired, stopped, acts>>
               \/ /\ t \notin retired /\ latest[t] > 0 /\ seq <= latest[t]
                  /\ \E a \in {"held", "below-head", "internal"} : Answer(r, a)
                  /\ UNCHANGED <<len, latest, retired, stopped, acts>>
               \/ /\ t \notin retired /\ len[t] > 1
                  /\ Answer(r, "conflict")                  \* the first offer is its evidence
                  /\ UNCHANGED <<len, latest, retired, stopped, acts>>
               \/ /\ t \notin retired /\ latest[t] > 0 /\ len[t] < MaxStatements
                  /\ Answer(r, "conflict")
                  /\ len' = [len EXCEPT ![t] = @ + 1]
                  /\ Recorded(r, "submit", t) /\ UNCHANGED <<latest, retired, stopped>>
               \/ /\ t \notin retired /\ seq > latest[t] /\ len[t] < MaxStatements
                  /\ Answer(r, "signed")
                  /\ len' = [len EXCEPT ![t] = @ + 1] /\ latest' = [latest EXCEPT ![t] = seq]
                  /\ Recorded(r, "submit", t) /\ UNCHANGED <<retired, stopped>>
               \/ /\ t \notin retired
                  /\ stopped' = TRUE /\ Answer(r, "stopped")
                  /\ UNCHANGED <<len, latest, retired, acts>>
      /\ Leave(r)
      /\ UNCHANGED <<spec, now, reading, windows>>

LogRegister(r) ==
  LET t == req[r].trail
  IN  /\ At(r, "log") /\ req[r].kind = "register"
      /\ \/ stopped /\ Answer(r, "stopped") /\ UNCHANGED log
         \/ /\ ~ stopped
            /\ reg' = [reg EXCEPT ![t] = req[r].to]
            /\ Answer(r, "registered") /\ Recorded(r, "register", t)
            /\ UNCHANGED <<len, latest, retired, stopped>>
         \/ ~ stopped /\ reg[t] # req[r].to /\ Stops(r)
      /\ Leave(r)
      /\ UNCHANGED <<spec, now, reading, windows>>

LogRetire(r) ==
  LET t == req[r].trail
  IN  /\ At(r, "body") /\ req[r].kind = "retire"
      /\ \/ /\ stopped \/ latest[t] = 0 \/ t \in retired
            /\ Answer(r, "refused") /\ UNCHANGED log
         \/ /\ ~ stopped /\ latest[t] > 0 /\ t \notin retired /\ len[t] < MaxStatements
            /\ retired' = retired \cup {t} /\ len' = [len EXCEPT ![t] = @ + 1]
            /\ UNCHANGED reg
            /\ Answer(r, "retired") /\ Recorded(r, "retire", t)
            /\ UNCHANGED <<latest, stopped>>
         \/ ~ stopped /\ latest[t] > 0 /\ t \notin retired /\ Stops(r)
      /\ Leave(r)
      /\ UNCHANGED <<spec, now, reading, windows>>

(* The open reads take a place of their own, and a trail that holds no     *)
(* statement is not known, registered or not.                              *)
ReadPlace(r) ==
  /\ At(r, "place") /\ req[r].kind = "read"
  /\ IF reading >= ReadsInFlight THEN Answer(r, "busy") /\ UNCHANGED reading
     ELSE reading' = reading + 1 /\ Go(r, "log")
  /\ UNCHANGED <<spec, now, flying, submitting, windows, log>>

Read(r) ==
  /\ At(r, "log") /\ req[r].kind = "read"
  /\ \/ Answer(r, IF len[req[r].trail] = 0 THEN "unknown-trail" ELSE "lines")
     \/ len[req[r].trail] > 0 /\ Answer(r, "internal")     \* its lines cannot be read
  /\ reading' = reading - 1
  /\ UNCHANGED <<spec, now, flying, submitting, windows, log>>

Tick ==
  /\ now < MaxClock /\ now' = now + 1
  /\ UNCHANGED <<spec, req, places, windows, log>>

Step(r) ==
  \/ Arrive(r) \/ ReadClock(r) \/ Count(r) \/ Enter(r) \/ Place(r) \/ BodyRead(r)
  \/ LogSubmit(r) \/ LogRegister(r) \/ LogRetire(r) \/ ReadPlace(r) \/ Read(r)

Next == Tick \/ \E r \in Requests : Step(r)

Spec == Init /\ [][Next]_vars

-----------------------------------------------------------------------------
(* Properties. *)

Within(pcs, kinds) == {r \in Requests : req[r].pc \in pcs /\ req[r].kind \in kinds}

(* Every place taken is held by a request still being answered, on every   *)
(* path out of submit, register, retire and read: none leaks and none is   *)
(* given back twice, so a busy refusal is a true one.                      *)
PlacesAreHeld ==
  /\ \A s \in Subjects :
       flying[s] = Cardinality({r \in Within({"place", "body", "log"}, {"submit", "register", "retire"}) :
                                  req[r].tok.sub = s})
  /\ submitting = Cardinality(Within({"body", "log"}, {"submit", "register", "retire"}))
  /\ reading = Cardinality(Within({"log"}, {"read"}))

(* What the log took, it took from one allowed it: a statement signed for  *)
(* a submission is of the trail's registrant at that moment, whatever was  *)
(* registered while the body was read; a registration names a submitter;   *)
(* and no token, nor a subject configured to submit, is ever taken for     *)
(* both a submission and an operator's act.                                *)
RolesAreApart ==
  /\ \A a \in acts :
       /\ a.what = "submit" => a.registrant = a.tok.sub
       /\ a.what = "register" => Submits(spec, a.registrant)
       /\ a.what # "submit" /\ spec.submitters # None => a.tok.sub \notin spec.submitters
  /\ \A a, b \in acts : a.what = "submit" /\ b.what # "submit" => a.tok # b.tok

(* A submitter is counted at most PerMinute times in a minute of the       *)
(* witness's clock, as docs/adr/0013-checkpoint-witness.md says of 429.    *)
WindowHolds == \A m \in 0 .. MaxClock, s \in Subjects : taken[m][s] <= PerMinute

-----------------------------------------------------------------------------
(* The inductive invariant behind them. *)

Written == {"submit", "register", "retire"}
Pcs == {"new", "done", "clock", "window", "enter", "place", "body", "log"}
Answers ==
  {"refused", "rate", "busy", "malformed", "retired", "held", "below-head", "conflict", "signed", "stopped",
   "registered", "unknown-trail", "lines", "internal"}
RequestRecords ==
  [pc : Pcs, kind : Kinds \cup {None}, tok : Tokens \cup {None}, trail : Trails \cup {None},
   to : Subjects \cup {None}, body : Bodies \cup {<<>>}, minute : Nat, answer : Answers \cup {None}]

TypeOK ==
  /\ now \in Nat /\ req \in [Requests -> RequestRecords]
  /\ flying \in [Subjects -> Int] /\ submitting \in Int /\ reading \in Int
  /\ reg \in [Trails -> Subjects \cup {None}]

(* What a request is of, from its arrival: its token was taken for what it  *)
(* asks, and a registration that was read names a submitter.                *)
RequestOK(q) ==
  q.pc \notin {"new", "done"} =>
    /\ q.kind \in Kinds
    /\ q.pc \in {"clock", "window"} => q.kind = "submit"
    /\ q.pc \in {"enter", "body"} => q.kind # "read"
    /\ q.kind # "read" => q.tok \in Tokens
    /\ q.kind = "submit" => q.body \in Bodies /\ spec.audience \in q.tok.auds
    /\ q.kind # "submit" => q.trail \in Trails
    /\ q.kind \in {"register", "retire"} => ~ RefusesToken(spec, q.tok)
    /\ q.kind = "register" => q.to \in Subjects
    /\ q.pc = "log" /\ q.kind = "submit" => q.body # <<>>
    /\ q.pc = "log" /\ q.kind = "register" => Submits(spec, q.to)

(* What the log took. *)
ActOK(a) ==
  /\ a.what = "submit" => a.registrant = a.tok.sub /\ spec.audience \in a.tok.auds
  /\ a.what # "submit" => ~ RefusesToken(spec, a.tok)
  /\ a.what = "register" => Submits(spec, a.registrant)

(* The places a request has. *)
HasOf(q, s) == q.pc \in {"place", "body", "log"} /\ q.kind \in Written /\ q.tok.sub = s
HasOwn(q) == q.pc \in {"body", "log"} /\ q.kind \in Written
HasRead(q) == q.pc = "log" /\ q.kind = "read"

CountInv ==
  /\ \A s \in Subjects : flying[s] = Cardinality({r \in Requests : HasOf(req[r], s)})
  /\ submitting = Cardinality({r \in Requests : HasOwn(req[r])})
  /\ reading = Cardinality({r \in Requests : HasRead(req[r])})

OrderInv ==
  TypeOK /\ (\A r \in Requests : RequestOK(req[r])) /\ (\A a \in acts : ActOK(a)) /\ CountInv
=============================================================================
