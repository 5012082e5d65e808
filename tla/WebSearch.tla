----------------------------- MODULE WebSearch -----------------------------
(***************************************************************************)
(* Web search connections (adapters/connections/web_search.go): what the   *)
(* broker configures, disconnects and disables in a store that every       *)
(* adapter process locks, and a search: its arguments read, a request      *)
(* reserved against the connection's day, the provider asked, its answer   *)
(* bounded and normalized, and the connection looked at again before       *)
(* anything is said of it.  Searches run in processes of their own, which  *)
(* may stop at any step; a write of the store may fail, made or not.       *)
(***************************************************************************)
EXTENDS Naturals, FiniteSets

CONSTANTS
  Calls,                         \* the searches that run
  Ids,                           \* connections' names
  MaxConnections,                \* how many may be configured at once
  MaxLimit,                      \* bound: the largest daily limit
  MaxRevisions, MaxDays,         \* bounds: configurations made, days that pass
  None

VARIABLES
  connections,  \* searchState: each name's connection, or None
  disabled,     \* the owner's policy: whether a broker last ran with --disabled
  revisions,    \* revisions drawn so far; each is fresh (randomID)
  today,
  calls,
  spent,        \* history: requests reserved today of the connection each name has
  most          \* history: the largest limit it has had today

vars == <<connections, disabled, revisions, today, calls, spent, most>>

Providers == {"tavily", "google-grounding"}
Options == {"none", "domains", "malformed"}

Idle == [step |-> "idle", id |-> None, revision |-> 0, options |-> "none", provider |-> None,
         sent |-> None, answer |-> None, live |-> FALSE, allowed |-> FALSE]

-----------------------------------------------------------------------------
(* The broker's operations, each under the store's lock.  One that is refused, or whose *)
(* write fails unmade, changes nothing; one whose write fails made is as one that holds. *)

(* searchValid, of what is configured and, again, of what is stored: one in a store that *)
(* was damaged or edited by hand is not, until it is configured anew.                    *)
SearchValid(c) == c.limit \in 1 .. MaxLimit /\ c.provider \in Providers
Damaged == [revision |-> 0, provider |-> "tavily", limit |-> 0, day |-> 0, requests |-> 0]

(* A change of the store is the end of every answer that was to be of it. *)
Watch == [c \in Calls |->
            LET k == connections'[calls[c].id] IN
            IF calls[c].live /\ calls[c].step # "done"
              THEN [calls[c] EXCEPT !.live = k # None /\ k.revision = calls[c].revision]
              ELSE calls[c]]

(* Mutant: the count of the day is forgotten. *)
ConfiguredAnew(id, provider, limit) ==
  [revision |-> revisions + 1, provider |-> provider, limit |-> limit, day |-> 0, requests |-> 0]

(* A revision that is new, and the count the connection had. *)
Configured(id, provider, limit) ==
  LET c == connections[id] IN
  [revision |-> revisions + 1, provider |-> provider, limit |-> limit,
   day |-> IF c = None THEN 0 ELSE c.day, requests |-> IF c = None THEN 0 ELSE c.requests]

(* A name that is held must be named by its own revision, which a stale one is refused   *)
(* for; a new one names none, and there is room for it.                                  *)
Configure(id, provider, limit) ==
  LET c == connections[id]  q == Configured(id, provider, limit) IN
  /\ revisions < MaxRevisions /\ SearchValid(q)
  /\ c = None => Cardinality({i \in Ids : connections[i] # None}) < MaxConnections
  /\ revisions' = revisions + 1
  /\ connections' = [connections EXCEPT ![id] = q]
  /\ spent' = [spent EXCEPT ![id] = IF c = None THEN 0 ELSE @]
  /\ most' = [most EXCEPT ![id] = IF c = None \/ limit > @ THEN limit ELSE @]
  /\ calls' = Watch
  /\ UNCHANGED <<disabled, today>>

Disconnect(id) ==
  /\ connections[id] # None /\ connections' = [connections EXCEPT ![id] = None]
  /\ calls' = Watch
  /\ UNCHANGED <<disabled, revisions, today, spent, most>>

(* A broker runs with --disabled or without, and writes that before anything else, in     *)
(* either direction: the epoch is drawn anew, which no search looks at, and no connection *)
(* has another revision for it.                                                           *)
SetPolicy ==
  /\ disabled' = ~disabled
  /\ UNCHANGED <<connections, revisions, today, calls, spent, most>>

DayPasses ==
  /\ today < MaxDays /\ today' = today + 1
  /\ spent' = [i \in Ids |-> 0]
  /\ most' = [i \in Ids |-> IF connections[i] = None THEN 0 ELSE connections[i].limit]
  /\ UNCHANGED <<connections, disabled, revisions, calls>>

-----------------------------------------------------------------------------
(* A search. *)

Step(c, r) == calls' = [calls EXCEPT ![c] = r]
Answer(c, why) == Step(c, [calls[c] EXCEPT !.step = "done", !.answer = why, !.allowed = ~disabled])
Same == UNCHANGED <<connections, disabled, revisions, today, spent, most>>

(* readSearchArguments: each argument known, required where it is, and of its form. *)
ReadArguments(c, id, revision, options) ==
  /\ calls[c].step = "idle" /\ revision <= revisions
  /\ Step(c, [calls[c] EXCEPT !.step = IF options = "malformed" THEN "done" ELSE "reserve",
              !.answer = IF options = "malformed" THEN "search-argument-invalid" ELSE None,
              !.id = id, !.revision = revision, !.options = options])
  /\ Same

(* The connection's test, which is a search with no options. *)
Test(c, id) ==
  /\ calls[c].step = "idle" /\ connections[id] # None
  /\ Step(c, [calls[c] EXCEPT !.step = "reserve", !.id = id, !.revision = connections[id].revision])
  /\ Same

(* searchArgumentsTaken: an option of another provider's is refused, nothing sent. *)
Taken(provider, options) == options = "domains" => provider = "tavily"

Count(k) == IF k.day = today THEN k.requests ELSE 0

(* searchSnapshotWith under the lock: refused, or a request of the day reserved in the   *)
(* store before anything is sent.  A write that fails has reserved it or not, and is     *)
(* refused.                                                                              *)
Refused(c) ==
  LET q == calls[c]  k == connections[q.id] IN
  CASE disabled -> "policy"
    [] ~disabled /\ k = None -> "connect"
    [] ~disabled /\ k # None /\ k.revision # q.revision -> "changed"
    [] ~disabled /\ k # None /\ k.revision = q.revision ->
         (CASE ~SearchValid(k) -> "setup"
            [] SearchValid(k) /\ ~Taken(k.provider, q.options) -> "search-argument-unsupported"
            [] SearchValid(k) /\ Taken(k.provider, q.options) /\ Count(k) >= k.limit -> "search-budget-exhausted"
            [] OTHER -> None)

Reserve(c) ==
  LET q == calls[c]
      r == [connections EXCEPT ![q.id].day = today, ![q.id].requests = Count(connections[q.id]) + 1] IN
  /\ q.step = "reserve"
  /\ \/ /\ Refused(c) # None /\ Answer(c, Refused(c)) /\ UNCHANGED <<connections, spent>>
     \/ /\ Refused(c) = None /\ connections' = r
        /\ Step(c, [q EXCEPT !.step = "token", !.provider = connections[q.id].provider, !.live = TRUE])
        /\ spent' = [spent EXCEPT ![q.id] = @ + 1]
     \/ /\ Refused(c) = None /\ connections' \in {r, connections} /\ Answer(c, "storage")
        /\ UNCHANGED spent
  /\ UNCHANGED <<disabled, revisions, today, most>>

(* The provider's own token, where it has one: within the search's time, or refused. *)
Token(c) ==
  /\ calls[c].step = "token"
  /\ \/ Step(c, [calls[c] EXCEPT !.step = "send"])
     \/ calls[c].provider = "google-grounding"
        /\ \E why \in {"search-timeout", "credentials-required", "setup"} : Answer(c, why)
  /\ Same

(* normalizeSearch: an answer whose hits are of its form, at most as many as were asked  *)
(* for, or what it is refused as; a grounded one without its grounds is not one.         *)
Normalized(provider) ==
  {"ok", "provider"} \cup (IF provider = "google-grounding" THEN {"search-not-grounded"} ELSE {})

(* The request, built of the arguments the provider takes, and how it may end. *)
Send(c) ==
  LET q == [calls[c] EXCEPT !.sent = <<calls[c].provider, calls[c].options>>] IN
  /\ calls[c].step = "send"
  /\ \E end \in Normalized(q.provider) \cup {"search-timeout", "credentials-required", "rate-limited"} :
       Step(c, IF end = "ok" THEN [q EXCEPT !.step = "confirm"]
               ELSE [q EXCEPT !.step = "done", !.answer = end])
  /\ Same

(* searchCurrent: the connection is still the one that was asked. *)
Confirm(c) ==
  LET q == calls[c]  k == connections[q.id] IN
  /\ q.step = "confirm"
  /\ Answer(c, CASE disabled -> "policy"
                 [] ~disabled /\ k # None /\ k.revision = q.revision -> "result"
                 [] OTHER -> "changed")
  /\ Same

(* The process stops where it is; what it reserved stays reserved. *)
Stop(c) ==
  /\ calls[c].step \notin {"idle", "done"} /\ Answer(c, "none")
  /\ Same

Init ==
  /\ connections \in [Ids -> {None, Damaged}] /\ disabled = FALSE /\ revisions = 0 /\ today = 1
  /\ calls = [c \in Calls |-> Idle]
  /\ spent = [i \in Ids |-> 0] /\ most = [i \in Ids |-> 0]

Next ==
  \/ \E i \in Ids, p \in Providers, n \in 1 .. MaxLimit : Configure(i, p, n)
  \/ \E i \in Ids : Disconnect(i)
  \/ SetPolicy \/ DayPasses
  \/ \E c \in Calls, i \in Ids :
       Test(c, i) \/ \E r \in 0 .. MaxRevisions, o \in Options : ReadArguments(c, i, r, o)
  \/ \E c \in Calls : Reserve(c) \/ Token(c) \/ Send(c) \/ Confirm(c) \/ Stop(c)

Spec == Init /\ [][Next]_vars

-----------------------------------------------------------------------------
(* Whatever fails, stops or is configured again while searches run, no more requests of  *)
(* a connection are let go on a day than the largest limit it had that day; a search     *)
(* that says nothing was sent sent nothing, and its provider was sent only what it       *)
(* takes; and a result is given only where the connection was neither changed nor        *)
(* disconnected since its request was reserved, and while the policy allows it: one that *)
(* was disabled meanwhile and is allowed again gives it (searchSnapshotWith,             *)
(* searchCurrent).                                                                       *)
SearchesAreAccounted ==
  /\ \A i \in Ids : connections[i] # None => spent[i] <= most[i]
  /\ \A c \in Calls :
       /\ calls[c].sent # None => Taken(calls[c].sent[1], calls[c].sent[2])
       /\ calls[c].answer \in {"search-argument-invalid", "search-argument-unsupported",
                               "search-budget-exhausted", "storage"} => calls[c].sent = None
       /\ calls[c].answer = "result" => calls[c].sent # None /\ calls[c].live /\ calls[c].allowed

-----------------------------------------------------------------------------
(* The inductive invariant behind it. *)

Steps == {"idle", "reserve", "token", "send", "confirm", "done"}
Underway == {"token", "send", "confirm"}
Early == {"search-argument-invalid", "search-argument-unsupported", "search-budget-exhausted", "storage"}
Refusals == {"policy", "connect", "changed", "setup", "search-argument-unsupported", "search-budget-exhausted"}
Ends ==
  Refusals \cup Early \cup
    {"result", "none", "provider", "search-not-grounded", "search-timeout", "credentials-required",
     "rate-limited"}
Connections == [revision : Nat, provider : Providers, limit : Nat, day : Nat, requests : Nat]

CallRecords ==
  [step : Steps, id : Ids \cup {None}, revision : Nat, options : Options,
   provider : Providers \cup {None}, sent : (Providers \X Options) \cup {None},
   answer : Ends \cup {None}, live : BOOLEAN, allowed : BOOLEAN]

TypeOK ==
  /\ disabled \in BOOLEAN /\ revisions \in Nat /\ today \in Nat
  /\ spent \in [Ids -> Nat] /\ most \in [Ids -> Nat]
  /\ connections \in [Ids -> Connections \cup {None}]
  /\ calls \in [Calls -> CallRecords]

(* What is counted of a connection today covers what was let go of it, and  *)
(* its limit is one it had today.                                           *)
ConnectionInv(i) ==
  connections[i] # None =>
    /\ connections[i].revision <= revisions
    /\ spent[i] <= Count(connections[i]) /\ spent[i] <= most[i]
    /\ connections[i].limit <= most[i]

(* The connection a search was reserved of is not what its name has now. *)
Superseded(q) ==
  connections[q.id] = None \/ connections[q.id].revision # q.revision

(* What a search knows at its step.  A connection that was changed stays    *)
(* so, since no revision is drawn twice.                                    *)
CallInv(q) ==
  /\ q.step \notin {"idle", "done"} => q.id \in Ids /\ q.revision <= revisions
  /\ q.step \in Underway => Taken(q.provider, q.options) /\ q.provider \in Providers
                            /\ (q.live \/ Superseded(q))
  /\ q.step \in {"idle", "reserve"} => ~ q.live
  /\ q.step \notin {"confirm", "done"} => q.sent = None
  /\ q.step = "confirm" => q.sent # None
  /\ q.step # "done" => q.answer = None
  /\ q.sent # None => Taken(q.sent[1], q.sent[2])
  /\ q.answer \in Early => q.sent = None
  /\ q.answer = "result" => q.sent # None /\ q.live /\ q.allowed

SearchInv ==
  TypeOK /\ (\A i \in Ids : ConnectionInv(i)) /\ (\A c \in Calls : CallInv(calls[c]))
=============================================================================
