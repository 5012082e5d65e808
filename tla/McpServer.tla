----------------------------- MODULE McpServer ------------------------------
(***************************************************************************)
(* The MCP server in front of the engine (go/mcp.go, go/mcp_http.go,       *)
(* go/mcp_stdio.go): transport sessions, the rate window, the queue and    *)
(* the forward slots, and an admission gate an operator closes for         *)
(* maintenance.  A call holds a queue token until it has a slot and a slot *)
(* until its forward has ended; a closure drains when no acquisition is    *)
(* outstanding, and says how many ended without an answer.                 *)
(*                                                                         *)
(* A message is the record of what its parser looks at.  A timer may fire  *)
(* whenever its wait is under way: the queue's wait and a forward's        *)
(* timeout are choices; the rate window and a session's idleness are read  *)
(* from a clock.                                                           *)
(***************************************************************************)
EXTENDS Naturals, FiniteSets, Sequences, TLC

CONSTANTS
  Platforms,   \* served platforms: [segments, tools], a name as its dotted parts
  Origins,     \* None, or the origins the configuration admits
  Requests,    \* HTTP requests and lines a client may make
  Handlers,    \* goroutines that serve a request
  SessionIds,  \* names the server draws
  Concurrency, SessionCap, CallsPerMinute, Minute, IdleTime, Backlog,
  MaxClosures, MaxTime, \* bounds
  None

VARIABLES
  now,
  drawn,       \* session names drawn so far: a name is never drawn twice
  sessions,    \* [id -> [initialized, lastUsed, start, count]], those open
  stdio,       \* the standard-input session: [initialized, start, count, failed]
  gate,        \* [closed, generation, pending, current]: closures and what they await
  unanswered,  \* forwards that ended without an answer since the last drain
  queue, forwards, \* tokens taken
  h,           \* the handlers
  last,        \* history: each handler's last answer
  lost,        \* history: acquisitions whose answer never came, not yet reported
  reported     \* history: the latest drained closure: [generation, unresolved, lost]

table == <<drawn, sessions, stdio>>
tokens == <<queue, forwards>>
history == <<last, lost, reported>>
vars == <<now, table, gate, unanswered, tokens, h, history>>

-----------------------------------------------------------------------------
(* newMCPServer: one name, one tool; the seal's name included.              *)
SealName == <<"seal">>
ToolNames(p) == {p.segments \o t : t \in p.tools}

NewMCPServer ==
  /\ \A p \in Platforms : SealName \notin ToolNames(p)
  /\ \A p, q \in Platforms : p # q => ToolNames(p) \cap ToolNames(q) = {}

Tools == UNION {ToolNames(p) : p \in Platforms} \cup {SealName}

(* noDuplicateMembers: members named twice count wherever they are, but in  *)
(* the arguments of a tools/call, which are forwarded as they came.         *)
NoDuplicateMembers(m, skipArguments) ==
  m.twice = "none" \/ (m.twice = "arguments" /\ skipArguments)

ValidID(id) == id \in {"string", "integer"}

(* members: an object, of no member but those the reader reads. *)
Members(o) == o = "object"

(* A refusal is answered to the request it refuses where it can be told     *)
(* which that is, and is a rejection otherwise.                             *)
Refused(m) ==
  IF m.method \notin {None, "", "number"} /\ ValidID(m.id) THEN "failure" ELSE "rejected"

ResponseOk(m) ==
  /\ m.result # m.error
  /\ ValidID(m.id)

(* parseMCPMessage, then admit's first switch. *)
ParseMCPMessage(m) ==
  IF m.form # "object" \/ ~NoDuplicateMembers(m, TRUE) THEN "rejected"
  ELSE IF m.extra \/ ~m.version THEN Refused(m)
  ELSE IF m.method = None THEN IF ResponseOk(m) THEN "response" ELSE Refused(m)
  ELSE IF m.method \in {"", "number"} \/ m.params = "other" THEN Refused(m)
  ELSE IF m.method # "tools/call" /\ ~NoDuplicateMembers(m, FALSE) THEN Refused(m)
  ELSE IF m.id = None THEN "notification"
  ELSE IF ValidID(m.id) THEN "request" ELSE Refused(m)

(* originAllowed: the origins named, or this host's own. *)
OriginAllowed(o) == IF Origins = None THEN o = "loopback" ELSE o \in Origins

(* acceptsJSON: the most specific range decides, and decides by its weight; *)
(* a weight that is not one refuses the whole header.                       *)
Specificity == [json |-> 2, application |-> 1, any |-> 0]

AcceptsJSON(accept) ==
  \/ accept = {}
  \/ /\ \A a \in accept : a.q \in 0 .. 1000
     /\ LET plain == {a \in accept : a.range \in DOMAIN Specificity /\ ~a.parameterized}
        IN \E a \in plain :
             /\ \A b \in plain : Specificity[b.range] <= Specificity[a.range]
             /\ a.q > 0

(* The front of serveMCP, up to the session. *)
Front(r) ==
  /\ r.origin = None \/ OriginAllowed(r.origin)
  /\ r.token                                     \* verifyBearer
  /\ r.protocol
  /\ ~r.tooLong

-----------------------------------------------------------------------------
Idle == [pc |-> "idle"]
NewSession == [initialized |-> FALSE, lastUsed |-> now, start |-> None, count |-> 0]
NewAdmissionGate == [closed |-> FALSE, generation |-> 0, pending |-> 0, current |-> None]

Init ==
  /\ NewMCPServer
  /\ now = 0
  /\ drawn = {} /\ sessions = <<>>
  /\ stdio = [initialized |-> FALSE, start |-> None, count |-> 0, failed |-> FALSE]
  /\ gate = NewAdmissionGate
  /\ unanswered = 0 /\ queue = 0 /\ forwards = 0
  /\ h = [x \in Handlers |-> Idle]
  /\ last = [x \in Handlers |-> None]
  /\ lost = 0
  /\ reported = [generation |-> 0, unresolved |-> 0, lost |-> 0]

Without(f, gone) == [x \in DOMAIN f \ gone |-> f[x]]
Expired(id) == now - sessions[id].lastUsed > IdleTime

(* openSession: none while the gate is closed; the idle ones make room. *)
OpenSession(id) ==
  LET kept == Without(sessions, {s \in DOMAIN sessions : Expired(s)}) IN
  /\ ~gate.closed
  /\ Cardinality(DOMAIN kept) < SessionCap
  /\ sessions' = [s \in DOMAIN kept \cup {id} |-> IF s = id THEN NewSession ELSE kept[s]]

OpenRefused ==
  LET kept == {s \in DOMAIN sessions : ~Expired(s)} IN
  /\ gate.closed \/ Cardinality(kept) >= SessionCap
  /\ sessions' = IF gate.closed THEN sessions ELSE [s \in kept |-> sessions[s]]

(* serveMCP of an initialize without a session.  The session is open while  *)
(* its initialize is read, and ends if that is refused.                     *)
InitializeOk(m) == Members(m.params) /\ m.capabilities /\ m.clientInfo

OpenFor(x, r, id) ==
  /\ h[x] = Idle
  /\ r.sid = None /\ r.method = "POST" /\ Front(r) /\ AcceptsJSON(r.accept)
  /\ r.m.method = "initialize" /\ ParseMCPMessage(r.m) = "request"
  /\ id \notin drawn
  /\ \/ /\ OpenSession(id)
        /\ drawn' = drawn \cup {id}
        /\ h' = [h EXCEPT ![x] = [pc |-> "opened", id |-> id, ok |-> InitializeOk(r.m)]]
        /\ last' = [last EXCEPT ![x] = None]
     \/ OpenRefused /\ UNCHANGED <<drawn, h, last>>
  /\ UNCHANGED <<now, stdio, gate, unanswered, tokens, lost, reported>>

Initialize(x) ==
  /\ h[x].pc = "opened"
  /\ sessions' = IF h[x].id \notin DOMAIN sessions THEN sessions
                 ELSE IF h[x].ok THEN [sessions EXCEPT ![h[x].id].initialized = TRUE]
                 ELSE Without(sessions, {h[x].id})
  /\ h' = [h EXCEPT ![x] = Idle]
  /\ UNCHANGED <<now, drawn, stdio, gate, unanswered, tokens, history>>

(* lookupSession *)
Touched(id) == [sessions EXCEPT ![id].lastUsed = now]

(* The requests that find no live session, and those that only touch one.   *)
NoSession(r) ==
  /\ r.sid \in DOMAIN sessions /\ Front(r)
  /\ Expired(r.sid)
  /\ sessions' = Without(sessions, {r.sid})
  /\ UNCHANGED <<now, drawn, stdio, gate, unanswered, tokens, h, history>>

EndSession(r) ==
  /\ r.sid \in DOMAIN sessions /\ Front(r) /\ ~Expired(r.sid)
  /\ r.method = "DELETE"
  /\ sessions' = Without(sessions, {r.sid})
  /\ UNCHANGED <<now, drawn, stdio, gate, unanswered, tokens, h, history>>

(* admit, of what is not a call of an initialized session. *)
IsCall(m, initialized) ==
  ParseMCPMessage(m) = "request" /\ m.method = "tools/call" /\ initialized

OnlyTouch(r) ==
  /\ r.sid \in DOMAIN sessions /\ Front(r) /\ ~Expired(r.sid)
  /\ r.method # "DELETE"
  /\ \/ r.method # "POST" \/ ~AcceptsJSON(r.accept)
     \/ ~IsCall(r.m, sessions[r.sid].initialized)
  /\ sessions' = Touched(r.sid)
  /\ UNCHANGED <<now, drawn, stdio, gate, unanswered, tokens, h, history>>

-----------------------------------------------------------------------------
(* countCall: every call counts, one that is refused for its form included. *)
(* Past the limit a count is only ever compared with it, so it stops there. *)
CountCall(s) ==
  IF s.start = None \/ now - s.start >= Minute
  THEN [s EXCEPT !.start = now, !.count = 1]
  ELSE [s EXCEPT !.count = IF @ > CallsPerMinute THEN @ ELSE @ + 1]
OverRate(s) == s.count > CallsPerMinute

(* admitCall's reading of the request. *)
InvalidCall(m) ==
  \/ ~Members(m.params)
  \/ m.tool \notin Tools
  \/ m.tool = SealName /\ (~m.sealArguments \/ m.twice = "arguments")
  \/ m.tool # SealName /\ m.arguments = "other"

Answer(x, what, sent) == last' = [last EXCEPT ![x] = [what |-> what, sent |-> sent]]

(* admitCall, after the call was counted: refused, or queued under the      *)
(* gate's generation.                                                       *)
AdmitCall(x, m, over, viaStdio) ==
  LET seal == m.tool = SealName
      refused == over \/ (gate.closed /\ ~seal) \/ queue = Concurrency IN
  \/ /\ ~over /\ InvalidCall(m)
     /\ UNCHANGED <<h, queue, last>>
  \/ /\ over \/ (~InvalidCall(m) /\ refused)
     /\ Answer(x, "overload", FALSE)
     /\ UNCHANGED <<h, queue>>
  \/ /\ ~refused /\ ~InvalidCall(m)
     /\ queue' = queue + 1
     /\ h' = [h EXCEPT ![x] = [pc |-> "queued", seal |-> seal, generation |-> gate.generation,
                               stdio |-> viaStdio, sent |-> FALSE, answered |-> FALSE]]
     /\ last' = [last EXCEPT ![x] = None]

PostCall(x, r) ==
  /\ h[x] = Idle
  /\ r.sid \in DOMAIN sessions /\ Front(r) /\ ~Expired(r.sid)
  /\ r.method = "POST" /\ AcceptsJSON(r.accept)
  /\ IsCall(r.m, sessions[r.sid].initialized)
  /\ LET s == CountCall(Touched(r.sid)[r.sid]) IN
     /\ sessions' = [sessions EXCEPT ![r.sid] = s]
     /\ AdmitCall(x, r.m, OverRate(s), FALSE)
  /\ UNCHANGED <<now, drawn, stdio, gate, unanswered, forwards, lost, reported>>

-----------------------------------------------------------------------------
(* serveStdio: a line is read only while the backlog has room and no answer *)
(* has failed to be written.                                                *)
Outstanding == Cardinality({x \in Handlers : h[x] # Idle /\ h[x].pc # "opened" /\ h[x].stdio})

StdioLine(x, m) ==
  /\ h[x] = Idle
  /\ ~stdio.failed /\ Outstanding < Backlog
  /\ IF IsCall(m, stdio.initialized)
     THEN LET s == CountCall(stdio) IN
          /\ stdio' = s
          /\ AdmitCall(x, m, OverRate(s), TRUE)
     ELSE /\ stdio' = [stdio EXCEPT !.initialized =
                         @ \/ (ParseMCPMessage(m) = "request" /\ m.method = "initialize"
                                 /\ InitializeOk(m))]
          /\ UNCHANGED <<h, queue, last>>
  /\ UNCHANGED <<now, drawn, sessions, gate, unanswered, forwards, lost, reported>>

(* An answer that cannot be written ends the transport, and the context of  *)
(* every call it still has, as a client that leaves ends its own: such a    *)
(* call gives up, or its forward ends, as at the timers.                    *)
WriteFails ==
  /\ ~stdio.failed
  /\ stdio' = [stdio EXCEPT !.failed = TRUE]
  /\ UNCHANGED <<now, drawn, sessions, gate, unanswered, tokens, h, history>>

-----------------------------------------------------------------------------
(* runCall *)
ClosedMeanwhile(x) == gate.closed \/ gate.generation # h[x].generation

LeaveQueue(x, what) ==
  /\ queue' = queue - 1
  /\ h' = [h EXCEPT ![x] = Idle]
  /\ Answer(x, what, h[x].sent)
  /\ UNCHANGED <<now, table, gate, unanswered, forwards, lost, reported>>

StartRun(x) ==
  /\ h[x].pc = "queued"
  /\ IF ~h[x].seal /\ ClosedMeanwhile(x)
     THEN LeaveQueue(x, "overload")
     ELSE /\ h' = [h EXCEPT ![x].pc = "waiting"]
          /\ UNCHANGED <<now, table, gate, unanswered, tokens, history>>

(* No slot within the wait, the closing gate's wake, or the context's end.  *)
GiveUp(x) ==
  /\ h[x].pc = "waiting"
  /\ LeaveQueue(x, "overload")

TakeSlot(x) ==
  /\ h[x].pc = "waiting"
  /\ forwards < Concurrency
  /\ forwards' = forwards + 1
  /\ queue' = queue - 1
  /\ h' = [h EXCEPT ![x].pc = "slot"]
  /\ UNCHANGED <<now, table, gate, unanswered, history>>

(* Mutant: a slot taken too late is not given back. *)
LeaveSlotHeld(x, what) ==
  /\ forwards' = IF what = "overload" THEN forwards ELSE forwards - 1
  /\ h' = [h EXCEPT ![x] = Idle]
  /\ Answer(x, what, h[x].sent)
  /\ UNCHANGED <<now, table, queue>>

LeaveSlot(x, what) ==
  /\ forwards' = forwards - 1
  /\ h' = [h EXCEPT ![x] = Idle]
  /\ Answer(x, what, h[x].sent)
  /\ UNCHANGED <<now, table, queue>>

(* The wait may have ended while the slot was taken. *)
SlotTooLate(x) ==
  /\ h[x].pc = "slot"
  /\ LeaveSlot(x, "overload")
  /\ UNCHANGED <<gate, unanswered, lost, reported>>

(* dispatch: the gate, and that no closure has come since the call was      *)
(* admitted, under one lock with the count of what is outstanding.          *)
Dispatch(x) ==
  /\ h[x].pc = "slot"
  /\ IF ~h[x].seal /\ ClosedMeanwhile(x)
     THEN LeaveSlot(x, "overload") /\ UNCHANGED <<gate, unanswered, lost, reported>>
     ELSE /\ gate' = IF h[x].seal THEN gate ELSE [gate EXCEPT !.pending = @ + 1]
          /\ h' = [h EXCEPT ![x].pc = "sending"]
          /\ UNCHANGED <<now, table, unanswered, tokens, history>>

(* The engine receives it. *)
Reach(x) ==
  /\ h[x].pc = "sending" /\ ~h[x].sent
  /\ h' = [h EXCEPT ![x].sent = TRUE]
  /\ UNCHANGED <<now, table, gate, unanswered, tokens, history>>

(* forward: answered; or no answer in time, the context's end, a connection *)
(* that failed or an answer past the bound, whether or not it was received. *)
Forward(x, answered) ==
  /\ h[x].pc = "sending"
  /\ answered => h[x].sent
  /\ h' = [h EXCEPT ![x].pc = "ended", ![x].answered = answered]
  /\ lost' = IF answered \/ h[x].seal THEN lost ELSE lost + 1
  /\ UNCHANGED <<now, table, gate, unanswered, tokens, last, reported>>

-----------------------------------------------------------------------------
(* settleUnanswered, as the closure drains. *)
Settle(g, ended) ==
  /\ gate' = [g EXCEPT !.current.done = TRUE, !.current.drained = TRUE]
  /\ unanswered' = 0
  /\ reported' = [generation |-> g.generation, unresolved |-> ended, lost |-> lost]
  /\ lost' = 0

(* Mutant: an answer that never came leaves its acquisition outstanding. *)
FinishAnswered(x) ==
  /\ h[x].pc = "ended"
  /\ LET counts == ~h[x].seal /\ h[x].answered
         g == IF counts THEN [gate EXCEPT !.pending = @ - 1] ELSE gate IN
     IF counts /\ g.closed /\ g.pending = 0 /\ ~g.current.done
     THEN Settle(g, unanswered)
     ELSE gate' = g /\ UNCHANGED <<unanswered, lost, reported>>
  /\ LeaveSlot(x, IF h[x].answered THEN "answered" ELSE "unknown")

(* dispatched, finishLocked, and the slot's release. *)
Finish(x) ==
  /\ h[x].pc = "ended"
  /\ LET ended == unanswered + (IF h[x].seal \/ h[x].answered THEN 0 ELSE 1)
         g == IF h[x].seal THEN gate ELSE [gate EXCEPT !.pending = @ - 1] IN
     IF ~h[x].seal /\ g.closed /\ g.pending = 0 /\ ~g.current.done
     THEN Settle(g, ended)
     ELSE gate' = g /\ unanswered' = ended /\ UNCHANGED <<lost, reported>>
  /\ LeaveSlot(x, IF h[x].answered THEN "answered" ELSE "unknown")

(* closeAdmission, closeLocked *)
CloseAdmission ==
  /\ ~gate.closed /\ gate.generation < MaxClosures
  /\ LET g == [gate EXCEPT !.closed = TRUE, !.generation = @ + 1,
                           !.current = [done |-> FALSE, drained |-> FALSE]] IN
     IF g.pending = 0 THEN Settle(g, unanswered)
     ELSE gate' = g /\ UNCHANGED <<unanswered, lost, reported>>
  /\ UNCHANGED <<now, table, tokens, h, last>>

(* openAdmission, openLocked *)
OpenAdmission ==
  /\ gate.closed
  /\ gate' = [gate EXCEPT !.closed = FALSE, !.current.done = TRUE]
  /\ UNCHANGED <<now, table, unanswered, tokens, h, history>>

Tick ==
  /\ now < MaxTime
  /\ now' = now + 1
  /\ UNCHANGED <<table, gate, unanswered, tokens, h, history>>

Next ==
  \/ \E r \in Requests : NoSession(r) \/ EndSession(r) \/ OnlyTouch(r)
  \/ \E x \in Handlers :
       \/ \E r \in Requests : PostCall(x, r) \/ StdioLine(x, r.m)
       \/ \E r \in Requests, id \in SessionIds : OpenFor(x, r, id)
       \/ Initialize(x)
       \/ StartRun(x) \/ GiveUp(x) \/ TakeSlot(x) \/ SlotTooLate(x)
       \/ Dispatch(x) \/ Reach(x)
       \/ \E answered \in BOOLEAN : Forward(x, answered)
       \/ Finish(x)
  \/ WriteFails \/ CloseAdmission \/ OpenAdmission \/ Tick

(* A call's own steps are not put off for ever: its wait and its forward    *)
(* both have a timer.                                                       *)
Run(x) ==
  \/ Initialize(x) \/ StartRun(x) \/ GiveUp(x) \/ TakeSlot(x) \/ SlotTooLate(x)
  \/ Dispatch(x) \/ Forward(x, FALSE) \/ Forward(x, TRUE) \/ Finish(x)

Spec == Init /\ [][Next]_vars /\ \A x \in Handlers : WF_vars(Run(x))

-----------------------------------------------------------------------------
InQueue == {x \in Handlers : h[x].pc \in {"queued", "waiting"}}
InSlot == {x \in Handlers : h[x].pc \in {"slot", "sending", "ended"}}
InFlight == {x \in Handlers : h[x].pc \in {"sending", "ended"} /\ ~h[x].seal}

(* What a handler is doing, and the closure the gate is at. *)
Calls ==
  [pc : {"queued", "waiting", "slot", "sending", "ended"}, seal : BOOLEAN, generation : Nat,
   stdio : BOOLEAN, sent : BOOLEAN, answered : BOOLEAN]
Opened == [pc : {"opened"}, id : SessionIds, ok : BOOLEAN]
Closures == [done : BOOLEAN, drained : BOOLEAN]

TypeOK ==
  /\ h \in [Handlers -> {Idle} \cup Opened \cup Calls]
  /\ last \in [Handlers -> {None} \cup [what : {"overload", "answered", "unknown"}, sent : BOOLEAN]]
  /\ gate \in [closed : BOOLEAN, generation : Nat, pending : Nat, current : {None} \cup Closures]
  /\ gate.closed => gate.current \in Closures
  /\ unanswered \in Nat /\ lost \in Nat
  /\ reported \in [generation : Nat, unresolved : Nat, lost : Nat]

(* What a refusal says, "nothing was forwarded", is true of the call, and    *)
(* every way out of the queue and of a slot gives back the token it took:    *)
(* no early return of runCall wears the server out.                          *)
RefusalsAreTrue ==
  /\ \A x \in Handlers : last[x] # None /\ last[x].what = "overload" => ~last[x].sent
  /\ queue = Cardinality(InQueue)
  /\ forwards = Cardinality(InSlot)

(* Maintenance starts from what a drained closure says: no acquisition       *)
(* admitted before it is forwarded, then or after the gate reopens, and it   *)
(* counted every acquisition whose answer never came since the last drain.   *)
DrainIsTrue ==
  /\ \A x \in InFlight : h[x].generation >= reported.generation
  /\ reported.unresolved = reported.lost
  /\ gate.closed /\ gate.current.drained => InFlight = {}

(* The inductive invariant.  A call is forwarded from a slot only, and was  *)
(* admitted under a generation the gate has reached; the tokens taken and   *)
(* the acquisitions outstanding are counted by what the handlers do; and    *)
(* what was lost since the last drain is what has ended unanswered, and     *)
(* what is about to be counted.                                             *)
CallInv ==
  \A x \in Handlers : h[x] \in Calls =>
    /\ h[x].sent => h[x].pc \in {"sending", "ended"}
    /\ h[x].generation <= gate.generation

CountInv ==
  /\ queue = Cardinality(InQueue) /\ forwards = Cardinality(InSlot)
  /\ gate.pending = Cardinality(InFlight)

LostInFlight == {x \in InFlight : h[x].pc = "ended" /\ ~h[x].answered}
LostInv == lost = unanswered + Cardinality(LostInFlight)

GateInv ==
  /\ reported.generation <= gate.generation
  /\ reported.unresolved = reported.lost
  /\ \A x \in InFlight : h[x].generation >= reported.generation
  /\ gate.closed /\ gate.current.drained => InFlight = {}

RefusalInv == \A x \in Handlers : last[x] # None /\ last[x].what = "overload" => ~last[x].sent

McpInv == TypeOK /\ CallInv /\ CountInv /\ LostInv /\ GateInv /\ RefusalInv
=============================================================================
