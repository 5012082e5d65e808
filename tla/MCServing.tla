------------------------------ MODULE MCServing ------------------------------
(***************************************************************************)
(* What the gateway does for a caller, on small instances: the MCP server  *)
(* and its gate, the source it runs, the paths the engine holds before it  *)
(* relies on them, and the decision policy of a write.  A behaviour is of  *)
(* one of the four, which `part` says; the variables of the others are     *)
(* None.                                                                   *)
(***************************************************************************)
EXTENDS Naturals, Sequences, FiniteSets, TLC

CONSTANTS
  Parts, None,
  Handlers, SessionIds, Concurrency, SessionCap, CallsPerMinute, Minute, IdleTime, Backlog,
  MaxClosures, MaxTime,
  MaxSourceOutput, MaxWrites,
  MaxHops, MaxMoves

VARIABLES
  part,
  now, drawn, sessions, stdio, gate, unanswered, queue, forwards, h, last, lost, reported,
  unix, spec, pc, ctx, anchor, proc, grouped, writers, status, written, copied, overflowed,
  copying, watcher, cancelled, waitErr, envelope, retained, answer, stamped, endedBy, strayKill,
  fs, tainted, job, cur, rest, hops, listing, standing, moves,
  policy, library, request, outcome

serverVars == <<now, drawn, sessions, stdio, gate, unanswered, queue, forwards, h, last, lost, reported>>
sourceVars == <<unix, spec, pc, ctx, anchor, proc, grouped, writers, status, written, copied,
                overflowed, copying, watcher, cancelled, waitErr, envelope, retained, answer, stamped,
                endedBy, strayKill>>
pathVars == <<fs, tainted, job, cur, rest, hops, listing, standing, moves>>
policyVars == <<policy, library, request, outcome>>
vars == <<part, serverVars, sourceVars, pathVars, policyVars>>

-----------------------------------------------------------------------------
(* The MCP server: one platform whose name has a dot beside one that is its *)
(* first part, and a request of each kind a handler tells apart.            *)
Origins == None
Platforms ==
  {[segments |-> <<"crm">>, tools |-> {<<"read">>}],
   [segments |-> <<"crm", "eu">>, tools |-> {<<"read">>}]}

Message == [form |-> "object", twice |-> "none", extra |-> FALSE, version |-> TRUE,
            method |-> "tools/call", id |-> "integer", params |-> "object",
            result |-> FALSE, error |-> FALSE, capabilities |-> TRUE, clientInfo |-> TRUE,
            tool |-> <<"crm", "read">>, arguments |-> "object", sealArguments |-> TRUE]
InitMessage == [Message EXCEPT !.method = "initialize"]
Post(sid, m) == [sid |-> sid, method |-> "POST", m |-> m, origin |-> None, token |-> TRUE,
                 protocol |-> TRUE, tooLong |-> FALSE, accept |-> {}]

Requests ==
  {Post(None, InitMessage),
   Post(None, [InitMessage EXCEPT !.clientInfo = FALSE]),
   [Post("s1", Message) EXCEPT !.accept =
      {[range |-> "json", q |-> 500, parameterized |-> FALSE],
       [range |-> "any", q |-> 0, parameterized |-> FALSE]}],
   Post("s1", [Message EXCEPT !.tool = <<"seal">>]),
   [Post("s1", Message) EXCEPT !.method = "DELETE", !.origin = "loopback"]}

Server == INSTANCE McpServer

NoServer ==
  /\ now = None /\ drawn = None /\ sessions = None /\ stdio = None /\ gate = None /\ unanswered = None
  /\ queue = None /\ forwards = None /\ h = None /\ last = None /\ lost = None /\ reported = None

-----------------------------------------------------------------------------
Source == INSTANCE SourceRun

NoSource ==
  /\ unix = None /\ spec = None /\ pc = None /\ ctx = None /\ anchor = None /\ proc = None
  /\ grouped = None /\ writers = None /\ status = None /\ written = None /\ copied = None
  /\ overflowed = None /\ copying = None /\ watcher = None /\ cancelled = None /\ waitErr = None
  /\ envelope = None /\ retained = None /\ answer = None /\ stamped = None /\ endedBy = None /\ strayKill = None

-----------------------------------------------------------------------------
(* The paths held: every owner and mode of what is on the way, and links.   *)
NoFile == [kind |-> "absent", owner |-> "root", mode |-> "closed", to |-> <<>>, abs |-> FALSE]
Dirs == [kind : {"dir"}, owner : {"root", "self", "other"}, mode : {"closed", "open", "sticky"}, to : {<<>>}, abs : {FALSE}]
Files == [kind : {"file"}, owner : {"root", "self", "other"}, mode : {"private", "closed", "open"}, to : {<<>>}, abs : {FALSE}]
Link(owner, to, abs) == [kind |-> "link", owner |-> owner, mode |-> "closed", to |-> to, abs |-> abs]

Paths == {<<>>, <<"d">>, <<"e">>, <<"d", "f">>, <<"e", "f">>}
RootDir == [kind |-> "dir", owner |-> "root", mode |-> "closed", to |-> <<>>, abs |-> FALSE]

Host(d, e, df, ef) ==
  [x \in Paths |->
     CASE x = <<>> -> RootDir [] x = <<"d">> -> d [] x = <<"e">> -> e
       [] x = <<"d", "f">> -> df [] x = <<"e", "f">> -> ef]

AllHosts ==
  {Host(d, e, df, ef) :
     d \in Dirs \cup {Link(o, <<"e">>, FALSE) : o \in {"root", "self", "other"}},
     e \in {n \in Dirs : n.owner # "other"},
     df \in {n \in Files : n.mode # "closed"} \cup {NoFile} \cup {Link(o, <<"..", "e", "f">>, FALSE) : o \in {"root", "self", "other"}}
              \cup {Link("root", <<"d", "f">>, TRUE)},
     ef \in {n \in Files : n.mode = "private"} \cup {NoFile}}

(* Nothing is under a name that is not a directory. *)
Hosts == {x \in AllHosts : x[<<"d">>].kind = "link" => x[<<"d", "f">>] = NoFile}

Jobs == {[purpose |-> u, path |-> <<"d", "f">>] : u \in {"seed", "credentials", "executable", "policy"}}
            \cup {[purpose |-> "records", path |-> p] : p \in {<<"d">>, <<"d", "f">>}}

Path == INSTANCE TrustedPath WITH status <- standing

NoPath ==
  /\ fs = None /\ tainted = None /\ job = None /\ cur = None /\ rest = None /\ hops = None
  /\ listing = None /\ standing = None /\ moves = None

-----------------------------------------------------------------------------
(* The decision policy: every request on one library of records, and every  *)
(* library on a few requests.                                               *)
(* A value by its paths; an object by the value of each of its members. *)
Scalar(v) == [p \in {<<>>} |-> v]
Below(kind, token, v) == [p \in {<<>>, <<token>>} |-> IF p = <<>> THEN kind ELSE v]
Values == {Scalar("1"), Scalar("2"), Scalar("object"), Scalar("array")}
            \cup {Below(k, "0", v) : k \in {"object", "array"}, v \in {"1", "2", "array"}}
            \cup {Below("object", "c", v) : v \in {"1", "2"}}
MemberPaths(k, v) == {<<k>> \o q : q \in DOMAIN v}
Object(m) ==
  [p \in {<<>>} \cup UNION {MemberPaths(k, m[k]) : k \in DOMAIN m} |->
     IF p = <<>> THEN "object" ELSE m[Head(p)][Tail(p)]]
Objects == {Object([a |-> a, b |-> b]) : a \in Values, b \in {Scalar("1"), Below("array", "0", "2")}}
             \cup {Object([a |-> a]) : a \in Values}
Plain == Object([a |-> Scalar("1"), b |-> Scalar("1")])

Facts == Object([x |-> Scalar("1"), y |-> Below("array", "0", "2")])

Bind(argument, fact) == [argument |-> argument, fact |-> fact]
PlainPolicy ==
  [version |-> 15, outcomes |-> {"go"}, packs |-> None, reviewed |-> FALSE, bind |-> {}, fix |-> {},
   shape |-> {}, closed |-> FALSE, signers |-> None]
Policies ==
  {[PlainPolicy EXCEPT !.bind = bd, !.fix = f, !.shape = s, !.closed = c] :
     bd \in SUBSET {Bind(<<"a">>, <<"y">>), Bind(<<"a", "0">>, <<"x">>), Bind(<<"b">>, <<"x">>)},
     f \in {{}, {[argument |-> <<"a", "c">>, value |-> Scalar("2")]}, {[argument |-> <<"b">>, value |-> Below("array", "0", "2")]}},
     s \in {{}, {[pointer |-> <<"a">>, type |-> "array", max |-> 0]}, {[pointer |-> <<"a">>, type |-> "object", max |-> 0]}},
     c \in BOOLEAN}
  \cup {[PlainPolicy EXCEPT !.signers = {"k"}, !.packs = pk, !.reviewed = rv, !.version = v] :
          pk \in {None, {"other"}}, rv \in BOOLEAN, v \in {4, 15}}

GoodRecord ==
  [version |-> "1", kind |-> "evaluation", pack |-> "pack", cites |-> {"c"}, disposition |-> "outcome",
   outcome |-> "go", handoff |-> "none", reviewed |-> FALSE, facts |-> Facts, trail |-> "t", sequence |-> 1]
Records == [r |-> GoodRecord, wait |-> [GoodRecord EXCEPT !.handoff = "requested"], unchained |-> [GoodRecord EXCEPT !.trail = None]]

RecordFile(kind, record, cr) == [kind |-> kind, record |-> record, cr |-> cr]
SignedLine(record, key, signer, seq, whole) ==
  [record |-> record, trail |-> "t", sequence |-> seq, key |-> key, signer |-> signer, whole |-> whole]
Sidecars == {None, {SignedLine("r", "k", "k", 1, TRUE)}, {SignedLine("r", "k", "k", 2, TRUE), SignedLine("r", "k", "z", 1, TRUE)},
             {SignedLine("r", "z", "z", 1, TRUE), SignedLine("r", "k", "k", 1, FALSE)}, {SignedLine("unchained", "k", "k", 1, TRUE)}}
Libraries ==
  {[d1 |-> [files |-> f, sidecar |-> s], d2 |-> [files |-> g, sidecar |-> t]] :
     f \in {{RecordFile("file", "r", FALSE)}, {RecordFile("line", "r", TRUE)}, {RecordFile("trail", "r", FALSE)}},
     g \in {{}, {RecordFile("line", "r", FALSE)}, {RecordFile("file", n, FALSE) : n \in {"wait", "unchained"}}},
     s \in Sidecars, t \in {None, {SignedLine("r", "k", "k", 1, TRUE)}}}
OneLibrary == CHOOSE l \in Libraries : l.d1 = [files |-> {RecordFile("file", "r", FALSE)}, sidecar |-> {SignedLine("r", "k", "k", 1, TRUE)}]

Request(record, pack, cites, arguments) == [record |-> record, pack |-> pack, cites |-> cites, arguments |-> arguments]
PolicyRequests ==
  {Request("r", "pack", {"c"}, o) : o \in Objects}
  \cup {Request(n, pk, c, Plain) : n \in {"r", "wait", "unchained", "lost"}, pk \in {"pack", "other"}, c \in {{"c"}, {}}}

Decision == INSTANCE DecisionPolicy WITH Requests <- PolicyRequests

NoDecision == policy = None /\ library = None /\ request = None /\ outcome = None

DecisionInit ==
  /\ Decision!Init
  /\ \/ library = OneLibrary
     \/ policy.signers # None /\ request.arguments = Plain

-----------------------------------------------------------------------------
(* The handlers are finitely many. *)
ASSUME ServerAssumption == IsFiniteSet(Handlers)

(* A limit of bytes; and None is no text of the source's part. *)
ASSUME SourceAssumption ==
  /\ MaxSourceOutput \in Nat
  /\ None \notin {"zero", "nonzero", "signal", "itself", "gateway", "exit", "context", "kill", "delay"}
  /\ None \notin Source!Reasons

Init ==
  /\ part \in Parts
  /\ IF part = "server" THEN Server!Init ELSE NoServer
  /\ IF part = "source" THEN Source!Init ELSE NoSource
  /\ IF part = "path" THEN Path!Init ELSE NoPath
  /\ IF part = "decision" THEN DecisionInit ELSE NoDecision

Next ==
  /\ UNCHANGED part
  /\ \/ part = "server" /\ Server!Next /\ UNCHANGED <<sourceVars, pathVars, policyVars>>
     \/ part = "source" /\ Source!Next /\ UNCHANGED <<serverVars, pathVars, policyVars>>
     \/ part = "path" /\ Path!Next /\ UNCHANGED <<serverVars, sourceVars, policyVars>>
     \/ part = "decision" /\ Decision!Next /\ UNCHANGED <<serverVars, sourceVars, pathVars>>

(* The fairness of each part, which its own Spec states and explains. *)
Fairness ==
  /\ \A x \in Handlers : WF_serverVars(part = "server" /\ Server!Run(x))
  /\ WF_sourceVars(part = "source" /\ Source!Gateway)
  /\ WF_sourceVars(part = "source" /\ Source!Cancel)
  /\ WF_sourceVars(part = "source" /\ Source!WaitDelay)
  /\ WF_sourceVars(part = "source" /\ Source!ContextEnds("deadline"))
  /\ WF_pathVars(part = "path" /\ Path!Engine)

Spec == Init /\ [][Next]_vars /\ Fairness

-----------------------------------------------------------------------------
(* The server's answers are true of what it did (runCall, the gate): a call *)
(* refused for overload was not forwarded, every way out of the queue and   *)
(* of a slot gives back its token; and a closure that says it has drained   *)
(* has no acquisition of before it under way, then or after the gate        *)
(* reopens, and counted each one whose answer never came.                   *)
ServerAnswersAreTrue == part = "server" => Server!RefusalsAreTrue /\ Server!DrainIsTrue

(* A result is taken only of a source that exited with success, uncancelled, *)
(* its whole output read to the end; what a source is said to have done it   *)
(* did; nothing that stayed in its process group outlives the acquisition,   *)
(* and no kill goes to a group whose leader was reaped; and the acquisition  *)
(* the gateway stamps is one its verifier takes (runSource, sourceGroup).    *)
SourceIsToldTrue ==
  part = "source" =>
    Source!ResultIsWhole /\ Source!EndingIsTrue /\ Source!NothingSurvives /\ Source!StampedVerifies

(* What the engine holds no other user of the host has made, written or     *)
(* replaced, whatever they do between two looks of the walk or after it:    *)
(* the file it resolved to and the directories above it, every record in a  *)
(* directory of decision records, and that directory where it is yet to be  *)
(* made (walkComponents, holdBeneath, holdDecisionRecordsParent).           *)
HeldIsOurs == part = "path" => Path!HeldIsOurs /\ Path!RecordsAreOurs /\ Path!PlaceIsOurs

(* Under a closed policy every scalar of an admitted write is in the facts  *)
(* of the record that decided it, where the policy says, or in the policy;  *)
(* and one that must be signed for rests on bytes a trusted key signed,     *)
(* beside the line that signs them (holdToPolicy, holdToSignature).         *)
AdmittedIsDecided ==
  part = "decision" => Decision!ClosedIsDecided /\ Decision!AdmittedIsSigned

(* What each part has begun and not ended: a closure of the gate that has   *)
(* not drained, an acquisition that is not answered, a walk under way.      *)
Unfinished ==
  CASE part = "server" -> gate.closed /\ ~gate.current.drained
    [] part = "source" -> answer = None
    [] part = "path" -> standing \notin {"held", "refused"}
    [] part = "decision" -> FALSE

(* What is begun ends.  A closure drains or is lifted, although calls wait  *)
(* and forwards are never answered; an acquisition is answered although its *)
(* source never exits, or leaves a child that holds its output (WaitDelay); *)
(* and a walk ends on links that lead round in a circle (maxLinkHops).      *)
WhatIsBegunEnds == Unfinished ~> ~Unfinished
=============================================================================
