----------------------------- MODULE McpAdapter -----------------------------
(***************************************************************************)
(* adapter-mcp (adapters/mcp, adapters/mcphttp): one acquisition or check  *)
(* against an MCP server the adapter runs (a command, a customer's command *)
(* under an approval) or reaches (a remote).  The server answers as it     *)
(* likes, out of order, twice, late or never; the files of its command and *)
(* the approved snapshot may be replaced between any two steps; the        *)
(* context's deadline may pass at any time.                                *)
(*                                                                         *)
(* A descriptor is [shown, whole]: the parts a version 2 snapshot projects *)
(* and all of it, which the digest of a customer's snapshot (version 3, 4) *)
(* covers.  A file's content is a version.  A message's `for' is the       *)
(* request the server was answering.                                       *)
(***************************************************************************)
EXTENDS Naturals, Sequences, FiniteSets

CONSTANTS
  Configs,                          \* the invocations
  MaxToolPages, MaxEvents,          \* bounds of the code
  MaxChanges,                       \* a bound on the replacements of files
  None

VARIABLES
  cfg,
  disk,         \* the command's file, its script operand and the snapshot
  changes,
  pc,
  measured,     \* measuredCommand: the digests, and whether a sealed copy runs
  held,         \* the measured file or the sandbox's directory is still held
  proc,         \* the server's process
  kids,         \* processes it left behind
  conn,         \* the JSON-RPC client
  list,         \* listTools: the names, cursors and descriptors met
  out,          \* the outcome
  late,         \* history: files replaced once the adapter had rechecked them
  ran,          \* history: what the started process runs
  heard,        \* history: every descriptor the server listed
  calls         \* history: tools/call as sent, with what had been heard

files == <<disk, changes, late>>
server == <<held, proc, kids, ran>>
vars == <<cfg, files, pc, measured, server, conn, list, out, heard, calls>>

Tools == {"t1", "t2"}               \* the owner's declared tools; t2 acts
Descriptors == {[shown |-> "d1", whole |-> "d1"], [shown |-> "d1", whole |-> "d1b"],
                [shown |-> "d2", whole |-> "d2"], [shown |-> "contradicts", whole |-> "dx"]}
Approved == [shown |-> "d1", whole |-> "d1"]

Local == cfg.server # "remote"
Customer == cfg.server = "customer"
Peers(method) == IF Local THEN {None} ELSE IF method = "tools/call" THEN {"p1", "p2"} ELSE {"p1"}
Pinned == cfg.approved                           \* cfg.approvalHeld
Declared == Pinned \/ cfg.op = "capture"         \* ToolTaxonomies # nil

NoServer == [exe |-> None, script |-> None, late |-> {}]
NoConn == [next |-> 0, asked |-> None, events |-> 0, peer |-> None, stream |-> None, result |-> None]
NoList == [page |-> 0, seen |-> <<>>, cursors |-> {}, cursor |-> None, found |-> <<>>, schema |-> None]
NoOut == [status |-> "none"]

-----------------------------------------------------------------------------
(* The end: Acquire's and Check's returns, and their finish and fail. *)

Return(o) == pc' = "done" /\ out' = o
Error == [status |-> "error", stopped |-> TRUE]
(* After the start every return passes srv.stop. *)
Finish(o) == pc' = "stop" /\ out' = o
Forget == conn' = NoConn /\ list' = NoList /\ heard' = <<>>


(* Config.Refusal and ownerRefusal, and the allow list of Acquire and Check. *)
Refusal ==
  \/ cfg.op = "capture" /\ Pinned
  \/ Customer /\ (~Declared \/ (cfg.op # "acquire" /\ cfg.tool # None))
  \/ Declared /\ (cfg.tools = {} \/ (cfg.op = "capture" /\ cfg.tools # Tools))
  \/ Declared /\ cfg.op # "acquire" /\ cfg.tool = "t2"
  \/ cfg.tools # {} /\ cfg.tool # None /\ cfg.tool \notin cfg.tools

(* approvedSnapshot: the pinned bytes; a customer's approval from before executables *)
(* were bound is asked for again.                                                    *)
ApprovedSnapshot == disk.snapshot = "approved" \/ (disk.snapshot = "predates" /\ ~Customer)

Prepare ==
  /\ pc = "begin"
  /\ IF Refusal \/ (Pinned /\ ~ApprovedSnapshot)
       THEN Return(Error)
       ELSE pc' = (IF Customer THEN "measure" ELSE "start") /\ UNCHANGED out
  /\ UNCHANGED <<cfg, files, measured, server, conn, list, heard, calls>>

-----------------------------------------------------------------------------
(* The start of a customer's command. *)

(* measureCustomerCommand, the command's file: sealed where it can be. *)
MeasureExe ==
  /\ pc = "measure"
  /\ \E exact \in BOOLEAN : measured' = [measured EXCEPT !.exe = disk.exe, !.exact = exact]
  /\ held' = TRUE /\ pc' = "measureScript"
  /\ UNCHANGED <<cfg, files, proc, kids, ran, conn, list, out, heard, calls>>

ApprovedCommandRefusal(m) == m.exe # "v1" \/ m.script # "v1"

(* The script operand, then the approval and the sandbox, which may refuse. *)
MeasureScript ==
  LET m == [measured EXCEPT !.script = disk.script] IN
  /\ pc = "measureScript"
  /\ measured' = m
  /\ \/ held' = FALSE /\ Return(Error)
     \/ (Pinned => ~ApprovedCommandRefusal(m)) /\ pc' = "recheck" /\ UNCHANGED <<held, out>>
  /\ UNCHANGED <<cfg, files, proc, kids, ran, conn, list, heard, calls>>

(* recheckBeforeStart: what is opened by path is digested again. *)
RecheckFile(f, unneeded, next) ==
  /\ IF unneeded \/ disk[f] = measured[f]
       THEN pc' = next /\ UNCHANGED <<held, out>>
       ELSE held' = FALSE /\ Return(Error)
  /\ UNCHANGED <<cfg, files, measured, proc, kids, ran, conn, list, heard, calls>>

(* Mutant: the executable is not digested again. *)
RecheckExeNot == pc = "recheck" /\ RecheckFile("exe", TRUE, "recheckScript")

RecheckExe == pc = "recheck" /\ RecheckFile("exe", measured.exact, "recheckScript")
RecheckScript == pc = "recheckScript" /\ RecheckFile("script", FALSE, "start")

(* cmd.Start, the container's start, or openRemote. *)
StartServer ==
  /\ pc = "start"
  /\ \/ held' = FALSE /\ Return(Error) /\ UNCHANGED <<proc, kids, ran>>
     \/ /\ pc' = "initialize" /\ proc' = "up" /\ UNCHANGED <<held, out>>
        /\ kids' \in {FALSE, Local}
        /\ ran' = [exe |-> IF measured.exact THEN measured.exe ELSE disk.exe,
                   script |-> disk.script, late |-> late]
  /\ late' = {}
  /\ UNCHANGED <<cfg, disk, changes, measured, conn, list, heard, calls>>

-----------------------------------------------------------------------------
(* The JSON-RPC client: stdio's client.call, the remote's post and message. *)

(* A request; a remote's response has a peer of its own, kept as its headers come. *)
Call(method) ==
  \E peer \in Peers(method) :
    conn' = [conn EXCEPT !.next = @ + 1, !.asked = method, !.events = 0, !.peer = peer, !.stream = peer]

Initialize ==
  /\ pc = "initialize" /\ pc' = "wait" /\ Call("initialize")
  /\ UNCHANGED <<cfg, files, measured, server, list, out, heard, calls>>

(* notifications/initialized: the remote answers it with 202, or the call fails. *)
Initialized ==
  /\ pc = "initialized"
  /\ \/ pc' = "list" /\ UNCHANGED out
     \/ Finish(Error)
  /\ UNCHANGED <<cfg, files, measured, server, conn, list, heard, calls>>

ListTools ==
  /\ pc = "list" /\ pc' = "wait" /\ Call("tools/list")
  /\ UNCHANGED <<cfg, files, measured, server, list, out, heard, calls>>

CallTool ==
  /\ pc = "call" /\ pc' = "wait" /\ Call("tools/call")
  /\ calls' = Append(calls, [tool |-> cfg.tool, heard |-> heard, ended |-> list.cursor = None])
  /\ UNCHANGED <<cfg, files, measured, server, list, out, heard>>

Waits(method) == pc = "wait" /\ conn.asked = method

(* A notification, a ping or another request of the server: ignored, answered or       *)
(* refused, and the call goes on waiting.  The remote's reply is a post of its own,    *)
(* whose answer does not set the peer.                                                 *)
Interrupted(peer) ==
  /\ pc = "wait" /\ (~Local => conn.events < MaxEvents)
  /\ conn' = [conn EXCEPT !.events = IF Local THEN @ ELSE @ + 1]
  /\ UNCHANGED <<cfg, files, pc, measured, server, list, out, heard, calls>>

(* A line that is no message, an error, neither or both, a status, an encoding or a     *)
(* size the client refuses, an end of the stream, and for a remote an answer to another *)
(* request or one that repeats the credential or the session.                           *)
Failed ==
  /\ pc = "wait" /\ Finish(Error) /\ Forget
  /\ UNCHANGED <<cfg, files, measured, server, calls>>

(* The response a call returns: of this request, and from a remote without a secret.    *)
(* stdio's client reads on past an answer to another request.                           *)
Answers(for, echoes) == for = conn.next /\ (~Local => ~echoes)

Answer(method, for, echoes) ==
  /\ Waits(method) /\ Answers(for, echoes)
  /\ conn' = IF method = "tools/call"
               THEN [conn EXCEPT !.result = [for |-> for, echoes |-> echoes, peer |-> conn.stream]]
               ELSE [NoConn EXCEPT !.next = conn.next]     \* the next response has its own

(* parseInitialize. *)
AnswerInitialize(for, echoes) ==
  /\ Answer("initialize", for, echoes)
  /\ \/ pc' = "initialized" /\ UNCHANGED out
     \/ Finish(Error)
  /\ UNCHANGED <<cfg, files, measured, server, list, heard, calls>>

(* capturer.addOwned's projection of a descriptor: its digest is for a customer. *)
Projected(d) == IF Customer THEN d ELSE d.shown

(* observedApprovedTool, and Check's comparison with the approved snapshot. *)
Drift(found) ==
  \/ \E t \in Tools : t \notin DOMAIN found
  \/ \E t \in Tools : found[t].shown = "contradicts"
  \/ Pinned /\ \E t \in Tools : Projected(found[t]) # Projected(Approved)

SeenTwice(seen, name) == \E i \in DOMAIN seen : seen[i] = name

(* One page of listTools, or of findTool, which ends at the tool it looks for. *)
AnswerList(for, echoes, name, d, next) ==
  LET seen == IF name = None THEN list.seen ELSE Append(list.seen, name)
      found == IF name = None THEN list.found
               ELSE [t \in DOMAIN list.found \cup {name} |-> IF t = name THEN d ELSE list.found[t]]
      found1 == cfg.op = "acquire" /\ ~Declared /\ name = cfg.tool
      named == (IF cfg.op = "acquire" THEN {} ELSE cfg.tools) \cup ({cfg.tool} \ {None})
  IN /\ Answer("tools/list", for, echoes)
     /\ LET refused ==
              \/ Declared /\ name # None /\ SeenTwice(list.seen, name)
              \/ next # None /\ ~found1 /\ Declared /\ next \in list.cursors
              \/ next # None /\ ~found1 /\ list.page + 1 >= MaxToolPages
              \/ next = None /\ Declared /\ Drift(found)
              \/ next = None /\ ~found1 /\ \E t \in named : t \notin DOMAIN found
        IN IF refused
             THEN Finish(Error) /\ list' = NoList /\ heard' = <<>>
             ELSE /\ heard' = IF name = None THEN heard ELSE Append(heard, [name |-> name, d |-> d])
                  /\ list' = [list EXCEPT !.page = @ + 1, !.seen = seen, !.found = found, !.cursor = next,
                                          !.cursors = IF next = None THEN @ ELSE @ \cup {next},
                                          !.schema = IF name = cfg.tool THEN d ELSE @]
                  /\ \/ next # None /\ ~found1 /\ pc' = "list" /\ UNCHANGED out
                     \/ next = None /\ cfg.tool = None /\ Finish([status |-> "report", found |-> found])
                     \/ (next = None \/ found1) /\ cfg.tool # None /\ pc' = "call" /\ UNCHANGED out
     /\ UNCHANGED <<cfg, files, measured, server, calls>>

(* parseToolResult and the output bound; for a check, the probe's answer. *)
AnswerCall(for, echoes) ==
  /\ Answer("tools/call", for, echoes)
  /\ \/ Finish(Error)
     \/ IF cfg.op = "acquire"
          THEN Finish([status |-> "envelope", result |-> conn'.result, peer |-> conn'.peer,
                       schema |-> list.schema])
          ELSE Finish([status |-> "report", found |-> list.found])
  /\ UNCHANGED <<cfg, files, measured, server, list, heard, calls>>

-----------------------------------------------------------------------------
(* The deadline kills a server the adapter runs and ends the call. *)
Expire ==
  /\ pc \in {"initialize", "initialized", "list", "call", "wait"}
  /\ Finish(Error) /\ Forget
  /\ proc' = IF Local THEN "exited" ELSE proc
  /\ UNCHANGED <<cfg, files, measured, held, kids, ran, calls>>

(* The server ends by itself, as it should when its input is closed. *)
ServerExits ==
  /\ Local /\ proc = "up" /\ proc' = "exited"
  /\ UNCHANGED <<cfg, files, pc, measured, held, kids, ran, conn, list, out, heard, calls>>

(* stop: past WaitDelay the process is killed. *)
StopKill ==
  /\ pc = "stop" /\ Local /\ proc = "up" /\ proc' = "exited"
  /\ UNCHANGED <<cfg, files, pc, measured, held, kids, ran, conn, list, out, heard, calls>>

(* stop's rest: the descendants, then the cleanup, which may fail; a success of Acquire *)
(* is kept with a leftover directory, one of Check is not.  The remote's stop cannot    *)
(* fail.                                                                                 *)
StopReap ==
  /\ pc = "stop" /\ proc = (IF Local THEN "exited" ELSE "up")
  /\ proc' = "gone"
  /\ \/ /\ Local /\ Return([Error EXCEPT !.stopped = FALSE]) /\ UNCHANGED <<held, kids>>
     \/ /\ kids' = FALSE /\ held' = FALSE
        /\ \/ Return(out)
           \/ out.status = "envelope" /\ Return(Error)          \* buildEnvelope's bound
     \/ /\ Local /\ kids' = FALSE /\ UNCHANGED held
        /\ Return(IF out.status = "envelope" THEN out ELSE [Error EXCEPT !.stopped = FALSE])
  /\ UNCHANGED <<cfg, files, measured, ran, conn, list, heard, calls>>

(* Someone replaces a file; none is read once the server runs. *)
Before == {"measure", "measureScript", "recheck", "recheckScript", "start"}
Replace(f) ==
  /\ changes < MaxChanges /\ pc \in (IF f = "snapshot" THEN {"begin"} ELSE Before)
  /\ \E v \in (IF f = "snapshot" THEN {"changed", "predates"} ELSE {"v1", "v2"}) \ {disk[f]} :
       disk' = [disk EXCEPT ![f] = v]
  /\ changes' = changes + 1
  /\ late' = IF pc = "start" \/ (pc = "recheckScript" /\ f = "exe") THEN late \cup {f} ELSE late
  /\ UNCHANGED <<cfg, pc, measured, server, conn, list, out, heard, calls>>

-----------------------------------------------------------------------------
Init ==
  /\ cfg \in Configs
  /\ disk = [exe |-> "v1", script |-> "v1", snapshot |-> "approved"]
  /\ changes = 0 /\ pc = "begin"
  /\ measured = [exe |-> None, script |-> None, exact |-> FALSE]
  /\ held = FALSE /\ proc = "none" /\ kids = FALSE
  /\ conn = NoConn /\ list = NoList /\ out = NoOut
  /\ late = {} /\ ran = NoServer /\ heard = <<>> /\ calls = <<>>

RequestIds == 1 .. conn.next
Page == [name : Tools, d : Descriptors] \cup {[name |-> None, d |-> None]}

Step ==
  \/ Prepare \/ MeasureExe \/ MeasureScript \/ RecheckExe \/ RecheckScript \/ StartServer
  \/ Initialize \/ Initialized \/ ListTools \/ CallTool
  \/ StopKill \/ StopReap

Hear ==
  \/ Failed
  \/ \E p \in Peers("tools/call") : Interrupted(p)
  \/ \E r \in RequestIds, e \in BOOLEAN :
       \/ AnswerInitialize(r, e)
       \/ AnswerCall(r, e)
       \/ \E next \in {None, "c1", "c2"}, item \in Page : AnswerList(r, e, item.name, item.d, next)

Next ==
  \/ Step \/ Hear \/ Expire \/ ServerExits
  \/ \E f \in DOMAIN disk : Replace(f)

(* The adapter's own steps are taken, and its deadlines pass; nothing is asked of the server. *)
Spec == Init /\ [][Next]_vars /\ WF_vars(Step) /\ WF_vars(Expire)

-----------------------------------------------------------------------------
(* A tool is called only as the configuration and the approval have it: the call names  *)
(* an allowed tool; under an approval the server had listed every approved tool exactly *)
(* once, to the end of its list, each with the approved descriptor (for a customer all  *)
(* of it); no check calls a tool declared to act; and what runs is the approved command *)
(* except for a file opened by path and replaced after its last digest (approval.go,    *)
(* executable.go).                                                                      *)
RunsAsApproved ==
  /\ ran.exe # "v1" => ~measured.exact /\ "exe" \in ran.late
  /\ ran.script # "v1" => "script" \in ran.late

CalledAsApproved ==
  /\ \A i \in DOMAIN calls :
       LET c == calls[i]
           said(t) == {j \in DOMAIN c.heard : c.heard[j].name = t}
       IN /\ cfg.tools # {} => c.tool \in cfg.tools
          /\ Declared /\ cfg.op # "acquire" => c.tool # "t2"
          /\ Pinned => /\ c.ended
                       /\ \A t \in Tools :
                            /\ Cardinality(said(t)) = 1
                            /\ \A j \in said(t) : Projected(c.heard[j].d) = Projected(Approved)
  /\ Customer /\ Pinned /\ proc # "none" => RunsAsApproved

(* What the adapter answers is so: an envelope is the answer to this acquisition's own  *)
(* call, recorded with the peer that gave it and the schema of the tool as listed, and  *)
(* from a remote without the credential or the session; a captured snapshot is what the *)
(* server listed last for each name (adapter.go, client.go).                            *)
Answered ==
  /\ out.status = "envelope" =>
       /\ Len(calls) = 1 /\ out.result.for = conn.next
       /\ ~Local => out.peer = out.result.peer /\ ~out.result.echoes
       /\ \E j \in DOMAIN heard : heard[j].name = cfg.tool /\ heard[j].d = out.schema
  /\ out.status = "report" =>
       /\ Declared => DOMAIN out.found = Tools
       /\ \A t \in DOMAIN out.found : \E j \in DOMAIN heard :
            heard[j] = [name |-> t, d |-> out.found[t]]

AnswersAreTrue == pc = "done" => Answered

(* Nothing is left behind unsaid: when the adapter returns, a server it started is gone; *)
(* if a process of it may be left, or if a failed run leaves a file or a directory held, *)
(* the answer is an error that says so (server.go, stop).                                *)
NothingLeftBehind ==
  pc = "done" =>
    /\ proc \in {"none", "gone"}
    /\ kids => out = [Error EXCEPT !.stopped = FALSE]
    /\ held => out.status = "envelope" \/ out = [Error EXCEPT !.stopped = FALSE]

-----------------------------------------------------------------------------
(* The inductive invariant behind them. *)

Unstarted == {"begin"} \cup Before
Running == {"initialize", "initialized", "list", "call", "wait"}
Calling == pc = "call" \/ Waits("tools/call")

(* The records keep their members. *)
Shapes ==
  /\ pc \in Unstarted \cup Running \cup {"stop", "done"}
  /\ disk = [exe |-> disk.exe, script |-> disk.script, snapshot |-> disk.snapshot]
  /\ measured = [exe |-> measured.exe, script |-> measured.script, exact |-> measured.exact]
  /\ conn = [next |-> conn.next, asked |-> conn.asked, events |-> conn.events, peer |-> conn.peer,
             stream |-> conn.stream, result |-> conn.result]
  /\ list = [page |-> list.page, seen |-> list.seen, cursors |-> list.cursors, cursor |-> list.cursor,
             found |-> list.found, schema |-> list.schema]

(* What is held, and what was started of it: at each step before the start, what the     *)
(* digests so far say of the files.                                                      *)
StartInv ==
  /\ pc \in Unstarted => proc = "none" /\ kids = FALSE
  /\ pc \in Running \cup {"stop"} => proc # "none"
  /\ pc = "begin" => held = FALSE
  /\ pc = "done" =>
       /\ proc \in {"none", "gone"}
       /\ kids => out = [Error EXCEPT !.stopped = FALSE]
       /\ held => out.status = "envelope" \/ out = [Error EXCEPT !.stopped = FALSE]
  /\ Customer /\ Pinned =>
       /\ pc \in {"recheck", "recheckScript", "start"} => measured.exe = "v1" /\ measured.script = "v1"
       /\ pc \in {"recheckScript", "start"} => measured.exact \/ disk.exe = "v1" \/ "exe" \in late
       /\ pc = "start" => disk.script = "v1" \/ "script" \in late
       /\ proc # "none" => RunsAsApproved

(* What listTools holds is what was heard. *)
ListInv ==
  /\ heard \in Seq([name : Tools, d : Descriptors])
  /\ list.seen \in Seq(Tools) /\ Len(list.seen) = Len(heard)
  /\ \A i \in DOMAIN heard : heard[i].name = list.seen[i] /\ heard[i].name \in DOMAIN list.found
  /\ \A t \in DOMAIN list.found : \E j \in DOMAIN heard : heard[j] = [name |-> t, d |-> list.found[t]]
  /\ Declared => \A i, j \in DOMAIN heard : heard[i].name = heard[j].name => i = j
  /\ cfg.tool # None /\ cfg.tool \in DOMAIN list.found => list.schema = list.found[cfg.tool]

(* A call about to be made, or made, is of a tool that was listed, and under an approval *)
(* or a capture after all were, as approved.                                             *)
Approves(h) ==
  \A t \in Tools : \E j \in DOMAIN h :
    /\ h[j].name = t /\ Projected(h[j].d) = Projected(Approved)
    /\ \A i \in DOMAIN h : h[i].name = t => i = j

CallInv ==
  /\ pc \notin {"begin", "done"} => ~Refusal
  /\ Calling => /\ cfg.tool # None /\ cfg.tool \in DOMAIN list.found
                /\ Declared => list.cursor = None /\ ~Drift(list.found)
  /\ \/ calls = <<>> /\ ~Waits("tools/call")
     \/ /\ calls = <<calls[1]>> /\ (pc = "wait" => conn.asked = "tools/call")
        /\ pc \in {"wait", "stop", "done"} /\ ~Refusal
        /\ calls[1].tool = cfg.tool /\ cfg.tool # None
        /\ Pinned => calls[1].ended /\ Approves(calls[1].heard)
  /\ Waits("tools/call") => conn.peer = conn.stream

(* The outcome. *)
OutInv == IF pc \in {"stop", "done"} THEN Answered ELSE out = NoOut

AdapterInv == Shapes /\ StartInv /\ ListInv /\ CallInv /\ OutInv
=============================================================================
