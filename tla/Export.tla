------------------------------- MODULE Export -------------------------------
(***************************************************************************)
(* The filesystem store's spaces (store_fs.go) as its writers fill them,   *)
(* the cut fsKind.snapshot reads across them while they are written, the   *)
(* directory `gateway export' makes of the cut and what `gateway export    *)
(* --check' says of it (export.go).  The host may crash and lose every     *)
(* name whose directory was not synced; the exporter may stop at any step; *)
(* someone may change, remove or add a file of the export.                 *)
(*                                                                         *)
(* A name is <<kind, session, index>>: the decision record an action       *)
(* cites, the artifact and the receipt of the session's index-th call, and *)
(* the session's directory, at index 0.  A seal is [session, count].       *)
(***************************************************************************)
EXTENDS Naturals, Sequences, FiniteSets

CONSTANTS
  Sessions,
  MaxCalls,                      \* bound: the calls of all sessions
  MaxSeals, MaxUnsynced, MaxTampers,
  None

VARIABLES
  names,        \* the names the store holds
  kept,         \* those a synced directory keeps through a crash
  log,          \* the registry's seals
  logKept,      \* how many of them are synced
  stage,        \* each session's writer: what its next call has written
  unsynced,
  pc,           \* the exporter
  cut,          \* storeCut
  out,          \* the export's files, each with its content
  outKept,      \* those a crash leaves
  manifest,     \* manifest.json, or None
  tampered,
  crashed,
  lost          \* history: names a crash took

store == <<names, kept, log, logKept, stage, unsynced>>
export == <<pc, cut, out, outKept, manifest, tampered>>
vars == <<store, export, crashed, lost>>

Record(s, i) == <<"record", s, i>>
Blob(s, i) == <<"blob", s, i>>
Entry(s, i) == <<"entry", s, i>>
Dir(s) == <<"dir", s, 0>>
Registry == <<"registry", None, 0>>
Of(kind, ns) == {n \in ns : n[1] = kind}
Stamped(s, ns) == Cardinality({n \in ns : n[1] = "entry" /\ n[2] = s})
(* The directory a name is in: a session's, or one of the store's. *)
Parent(n) == IF n[1] = "entry" THEN Dir(n[2]) ELSE <<n[1], None, 0>>

-----------------------------------------------------------------------------
(* The store's writers. *)

(* fsWriteFile: the bytes synced, the name put in place, and the directory synced as    *)
(* far as the platform can, which keeps every name in it.                               *)
FsWriteFile(n) ==
  /\ names' = names \cup {n}
  /\ \/ kept' = kept \cup {m \in names' : Parent(m) = Parent(n)} /\ UNCHANGED unsynced
     \/ unsynced < MaxUnsynced /\ unsynced' = unsynced + 1 /\ UNCHANGED kept
  /\ UNCHANGED <<log, logKept>>

Call(s) == Stamped(s, names) + 1
(* What is written once the export is there is not the export's. *)
Written == pc \notin {"done", "stopped"}
Goto(s, to) == stage' = [stage EXCEPT ![s] = to]

(* A runtime's decision record, written before the action that cites it. *)
PutRecord(s) ==
  /\ Written /\ stage[s] = "idle" /\ Cardinality(Of("record", names)) < MaxCalls
  /\ FsWriteFile(Record(s, Call(s))) /\ Goto(s, "record")
  /\ UNCHANGED <<export, crashed, lost>>

(* fsBlobs.putBlob: bytes held already are a put that succeeds. *)
PutBlob(s) ==
  /\ Written /\ stage[s] = "record" /\ FsWriteFile(Blob(s, Call(s))) /\ Goto(s, "blob")
  /\ UNCHANGED <<export, crashed, lost>>

(* makeSeries: an exclusive mkdir, whose parent nobody syncs. *)
MakeSeries(s) ==
  /\ Written /\ stage[s] = "blob" /\ Dir(s) \notin names /\ names' = names \cup {Dir(s)}
  /\ UNCHANGED <<kept, log, logKept, stage, unsynced, export, crashed, lost>>

(* createIndexed: linked into place, never over a name. *)
CreateIndexed(s) ==
  /\ Written /\ stage[s] = "blob" /\ Dir(s) \in names
  /\ FsWriteFile(Entry(s, Call(s))) /\ Goto(s, "idle")
  /\ UNCHANGED <<export, crashed, lost>>

(* registryWriter.seal's append: written whole, then synced, or the sync fails. *)
AppendRecord(s) ==
  /\ Written /\ stage[s] = "idle" /\ Stamped(s, names) > 0 /\ Len(log) < MaxSeals
  /\ ~ \E i \in DOMAIN log : log[i].session = s
  /\ log' = Append(log, [session |-> s, count |-> Stamped(s, names)])
  /\ Goto(s, "sealed")
  /\ \/ logKept' = Len(log') /\ UNCHANGED unsynced
     \/ unsynced < MaxUnsynced /\ unsynced' = unsynced + 1 /\ UNCHANGED logKept
  /\ UNCHANGED <<names, kept, export, crashed, lost>>

-----------------------------------------------------------------------------
(* The export. *)

NoCut == [log |-> <<>>, dirs |-> {}, listed |-> {}, entries |-> {}, blobs |-> {}]

MakeDirectory ==
  /\ pc = "none" /\ pc' = "log"
  /\ UNCHANGED <<store, cut, out, outKept, manifest, tampered, crashed, lost>>

(* fsKind.snapshot: the reverse of the order a writer makes its writes durable. *)
Snapshot(from, to, c) ==
  /\ pc = from /\ pc' = to /\ cut' = c
  /\ UNCHANGED <<store, out, outKept, manifest, tampered, crashed, lost>>

CutLog == Snapshot("log", "series", [cut EXCEPT !.log = log])
(* listSeries, then listEntries of each series it named. *)
CutSeries == Snapshot("series", "entries", [cut EXCEPT !.dirs = Of("dir", names)])
CutEntries(s) ==
  /\ Dir(s) \in cut.dirs /\ s \notin cut.listed
  /\ Snapshot("entries", "entries",
       [cut EXCEPT !.listed = @ \cup {s}, !.entries = @ \cup {n \in Of("entry", names) : n[2] = s}])

(* Mutant: the registry is read last. *)
CutBlobsThenLog ==
  /\ \A n \in cut.dirs : n[2] \in cut.listed
  /\ Snapshot("entries", "write", [cut EXCEPT !.blobs = Of("blob", names), !.log = log])

CutBlobs ==
  /\ \A n \in cut.dirs : n[2] \in cut.listed
  /\ Snapshot("entries", "write", [cut EXCEPT !.blobs = Of("blob", names)])

(* exportWriter.put: the file's own sync; its name is kept once its directory is.        *)
(* The registry, the receipts and artifacts listed, then the decision records there are. *)
Files == {Registry} \cup cut.dirs \cup cut.entries \cup cut.blobs

WriteFiles ==
  /\ pc = "write" /\ pc' = "manifest"
  /\ out' = [n \in Files \cup Of("record", names) |-> "as cut"]
  /\ UNCHANGED <<store, cut, outKept, manifest, tampered, crashed, lost>>

(* writeManifest: every directory synced as far as it can be, and then the manifest. *)
WriteManifest ==
  /\ pc = "manifest" /\ pc' = "done"
  /\ manifest' = [log |-> cut.log, files |-> DOMAIN out]
  /\ outKept' \in {DOMAIN out} \cup {{m \in DOMAIN out : m # n /\ Parent(m) # n} : n \in DOMAIN out}
  /\ UNCHANGED <<store, cut, out, tampered, crashed, lost>>

(* The exporter is stopped: no manifest, so no export; and no second one there. *)
ExporterStops ==
  /\ pc \notin {"none", "done", "stopped"} /\ pc' = "stopped"
  /\ UNCHANGED <<store, cut, out, outKept, manifest, tampered, crashed, lost>>

(* The host crashes: names not kept may be lost, with what is in a lost directory, and *)
(* the registry's unsynced seals, or all of it, its own directory being nobody's to     *)
(* sync.  A session that is still there is begun no more.                               *)
Crash ==
  /\ ~crashed /\ crashed' = TRUE /\ Written
  /\ \E gone \in SUBSET (names \ kept) :
       LET all == gone \cup {n \in names : Parent(n) \in gone} IN
       /\ names' = names \ all /\ kept' = kept \ all /\ lost' = all
       /\ stage' = [s \in Sessions |-> IF Dir(s) \in names \ all THEN "stopped" ELSE "idle"]
  /\ \E n \in {0} \cup (logKept .. Len(log)) : log' = SubSeq(log, 1, n) /\ logKept' = n
  /\ pc' = IF pc = "none" THEN pc ELSE "stopped"
  /\ UNCHANGED <<unsynced, cut, out, outKept, manifest, tampered>>

(* A crash after the manifest: a name of the export whose directory was not synced. *)
CrashOfExport ==
  /\ ~crashed /\ crashed' = TRUE /\ pc = "done"
  /\ out' = [n \in DOMAIN out \cap outKept |-> out[n]]
  /\ UNCHANGED <<store, pc, cut, outKept, manifest, tampered, lost>>

(* Someone changes, removes or adds a file of the export. *)
Tamper ==
  /\ pc = "done" /\ tampered < MaxTampers /\ tampered' = tampered + 1
  /\ \/ \E n \in DOMAIN out : out' = [out EXCEPT ![n] = "changed"]
     \/ \E n \in DOMAIN out : out' = [m \in {k \in DOMAIN out : k # n /\ Parent(k) # n} |-> out[m]]
     \/ \E s \in Sessions, k \in {"blob", "dir"} :
          out' = [m \in DOMAIN out \cup {IF k = "dir" THEN Dir(s) ELSE Blob(s, MaxCalls)} |-> "added"]
  /\ UNCHANGED <<store, pc, cut, outKept, manifest, crashed, lost>>

-----------------------------------------------------------------------------
(* checkExport against the manifest: what is there and unlisted, what is listed and not *)
(* there, what digests otherwise; a session's directory and the records' are listed too. *)
Findings ==
  {<<n, "unlisted">> : n \in DOMAIN out \ manifest.files}
    \cup {<<n, "missing">> : n \in manifest.files \ DOMAIN out}
    \cup {<<n, "digest-mismatch">> : n \in {m \in DOMAIN out \cap manifest.files :
                                               m[1] # "dir" /\ out[m] # "as cut"}}

(* `gateway export --check' writes nothing and passes an export that has a manifest and  *)
(* no finding.                                                                           *)
CheckExport == manifest # None /\ Findings = {}

Init ==
  /\ names = {} /\ kept = {} /\ log = <<>> /\ logKept = 0
  /\ stage = [s \in Sessions |-> "idle"] /\ unsynced = 0
  /\ pc = "none" /\ cut = NoCut /\ out = <<>> /\ outKept = {} /\ manifest = None
  /\ tampered = 0 /\ crashed = FALSE /\ lost = {}

Next ==
  \/ \E s \in Sessions :
       PutRecord(s) \/ PutBlob(s) \/ MakeSeries(s) \/ CreateIndexed(s) \/ AppendRecord(s) \/ CutEntries(s)
  \/ MakeDirectory \/ CutLog \/ CutSeries \/ CutBlobs
  \/ WriteFiles \/ WriteManifest \/ ExporterStops \/ Crash \/ CrashOfExport \/ Tamper

Spec == Init /\ [][Next]_vars

-----------------------------------------------------------------------------
(* An export is a consistent cut of a store that was written while it was read: every   *)
(* receipt a seal in it counts is in it, and every receipt has its session, its         *)
(* artifact and the decision record it cites, but for what a crash of the host took     *)
(* from the store before (store-contract.md "The consistent cut", fsKind.snapshot).     *)
ClosedIn(seals, ns) ==
  /\ \A i \in DOMAIN seals : \A k \in 1 .. seals[i].count :
       Entry(seals[i].session, k) \in ns \cup lost
  /\ \A n \in Of("entry", ns) :
       {Dir(n[2]), Blob(n[2], n[3]), Record(n[2], n[3])} \subseteq ns \cup lost

ExportIsClosed == manifest # None => ClosedIn(manifest.log, manifest.files)

(* What the check passes is that cut, every byte of it, whatever a crash or a hand did  *)
(* to the export after its manifest was written (checkExport).                          *)
CheckedIsClosed ==
  CheckExport =>
    /\ ClosedIn(manifest.log, DOMAIN out)
    /\ \A n \in DOMAIN out : out[n] = "as cut" \/ n[1] = "dir"
=============================================================================
