------------------------------ MODULE MCEvidence ------------------------------
(***************************************************************************)
(* What is said of evidence, on small instances: the two verifiers of a    *)
(* store, the export of one, the readers of a witness's log, and the text  *)
(* a document is read as.  A behaviour is of one of the four, which `part` *)
(* says; the variables of the others are None.                             *)
(***************************************************************************)
EXTENDS Naturals, Sequences, FiniteSets, TLC

CONSTANTS
  Parts, None, Free,
  MaxSigned, MaxEdits,
  Sessions, MaxCalls, MaxSeals, MaxUnsynced, MaxTampers,
  MaxSeq, MaxChain, MaxSigns, MaxReads, Page, MaxWitnessStatements,
  MaxRefDepth, MaxObjects, MaxSections, MaxPages, MaxNodes

VARIABLES
  part,
  store, signed, own, made, sealed, edits,
  names, kept, log, logKept, stage, unsynced, pc, cut, out, outKept, manifest, tampered, crashed, lost,
  chains, signs, reads, opts, reading, key, head, body, from, told, saved, held, outcome, input, verdict,
  file, d, c, result

verifyVars == <<store, signed, own, made, sealed, edits>>
exportVars == <<names, kept, log, logKept, stage, unsynced, pc, cut, out, outKept, manifest, tampered,
                crashed, lost>>
readVars == <<chains, signs, reads, opts, reading, key, head, body, from, told, saved, held, outcome,
              input, verdict>>
documentVars == <<file, d, c, result>>
vars == <<part, verifyVars, exportVars, readVars, documentVars>>

Symmetric == Permutations(Sessions)

-----------------------------------------------------------------------------
(* The store: a session of version 2 beside one of version 3, and a fault   *)
(* of each kind the two verifiers look for.                                 *)
VersionOf == [s \in {"old", "new"} |-> IF s = "old" THEN "2" ELSE "3"]
Faults == {"json", "signature", "callIndex", "cites", "argumentsDigest"}

Verifiers == INSTANCE Verify WITH Sessions <- {"old", "new"}

NoVerifiers ==
  store = None /\ signed = None /\ own = None /\ made = None /\ sealed = None /\ edits = None

-----------------------------------------------------------------------------
Exporter == INSTANCE Export

NoExporter ==
  /\ names = None /\ kept = None /\ log = None /\ logKept = None /\ stage = None /\ unsynced = None
  /\ pc = None /\ cut = None /\ out = None /\ outKept = None /\ manifest = None /\ tampered = None
  /\ crashed = None /\ lost = None

-----------------------------------------------------------------------------
(* The readers: one that pins the key and keeps the statements, one that    *)
(* saves its continuation and resumes.                                      *)
Options ==
  {[pinned |-> TRUE, save |-> FALSE, resume |-> FALSE, statements |-> TRUE],
   [pinned |-> FALSE, save |-> TRUE, resume |-> TRUE, statements |-> FALSE]}

Reader == INSTANCE WitnessRead WITH Values <- {"v"}, pc <- reading, kept <- saved

NoReader ==
  /\ chains = None /\ signs = None /\ reads = None /\ opts = None /\ reading = None /\ key = None
  /\ head = None /\ body = None /\ from = None /\ told = None /\ saved = None /\ held = None
  /\ outcome = None /\ input = None /\ verdict = None

-----------------------------------------------------------------------------
(* Small files: a catalog, a tree of one page, its content with a length of *)
(* its own, its font, a stream of objects, a security handler, and an older *)
(* page under the same number; then one or two defects.                     *)
Obj(n, what) == [num |-> n, body |-> what, length |-> None, undecodable |-> "no"]
Field(filter, r, ok) == [filter |-> filter, ref |-> r, ok |-> ok]
Base ==
  [o1 |-> Obj(1, "catalog") @@ [pages |-> 2],
   o2 |-> Obj(2, "pages") @@ [kids |-> <<3, 2, 9>>],
   o3 |-> Obj(3, "page") @@ [contents |-> 4, font |-> 5],
   p3 |-> Obj(3, "page") @@ [contents |-> 5, font |-> 5],
   o4 |-> [Obj(4, "stream") EXCEPT !.length = 6],
   o5 |-> Obj(5, "font"),
   o6 |-> Obj(6, "integer"),
   o7 |-> [Obj(7, "objstm") EXCEPT !.length = 6] @@ [inner |-> (5 :> "o5")],
   o8 |-> Obj(8, "dictionary") @@ [fields |-> <<Field(TRUE, None, TRUE), Field(FALSE, 6, TRUE), Field(FALSE, None, TRUE)>>],
   o9 |-> Obj(9, "page") @@ [contents |-> 7, font |-> 6]]

Offsets == <<"o1", "o2", "o3", "o4", "o5", "o6", "o7", "o8", "o9">>
Whole == [n \in 1 .. 9 |-> [at |-> Offsets[n]]]

(* The declared table: whole; one entry at another object's offset; the font *)
(* in the stream of objects; the older page.                                 *)
Declared ==
  {Whole, [Whole EXCEPT ![3] = [at |-> "p3"]], [Whole EXCEPT ![5] = [stm |-> 7]]}
    \cup {[Whole EXCEPT ![n] = [at |-> "o5"]] : n \in {1, 2, 3, 4, 6, 7, 8, 9}}
    \cup {[[Whole EXCEPT ![5] = [stm |-> 7]] EXCEPT ![6] = Free]}
    \cup {[[Whole EXCEPT ![5] = [stm |-> 7]] EXCEPT ![7] = [at |-> "o5"]]}

(* What lies at an offset, with a defect of its own. *)
Contents ==
  {Base, [Base EXCEPT !.o4.body = "bad"], [Base EXCEPT !.o6.body = "bound"],
   [Base EXCEPT !.o7.undecodable = "yes"], [Base EXCEPT !.o6.length = 4],
   [Base EXCEPT !.o8.body = "integer"],
   [Base EXCEPT !.o8.fields[1].ok = FALSE], [Base EXCEPT !.o8.fields[3].ok = FALSE], [Base EXCEPT !.o2.kids = <<3, 3, 9>>],
   [Base EXCEPT !.o2.kids = <<5>>, !.o5 = Obj(5, "pages") @@ [kids |-> <<3, 2>>]]}

Scans == {"ok", "none", "tooMany", "trailerBound"}
Trailer(r, e) == [root |-> r, encrypt |-> e]

(* A newest section, which may need an object before it can be read, over    *)
(* one that is older and names another page.                                 *)
Section(kind, entries, trailer, needs, older) ==
  [kind |-> kind, entries |-> entries, trailer |-> trailer, needs |-> needs, older |-> older]
Older == Section("table", [n \in 1 .. 9 |-> IF n = 3 THEN [at |-> "p3"] ELSE Whole[n]],
                 Trailer(1, 8), None, <<"s1">>)

File(table, content, scan, sec, encrypt, scanEncrypt, needs) ==
  [start |-> <<"s1">>,
   sections |-> [s1 |-> Section(sec, table, Trailer(IF scanEncrypt = None THEN None ELSE 1, encrypt), needs, <<"s0">>),
                 s0 |-> Older],
   content |-> content, scan |-> scan,
   scanned |-> [n \in 1 .. 9 \ {5} |-> Whole[n]] @@ (IF "stm" \in DOMAIN table[5] THEN <<>> ELSE 5 :> Whole[5]),
   heads |-> <<7>>, scanTrailer |-> Trailer(None, scanEncrypt)]

Files ==
  {File(t, k, "ok", "table", e, e, None) : t \in Declared, k \in Contents, e \in {None, 8}}
    \cup {File(t, Base, s, "table", None, 8, None) : t \in Declared, s \in Scans}
    \cup {File(t, Base, "ok", kind, None, None, 6) : t \in Declared, kind \in {"stream", "bad", "bound"}}

Document == INSTANCE PdfDocument

NoDocument == file = None /\ d = None /\ c = None /\ result = None

-----------------------------------------------------------------------------
Init ==
  /\ part \in Parts
  /\ IF part = "verify" THEN Verifiers!Init ELSE NoVerifiers
  /\ IF part = "export" THEN Exporter!Init ELSE NoExporter
  /\ IF part = "read" THEN Reader!Init ELSE NoReader
  /\ IF part = "document" THEN Document!Init ELSE NoDocument

Next ==
  /\ UNCHANGED part
  /\ \/ part = "verify" /\ Verifiers!Next /\ UNCHANGED <<exportVars, readVars, documentVars>>
     \/ part = "export" /\ Exporter!Next /\ UNCHANGED <<verifyVars, readVars, documentVars>>
     \/ part = "read" /\ Reader!Next /\ UNCHANGED <<verifyVars, exportVars, documentVars>>
     \/ part = "document" /\ Document!Next /\ UNCHANGED <<verifyVars, exportVars, readVars>>

Spec == Init /\ [][Next]_vars

-----------------------------------------------------------------------------
(* The engine's verifier and the independent one say the same of every      *)
(* store that was changed, moved or cut (verifyStore, verify.ts).           *)
LaddersAgree == part = "verify" => Verifiers!LaddersAgree

(* A store the verifier calls ok is the signer's own: no receipt added,     *)
(* dropped, moved or renumbered, no sealed session removed, no result or    *)
(* decision record changed under an action (checkReceipt, sealFindings).    *)
OkMeansFaithful == part = "verify" => Verifiers!OkMeansFaithful

(* SPEC.md: a receipt whose file is not named for its callIndex is misfiled. *)
StemIsIndex == part = "verify" => Verifiers!StemIsIndex

(* An export's manifest is closed, made while sessions went on and        *)
(* whatever the store's host lost in a crash: each seal it holds has its   *)
(* whole series, each entry its blob and its record, but for what the      *)
(* crash took; and what the check passes is that cut, every byte of it     *)
(* (exportStore, checkExport).                                             *)
ExportIsClosed == part = "export" => Exporter!ExportIsClosed /\ Exporter!CheckedIsClosed

(* A witness that never forked, read whole and answered truly, is never     *)
(* accused, whatever it signs between the head and the last page; what a    *)
(* reading credits is one history of the witness, whole to the head: no     *)
(* mixture of two, no gap, no stray; and the engine's reader and the        *)
(* independent one give the same verdict on what was read                   *)
(* (readNamedWitness, verdict.go, witness.ts).                              *)
ReadingIsTrue ==
  part = "read" => Reader!HonestIsCredited /\ Reader!CreditedIsSigned /\ Reader!ReadersAgree

(* The text of a document is of one cross-reference and one security        *)
(* handler throughout, no value comes from a cache that a rebuild or a      *)
(* change of handler has overtaken, and a file that can be opened is not    *)
(* called encrypted (Extract, rebuild, resolve).                            *)
TextIsOneReading ==
  part = "document" => Document!OneReading /\ Document!CacheIsCurrent /\ Document!EncryptedIsDecided
=============================================================================
