---------------------------- MODULE PdfDocument -----------------------------
(***************************************************************************)
(* The PDF reader of the document adapter (adapters/document/pdf): the     *)
(* cross-reference chain, indirect objects read through one another, the   *)
(* rebuild of a damaged cross-reference by scanning the file, which may    *)
(* begin in the middle of any read, the security handler, the page tree    *)
(* and the listing of pages, under structure bounds and a deadline.        *)
(*                                                                         *)
(* The reader is one goroutine, so a read in progress is a stack of        *)
(* frames.  A file is what its bytes spell: the sections of its chain,     *)
(* what lies at each offset, what a scan for object headers finds.  A      *)
(* value is the offset it was parsed at; beside it goes the table and the  *)
(* security handler it was read under, which the code does not keep.       *)
(***************************************************************************)
EXTENDS Naturals, FiniteSets, Sequences, TLC

CONSTANTS
  Files,       \* files that may be given
  MaxRefDepth, MaxObjects, MaxSections, MaxPages, MaxNodes, \* structure bounds
  Free, None

VARIABLES
  file,
  d,           \* the Document, with its stack of reads and the last read's value
  c,           \* Extract: where it is
  result       \* [pages, encryption, fatal, timedOut, truncated]

vars == <<file, d, c, result>>

-----------------------------------------------------------------------------
(* What is read, and under what. *)
Under(x) == [xref |-> x.xref, crypt |-> x.crypt]
Value(x, o) == [ok |-> TRUE, o |-> o, bound |-> FALSE, missed |-> FALSE, under |-> {Under(x)}]
Miss(x) == [ok |-> FALSE, bound |-> FALSE, missed |-> x.expired, under |-> {Under(x)}]
BoundMiss(x) == [Miss(x) EXCEPT !.bound = TRUE]

(* noteFileBound, noteBoundAt: a bound met reading the file, and one met    *)
(* under a table the document still has.  None is noted past the deadline.  *)
NoteFileBound(x) == IF x.expired THEN x ELSE [x EXCEPT !.fileBound = TRUE]
NoteBoundAt(x, generation) ==
  IF x.scanning THEN NoteFileBound(x)
  ELSE IF x.generation = generation /\ ~x.expired THEN [x EXCEPT !.bound = TRUE] ELSE x

(* dropCachedObjects, forgetObjects *)
DropCachedObjects(x) == [x EXCEPT !.cache = <<>>, !.stms = <<>>, !.fonts = <<>>]
ForgetObjects(x) ==
  DropCachedObjects([x EXCEPT !.generation = @ + 1, !.bound = FALSE, !.undecoded = FALSE])

(* beginRead, readingGeneration: a read stands on the table it began under. *)
BeginRead(x) ==
  [x EXCEPT !.readGeneration = IF x.reading = 0 THEN x.generation ELSE @, !.reading = @ + 1]
EndRead(x) == [x EXCEPT !.reading = @ - 1]

(* publish: nothing of a read that a rebuild overtook, or of one past the   *)
(* deadline, is kept.                                                       *)
Publish(x, generation, num, v) ==
  IF x.generation = generation /\ ~x.expired
  THEN [x EXCEPT !.cache = (num :> v) @@ @] ELSE x

WalkDefect(x) == x.bound \/ x.fileBound \/ x.noObjects \/ x.undecoded

-----------------------------------------------------------------------------
Return(x, v) == [x EXCEPT !.ret = v]
Push(x, f) == [x EXCEPT !.stack = <<f>> \o @]
Pop(x) == [x EXCEPT !.stack = Tail(@)]
SetTop(x, f) == [x EXCEPT !.stack = <<f>> \o Tail(@)]

(* objectRead, up to the parse. *)
ObjectRead(x, num) ==
  LET y == BeginRead(x)
      generation == y.readGeneration IN
  IF num \in DOMAIN x.cache THEN Return(x, x.cache[num])
  ELSE IF num \in x.resolving \/ num \notin DOMAIN x.xref \/ x.expired THEN Return(x, Miss(x))
  ELSE IF x.xref[num] = Free THEN Return(x, Miss(x))
  ELSE IF Cardinality(x.resolving) >= MaxRefDepth
  THEN EndRead(Return(Publish(NoteBoundAt(y, generation), generation, num, BoundMiss(x)), BoundMiss(x)))
  ELSE IF x.parsed >= MaxObjects THEN EndRead(Return(NoteFileBound(y), Miss(x)))
  ELSE Push([y EXCEPT !.parsed = @ + 1, !.resolving = @ \cup {num}],
            [k |-> "object", num |-> num, generation |-> generation, under |-> Under(x),
             pc |-> IF "stm" \in DOMAIN x.xref[num] THEN "inStream" ELSE "parse"])

(* The end of an objectRead. *)
Ends(x, v) ==
  LET f == Head(x.stack) IN
  EndRead(Return(Pop([x EXCEPT !.resolving = @ \ {f.num}]), v))
EndsKeeping(x, v) ==
  LET f == Head(x.stack)
      w == [v EXCEPT !.under = @ \cup {f.under}]
  IN Ends(Publish(x, f.generation, f.num, w), w)

(* The start of reconstruct: its own reads, under a fresh record of what is *)
(* being resolved; the reader's own come back when it ends.                 *)
Reconstruct(x) ==
  IF x.expired THEN Return(x, Miss(x))
  ELSE Push([x EXCEPT !.reconstructed = TRUE, !.reading = 0, !.scanning = TRUE, !.resolving = {}],
            [k |-> "scan", pc |-> "headers", heads |-> <<>>, deferred |-> <<>>,
             trailer |-> x.trailer, tried |-> {},
             saved |-> [reading |-> x.reading, readGeneration |-> x.readGeneration,
                        scanning |-> x.scanning, resolving |-> x.resolving]])

(* The parse of an object failed, or its number is another's: the table is  *)
(* rebuilt, once, and the object read again under it.                       *)
Damaged(x) ==
  IF ~x.reconstructed /\ ~x.expired
  THEN Reconstruct(SetTop(x, [Head(x.stack) EXCEPT !.pc = "rebuilt"]))
  ELSE EndsKeeping(x, Miss(x))

Content(o) == file.content[o]

(* parseIndirectAt: a stream's length may be another object's. *)
ParseIndirect(x) ==
  LET f == Head(x.stack)
      e == x.xref[f.num] IN
  IF x.expired \/ e.at \notin DOMAIN file.content THEN Damaged(x)
  ELSE LET o == Content(e.at) IN
  IF o.num = f.num /\ o.body = "bound"
  THEN EndsKeeping(NoteBoundAt(x, f.generation), BoundMiss(x))
  ELSE IF o.num # f.num \/ o.body \in {"bad", "bound"} THEN Damaged(x)
  ELSE IF o.length = None \/ o.length = f.num THEN EndsKeeping(x, Value(x, e.at))
  ELSE ObjectRead(SetTop(x, [f EXCEPT !.pc = "length"] @@ [at |-> e.at]), o.length)

(* resolveLength's answer. *)
LengthRead(x) ==
  LET f == Head(x.stack)
      v == [Value(x, f.at) EXCEPT !.under = @ \cup x.ret.under] IN
  IF x.expired THEN Damaged(x)
  ELSE IF ~x.ret.ok /\ x.ret.bound
  THEN EndsKeeping(NoteBoundAt(x, f.generation), BoundMiss(x))
  ELSE EndsKeeping(x, v)

(* objectRead after the rebuild it began. *)
Rebuilt(x) ==
  LET f == Head(x.stack)
      y == Pop([x EXCEPT !.resolving = @ \ {f.num}]) IN
  IF x.ret.ok THEN EndRead(ObjectRead(y, f.num))
  ELSE EndsKeeping(IF x.ret.bound THEN NoteFileBound(x) ELSE x, Miss(x))

(* objectFromStream, loadObjStm, markObjStm: a stream of objects is read    *)
(* once, under one table.                                                   *)
InStream(x) ==
  LET f == Head(x.stack)
      s == x.xref[f.num].stm IN
  IF s \in DOMAIN x.stms
  THEN IF f.num \in DOMAIN x.stms[s].inner /\ x.stms[s].ok
       THEN EndsKeeping(x, [Value(x, x.stms[s].inner[f.num]) EXCEPT !.under = @ \cup x.stms[s].under])
       ELSE EndsKeeping(x, Miss(x))
  ELSE ObjectRead(SetTop(x, [f EXCEPT !.pc = "stream"] @@ [stm |-> s]), s)

Keep(x, generation, s, st) ==
  IF x.generation = generation /\ ~x.expired THEN [x EXCEPT !.stms = (s :> st) @@ @] ELSE x
NoStm == [ok |-> FALSE, inner |-> <<>>, under |-> {}]

LoadObjStm(x) ==
  LET f == Head(x.stack)
      v == x.ret IN
  IF x.expired THEN Ends(x, Miss(x))
  ELSE IF ~v.ok THEN EndsKeeping(Keep(x, f.generation, f.stm, NoStm), Miss(x))
  ELSE LET o == Content(v.o) IN
  IF o.body # "objstm" \/ o.undecodable \in {"yes", "bound"}
  THEN LET y == IF o.body = "objstm" /\ o.undecodable = "bound" THEN NoteBoundAt(x, f.generation)
                ELSE IF x.generation = f.generation THEN [x EXCEPT !.undecoded = TRUE] ELSE x
       IN EndsKeeping(Keep(y, f.generation, f.stm, NoStm), Miss(x))
  ELSE LET st == [ok |-> TRUE, inner |-> o.inner, under |-> v.under]
           y == Keep(x, f.generation, f.stm, st) IN
       IF f.num \in DOMAIN o.inner
       THEN EndsKeeping(y, [Value(x, o.inner[f.num]) EXCEPT !.under = @ \cup v.under])
       ELSE EndsKeeping(y, Miss(x))

-----------------------------------------------------------------------------
(* openEncryption: the dictionary the trailer names, then its fields, each  *)
(* of which may be an object of its own.  What the file decides stands even *)
(* when the deadline passes; what the deadline left unread decides nothing. *)
(* keepEncryption: a reading that a rebuild overtook is not kept.           *)
KeepEncryption(x, began, err) ==
  IF x.generation # began \/ err = "deadline" THEN x ELSE [x EXCEPT !.encRead = err]

EncryptionEnds(x, err) ==
  LET f == Head(x.stack)
      e == IF f.decided THEN "failed" ELSE err
  IN EndRead(Return(Pop(KeepEncryption(x, f.began, e)), [Miss(x) EXCEPT !.ok = (e = None)]))

OpenEncryption(x) ==
  LET y == BeginRead(x) IN
  IF x.trailer.encrypt = None
  THEN Return(KeepEncryption(x, y.readGeneration, None), Value(x, None))
  ELSE ObjectRead(Push(y, [k |-> "encryption", pc |-> "dictionary", began |-> y.readGeneration,
                           decided |-> FALSE, o |-> None, left |-> <<>>]),
                  x.trailer.encrypt)

EncryptionDictionary(x) ==
  IF x.expired THEN EncryptionEnds(x, "deadline")
  ELSE IF ~x.ret.ok \/ Content(x.ret.o).body # "dictionary" THEN EncryptionEnds(x, "failed")
  ELSE SetTop(x, [Head(x.stack) EXCEPT !.pc = "field", !.o = x.ret.o, !.left = Content(x.ret.o).fields])

(* Mutant: the deadline is not asked about between two fields. *)
JudgeUnread(x, ok) ==
  LET f == Head(x.stack) IN
  IF f.decided THEN EncryptionEnds(x, "failed")
  ELSE IF ok THEN SetTop(x, [f EXCEPT !.pc = "field", !.left = Tail(@)])
  ELSE IF Head(f.left).filter
  THEN SetTop(x, [f EXCEPT !.pc = "field", !.left = Tail(@), !.decided = TRUE])
  ELSE EncryptionEnds(x, "failed")

(* A field read: the filter's failing waits for the revision to be read.    *)
Judge(x, ok) ==
  LET f == Head(x.stack) IN
  IF f.decided THEN EncryptionEnds(x, "failed")
  ELSE IF x.expired THEN EncryptionEnds(x, "deadline")
  ELSE IF ok THEN SetTop(x, [f EXCEPT !.pc = "field", !.left = Tail(@)])
  ELSE IF Head(f.left).filter
  THEN SetTop(x, [f EXCEPT !.pc = "field", !.left = Tail(@), !.decided = TRUE])
  ELSE EncryptionEnds(x, "failed")

EncryptionField(x) ==
  LET f == Head(x.stack) IN
  IF f.left = <<>>
  THEN IF x.expired THEN EncryptionEnds(x, "deadline")
       ELSE EncryptionEnds(DropCachedObjects([x EXCEPT !.crypt = f.o]), None)
  ELSE IF Head(f.left).ref = None THEN Judge(x, Head(f.left).ok)
  ELSE ObjectRead(SetTop(x, [f EXCEPT !.pc = "fieldRead"]), Head(f.left).ref)

EncryptionFieldRead(x) == Judge(x, x.ret.ok /\ Content(x.ret.o).body = "integer")

-----------------------------------------------------------------------------
(* reconstruct.  ScanEnds puts back what the reader was doing. *)
ScanEnds(x, ok, bound) ==
  LET s == Head(x.stack).saved IN
  Return(Pop([x EXCEPT !.reading = s.reading, !.readGeneration = s.readGeneration,
                       !.scanning = s.scanning, !.resolving = s.resolving]),
         [Miss(x) EXCEPT !.ok = ok, !.bound = bound])

Merged(new, old) == [k \in DOMAIN old |-> IF new[k] # None THEN new[k] ELSE old[k]]

(* The headers, and the trailers between them. *)
ScanHeaders(x) ==
  LET f == Head(x.stack)
      y == [x EXCEPT !.xref = file.scanned] IN
  IF x.expired THEN ScanEnds(DropCachedObjects([x EXCEPT !.xref = <<>>]), FALSE, FALSE)
  ELSE IF file.scan = "tooMany" THEN ScanEnds(x, FALSE, TRUE)
  ELSE IF file.scan = "none"
  THEN ScanEnds([ForgetObjects([x EXCEPT !.xref = <<>>]) EXCEPT !.noObjects = TRUE], FALSE, FALSE)
  ELSE IF file.scan = "trailerBound"
  THEN ScanEnds(DropCachedObjects(NoteFileBound(y)), FALSE, TRUE)
  ELSE SetTop(ForgetObjects(y),
              [f EXCEPT !.pc = "heads", !.heads = file.heads,
                        !.trailer = Merged(file.scanTrailer, @)])

(* The streams among them: a cross-reference stream's trailer, an object    *)
(* stream put off until the document's own encryption is known.             *)
TakeHead(x, f, n) ==
  LET o == Content(file.scanned[n].at) IN
  SetTop(x, IF o.body = "xref" THEN [f EXCEPT !.heads = Tail(@), !.trailer = Merged(o.trailer, @)]
            ELSE IF o.body = "objstm" THEN [f EXCEPT !.heads = Tail(@), !.deferred = Append(@, n)]
            ELSE [f EXCEPT !.heads = Tail(@)])

ScanHeads(x) ==
  LET f == Head(x.stack) IN
  IF x.expired THEN ScanEnds(x, FALSE, FALSE)
  ELSE IF f.heads = <<>>
  THEN OpenEncryption(SetTop(DropCachedObjects([x EXCEPT !.trailer = f.trailer, !.crypt = None]),
                             [f EXCEPT !.pc = "objectStreams"]))
  ELSE LET n == Head(f.heads)
           o == Content(file.scanned[n].at) IN
       IF o.body = "bound" THEN ScanEnds(x, FALSE, TRUE)
       ELSE IF o.length \in {None, n} THEN TakeHead(x, f, n)
       ELSE ObjectRead(SetTop(x, [f EXCEPT !.pc = "headLength"]), o.length)

ScanHeadLength(x) ==
  LET f == [Head(x.stack) EXCEPT !.pc = "heads"] IN
  IF x.expired THEN ScanEnds(x, FALSE, FALSE)
  ELSE IF ~x.ret.ok /\ x.ret.bound THEN ScanEnds(x, FALSE, TRUE)
  ELSE TakeHead(x, f, Head(f.heads))

(* What an object stream holds joins the table where nothing lies already.  *)
ScanObjectStreams(x) ==
  LET f == Head(x.stack) IN
  IF x.expired THEN ScanEnds(x, FALSE, FALSE)
  ELSE IF f.deferred = <<>> THEN SetTop(x, [f EXCEPT !.pc = "catalog"])
  ELSE LET n == Head(f.deferred)
           o == Content(file.scanned[n].at)
           y == SetTop(x, [f EXCEPT !.deferred = Tail(@)]) IN
       IF o.undecodable = "bound" THEN ScanEnds(x, FALSE, TRUE)
       ELSE IF o.undecodable = "yes" THEN y
       ELSE [y EXCEPT !.xref = @ @@ [i \in DOMAIN o.inner |-> [stm |-> n]]]

Catalogs(x) == {n \in DOMAIN x.xref : /\ "at" \in DOMAIN x.xref[n]
                                      /\ Content(x.xref[n].at).body = "catalog"}
Lowest(S) == CHOOSE n \in S : \A m \in S : n <= m

ScanCatalog(x) ==
  LET f == Head(x.stack)
      left == Catalogs(x) \ f.tried IN
  IF x.expired THEN ScanEnds(x, FALSE, FALSE)
  ELSE IF x.trailer.root = None /\ left # {}
  THEN ObjectRead(SetTop(x, [f EXCEPT !.pc = "catalogRead", !.tried = @ \cup {Lowest(left)}]), Lowest(left))
  ELSE ScanEnds(DropCachedObjects(x), TRUE, FALSE)

ScanCatalogRead(x) ==
  LET f == Head(x.stack)
      y == SetTop(x, [f EXCEPT !.pc = "catalog"]) IN
  IF x.ret.ok /\ Content(x.ret.o).body = "catalog"
  THEN [y EXCEPT !.trailer.root = Content(x.ret.o).num] ELSE y

(* One step of the read in progress. *)
Read(x) ==
  LET f == Head(x.stack) IN
  CASE f.k = "object" /\ f.pc = "parse" -> ParseIndirect(x)
    [] f.k = "object" /\ f.pc = "length" -> LengthRead(x)
    [] f.k = "object" /\ f.pc = "rebuilt" -> Rebuilt(x)
    [] f.k = "object" /\ f.pc = "inStream" -> InStream(x)
    [] f.k = "object" /\ f.pc = "stream" -> LoadObjStm(x)
    [] f.k = "encryption" /\ f.pc = "dictionary" -> EncryptionDictionary(x)
    [] f.k = "encryption" /\ f.pc = "field" -> EncryptionField(x)
    [] f.k = "encryption" /\ f.pc = "fieldRead" -> EncryptionFieldRead(x)
    [] f.k = "scan" /\ f.pc = "headers" -> ScanHeaders(x)
    [] f.k = "scan" /\ f.pc = "heads" -> ScanHeads(x)
    [] f.k = "scan" /\ f.pc = "headLength" -> ScanHeadLength(x)
    [] f.k = "scan" /\ f.pc = "objectStreams" -> ScanObjectStreams(x)
    [] f.k = "scan" /\ f.pc = "catalog" -> ScanCatalog(x)
    [] f.k = "scan" /\ f.pc = "catalogRead" -> ScanCatalogRead(x)

-----------------------------------------------------------------------------
NewDocument ==
  [generation |-> 0, reconstructed |-> FALSE, reading |-> 0, readGeneration |-> 0,
   scanning |-> FALSE, resolving |-> {}, parsed |-> 0, expired |-> FALSE,
   xref |-> <<>>, trailer |-> [root |-> None, encrypt |-> None], crypt |-> None,
   cache |-> <<>>, stms |-> <<>>, fonts |-> <<>>,
   bound |-> FALSE, fileBound |-> FALSE, undecoded |-> FALSE, noObjects |-> FALSE,
   encRead |-> "unread", stack |-> <<>>, ret |-> None]
NoResult == [pages |-> <<>>, fatal |-> None, timedOut |-> FALSE, truncated |-> FALSE]

Init ==
  /\ file \in Files
  /\ d = NewDocument
  /\ c = [pc |-> "chain", queue |-> file.start, seen |-> {}, generation |-> 0, again |-> 0,
          retried |-> FALSE, kids |-> <<>>, pages |-> <<>>, under |-> {}, walk |-> 0,
          nodes |-> 0, tried |-> {}]
  /\ result = NoResult

At(pc) == d.stack = <<>> /\ c.pc = pc
Go(x, pc) == d' = x /\ c' = [c EXCEPT !.pc = pc] /\ UNCHANGED <<file, result>>
Stop(x, r) == d' = x /\ c' = [c EXCEPT !.pc = "done"] /\ result' = r /\ UNCHANGED file
WalkStops(x, r) == d' = x /\ c' = [c EXCEPT !.pc = "reread"] /\ result' = r /\ UNCHANGED file
WalkFails(x) == WalkStops(x, [NoResult EXCEPT !.fatal = "malformed"])
WalkTimesOut(x) == WalkStops(x, [NoResult EXCEPT !.timedOut = TRUE, !.truncated = TRUE])
Fatal(x, why) == Stop(x, [NoResult EXCEPT !.fatal = why])
TimedOut(x) == Stop(x, [result EXCEPT !.timedOut = TRUE, !.truncated = TRUE])

(* encryptionAtDeadline, encryptionOnRecord: the failure that stands. *)
EncryptionAtDeadline(x) == IF x.encRead = "failed" THEN Fatal(x, "encrypted") ELSE TimedOut(x)

ReadOn == /\ d.stack # <<>>
          /\ d' = Read(d)
          /\ UNCHANGED <<file, c, result>>

(* The deadline is met at one of the reader's readings of the clock. *)
Expire == /\ c.pc # "done" /\ ~d.expired
          /\ d' = [d EXCEPT !.expired = TRUE]
          /\ UNCHANGED <<file, c, result>>

(* open's rebuild, of a chain that could not be read. *)
Malformed(x) ==
  IF x.expired THEN EncryptionAtDeadline(x)
  ELSE IF x.reconstructed THEN Go(x, "root")
  ELSE Go(Reconstruct([ForgetObjects([x EXCEPT !.xref = <<>>]) EXCEPT
                         !.trailer = [root |-> None, encrypt |-> None]]), "openScan")

(* readXref: the newest section first, and what it says is not unsaid by an *)
(* older one.                                                               *)
TakeSection(x, s) ==
  LET sec == file.sections[s] IN
  /\ d' = [x EXCEPT !.xref = @ @@ sec.entries, !.trailer = Merged(@, sec.trailer)]
  /\ c' = [c EXCEPT !.pc = "chain", !.seen = @ \cup {s}, !.queue = Tail(@) \o sec.older]
  /\ UNCHANGED <<file, result>>

ReadXref ==
  /\ At("chain")
  /\ IF d.expired THEN EncryptionAtDeadline(d)
     ELSE IF c.queue = <<>>
     THEN IF d.xref = <<>> THEN Malformed(d) ELSE Go(d, "root")
     ELSE LET s == Head(c.queue) IN
          IF s \in c.seen THEN d' = d /\ c' = [c EXCEPT !.queue = Tail(@)] /\ UNCHANGED <<file, result>>
          ELSE IF Cardinality(c.seen) = MaxSections \/ file.sections[s].kind = "bound"
          THEN Fatal(d, "bound")
          ELSE IF file.sections[s].kind = "bad" THEN Malformed(d)
          ELSE IF file.sections[s].needs = None THEN TakeSection(d, s)
          ELSE /\ d' = ObjectRead(BeginRead(d), file.sections[s].needs)
               /\ c' = [c EXCEPT !.pc = "section", !.generation = d.generation]
               /\ UNCHANGED <<file, result>>

(* readXrefSection: a section whose reading rebuilt the table is no longer  *)
(* the document's.                                                          *)
ReadXrefSection ==
  /\ At("section")
  /\ LET x == EndRead(d) IN
     IF x.generation # c.generation THEN Go(x, "root")
     ELSE IF x.expired THEN EncryptionAtDeadline(x)
     ELSE IF ~x.ret.ok /\ x.ret.bound THEN Fatal(x, "bound")
     ELSE TakeSection(x, Head(c.queue))

OpenScan ==
  /\ At("openScan")
  /\ IF d.expired THEN EncryptionAtDeadline(d)
     ELSE IF d.ret.ok THEN Go(d, "root") ELSE Fatal(d, "malformed")

OpenRoot ==
  /\ At("root")
  /\ IF d.expired THEN EncryptionAtDeadline(d)
     ELSE IF d.trailer.root = None /\ ~d.reconstructed THEN Go(Reconstruct(d), "openScan")
     ELSE Go(d, "establish")

(* establishEncryption *)
EstablishEncryption ==
  /\ At("establish")
  /\ d' = OpenEncryption(DropCachedObjects([d EXCEPT !.crypt = None]))
  /\ c' = [c EXCEPT !.pc = "established", !.generation = d.generation]
  /\ UNCHANGED <<file, result>>

Established ==
  /\ At("established")
  /\ IF d.generation # c.generation /\ ~c.retried
     THEN /\ c' = [c EXCEPT !.pc = "establish", !.retried = TRUE]
          /\ UNCHANGED <<file, d, result>>
     ELSE IF d.ret.ok
     THEN IF d.trailer.root = None THEN Fatal(d, "malformed")
          ELSE Go(d, "walk")
     ELSE IF d.expired THEN EncryptionAtDeadline(d) ELSE Fatal(d, "encrypted")

-----------------------------------------------------------------------------
(* walkPages: the generation is read before the root is looked for.         *)
WalkPages ==
  /\ At("walk")
  /\ c' = [c EXCEPT !.pc = "named", !.generation = d.generation, !.retried = FALSE,
                    !.pages = <<>>, !.kids = <<>>, !.under = {}]
  /\ UNCHANGED <<file, d, result>>

(* pagesRoot: the catalog's tree; a rebuild, once, where it names none; or  *)
(* a root of a tree found by looking at every object.                       *)
Named ==
  /\ At("named")
  /\ IF d.trailer.root = None THEN Go(d, "noRoot")
     ELSE Go(ObjectRead(BeginRead(d), d.trailer.root), "catalogRead")

CatalogRead ==
  /\ At("catalogRead")
  /\ IF d.ret.ok /\ Content(d.ret.o).body = "catalog"
     THEN /\ d' = ObjectRead(d, Content(d.ret.o).pages)
          /\ c' = [c EXCEPT !.pc = "treeRead", !.under = d.ret.under]
          /\ UNCHANGED <<file, result>>
     ELSE Go(EndRead(d), "noRoot")

TreeRead ==
  /\ At("treeRead")
  /\ IF d.ret.ok /\ Content(d.ret.o).body = "pages"
     THEN Go(EndRead(d), "root?") ELSE Go(EndRead(d), "noRoot")

NoRoot ==
  /\ At("noRoot")
  /\ c' = [c EXCEPT !.tried = {}, !.pc = IF d.reconstructed THEN "find" ELSE "rootScan"]
  /\ d' = IF d.reconstructed THEN d ELSE Reconstruct(d)
  /\ UNCHANGED <<file, result>>

RootScan ==
  /\ At("rootScan")
  /\ IF d.ret.ok THEN Go(d, "named")
     ELSE IF d.expired THEN Go(d, "nil")
     ELSE Go(IF d.ret.bound THEN NoteFileBound(d) ELSE d,
             IF d.ret.bound \/ d.fileBound THEN "nil" ELSE "find")

Trees == {n \in DOMAIN d.xref :
            LET e == d.xref[n] IN
            IF e = Free THEN FALSE
            ELSE IF "stm" \in DOMAIN e THEN TRUE ELSE Content(e.at).body = "pages"}
FindPagesRoot ==
  /\ At("find")
  /\ LET left == Trees \ c.tried IN
     IF d.expired \/ left = {} THEN Go(d, "nil")
     ELSE /\ d' = ObjectRead(d, Lowest(left))
          /\ c' = [c EXCEPT !.pc = "found", !.tried = @ \cup {Lowest(left)}]
          /\ UNCHANGED <<file, result>>
Found ==
  /\ At("found")
  /\ IF d.ret.ok /\ Content(d.ret.o).body = "pages"
     THEN /\ d' = d /\ c' = [c EXCEPT !.pc = "root?", !.under = d.ret.under]
          /\ UNCHANGED <<file, result>>
     ELSE Go(d, "find")

(* The root is looked for again where looking for it rebuilt the table.     *)
RootAgain == d.generation # c.generation /\ ~c.retried
NoTree ==
  /\ At("nil")
  /\ IF RootAgain THEN d' = d /\ c' = [c EXCEPT !.pc = "named", !.retried = TRUE] /\ UNCHANGED <<file, result>>
     ELSE IF d.expired THEN WalkTimesOut(d) ELSE WalkFails(d)
Tree ==
  /\ At("root?")
  /\ IF RootAgain THEN d' = d /\ c' = [c EXCEPT !.pc = "named", !.retried = TRUE] /\ UNCHANGED <<file, result>>
     ELSE /\ d' = BeginRead(d)
          /\ c' = [c EXCEPT !.pc = "node", !.nodes = 1, !.walk = d.generation, !.under = @ \cup d.ret.under,
                    !.kids = [i \in DOMAIN Content(d.ret.o).kids |->
                                [num |-> Content(d.ret.o).kids[i], path |-> {Content(d.ret.o).num}]]]
          /\ UNCHANGED <<file, result>>

-----------------------------------------------------------------------------
(* walker.node.  What a rebuild overtook is stale, and is read again. *)
Node ==
  /\ At("node")
  /\ IF d.generation # c.walk THEN Go(EndRead(d), "reread")
     ELSE IF d.expired THEN WalkTimesOut(EndRead(d))
     ELSE IF WalkDefect(d) THEN WalkFails(EndRead(d))
     ELSE IF c.kids = <<>>
     THEN IF c.pages = <<>> THEN WalkFails(EndRead(d)) ELSE Go(EndRead(d), "pages")
     ELSE IF Head(c.kids).num \in Head(c.kids).path
     THEN d' = d /\ c' = [c EXCEPT !.kids = Tail(@)] /\ UNCHANGED <<file, result>>
     ELSE Go(ObjectRead(d, Head(c.kids).num), "kid")

Kid ==
  /\ At("kid")
  /\ LET k == Head(c.kids) IN
     IF d.generation # c.walk THEN Go(EndRead(d), "reread")
     ELSE IF ~d.ret.ok THEN IF d.expired THEN WalkTimesOut(EndRead(d)) ELSE WalkFails(EndRead(d))
     ELSE LET o == Content(d.ret.o) IN
     IF c.nodes = MaxNodes THEN WalkFails(EndRead(d))
     ELSE IF o.body = "pages"
     THEN /\ c' = [c EXCEPT !.pc = "node", !.nodes = @ + 1, !.under = @ \cup d.ret.under,
                     !.kids = [i \in DOMAIN o.kids |-> [num |-> o.kids[i], path |-> k.path \cup {k.num}]]
                                \o Tail(@)]
          /\ UNCHANGED <<file, d, result>>
     ELSE IF Len(c.pages) = MaxPages
     THEN /\ result' = [result EXCEPT !.truncated = TRUE]
          /\ c' = [c EXCEPT !.pc = "pages"] /\ d' = EndRead(d) /\ UNCHANGED file
     ELSE /\ c' = [c EXCEPT !.pc = "node", !.nodes = @ + 1, !.kids = Tail(@),
                     !.pages = Append(@, [o |-> o, under |-> c.under \cup d.ret.under])]
          /\ UNCHANGED <<file, d, result>>

(* extractPages, pageContent, fontFor. *)
ThisPage == c.pages[Len(result.pages) + 1]

ExtractPage ==
  /\ At("pages")
  /\ IF d.generation # c.generation THEN Go(d, "reread")
     ELSE IF Len(result.pages) = Len(c.pages)
     THEN IF d.fileBound THEN Fatal(d, "bound") ELSE Go(d, "reread")
     ELSE IF d.expired THEN TimedOut(d)
     ELSE Go(ObjectRead(BeginRead(d), ThisPage.o.contents), "content")

Listed(x, ok, under, missed) ==
  IF x.generation # c.generation THEN Go(x, "reread")
  ELSE IF x.fileBound THEN Fatal(x, "bound")
  ELSE IF x.expired THEN TimedOut(x)
  ELSE /\ d' = x /\ c' = [c EXCEPT !.pc = "pages"]
       /\ result' = [result EXCEPT !.pages =
            Append(@, [ok |-> ok, under |-> ThisPage.under \cup under, missed |-> missed])]
       /\ UNCHANGED file

PageContent ==
  /\ At("content")
  /\ LET x == EndRead(d)
         font == ThisPage.o.font IN
     IF x.generation # c.generation \/ ~x.ret.ok
     THEN Listed(x, FALSE, x.ret.under, x.ret.missed)
     ELSE IF font \in DOMAIN x.fonts
     THEN Listed(x, TRUE, x.ret.under \cup x.fonts[font].under, x.fonts[font].missed)
     ELSE /\ d' = ObjectRead(BeginRead(x), font)
          /\ c' = [c EXCEPT !.pc = "font", !.under = x.ret.under]
          /\ UNCHANGED <<file, result>>

(* A font that could not be read is the unknown font, and is kept as such. *)
FontFor ==
  /\ At("font")
  /\ LET x == EndRead(d)
         y == IF x.generation = c.generation /\ ~x.expired /\ x.ret.ok
              THEN [x EXCEPT !.fonts = (ThisPage.o.font :> x.ret) @@ @] ELSE x
     IN Listed(y, TRUE, c.under \cup x.ret.under, x.ret.missed)

(* Extract, at the end of a reading, a refusal included: it stands if it    *)
(* was made under one table, and is made once more if not.                  *)
Extract ==
  /\ At("reread")
  /\ IF d.generation = c.generation THEN Stop(d, result)
     ELSE IF c.again = 1 THEN Fatal(d, "rebuilt again")
     ELSE /\ result' = NoResult
          /\ c' = [c EXCEPT !.pc = "establish", !.again = 1, !.retried = FALSE]
          /\ UNCHANGED <<file, d>>

Next ==
  \/ ReadOn \/ Expire
  \/ ReadXref \/ ReadXrefSection \/ OpenScan \/ OpenRoot \/ EstablishEncryption \/ Established
  \/ WalkPages \/ Named \/ CatalogRead \/ TreeRead \/ NoRoot \/ RootScan \/ FindPagesRoot \/ Found
  \/ NoTree \/ Tree \/ Node \/ Kid \/ ExtractPage \/ PageContent \/ FontFor \/ Extract

Spec == Init /\ [][Next]_vars

-----------------------------------------------------------------------------
(* What the record carries was read under one cross-reference and one        *)
(* security handler throughout, the ones the document has when it is done    *)
(* unless the deadline ended it, however a page, its node, its content or    *)
(* its font came to be read; and no page is listed for an object that was    *)
(* only not read by the deadline.                                            *)
OneReading ==
  LET read == UNION {result.pages[i].under : i \in DOMAIN result.pages} IN
  c.pc = "done" =>
    /\ Cardinality(read) <= 1
    /\ ~result.timedOut => read \subseteq {Under(d)}
    /\ \A i \in DOMAIN result.pages : ~result.pages[i].missed

(* Where every encryption dictionary of the file is one the reader opens and *)
(* its objects can be found, the document is refused as encrypted only when  *)
(* the bound on the objects of one file leaves the dictionary unread: the    *)
(* deadline, or a rebuild in the middle of the dictionary, decides nothing.  *)
Openable ==
  /\ file.scan = "ok"
  /\ \A s \in DOMAIN file.sections : Free \notin {file.sections[s].entries[n] : n \in DOMAIN file.sections[s].entries}
  /\ \A o \in DOMAIN file.content :
       /\ file.content[o].body \notin {"bad", "bound"} /\ file.content[o].undecodable = "no"
       /\ file.content[o].length # None => file.content[file.scanned[file.content[o].length].at].length = None
       /\ file.content[o].body = "dictionary" =>
            \A i \in DOMAIN file.content[o].fields : file.content[o].fields[i].ok
  /\ \A t \in {file.scanTrailer} \cup {file.sections[s].trailer : s \in DOMAIN file.sections} :
       t.encrypt # None => \E o \in DOMAIN file.content : file.content[o].num = t.encrypt /\ file.content[o].body = "dictionary"
EncryptedIsDecided == Openable /\ ~d.fileBound => result.fatal # "encrypted"

(* While pages are walked or listed, no value is served from the cache that  *)
(* a rebuild or a change of handler has overtaken, and a read that a bound   *)
(* ended is never kept without the bound being told.                         *)
CacheIsCurrent ==
  ~d.scanning /\ ~d.fileBound /\ c.pc \in {"named", "catalogRead", "treeRead", "node", "kid", "pages", "content", "font"} =>
    \A n \in DOMAIN d.cache :
      IF d.cache[n].ok THEN d.cache[n].under = {Under(d)}
      ELSE d.cache[n].bound => WalkDefect(d)
=============================================================================
