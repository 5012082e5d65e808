--------------------------- MODULE DocumentsProofs ---------------------------
(* Proofs about the documents of the filesystem kind, for every number of   *)
(* callers, contents, reads and revisions.                                  *)
EXTENDS Documents, SequenceTheorems, TLAPS

(* What a call at a step knows of the directory: a listing is no older than *)
(* the call and one revision newer for every read in vain; a writer about   *)
(* to link read the revision it expects; one that empties is below its own. *)
CallOK(step, l) ==
  /\ step \in {"list", "read", "link"} => (l.value = Deleted <=> l.op # "put")
  /\ step = "list" => l.from + l.tries <= Newest
  /\ step = "read" => l.n \in 1 .. Newest /\ l.from + l.tries <= l.n
  /\ step \in {"list", "read"} => l.tries < MaxReads
  /\ step = "link" => /\ l.op # "get" /\ l.n \in 0 .. Newest
                      /\ l.expected = Visible(l.n)
                      /\ l.op = "delete" => l.expected # 0
  /\ step = "empty" => l.op # "get" /\ l.n < Newest /\ l.old <= l.n

FilesOK ==
  /\ body \in Seq(Bodies) /\ Newest <= MaxRevs
  /\ made \in Seq(0 .. MaxRevs) /\ Len(made) = Newest
  /\ emptied \subseteq 1 .. Newest - 1

CallsOK ==
  /\ pc \in [Procs -> Steps]
  /\ loc \in [Procs -> Locals]
  /\ \A p \in Procs : CallOK(pc[p], loc[p])

LastOK == last \in Answers /\ ReadIsFresh /\ GivesUpUnderWrites

DocumentInv == FilesOK /\ CallsOK /\ LastOK

-----------------------------------------------------------------------------
LEMMA NoLocalsTyped == NoLocals \in Locals
BY DocumentsAssumption DEF NoLocals, Locals, Ops, Bodies

LEMMA InitInv == Init => DocumentInv
<1> SUFFICES ASSUME Init PROVE DocumentInv
  OBVIOUS
<1>1. FilesOK
  BY DocumentsAssumption DEF Init, FilesOK, Newest
<1>2. CallsOK
  BY NoLocalsTyped DEF Init, CallsOK, CallOK, Steps
<1>3. last \in Answers
  BY DocumentsAssumption DEF Init, Answers, Ops
<1>4. ReadIsFresh /\ GivesUpUnderWrites
  BY DEF Init, ReadIsFresh, GivesUpUnderWrites, Newest, Visible
<1> QED BY <1>1, <1>2, <1>3, <1>4 DEF DocumentInv, LastOK

(* What a call knows outlives the step of another. *)
KnowledgeKept ==
  \A step \in Steps, l \in Locals : CallOK(step, l) => CallOK(step, l)'

(* A call's move keeps what every call knows. *)
LEMMA MoveCalls ==
  ASSUME CallsOK, KnowledgeKept, NEW p \in Procs, NEW step \in Steps,
         NEW l \in Locals, GoWith(p, step, l), step # "idle" => CallOK(step, l)'
  PROVE  CallsOK'
<1>1. pc' \in [Procs -> Steps] /\ loc' \in [Procs -> Locals]
  BY NoLocalsTyped DEF CallsOK, GoWith
<1>2. ASSUME NEW q \in Procs PROVE CallOK(pc[q], loc[q])'
  <2>1. CASE q # p
    <3>1. pc'[q] = pc[q] /\ loc'[q] = loc[q]
      BY <2>1 DEF CallsOK, GoWith
    <3>2. pc[q] \in Steps /\ loc[q] \in Locals /\ CallOK(pc[q], loc[q])
      BY DEF CallsOK
    <3>3. PICK s \in Steps, k \in Locals : s = pc[q] /\ k = loc[q]
      BY <3>2
    <3>4. CallOK(s, k)'
      BY <3>2, <3>3 DEF KnowledgeKept
    <3> QED BY <3>1, <3>3, <3>4
  <2>2. CASE q = p /\ step # "idle"
    <3>1. pc'[q] = step /\ loc'[q] = l
      BY <2>2 DEF CallsOK, GoWith
    <3> QED BY <3>1, <2>2
  <2>3. CASE q = p /\ step = "idle"
    <3>1. pc'[q] = "idle"
      BY <2>3 DEF CallsOK, GoWith
    <3> QED BY <3>1 DEF CallOK
  <2> QED BY <2>1, <2>2, <2>3
<1> QED BY <1>1, <1>2 DEF CallsOK

(* Nothing that is known is lost while the files stay. *)
LEMMA FilesKeep ==
  ASSUME DocumentInv, UNCHANGED files
  PROVE  FilesOK' /\ KnowledgeKept /\ (last' = last => LastOK')
<1>1. FilesOK'
  BY DEF DocumentInv, FilesOK, files, Newest
<1>2. KnowledgeKept
  BY DEF KnowledgeKept, CallOK, files, Newest, Visible
<1>3. last' = last => LastOK'
  BY DEF DocumentInv, LastOK, files, Newest, Visible, ReadIsFresh,
         GivesUpUnderWrites
<1> QED BY <1>1, <1>2, <1>3

(* A move that answers nobody, over unchanged files. *)
LEMMA QuietMove ==
  ASSUME DocumentInv, UNCHANGED files, UNCHANGED last, NEW p \in Procs,
         NEW step \in Steps, NEW l \in Locals, GoWith(p, step, l),
         step # "idle" => CallOK(step, l)
  PROVE  DocumentInv'
<1>1. FilesOK' /\ LastOK' /\ KnowledgeKept
  BY FilesKeep
<1>2. step # "idle" => CallOK(step, l)'
  BY <1>1 DEF KnowledgeKept
<1>3. CallsOK'
  BY <1>1, <1>2, MoveCalls DEF DocumentInv
<1> QED BY <1>1, <1>3 DEF DocumentInv

(* An answer that is true of the document, over files that are kept. *)
LEMMA AnswerMove ==
  ASSUME DocumentInv, FilesOK', KnowledgeKept, NEW p \in Procs,
         NEW what \in {"ok", "absent", "conflict", "unreadable"},
         NEW r \in 0 .. MaxRevs, Answer(p, what, r),
         loc[p].op = "get" /\ what # "unreadable" =>
           /\ r \in loc[p].from .. Newest'
           /\ what = "absent" <=> Visible(r)' = 0,
         what = "unreadable" => Newest' >= loc[p].from + MaxReads
  PROVE  DocumentInv'
<1>1. "idle" \in Steps
  BY DEF Steps
<1>2. CallsOK'
  BY <1>1, NoLocalsTyped, MoveCalls DEF DocumentInv, Answer
<1>3. loc[p] \in Locals
  BY DEF DocumentInv, CallsOK
<1>4. last' \in Answers
  BY <1>3 DEF Answer, Answers, Locals
<1>5. /\ last'.op = loc[p].op /\ last'.what = what
      /\ last'.revision = r /\ last'.from = loc[p].from
  BY DEF Answer
<1>6. ReadIsFresh' /\ GivesUpUnderWrites'
  BY <1>5 DEF ReadIsFresh, GivesUpUnderWrites
<1> QED BY <1>2, <1>4, <1>6 DEF DocumentInv, LastOK
-----------------------------------------------------------------------------
(* What is known of a call at a step. *)
LEMMA CallAt ==
  ASSUME DocumentInv, NEW p \in Procs
  PROVE  /\ loc[p] \in Locals /\ CallOK(pc[p], loc[p])
         /\ loc[p].op \in Ops /\ loc[p].value \in Bodies
         /\ loc[p].expected \in 0 .. MaxRevs /\ loc[p].n \in 0 .. MaxRevs
         /\ loc[p].old \in 0 .. MaxRevs /\ loc[p].from \in 0 .. MaxRevs
         /\ loc[p].tries \in 0 .. MaxReads
         /\ Newest \in 0 .. MaxRevs
<1>1. loc[p] \in Locals /\ CallOK(pc[p], loc[p])
  BY DEF DocumentInv, CallsOK
<1>2. Newest \in 0 .. MaxRevs
  BY DocumentsAssumption DEF DocumentInv, FilesOK, Newest
<1> QED BY <1>1, <1>2 DEF Locals

LEMMA VisibleIsRevision ==
  ASSUME NEW r \in 0 .. MaxRevs
  PROVE  Visible(r) \in {0, r}
BY DEF Visible

(* A document read whole at a revision of the call's time. *)
LEMMA SettleKeeps ==
  ASSUME DocumentInv, UNCHANGED files, NEW p \in Procs,
         pc[p] \in {"list", "read"}, NEW r \in 0 .. Newest, loc[p].from <= r,
         Settle(p, r)
  PROVE  DocumentInv'
<1> DEFINE l == loc[p]
<1>1. FilesOK' /\ KnowledgeKept
  BY FilesKeep
<1>2. r \in 0 .. MaxRevs /\ r \in l.from .. Newest
  <2>1. l.from \in 0 .. MaxRevs /\ Newest \in 0 .. MaxRevs
    BY CallAt
  <2> QED BY <2>1, DocumentsAssumption
<1>3. Newest' = Newest /\ Visible(r)' = Visible(r)
  BY DEF files, Newest, Visible
<1>4. l.value = Deleted <=> l.op # "put"
  BY CallAt DEF CallOK
<1>5. CASE l.op # "put" /\ Visible(r) = 0
  <2>1. Answer(p, "absent", r)
    BY <1>5 DEF Settle
  <2> QED BY <2>1, <1>1, <1>2, <1>3, <1>5, AnswerMove
<1>6. CASE ~ (l.op # "put" /\ Visible(r) = 0) /\ l.op = "get"
  <2>1. Answer(p, "ok", r)
    BY <1>6 DEF Settle
  <2> QED BY <2>1, <1>1, <1>2, <1>3, <1>6, AnswerMove
<1>7. CASE /\ ~ (l.op # "put" /\ Visible(r) = 0) /\ l.op # "get"
           /\ l.expected # Visible(r)
  <2>1. Answer(p, "conflict", r)
    BY <1>7 DEF Settle
  <2> QED BY <2>1, <1>1, <1>2, <1>3, <1>7, AnswerMove
<1>8. CASE /\ ~ (l.op # "put" /\ Visible(r) = 0) /\ l.op # "get"
           /\ l.expected = Visible(r)
  <2> DEFINE k == [l EXCEPT !.n = r]
  <2>1. GoWith(p, "link", k) /\ UNCHANGED last
    BY <1>8 DEF Settle
  <2>2. k \in Locals
    BY <1>2, CallAt DEF Locals
  <2>3. /\ k.n = r /\ k.op = l.op /\ k.value = l.value
        /\ k.expected = l.expected
    BY CallAt DEF Locals
  <2>4. CallOK("link", k)
    BY <2>3, <1>4, <1>8, CallAt DEF CallOK, Ops
  <2>5. "link" \in Steps
    BY DEF Steps
  <2> HIDE DEF k
  <2> QED BY <2>1, <2>2, <2>4, <2>5, QuietMove
<1> QED BY <1>5, <1>6, <1>7, <1>8

LEMMA CallKeeps ==
  ASSUME DocumentInv, NEW p \in Procs, Call(p)
  PROVE  DocumentInv'
<1>1. PICK op \in Ops, value \in Bodies, e \in 0 .. Newest :
        /\ value = Deleted <=> op # "put"
        /\ GoWith(p, "list", [NoLocals EXCEPT !.op = op, !.value = value,
                                              !.expected = e, !.from = Newest])
  BY DEF Call
<1> DEFINE k == [NoLocals EXCEPT !.op = op, !.value = value,
                                !.expected = e, !.from = Newest]
<1>2. k \in Locals
  <2>1. Newest \in 0 .. MaxRevs /\ e \in 0 .. MaxRevs
    BY CallAt, DocumentsAssumption
  <2> QED BY <2>1, NoLocalsTyped DEF Locals
<1>3. k.op = op /\ k.value = value /\ k.from = Newest /\ k.tries = 0
  BY DEF NoLocals
<1>4. CallOK("list", k)
  BY <1>1, <1>3, CallAt, DocumentsAssumption DEF CallOK
<1>5. "list" \in Steps /\ UNCHANGED files /\ UNCHANGED last
  BY DEF Steps, Call
<1>6. GoWith(p, "list", k)
  BY <1>1
<1> HIDE DEF k
<1> QED BY <1>2, <1>4, <1>5, <1>6, QuietMove

LEMMA ListKeeps ==
  ASSUME DocumentInv, NEW p \in Procs, List(p)
  PROVE  DocumentInv'
<1> DEFINE l == loc[p]
<1>1. pc[p] = "list" /\ UNCHANGED files /\ l.from + l.tries <= Newest
      /\ l.tries < MaxReads /\ (l.value = Deleted <=> l.op # "put")
  BY CallAt DEF List, CallOK
<1>2. CASE Newest = 0
  <2>1. Settle(p, 0) /\ 0 \in 0 .. Newest /\ l.from <= 0
    BY <1>1, <1>2, CallAt DEF List
  <2> QED BY <2>1, <1>1, SettleKeeps
<1>3. CASE Newest # 0
  <2> DEFINE k == [l EXCEPT !.n = Newest]
  <2>1. GoWith(p, "read", k) /\ UNCHANGED last
    BY <1>3 DEF List
  <2>2. k \in Locals
    BY CallAt DEF Locals
  <2>3. /\ k.n = Newest /\ k.op = l.op /\ k.value = l.value
        /\ k.from = l.from /\ k.tries = l.tries
    BY CallAt DEF Locals
  <2>4. CallOK("read", k)
    BY <1>1, <1>3, <2>3, CallAt DEF CallOK
  <2>5. "read" \in Steps
    BY DEF Steps
  <2> HIDE DEF k
  <2> QED BY <1>1, <2>1, <2>2, <2>4, <2>5, QuietMove
<1> QED BY <1>2, <1>3

LEMMA ReadKeeps ==
  ASSUME DocumentInv, NEW p \in Procs, Read(p)
  PROVE  DocumentInv'
<1> DEFINE l == loc[p]
<1>1. /\ pc[p] = "read" /\ UNCHANGED files /\ l.tries < MaxReads
      /\ l.n \in 1 .. Newest /\ l.from + l.tries <= l.n
      /\ l.value = Deleted <=> l.op # "put"
  BY CallAt DEF Read, CallOK
<1>2. CASE l.n \notin emptied
  <2>1. Settle(p, l.n) /\ l.n \in 0 .. Newest /\ l.from <= l.n
    BY <1>1, <1>2, CallAt DEF Read
  <2> QED BY <2>1, <1>1, SettleKeeps
<1>3. CASE l.n \in emptied
  <2> DEFINE k == [l EXCEPT !.tries = @ + 1]
  <2>1. Retry(p, "list")
    BY <1>3 DEF Read
  <2>2. l.n + 1 <= Newest
    BY <1>3, CallAt DEF DocumentInv, FilesOK
  <2>3. /\ k.n = l.n /\ k.op = l.op /\ k.value = l.value
        /\ k.from = l.from /\ k.tries = l.tries + 1
    BY CallAt DEF Locals
  <2>4. CASE k.tries < MaxReads
    <3>1. GoWith(p, "list", k) /\ UNCHANGED last
      BY <2>1, <2>4 DEF Retry
    <3>2. k \in Locals
      BY <1>1, CallAt, DocumentsAssumption DEF Locals
    <3>3. CallOK("list", k)
      BY <1>1, <2>2, <2>3, <2>4, CallAt DEF CallOK
    <3>4. "list" \in Steps
      BY DEF Steps
    <3> HIDE DEF k
    <3> QED BY <1>1, <3>1, <3>2, <3>3, <3>4, QuietMove
  <2>5. CASE ~ (k.tries < MaxReads)
    <3>1. Answer(p, "unreadable", l.n)
      BY <2>1, <2>3, <2>5 DEF Retry
    <3>2. Newest' = Newest /\ Newest >= l.from + MaxReads
      BY <1>1, <2>2, <2>3, <2>5, CallAt, DocumentsAssumption DEF files, Newest
    <3>3. FilesOK' /\ KnowledgeKept
      BY <1>1, FilesKeep
    <3> QED BY <3>1, <3>2, <3>3, CallAt, AnswerMove
  <2> QED BY <2>4, <2>5
<1> QED BY <1>2, <1>3
(* A revision made above the others leaves them what they were. *)
LEMMA AppendKeeps ==
  ASSUME DocumentInv, NEW v \in Bodies, body' = Append(body, v)
  PROVE  /\ Newest' = Newest + 1 /\ Newest \in 0 .. MaxRevs
         /\ \A r \in 0 .. Newest : Visible(r)' = Visible(r)
         /\ KnowledgeKept
         /\ last' = last => LastOK'
<1>1. Newest' = Newest + 1 /\ Newest \in 0 .. MaxRevs
      /\ \A i \in 1 .. Newest : body'[i] = body[i]
  BY AppendProperties, DocumentsAssumption DEF DocumentInv, FilesOK, Newest
<1>2. \A r \in 0 .. Newest : Visible(r)' = Visible(r)
  <2> SUFFICES ASSUME NEW r \in 0 .. Newest PROVE Visible(r)' = Visible(r)
    OBVIOUS
  <2>1. r = 0 \/ r \in 1 .. Newest
    BY <1>1, DocumentsAssumption
  <2>2. r = 0 \/ body'[r] = body[r]
    BY <1>1, <2>1
  <2> QED BY <2>2 DEF Visible
<1>3. KnowledgeKept
  <2> SUFFICES ASSUME NEW step \in Steps, NEW l \in Locals, CallOK(step, l)
               PROVE  CallOK(step, l)'
    BY DEF KnowledgeKept
  <2>1. l.from \in Nat /\ l.tries \in Nat /\ l.n \in Nat /\ l.old \in Nat
    BY DocumentsAssumption DEF Locals
  <2> HIDE DEF Newest
  <2> QED BY <1>1, <1>2, <2>1, DocumentsAssumption DEF CallOK
<1>4. last' = last => LastOK'
  <2> SUFFICES ASSUME last' = last PROVE LastOK'
    OBVIOUS
  <2>1. last \in Answers /\ last.revision \in Nat /\ last.from \in Nat
    BY DocumentsAssumption DEF DocumentInv, LastOK, Answers
  <2> HIDE DEF Newest
  <2>2. ReadIsFresh'
    BY <1>1, <1>2, <2>1 DEF DocumentInv, LastOK, ReadIsFresh
  <2>3. GivesUpUnderWrites'
    BY <1>1, <2>1, DocumentsAssumption DEF DocumentInv, LastOK, GivesUpUnderWrites
  <2> QED BY <2>1, <2>2, <2>3 DEF LastOK
<1> QED BY <1>1, <1>2, <1>3, <1>4

LEMMA LinkKeeps ==
  ASSUME DocumentInv, NEW p \in Procs, Link(p)
  PROVE  DocumentInv'
<1> DEFINE l == loc[p]
<1>1. pc[p] = "link" /\ l.op # "get" /\ l.n \in 0 .. Newest
  BY CallAt DEF Link, CallOK
<1>2. CASE l.n < Newest /\ Answer(p, "conflict", l.n) /\ UNCHANGED <<body, made>>
  <2>1. UNCHANGED files
    BY <1>2 DEF Link, files
  <2>2. FilesOK' /\ KnowledgeKept
    BY <2>1, FilesKeep
  <2> QED BY <1>1, <1>2, <2>2, CallAt, AnswerMove
<1>3. CASE /\ l.n = Newest /\ Newest < MaxRevs
           /\ body' = Append(body, l.value)
           /\ made' = Append(made, l.expected)
           /\ GoWith(p, "empty", [l EXCEPT !.old = Newest])
           /\ UNCHANGED last
  <2>1. l.value \in Bodies /\ l.expected \in 0 .. MaxRevs
    BY CallAt
  <2>2. Newest' = Newest + 1 /\ KnowledgeKept /\ LastOK' /\ Newest \in 0 .. MaxRevs
    BY <1>3, <2>1, AppendKeeps
  <2>3. /\ body' \in Seq(Bodies) /\ made' \in Seq(0 .. MaxRevs)
        /\ Len(made') = Len(made) + 1
    BY <1>3, <2>1, AppendProperties DEF DocumentInv, FilesOK
  <2>4. FilesOK'
    <3>1. Len(made) = Newest /\ emptied \subseteq 1 .. Newest - 1
          /\ UNCHANGED emptied
      BY DEF DocumentInv, FilesOK, Link
    <3>2. Len(made)' = Newest' /\ Newest' <= MaxRevs
      BY <1>3, <2>2, <2>3, <3>1, DocumentsAssumption
    <3>3. emptied' \subseteq 1 .. Newest' - 1
      BY <2>2, <3>1, DocumentsAssumption
    <3> QED BY <2>3, <3>2, <3>3 DEF FilesOK
  <2>5. PICK k \in Locals : /\ k = [l EXCEPT !.old = Newest] /\ k.n = Newest
                             /\ k.old = Newest /\ k.op = l.op
    <3>1. l \in Locals /\ l.n = Newest /\ Newest \in 0 .. MaxRevs
      BY <1>3, <2>2, CallAt
    <3>2. \A m \in 0 .. MaxRevs : [l EXCEPT !.old = m] \in Locals
      BY <3>1 DEF Locals
    <3>3. \A m \in 0 .. MaxRevs : /\ [l EXCEPT !.old = m].n = l.n
                                  /\ [l EXCEPT !.old = m].old = m
                                  /\ [l EXCEPT !.old = m].op = l.op
      BY <3>1 DEF Locals
    <3> HIDE DEF Newest
    <3> QED BY <3>1, <3>2, <3>3
  <2>6. CallOK("empty", k)'
    <3>1. k.n < Newest' /\ k.old <= k.n
      BY <2>2, <2>5, DocumentsAssumption
    <3> QED BY <1>1, <2>5, <3>1 DEF CallOK
  <2>7. "empty" \in Steps /\ GoWith(p, "empty", k)
    BY <1>3, <2>5 DEF Steps
  <2>8. CallsOK'
    BY <2>2, <2>5, <2>6, <2>7, MoveCalls DEF DocumentInv
  <2> QED BY <2>2, <2>4, <2>8 DEF DocumentInv
<1> QED BY <1>2, <1>3 DEF Link

LEMMA EmptyKeeps ==
  ASSUME DocumentInv, NEW p \in Procs, Empty(p)
  PROVE  DocumentInv'
<1> DEFINE l == loc[p]
<1>1. /\ pc[p] = "empty" /\ l.op # "get" /\ l.n < Newest /\ l.old <= l.n
      /\ UNCHANGED <<body, made>> /\ Newest' = Newest
  BY CallAt DEF Empty, CallOK, Newest
<1>2. KnowledgeKept
  BY <1>1 DEF KnowledgeKept, CallOK, Newest, Visible
<1>3. CASE Answer(p, "ok", l.n + 1) /\ UNCHANGED emptied
  <2>1. UNCHANGED files
    BY <1>1, <1>3 DEF files
  <2>2. FilesOK'
    BY <2>1, FilesKeep
  <2>3. l.n + 1 \in 0 .. MaxRevs
    BY <1>1, CallAt, DocumentsAssumption
  <2>4. l.op # "get"
    BY <1>1, CallAt DEF CallOK
  <2> QED BY <1>2, <1>3, <2>2, <2>3, <2>4, AnswerMove
<1>4. CASE /\ l.old # 0 /\ emptied' = emptied \cup {l.old}
           /\ GoWith(p, "empty", [l EXCEPT !.old = @ - 1])
           /\ UNCHANGED last
  <2>1. FilesOK'
    <3>1. l.old \in 1 .. Newest - 1
      BY <1>1, <1>4, CallAt, DocumentsAssumption
    <3> QED BY <1>1, <1>4, <3>1 DEF DocumentInv, FilesOK
  <2>2. PICK k \in Locals : /\ k = [l EXCEPT !.old = @ - 1] /\ k.n = l.n
                             /\ k.old = l.old - 1 /\ k.op = l.op
    BY <1>4, CallAt, DocumentsAssumption DEF Locals
  <2>3. CallOK("empty", k)'
    BY <1>1, <2>2, CallAt, DocumentsAssumption DEF CallOK
  <2>4. "empty" \in Steps /\ GoWith(p, "empty", k)
    BY <1>4, <2>2 DEF Steps
  <2>5. CallsOK'
    BY <1>2, <2>2, <2>3, <2>4, MoveCalls DEF DocumentInv
  <2>6. LastOK'
    BY <1>1, <1>4 DEF DocumentInv, LastOK, ReadIsFresh, GivesUpUnderWrites, Visible
  <2> QED BY <2>1, <2>5, <2>6 DEF DocumentInv
<1> QED BY <1>3, <1>4 DEF Empty

LEMMA StopKeeps ==
  ASSUME DocumentInv, NEW p \in Procs, Stop(p)
  PROVE  DocumentInv'
<1>1. "idle" \in Steps /\ UNCHANGED files /\ UNCHANGED last
  BY DEF Steps, Stop
<1> QED BY <1>1, NoLocalsTyped, QuietMove DEF Stop

LEMMA NextKeeps == DocumentInv /\ [Next]_vars => DocumentInv'
<1> SUFFICES ASSUME DocumentInv, [Next]_vars PROVE DocumentInv'
  OBVIOUS
<1>1. ASSUME Next PROVE DocumentInv'
  BY <1>1, CallKeeps, ListKeeps, ReadKeeps, LinkKeeps, EmptyKeeps, StopKeeps
     DEF Next
<1>2. ASSUME UNCHANGED vars PROVE DocumentInv'
  <2>1. UNCHANGED files /\ last' = last /\ UNCHANGED <<pc, loc>>
    BY <1>2 DEF vars, files
  <2>2. FilesOK' /\ LastOK' /\ KnowledgeKept
    BY <2>1, FilesKeep
  <2>3. CallsOK'
    BY <2>1 DEF DocumentInv, CallsOK, CallOK, files, Newest, Visible
  <2> QED BY <2>2, <2>3 DEF DocumentInv
<1> QED BY <1>1, <1>2

LEMMA Invariance == Spec => []DocumentInv
<1>1. Init => DocumentInv
  BY InitInv
<1>2. DocumentInv /\ [Next]_vars => DocumentInv'
  BY NextKeeps
<1> QED BY <1>1, <1>2, PTL DEF Spec
-----------------------------------------------------------------------------
(* What every reader relies on: the document's newest revision is readable, *)
(* whatever calls run and die beside it.                                    *)
THEOREM NewestAlwaysWhole == Spec => []NewestIsWhole
<1>1. DocumentInv => NewestIsWhole
  BY DocumentsAssumption DEF DocumentInv, FilesOK, NewestIsWhole, Newest
<1> QED BY <1>1, Invariance, PTL

(* A read never answers a document older than the call, nor takes one that  *)
(* is there for absent; and it gives up only under that many writes.        *)
THEOREM ReadsAlwaysFresh == Spec => [](ReadIsFresh /\ GivesUpUnderWrites)
<1>1. DocumentInv => ReadIsFresh /\ GivesUpUnderWrites
  BY DEF DocumentInv, LastOK
<1> QED BY <1>1, Invariance, PTL

(* The variables keep their types. *)
THEOREM DocumentTypes == Spec => []TypeOK
<1>1. DocumentInv => TypeOK
  <2> SUFFICES ASSUME DocumentInv PROVE TypeOK
    OBVIOUS
  <2>1. emptied \subseteq Revisions
    BY DocumentsAssumption DEF DocumentInv, FilesOK, Revisions, Newest
  <2> QED BY <2>1 DEF DocumentInv, FilesOK, CallsOK, LastOK, TypeOK
<1> QED BY <1>1, Invariance, PTL

(* The revisions made, as the contract keeps them. *)
History == [r \in 1 .. Newest |-> [value |-> body[r], expected |-> made[r]]]

(* The step that links a revision is a compare-and-set of the contract.     *)
LEMMA LinkIsWrite ==
  ASSUME DocumentInv, NEW p \in Procs, Link(p), ~ UNCHANGED <<body, made>>
  PROVE  Contract!Next
<1> DEFINE l == loc[p]
           e == [value |-> l.value, expected |-> l.expected]
           S == [value : Bodies, expected : 0 .. MaxRevs]
<1>1. /\ l.n = Newest /\ body' = Append(body, l.value)
      /\ made' = Append(made, l.expected)
  BY DEF Link
<1>2. /\ l.value \in Bodies /\ l.expected \in 0 .. MaxRevs
      /\ Newest \in 0 .. MaxRevs /\ l.op \in Ops
  BY CallAt
<1>3. l.op # "get" /\ l.expected = Visible(Newest)
      /\ (l.op = "delete" => l.expected # 0)
  BY <1>1, CallAt DEF Link, CallOK
<1>4. l.value = Deleted <=> l.op = "delete"
  BY <1>2, <1>3, CallAt DEF Link, CallOK, Ops
<1>5. /\ Newest' = Newest + 1
      /\ \A i \in 1 .. Newest : body'[i] = body[i] /\ made'[i] = made[i]
      /\ body'[Newest + 1] = l.value /\ made'[Newest + 1] = l.expected
  BY <1>1, <1>2, AppendProperties DEF DocumentInv, FilesOK, Newest
<1>6. /\ History \in Seq(S) /\ Len(History) = Newest
      /\ \A i \in 1 .. Newest : History[i] = [value |-> body[i], expected |-> made[i]]
  BY <1>2, DocumentsAssumption DEF DocumentInv, FilesOK, Newest, History
<1>7. History' = Append(History, e)
  BY <1>2, <1>5, <1>6 DEF History
<1>8. Visible(Newest) = IF History = <<>> \/ History[Len(History)].value = Deleted
                        THEN 0 ELSE Len(History)
  BY <1>2, <1>6 DEF Visible
<1>9. l.expected \in 0 .. Len(History)
  BY <1>2, <1>3, <1>6, VisibleIsRevision
<1>10. CASE l.value = Deleted
  BY <1>3, <1>4, <1>7, <1>8, <1>9, <1>10
     DEF History, Contract!Next, Contract!Delete, Contract!Write, Contract!Revision
<1>11. CASE l.value # Deleted
  BY <1>2, <1>3, <1>7, <1>8, <1>9, <1>11
     DEF History, Bodies, Contract!Next, Contract!Put, Contract!Write, Contract!Revision
<1> QED BY <1>10, <1>11

(* The directory of revisions implements the document the store contract    *)
(* promises: every revision is one compare-and-set against the current one. *)
THEOREM DirectoryImplementsContract == Spec => ImplementsContract
<1>1. Init => Contract!Init
  BY DEF Init, Contract!Init, Newest
<1>2. ASSUME DocumentInv, [Next]_vars PROVE [Contract!Next]_History
  <2>1. CASE UNCHANGED <<body, made>>
    BY <2>1 DEF History, Newest
  <2>2. CASE ~ UNCHANGED <<body, made>>
    <3>1. PICK p \in Procs : Link(p)
      BY <1>2, <2>2 DEF Next, vars, files, Call, List, Read, Empty, Stop
    <3> QED BY <1>2, <2>2, <3>1, LinkIsWrite
  <2> QED BY <2>1, <2>2
<1>3. DocumentInv /\ [Next]_vars => [Contract!Next]_History
  BY <1>2
<1> QED BY <1>1, <1>3, Invariance, PTL DEF Spec, ImplementsContract, Contract!Spec, History
=============================================================================
