------------------------------ MODULE Documents ------------------------------
(***************************************************************************)
(* One document of the filesystem kind: a directory of its revisions, each *)
(* made once by linking a staged file to its number and emptied once a     *)
(* newer one stands over it (go/store_fs.go, fsDocuments).  Documents      *)
(* share nothing.  Any number of processes read and write at a time; one   *)
(* dies between any two of its file operations.                            *)
(***************************************************************************)
EXTENDS Naturals, Sequences

CONSTANTS
  Procs,      \* callers at one time
  Values,     \* contents
  Deleted,    \* the body of a revision that deletes
  MaxReads,   \* attempts of state(): 8
  MaxRevs     \* bound: revisions made

ASSUME DocumentsAssumption ==
  /\ MaxReads \in Nat \ {0} /\ MaxRevs \in Nat
  /\ Deleted \notin Values

Bodies == Values \cup {Deleted}
Revisions == 1 .. MaxRevs

VARIABLES
  body,     \* Seq(Bodies): what each revision was made with
  made,     \* Seq: the revision its maker expected, for each
  emptied,  \* the revisions emptied since
  pc,       \* [Procs -> Steps]
  loc,      \* [Procs -> Locals]: a call's arguments and locals
  last      \* the last answer given to any call

files == <<body, made, emptied>>
vars == <<body, made, emptied, pc, loc, last>>

Newest == Len(body)

(* A revision as its caller is given it: a deleted one is none. *)
Visible(r) == IF r = 0 \/ body[r] = Deleted THEN 0 ELSE r

Ops == {"get", "put", "delete"}
Steps == {"idle", "list", "read", "link", "empty"}

(* n is the revision listed, old the next to empty, tries the reads made in *)
(* vain, and from the newest revision when the call was made.               *)
Locals == [op : Ops, value : Bodies, expected : 0 .. MaxRevs, n : 0 .. MaxRevs,
           old : 0 .. MaxRevs, tries : 0 .. MaxReads, from : 0 .. MaxRevs]

Answers == [op : Ops, what : {"ok", "absent", "conflict", "unreadable"},
            revision : 0 .. MaxRevs, from : 0 .. MaxRevs]

NoLocals == [op |-> "get", value |-> Deleted, expected |-> 0, n |-> 0,
             old |-> 0, tries |-> 0, from |-> 0]

TypeOK ==
  /\ body \in Seq(Bodies) /\ Newest <= MaxRevs
  /\ made \in Seq(0 .. MaxRevs) /\ Len(made) = Newest
  /\ emptied \subseteq Revisions
  /\ pc \in [Procs -> Steps]
  /\ loc \in [Procs -> Locals]
  /\ last \in Answers

Init ==
  /\ body = <<>> /\ made = <<>> /\ emptied = {}
  /\ pc = [p \in Procs |-> "idle"]
  /\ loc = [p \in Procs |-> NoLocals]
  /\ last = [op |-> "get", what |-> "absent", revision |-> 0, from |-> 0]

-----------------------------------------------------------------------------
GoWith(p, step, l) ==
  /\ pc' = [pc EXCEPT ![p] = step]
  /\ loc' = [loc EXCEPT ![p] = IF step = "idle" THEN NoLocals ELSE l]

Answer(p, what, revision) ==
  /\ GoWith(p, "idle", NoLocals)
  /\ last' = [op |-> loc[p].op, what |-> what, revision |-> revision,
              from |-> loc[p].from]

(* getDocument, putDocument and deleteDocument: a writer passes a revision  *)
(* it read at some time, or none.                                           *)
Call(p) ==
  /\ pc[p] = "idle"
  /\ \E op \in Ops, value \in Bodies, e \in 0 .. Newest :
       /\ value = Deleted <=> op # "put"
       /\ op = "get" => e = 0
       /\ GoWith(p, "list", [NoLocals EXCEPT !.op = op, !.value = value,
                                             !.expected = e, !.from = Newest])
  /\ UNCHANGED <<files, last>>

(* What a call makes of the document at revision r: a read is answered; a   *)
(* write goes on where the document is at the revision it expects.          *)
Settle(p, r) ==
  LET l == loc[p]
      current == Visible(r)
  IN IF l.op # "put" /\ current = 0 THEN Answer(p, "absent", r)
     ELSE IF l.op = "get" THEN Answer(p, "ok", r)
     ELSE IF l.expected # current THEN Answer(p, "conflict", r)
     ELSE GoWith(p, "link", [l EXCEPT !.n = r]) /\ UNCHANGED last

(* newest: the highest revision listed. *)
List(p) ==
  /\ pc[p] = "list"
  /\ IF Newest = 0 THEN Settle(p, 0)
     ELSE GoWith(p, "read", [loc[p] EXCEPT !.n = Newest]) /\ UNCHANGED last
  /\ UNCHANGED files

(* A read in vain: another, while there are tries left. *)
Retry(p, step) ==
  LET l == [loc[p] EXCEPT !.tries = @ + 1]
  IN IF l.tries < MaxReads THEN GoWith(p, step, l) /\ UNCHANGED last
     ELSE Answer(p, "unreadable", l.n)

(* Mutant: an emptied revision is taken for one that deletes. *)
ReadEmptyAsAbsent(p) ==
  /\ pc[p] = "read"
  /\ IF loc[p].n \in emptied THEN Answer(p, "absent", loc[p].n)
     ELSE Settle(p, loc[p].n)
  /\ UNCHANGED files

(* The revision listed is read; one emptied since is looked for again, and  *)
(* a document that changed under every read is given up.                    *)
Read(p) ==
  /\ pc[p] = "read"
  /\ IF loc[p].n \in emptied THEN Retry(p, "list") ELSE Settle(p, loc[p].n)
  /\ UNCHANGED files

(* Mutant: the next number is looked for again when the file is linked. *)
LinkNewest(p) ==
  /\ pc[p] = "link"
  /\ Newest < MaxRevs
  /\ body' = Append(body, loc[p].value)
  /\ made' = Append(made, loc[p].expected)
  /\ GoWith(p, "empty", [loc[p] EXCEPT !.n = Newest, !.old = Newest])
  /\ UNCHANGED <<emptied, last>>

(* os.Link: the next number is this writer's, or another's already. *)
Link(p) ==
  /\ pc[p] = "link"
  /\ \/ /\ loc[p].n < Newest
        /\ Answer(p, "conflict", loc[p].n)
        /\ UNCHANGED <<body, made>>
     \/ /\ loc[p].n = Newest /\ Newest < MaxRevs
        /\ body' = Append(body, loc[p].value)
        /\ made' = Append(made, loc[p].expected)
        /\ GoWith(p, "empty", [loc[p] EXCEPT !.old = Newest])
        /\ UNCHANGED last
  /\ UNCHANGED emptied

(* Mutant: the revision just made is emptied with those below it. *)
EmptyItsOwn(p) ==
  /\ pc[p] = "empty"
  /\ emptied' = emptied \cup {loc[p].n + 1}
  /\ Answer(p, "ok", loc[p].n + 1)
  /\ UNCHANGED <<body, made>>

(* The revisions below are emptied, newest first, until one emptied before, *)
(* or one that cannot be.                                                   *)
Empty(p) ==
  LET old == loc[p].old
  IN /\ pc[p] = "empty"
     /\ \/ Answer(p, "ok", loc[p].n + 1) /\ UNCHANGED emptied
        \/ /\ old # 0 /\ old \notin emptied
           /\ emptied' = emptied \cup {old}
           /\ GoWith(p, "empty", [loc[p] EXCEPT !.old = @ - 1])
           /\ UNCHANGED last
     /\ UNCHANGED <<body, made>>

(* The process dies, or a file operation of it fails. *)
Stop(p) ==
  /\ pc[p] # "idle"
  /\ GoWith(p, "idle", NoLocals)
  /\ UNCHANGED <<files, last>>

Next ==
  \E p \in Procs :
    Call(p) \/ List(p) \/ Read(p) \/ Link(p) \/ Empty(p) \/ Stop(p)

Spec == Init /\ [][Next]_vars

-----------------------------------------------------------------------------
(* What the directory promises. *)

(* The directory is one document of the contract: whatever interleaves and  *)
(* dies, a revision is made only by a writer whose expected revision was    *)
(* the current one (store_contract.go putDocument, "if the document is at   *)
(* revision expected now").                                                 *)
Contract == INSTANCE DocumentSpace WITH
  history <- [r \in 1 .. Newest |-> [value |-> body[r], expected |-> made[r]]]

ImplementsContract == Contract!Spec

(* The newest revision holds its bytes: emptying never reaches the revision *)
(* that is the document, and no death leaves the document unreadable.       *)
NewestIsWhole == Newest # 0 => Newest \notin emptied

(* A read answers what the document was at a moment of the call: a revision *)
(* no older than the newest when it began, and absent only where that       *)
(* revision deletes.                                                        *)
ReadIsFresh ==
  last.op = "get" /\ last.what # "unreadable" =>
    /\ last.revision \in last.from .. Newest
    /\ last.what = "absent" <=> Visible(last.revision) = 0

(* A call that gives up ("changed under every read") did meet as many new   *)
(* revisions as it made reads: a quiet document is always readable.         *)
GivesUpUnderWrites ==
  last.what = "unreadable" => Newest >= last.from + MaxReads
=============================================================================
