------------------------------ MODULE Evidence ------------------------------
(***************************************************************************)
(* A store of receipts, its registry and the decision records beside it:   *)
(* written by a signer, then changed by whoever holds the files, and read  *)
(* by the two verifiers (VerifyGo, VerifyTs).                              *)
(*                                                                         *)
(* A signature is a number: the n-th that was ever made, of the body       *)
(* signed[n] under the key it names.  A body that was changed after it was *)
(* signed is another body, so its signature does not verify.  A receipt's  *)
(* faults are the members it holds in another form than stated ("json":    *)
(* the file does not parse at all).                                        *)
(***************************************************************************)
EXTENDS Naturals, Sequences, FiniteSets, SequencesExt, FiniteSetsExt, Functions, TLC

CONSTANTS
  Sessions,    \* the sessions, and the directories a receipt may be put in
  VersionOf,   \* [Sessions -> {"2", "3"}]: the receipt version each was begun with
  Faults,      \* the members an edit may spoil
  None,
  MaxSigned,   \* bound: statements the signer makes
  MaxEdits     \* bound: changes made to its files

VARIABLES
  store,       \* [files, artifacts, lines, records]: what is on disk
  signed,      \* the bodies signed, in order
  own,         \* the key the signer signs under
  made,        \* [Sessions -> Seq(file)]: the receipts the signer wrote
  sealed,      \* the sessions it sealed
  edits        \* changes made

vars == <<store, signed, own, made, sealed, edits>>

Authority == "engine"
FirstKey == 1

(* A receipt's place: its directory, and a stem that is the decimal of its  *)
(* index, or one that a lenient reader takes for it ("07").                 *)
Plain(n) == [n |-> n, plain |-> TRUE]
Place(dir, stem) == [dir |-> dir, stem |-> stem]
Dirs(d) == {p.dir : p \in DOMAIN d.files}
FilesOf(d, dir) == {p \in DOMAIN d.files : p.dir = dir}

(* Whether sig is key's signature of this body, in these signatures. *)
Verifies(signatures, sig, key, body) ==
  sig \in DOMAIN signatures /\ signatures[sig] = [key |-> key, body |-> body]

Sign(body) == signed' = Append(signed, [key |-> own, body |-> body])
NextSig == Len(signed) + 1
Signer == edits = 0 /\ Len(signed) < MaxSigned

Init ==
  /\ store = [files |-> <<>>, artifacts |-> <<>>, lines |-> <<>>, records |-> {}]
  /\ signed = <<>> /\ own = FirstKey
  /\ made = [s \in Sessions |-> <<>>] /\ sealed = {}
  /\ edits = 0

-----------------------------------------------------------------------------
(* What the signer writes (store.acquire): the next receipt of a session,   *)
(* chained to the last, and the bytes it is of.                             *)
BaseBody(s) ==
  [version |-> VersionOf[s], faults |-> {}, session |-> s, index |-> Len(made[s]),
   prev |-> IF made[s] = <<>> THEN 0 ELSE Last(made[s]).sig, key |-> own, authority |-> Authority,
   result |-> NextSig, kind |-> "acquisition", cites |-> {}, record |-> None, pack |-> None,
   trail |-> None, delivery |-> None, recon |-> None, source |-> "live", who |-> "alice",
   capture |-> None]

Put(d, place, file) == [d EXCEPT !.files = (place :> file) @@ @]

Write(s, body, records) ==
  LET file == [body |-> body, sig |-> NextSig] IN
  /\ Signer /\ s \notin sealed
  /\ Sign(body)
  /\ store' = [Put(store, Place(s, Plain(Len(made[s]))), file) EXCEPT
                 !.artifacts = (body.result :> body.result) @@ @, !.records = @ \cup records]
  /\ made' = [made EXCEPT ![s] = Append(@, file)]
  /\ UNCHANGED <<own, sealed, edits>>

(* A source's descriptors, captured and stated (retainDescriptorCapture). *)
IsStatement(n) == "source" \in DOMAIN signed[n].body /\ "version" \notin DOMAIN signed[n].body

Describe ==
  /\ Signer /\ ~\E n \in DOMAIN signed : IsStatement(n)
  /\ Sign([source |-> "live", of |-> NextSig])
  /\ store' = [store EXCEPT !.artifacts = (NextSig :> NextSig) @@ @]
  /\ UNCHANGED <<own, made, sealed, edits>>

Acquire(s) ==
  \E c \in {None} \cup {n \in DOMAIN signed : VersionOf[s] = "3" /\ IsStatement(n)} :
    Write(s, [BaseBody(s) EXCEPT !.capture = c], {})

(* An action, of version 3, decided on a receipt already written, by a      *)
(* record that claims the same; its delivery is uncertain.                  *)
Act(s) ==
  /\ VersionOf[s] = "3"
  /\ \E t \in Sessions : \E i \in DOMAIN made[t] :
       LET cite == {<<t, i - 1, made[t][i].sig>>} IN
       Write(s, [BaseBody(s) EXCEPT !.kind = "action", !.cites = cite, !.record = NextSig, !.pack = "pack",
                   !.trail = "trail", !.delivery = "uncertain", !.source = "write"],
             {[digest |-> NextSig, understood |-> TRUE, pack |-> "pack", cites |-> cite, trail |-> "trail"]})

(* The read-back of an uncertain action. *)
ReadBack(s) ==
  /\ VersionOf[s] = "3"
  /\ \E t \in Sessions : \E i \in DOMAIN made[t] :
       /\ made[t][i].body.delivery = "uncertain"
       /\ \E outcome \in {"committed", "unknown"}, who \in {"alice", "bob"} :
            Write(s, [BaseBody(s) EXCEPT !.who = who,
                        !.recon = [action |-> <<t, i - 1, made[t][i].sig>>, outcome |-> outcome]], {})

(* seal: a line of the registry.  rotate-key: a rotation and its            *)
(* continuation, each a line.                                               *)
Line(kind, body, sig) == [kind |-> kind, body |-> body, sig |-> sig]

Seal(s) ==
  LET body == [session |-> s, count |-> Len(made[s]), key |-> own] IN
  /\ Signer /\ s \notin sealed /\ made[s] # <<>>
  /\ Sign(body)
  /\ store' = [store EXCEPT !.lines = Append(@, Line("seal", body, NextSig))]
  /\ sealed' = sealed \cup {s}
  /\ UNCHANGED <<own, made, edits>>

Rotate ==
  LET forward == [n |-> own, key |-> own, named |-> own + 1]
      reverse == [n |-> own, key |-> own + 1, named |-> own] IN
  /\ Signer /\ own < 2
  /\ signed' = signed \o <<[key |-> own, body |-> forward], [key |-> own + 1, body |-> reverse]>>
  /\ store' = [store EXCEPT !.lines = @ \o <<Line("rotation", forward, NextSig), Line("continuation", reverse, NextSig + 1)>>]
  /\ own' = own + 1
  /\ UNCHANGED <<made, sealed, edits>>

-----------------------------------------------------------------------------
(* What anyone who holds the files may do to them, once every session that   *)
(* was begun is sealed.                                                      *)
HandedOver == sealed = {s \in Sessions : made[s] # <<>>}

EditTo(d) == /\ edits < MaxEdits /\ d # store /\ HandedOver
             /\ edits' = edits + 1 /\ store' = d
             /\ UNCHANGED <<signed, own, made, sealed>>

RemoveFile == \E p \in DOMAIN store.files : EditTo([store EXCEPT !.files = [q \in DOMAIN @ \ {p} |-> @[q]]])

Stems == {[n |-> n, plain |-> b] : n \in 0 .. 2, b \in BOOLEAN}

Copy == \E p \in DOMAIN store.files : \E dir \in Sessions, stem \in Stems :
          EditTo(Put(store, Place(dir, stem), store.files[p]))

Rename == \E p \in DOMAIN store.files : \E dir \in Sessions, stem \in Stems :
            EditTo([store EXCEPT !.files = (Place(dir, stem) :> @[p]) @@ [q \in DOMAIN @ \ {p} |-> @[q]]])

Spoil == \E p \in DOMAIN store.files : \E b \in
           {[store.files[p].body EXCEPT !.faults = {x}] : x \in Faults}
             \cup {[store.files[p].body EXCEPT !.version = v] : v \in {"2", "3", "9"}}
             \cup {[store.files[p].body EXCEPT !.key = 9], [store.files[p].body EXCEPT !.authority = "other"],
                   [store.files[p].body EXCEPT !.prev = 0]} :
           EditTo(Put(store, p, [store.files[p] EXCEPT !.body = b]))

CopySession == \E from \in Dirs(store), dir \in Sessions :
  EditTo([store EXCEPT !.files =
            [p \in {q \in DOMAIN @ : q.dir # dir} \cup {Place(dir, q.stem) : q \in FilesOf(store, from)} |->
               IF p.dir = dir THEN @[Place(from, p.stem)] ELSE @[p]]])

RemoveSession == \E dir \in Dirs(store) :
  EditTo([store EXCEPT !.files = [p \in DOMAIN @ \ FilesOf(store, dir) |-> @[p]]])

EditArtifact == \E a \in DOMAIN store.artifacts :
  \/ EditTo([store EXCEPT !.artifacts = [x \in DOMAIN @ \ {a} |-> @[x]]])
  \/ EditTo([store EXCEPT !.artifacts[a] = None])

EditRecord == \E r \in store.records :
  \/ EditTo([store EXCEPT !.records = @ \ {r}])
  \/ \E changed \in {[r EXCEPT !.understood = FALSE], [r EXCEPT !.pack = "other"],
                     [r EXCEPT !.cites = {}], [r EXCEPT !.trail = None]} :
       EditTo([store EXCEPT !.records = (@ \ {r}) \cup {[changed EXCEPT !.digest = 0]}])

EditLines == \E i \in DOMAIN store.lines :
  \/ EditTo([store EXCEPT !.lines = RemoveAt(@, i)])
  \/ EditTo([store EXCEPT !.lines[i].sig = 0])
  \/ EditTo([store EXCEPT !.lines = Append(@, @[i])])
  \/ EditTo([store EXCEPT !.lines = <<@[i]>> \o RemoveAt(@, i)])

Next ==
  \/ \E s \in Sessions : Acquire(s) \/ Act(s) \/ ReadBack(s) \/ Seal(s)
  \/ Rotate \/ Describe
  \/ RemoveFile \/ Copy \/ Rename \/ Spoil \/ CopySession \/ RemoveSession
  \/ EditArtifact \/ EditRecord \/ EditLines

Spec == Init /\ [][Next]_vars
=============================================================================
