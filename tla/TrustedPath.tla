---------------------------- MODULE TrustedPath ----------------------------
(***************************************************************************)
(* How the engine holds a path before it relies on it: the walk from the   *)
(* root that follows links and holds every directory on the way, and what  *)
(* is then asked of the file it ends at (go/engine.go: trustedFile,        *)
(* walkComponents, holdDirectory, holdExecutableFile, holdSandboxPolicy,   *)
(* holdDecisionRecords, holdDecisionRecordsParent; go/spawn_unix.go:       *)
(* openSeed).                                                              *)
(*                                                                         *)
(* The walk looks at one component at a time, by name; between any two     *)
(* looks, and ever after, another user of the host does whatever the       *)
(* kernel lets them.  A user is root, `self` (the uid the path is held     *)
(* for: the signer or a platform's user; for decision records, the owner   *)
(* of their directory too) or `other`, who is anyone else.                 *)
(***************************************************************************)
EXTENDS Naturals, Sequences, FiniteSets, SequencesExt

CONSTANTS
  Paths,       \* the names of the host's files, from the root <<>>
  Hosts,       \* the filesystems the engine may start on
  Jobs,        \* [purpose, path]: what the engine is to hold
  MaxHops,     \* maxLinkHops
  MaxMoves     \* bound: steps of other users

VARIABLES
  fs,          \* [Paths -> node]: what each name is
  tainted,     \* the names other users have made, or written to
  job, cur, rest, hops,  \* the walk: where it is, and what is left of the path
  listing,     \* the entries of the decision-record tree still to be judged
  status,      \* "parent", "walk", "judge", "list", "held", "refused"
  moves

vars == <<fs, tainted, job, cur, rest, hops, listing, status, moves>>
walk == <<job, cur, rest, hops, listing, status>>

Absent == [kind |-> "absent", owner |-> "root", mode |-> "closed", to |-> <<>>, abs |-> FALSE]
Look(path) == IF path \in Paths THEN fs[path] ELSE Absent

(* Modes: private 0700 or 0600, closed 0755 or 0644, open 0777 or 0666,     *)
(* sticky 1777.                                                            *)
WritableBeyondOwner(n) == n.mode \in {"open", "sticky"}
Parent(path) == IF path = <<>> THEN <<>> ELSE Front(path)
Above(path) == {SubSeq(path, 1, n) : n \in 0 .. Len(path) - 1}
Beneath(path) == {x \in Paths : Len(x) > Len(path) /\ SubSeq(x, 1, Len(path)) = path}

(* linkOwners: credentials and decision records follow root's links only. *)
LinkTrusted(purpose, owner) ==
  owner = "root" \/ (owner = "self" /\ purpose \in {"seed", "executable", "policy"})

(* Mutant: a directory others may write to is held. *)
HoldDirectoryOwned(n) ==
  n.kind = "dir" /\ n.owner \in {"root", "self"} /\ (n.mode = "private" => n.owner = "self")

(* holdDirectory. *)
HoldDirectory(n) ==
  /\ n.kind = "dir"
  /\ n.owner \in {"root", "self"}
  /\ n.mode # "open"
  /\ n.mode = "private" => n.owner = "self"

(* holdRecordAncestor. *)
HoldRecordAncestor(n) ==
  n.kind = "dir" /\ n.owner \in {"root", "self"} /\ n.mode # "open"

(* A walk to a directory, which holds the last component as every other. *)
ByName(purpose) == purpose \in {"records", "place"}
Holds(purpose, n) == IF ByName(purpose) THEN HoldRecordAncestor(n) ELSE HoldDirectory(n)

(* A directory of records not there yet, or that root's link stands for, is *)
(* held by its place: the directory it is to be made in, or the link is in. *)
Vacant(n) == n.kind = "absent" \/ (n.kind = "link" /\ n.owner = "root")
Place(path) == [purpose |-> "place", path |-> Parent(path), name |-> path]
Looked(j) == IF j.purpose = "records" /\ Vacant(Look(j.path)) THEN Place(j.path) ELSE j

Init ==
  /\ fs \in Hosts
  /\ tainted = {x \in Paths : fs[x].kind # "absent" /\
                 (fs[x].owner = "other" \/ (fs[x].kind = "file" /\ WritableBeyondOwner(fs[x])))}
  /\ job \in {Looked(j) : j \in Jobs}
  /\ cur = <<>> /\ rest = job.path /\ hops = 0 /\ listing = {} /\ moves = 0
  /\ status = IF \/ ~Holds(job.purpose, fs[<<>>])
                 \* holdDecisionRecords looks at the directory itself first
                 \/ job.purpose = "records" /\
                      (Look(job.path).kind # "dir" \/ WritableBeyondOwner(Look(job.path)))
                THEN "refused" ELSE IF job.purpose = "place" THEN "parent" ELSE "walk"

Refuse == status' = "refused" /\ UNCHANGED <<cur, rest, hops>>
MoveTo(path, left) == cur' = path /\ rest' = left /\ UNCHANGED <<hops, status>>
EndAt(path) == cur' = path /\ rest' = <<>> /\ status' = "judge" /\ UNCHANGED hops

(* holdDecisionRecordsParent, before it walks to the directory: one that is *)
(* a link or writable beyond its owner, sticky or not, is refused; one that *)
(* is not there, or is a file, preflightPaths refuses.                      *)
LookAtParent ==
  /\ status = "parent"
  /\ status' = IF Look(job.path).kind = "dir" /\ ~WritableBeyondOwner(Look(job.path))
                 THEN "walk" ELSE "refused"
  /\ UNCHANGED <<fs, tainted, job, cur, rest, hops, listing, moves>>

(* walkComponents, one component of the path. *)
Component ==
  LET token == Head(rest)
      left == Tail(rest)
      next == Append(cur, token)
      n == Look(next)
      last == ~ByName(job.purpose) /\ left = <<>> IN
  IF token = ".." THEN MoveTo(Parent(cur), left)
  ELSE CASE n.kind = "absent" -> IF last THEN EndAt(next) ELSE Refuse
         [] n.kind = "link" ->
              IF ~LinkTrusted(job.purpose, n.owner) \/ hops = MaxHops THEN Refuse
              ELSE /\ hops' = hops + 1
                   /\ cur' = IF n.abs THEN <<>> ELSE cur
                   /\ rest' = n.to \o left
                   /\ UNCHANGED status
         [] n.kind = "file" /\ last -> EndAt(next)
         [] OTHER -> IF Holds(job.purpose, n) THEN MoveTo(next, left) ELSE Refuse

Walk ==
  /\ status = "walk"
  /\ IF rest # <<>> THEN Component ELSE EndAt(cur)
  /\ UNCHANGED <<fs, tainted, job, listing, moves>>

(* What each caller asks of the file the walk ended at: engineRefusals of   *)
(* credentials, openSeed, holdExecutableFile, and holdSandboxPolicy, which  *)
(* takes a policy that is not there.  Of a place the walk is all.           *)
Acceptable(purpose, n) ==
  CASE purpose \in {"credentials", "seed"} ->
         n.kind = "file" /\ n.owner = "self" /\ n.mode = "private"
    [] purpose = "executable" ->
         n.kind = "file" /\ n.owner \in {"root", "self"} /\ ~WritableBeyondOwner(n)
    [] purpose = "policy" ->
         \/ n.kind = "absent"
         \/ n.kind = "file" /\ n.owner \in {"root", "self"} /\ ~WritableBeyondOwner(n)
    [] purpose = "place" -> TRUE

Judge ==
  /\ status = "judge" /\ job.purpose # "records"
  /\ status' = IF Acceptable(job.purpose, Look(cur)) THEN "held" ELSE "refused"
  /\ UNCHANGED <<fs, tainted, job, cur, rest, hops, listing, moves>>

(* holdBeneath: the entries of the records' directory, each judged in turn. *)
Entries(dir) == {x \in Beneath(dir) : Parent(x) = dir /\ fs[x].kind \in {"dir", "file"}}

List ==
  /\ status = "judge" /\ job.purpose = "records"
  /\ status' = "list" /\ listing' = Entries(cur)
  /\ UNCHANGED <<fs, tainted, job, cur, rest, hops, moves>>

JudgeEntry ==
  /\ status = "list" /\ listing # {}
  /\ \E x \in listing :
       LET n == fs[x] IN
       CASE n.kind = "absent" -> status' = "refused" /\ UNCHANGED listing
         [] n.kind = "link" -> listing' = listing \ {x} /\ UNCHANGED status
         [] n.owner = "other" \/ WritableBeyondOwner(n) ->
              status' = "refused" /\ UNCHANGED listing
         [] OTHER -> /\ listing' = (listing \ {x}) \cup (IF n.kind = "dir" THEN Entries(x) ELSE {})
                     /\ UNCHANGED status
  /\ UNCHANGED <<fs, tainted, job, cur, rest, hops, moves>>

Listed ==
  /\ status = "list" /\ listing = {} /\ status' = "held"
  /\ UNCHANGED <<fs, tainted, job, cur, rest, hops, listing, moves>>

-----------------------------------------------------------------------------
(* Another user, as the kernel lets them: they write in a directory that is *)
(* theirs or open, and take away or replace what is in it unless the sticky *)
(* bit keeps it for its owner.                                              *)
Reaches(x) == \A d \in Above(x) : fs[d].kind = "dir" /\ (fs[d].mode # "private" \/ fs[d].owner = "other")

MayWriteIn(d) == Reaches(d) /\ fs[d].kind = "dir" /\ (fs[d].owner = "other" \/ WritableBeyondOwner(fs[d]))

MayReplace(x) ==
  /\ x # <<>> /\ MayWriteIn(Parent(x))
  /\ \/ fs[x].kind = "absent"
     \/ fs[Parent(x)].mode # "sticky"
     \/ "other" \in {fs[x].owner, fs[Parent(x)].owner}

Their(kind, to) == [kind |-> kind, owner |-> "other", mode |-> "closed", to |-> to, abs |-> TRUE]

(* A file, a directory or a link of theirs in the name's place.  What was   *)
(* under the name goes with it.                                             *)
Plant(x) ==
  /\ MayReplace(x)
  /\ \E n \in {Their("file", <<>>), Their("dir", <<>>)} \cup {Their("link", y) : y \in Paths \ {<<>>}} :
       fs' = [y \in Paths |-> IF y = x THEN n ELSE IF y \in Beneath(x) THEN Absent ELSE fs[y]]
  /\ tainted' = (tainted \cup {x}) \ Beneath(x)

TakeAway(x) ==
  /\ MayReplace(x) /\ fs[x].kind # "absent"
  /\ fs' = [y \in Paths |-> IF y \in Beneath(x) \cup {x} THEN Absent ELSE fs[y]]
  /\ tainted' = tainted \ (Beneath(x) \cup {x})

Write(x) ==
  /\ Reaches(x) /\ fs[x].kind = "file" /\ (fs[x].owner = "other" \/ WritableBeyondOwner(fs[x]))
  /\ tainted' = tainted \cup {x}
  /\ UNCHANGED fs

Chmod(x) ==
  /\ Reaches(x) /\ fs[x].kind \in {"dir", "file"} /\ fs[x].owner = "other"
  /\ \E m \in {"private", "closed", "open"} : fs' = [fs EXCEPT ![x].mode = m]
  /\ UNCHANGED tainted

Other ==
  /\ moves < MaxMoves /\ moves' = moves + 1
  /\ \E x \in Paths : Plant(x) \/ TakeAway(x) \/ Write(x) \/ Chmod(x)
  /\ UNCHANGED walk

Engine == LookAtParent \/ Walk \/ Judge \/ List \/ JudgeEntry \/ Listed
Next == Engine \/ Other

(* The engine's own steps are taken; nothing is asked of the other users. *)
Spec == Init /\ [][Next]_vars /\ WF_vars(Engine)

-----------------------------------------------------------------------------
(* What the walk has established, of the host as it now is: the inductive   *)
(* invariant.  A directory the walk has kept stays as it was judged, since  *)
(* what may be replaced in a sticky one is not the engine's or root's.      *)
Kept(d) == d \in Paths /\ fs[d].kind = "dir" /\ fs[d].owner # "other" /\ fs[d].mode # "open"

TaintInv ==
  \A x \in tainted :
    /\ x \in Paths /\ fs[x].kind # "absent"
    /\ fs[x].owner = "other" \/ (fs[x].kind = "file" /\ WritableBeyondOwner(fs[x]))

WayInv ==
  status # "refused" =>
    /\ \A d \in Above(cur) : Kept(d)
    /\ status \in {"parent", "walk", "list"} \/ ByName(job.purpose) => Kept(cur)

HeldInv ==
  status = "held" /\ job.purpose \in {"seed", "credentials", "executable"} =>
    cur \in Paths /\ fs[cur].kind = "file" /\ fs[cur].owner # "other" /\ ~WritableBeyondOwner(fs[cur])

(* Records, and their place, are walked to by name: the directory looked at *)
(* first is the one the walk ends at, or the walk is refused on the way.    *)
RecordWayInv ==
  ByName(job.purpose) =>
    /\ status = "parent" => job.purpose = "place" /\ cur = <<>> /\ rest = job.path
    /\ status = "walk" =>
         /\ cur \o rest = job.path
         /\ \A d \in Above(job.path) \cup {job.path} :
              d \in Paths /\ (fs[d].owner = "other" \/ fs[d].kind \in {"dir", "absent"})
         /\ Kept(job.path) => ~WritableBeyondOwner(fs[job.path])
    /\ status \in {"judge", "list", "held"} => cur = job.path /\ ~WritableBeyondOwner(fs[cur])

(* A place stays vacant while its directory is ours and nobody else may     *)
(* write in it.                                                             *)
PlaceInv ==
  job.purpose = "place" /\ Kept(job.path) /\ ~WritableBeyondOwner(fs[job.path]) =>
    Vacant(Look(job.name))

(* What anyone else owns or may write to, where a walk for a record reaches *)
(* it, is still to be judged, or is under a directory that is.              *)
Reached(x) == \A d \in Above(x) \ Above(cur) : fs[d].kind = "dir"
Foreign(n) == n.kind \in {"dir", "file"} /\ (n.owner = "other" \/ WritableBeyondOwner(n))

ListInv ==
  /\ status = "list" => job.purpose = "records"
  /\ job.purpose = "records" /\ status \in {"list", "held"} =>
       /\ listing \subseteq Beneath(cur)
       /\ status = "held" => listing = {}
       /\ \A x \in Beneath(cur) :
            Reached(x) /\ Foreign(fs[x]) => \E y \in listing : y = x \/ y \in Above(x)

PathInv == TaintInv /\ WayInv /\ HeldInv /\ RecordWayInv /\ PlaceInv /\ ListInv

-----------------------------------------------------------------------------
(* Once the engine holds a path, the file it resolved to is one that no     *)
(* other user has made or written, under directories none of them has       *)
(* replaced, and it stays so whatever they do: what was judged at each look *)
(* is still what is there when the next look is made, and ever after        *)
(* (walkComponents, holdExecutableFile, engineRefusals).                    *)
HeldIsOurs ==
  status = "held" /\ job.purpose \in {"seed", "credentials", "executable"} =>
    /\ fs[cur].kind = "file" /\ cur \notin tainted
    /\ \A d \in Above(cur) : fs[d].kind = "dir" /\ d \notin tainted

(* No record of another user is ever in a decision-record directory that    *)
(* the engine holds, in any directory under it that a walk for a record     *)
(* reaches (holdDecisionRecords, holdBeneath).                              *)
RecordsAreOurs ==
  status = "held" /\ job.purpose = "records" =>
    \A x \in Beneath(cur) \cap tainted :
      fs[x].kind = "link" \/ \E d \in Above(x) \ Above(cur) : fs[d].kind # "dir"

(* Nor does another user ever make the decision-record directory, or put    *)
(* one in the place of root's link, where it was not there when the engine  *)
(* held its place: whoever makes it first owns it                           *)
(* (holdDecisionRecordsParent).                                             *)
PlaceIsOurs ==
  status = "held" /\ job.purpose = "place" =>
    /\ fs[cur].kind = "dir" /\ cur \notin tainted /\ job.name \notin tainted
    /\ cur = Parent(job.name)

=============================================================================
