-------------------------------- MODULE Pins --------------------------------
(***************************************************************************)
(* The descriptor snapshots beside an engine configuration: connects that  *)
(* put them in the held directory (fsHeldPins.putBlob, store_fs.go) and    *)
(* then name them in the configuration, and the MCP server's start, which  *)
(* reads each platform's again, judged by what it opened, and builds its   *)
(* tool listing within a bound (descriptor_start.go).  The host may crash  *)
(* and lose names whose directory was not synced and bytes that were not;  *)
(* a step may fail; a file may be replaced or changed under its name.      *)
(*                                                                         *)
(* A pin stands for the digest and for the snapshot that digests to it.    *)
(***************************************************************************)
EXTENDS Naturals, Sequences, SequencesExt, FiniteSetsExt

CONSTANTS
  Pins,
  Connects,
  Platforms,                     \* a sequence, the configuration's order
  Grow,                          \* what a pin's snapshot adds to its platform's tools, in bytes
  Configurations,                \* the platforms' pins as earlier connects left them
  Base, ListingBound,            \* the listing with every snapshot dropped; what it may be
  MaxCrashes, MaxRots, MaxPuts,  \* bounds
  None

Names == Pins \cup Connects      \* a snapshot's name, or a connect's staging name

VARIABLES
  files,       \* the directory: name -> [data, synced, ours], for the names it has
  kept,        \* names a synced directory keeps
  pinned,      \* the configuration: each platform's pin, or None
  connect,     \* each connect: its step, platform and pin
  server,      \* the MCP server's start
  crashes, rots, puts,
  spoiled      \* history: pins whose file was changed once it was relied on

vars == <<files, kept, pinned, connect, server, crashes, rots, puts, spoiled>>
disk == <<files, kept>>

Resting == [step |-> "idle", platform |-> None, pin |-> None]
Off == [step |-> "off", at |-> 0, entry |-> None, total |-> 0, described |-> {}, dropped |-> <<>>, full |-> FALSE,
        saw |-> [p \in ToSet(Platforms) |-> None]]

With(n, f) == [m \in DOMAIN files \cup {n} |-> IF m = n THEN f ELSE files[m]]
Without(n) == [m \in DOMAIN files \ {n} |-> files[m]]
File(n) == IF n \in DOMAIN files THEN files[n] ELSE None

-----------------------------------------------------------------------------
(* A connect. *)

Goes(c, step) == connect' = [connect EXCEPT ![c].step = step]
Rest(c) == connect' = [connect EXCEPT ![c] = Resting]
Same == UNCHANGED <<pinned, server, crashes, rots, puts, spoiled>>

(* putBlob: the staging name, made exclusively. *)
Stage(c, platform, pin) ==
  /\ connect[c].step = "idle" /\ puts < MaxPuts /\ puts' = puts + 1 /\ c \notin DOMAIN files
  /\ files' = With(c, [data |-> "torn", synced |-> FALSE, ours |-> FALSE])
  /\ connect' = [connect EXCEPT ![c] = [step |-> "staged", platform |-> platform, pin |-> pin]]
  /\ UNCHANGED <<kept, pinned, server, crashes, rots, spoiled>>

(* Written, given its mode and owner, and synced before it has its name; or failStaged. *)
WriteStaged(c) ==
  /\ connect[c].step = "staged"
  /\ \/ Goes(c, "written") /\ files' = With(c, [data |-> connect[c].pin, synced |-> TRUE, ours |-> TRUE])
     \/ Rest(c) /\ files' = Without(c)
  /\ UNCHANGED kept /\ Same

(* Mutant: whatever is there under the name is taken. *)
TakenUnjudged(f, pin) == TRUE

(* taken: a regular file, of the mode and the owner, that digests to its name. *)
Taken(f, pin) == f.ours /\ f.data = pin

(* Linked, which never replaces a name; one that is there is reused and synced, or       *)
(* refused and the staging name removed.                                                 *)
LinkStaged(c) ==
  LET pin == connect[c].pin IN
  /\ connect[c].step = "written"
  /\ \/ File(pin) = None /\ Goes(c, "linked") /\ files' = With(pin, files[c])
     \/ /\ File(pin) # None /\ Taken(files[pin], pin)
        /\ Goes(c, "linked") /\ files' = With(pin, [files[pin] EXCEPT !.synced = TRUE])
     \/ /\ File(pin) # None /\ ~Taken(files[pin], pin)
        /\ Rest(c) /\ files' = Without(c)
  /\ UNCHANGED kept /\ Same

Unstage(c) ==
  /\ connect[c].step = "linked" /\ Goes(c, "unstaged") /\ files' = Without(c) /\ kept' = kept \ {c}
  /\ Same

(* The held directory synced, or the put fails. *)
SyncHeld(c) ==
  /\ connect[c].step = "unstaged"
  /\ \/ Goes(c, "kept") /\ kept' = DOMAIN files
     \/ Rest(c) /\ UNCHANGED kept
  /\ UNCHANGED files /\ Same

(* The configuration names the pin only then (its own commit is module Connect's). *)
Commit(c) ==
  /\ connect[c].step = "kept" /\ Rest(c)
  /\ pinned' = [pinned EXCEPT ![connect[c].platform] = connect[c].pin]
  /\ UNCHANGED <<disk, server, crashes, rots, puts, spoiled>>

-----------------------------------------------------------------------------
(* Faults. *)

(* Names not kept may be lost, bytes not synced torn; every process is gone. *)
Crash ==
  /\ crashes < MaxCrashes /\ crashes' = crashes + 1
  /\ \E gone \in SUBSET (DOMAIN files \ kept) :
       files' = [n \in DOMAIN files \ gone |->
                   IF files[n].synced THEN files[n] ELSE [files[n] EXCEPT !.data = "torn", !.synced = TRUE]]
  /\ kept' = DOMAIN files'
  /\ connect' = [c \in Connects |-> Resting] /\ server' = Off
  /\ UNCHANGED <<pinned, rots, puts, spoiled>>

(* A snapshot's name is given another file: another's, or its own bytes changed. *)
Rot(pin, ours) ==
  /\ rots < MaxRots /\ rots' = rots + 1
  /\ files' = With(pin, [data |-> "other", synced |-> TRUE, ours |-> ours]) /\ kept' = kept \cup {pin}
  /\ spoiled' = IF \/ pin \in Range(pinned)
                   \/ \E c \in Connects : connect[c].pin = pin /\ connect[c].step \in {"linked", "unstaged", "kept"}
                 THEN spoiled \cup {pin} ELSE spoiled
  /\ UNCHANGED <<pinned, connect, server, crashes, puts>>

-----------------------------------------------------------------------------
(* The server's start. *)

(* newListingCount and add: the tools with every snapshot dropped must fit. *)
StartServer ==
  /\ server.step = "off" /\ \E p \in DOMAIN pinned : pinned[p] # None
  /\ server' = [Off EXCEPT !.step = IF Base > ListingBound THEN "refused" ELSE "next", !.at = 1, !.total = Base]
  /\ UNCHANGED <<disk, pinned, connect, crashes, rots, puts, spoiled>>

(* readServedPlatform: the name's entry judged, then opened and held against it. *)
Lstat ==
  /\ server.step = "next" /\ server.at <= Len(Platforms)
  /\ LET pin == pinned[Platforms[server.at]] IN
     server' = IF pin = None THEN [server EXCEPT !.at = @ + 1]
               ELSE IF File(pin) = None THEN [server EXCEPT !.step = "refused"]
               ELSE [server EXCEPT !.step = "judged", !.entry = files[pin],
                                   !.saw = [@ EXCEPT ![Platforms[server.at]] = pin]]
  /\ UNCHANGED <<disk, pinned, connect, crashes, rots, puts, spoiled>>

ServedHolds(f, entry, pin) ==
  f # None /\ f.data = entry.data /\ f.ours = entry.ours /\ f.ours /\ f.data = pin

(* buildListing: read and judged whether or not it is served; once one does not fit,     *)
(* it and every one after it are dropped.                                                *)
Fits(total, pin) == total + Grow[pin] <= ListingBound

Describe(platform, pin) ==
  IF ~server.full /\ Fits(server.total, pin)
    THEN [server EXCEPT !.step = "next", !.at = @ + 1, !.total = @ + Grow[pin],
                        !.described = @ \cup {platform}]
    ELSE [server EXCEPT !.step = "next", !.at = @ + 1, !.full = TRUE, !.dropped = <<platform>> \o @]

ReadPlatform ==
  LET platform == Platforms[server.at]  pin == server.saw[platform] IN
  /\ server.step = "judged"
  /\ server' = IF ServedHolds(File(pin), server.entry, pin) THEN Describe(platform, pin)
               ELSE [server EXCEPT !.step = "refused"]
  /\ UNCHANGED <<disk, pinned, connect, crashes, rots, puts, spoiled>>

Listed ==
  /\ server.step = "next" /\ server.at > Len(Platforms) /\ server' = [server EXCEPT !.step = "listed"]
  /\ UNCHANGED <<disk, pinned, connect, crashes, rots, puts, spoiled>>

StopServer ==
  /\ server.step \in {"listed", "refused"} /\ server' = Off
  /\ UNCHANGED <<disk, pinned, connect, crashes, rots, puts, spoiled>>

(* A configuration as earlier connects left it, its snapshots there. *)
Init ==
  /\ pinned \in Configurations
  /\ kept = Range(pinned) \ {None}
  /\ files = [pin \in kept |-> [data |-> pin, synced |-> TRUE, ours |-> TRUE]]
  /\ connect = [c \in Connects |-> Resting] /\ server = Off /\ crashes = 0 /\ rots = 0 /\ puts = 0 /\ spoiled = {}

Next ==
  \/ \E c \in Connects : WriteStaged(c) \/ LinkStaged(c) \/ Unstage(c) \/ SyncHeld(c) \/ Commit(c)
  \/ \E c \in Connects, p \in ToSet(Platforms), pin \in Pins : Stage(c, p, pin)
  \/ \E pin \in Pins, ours \in BOOLEAN : Rot(pin, ours)
  \/ Crash \/ StartServer \/ Lstat \/ ReadPlatform \/ Listed \/ StopServer

Spec == Init /\ [][Next]_vars

-----------------------------------------------------------------------------
(* A configuration never names a snapshot that is not there, whole: not when two         *)
(* connects put the same one, when a step of one of them fails after the name is made,   *)
(* when the host crashes, or when the name was taken by another file before the put (one  *)
(* changed after it is the server's to refuse).                                           *)
PinnedIsThere ==
  \A p \in DOMAIN pinned :
    pinned[p] \notin spoiled \cup {None} => File(pinned[p]) # None /\ files[pinned[p]].data = pinned[p] /\ files[pinned[p]].ours

(* What a start lists fits its bound; a dropped snapshot is one that did not fit or comes *)
(* after it in the configuration's order, and nothing that is read is left uncounted.     *)
ListingIsBounded ==
  server.step = "listed" =>
    LET read == {i \in DOMAIN Platforms : server.saw[Platforms[i]] # None}
        out == {i \in read : Platforms[i] \notin server.described}
    IN
    /\ server.total <= ListingBound
    /\ server.total = Base + MapThenSumSet(LAMBDA p : Grow[server.saw[p]], server.described)
    /\ Len(server.dropped) = Cardinality(out)
    /\ out # {} => LET first == Min(out) IN
         /\ \A i \in read : i >= first => i \in out
         /\ server.total + Grow[server.saw[Platforms[first]]] > ListingBound
=============================================================================
