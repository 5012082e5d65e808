---------------------------- MODULE WitnessRead -----------------------------
(***************************************************************************)
(* A reader of the witness a decision record's receipts name               *)
(* (go/witness_fetch.go): the key, the head, the statements a page at a    *)
(* time, and the verdict of the two readers of a set of statements         *)
(* (go/witness.go, verify-ts/src/witness.ts), while the witness signs.     *)
(*                                                                         *)
(* A witness may go wrong: be put back to an earlier state and sign        *)
(* another history under its key, by no rule from then on.  What answers   *)
(* the reader may be any statement ever signed, of either history, one     *)
(* under another key, of another trail, or a line that is none.  A         *)
(* signature is a number no other statement has.  The runtime the fetch    *)
(* runs is outside this repository: it reads by the specification's rules, *)
(* which readWitness implements, and a continuation stands for the         *)
(* statements it was saved after.                                          *)
(***************************************************************************)
EXTENDS Integers, Sequences, FiniteSets, FiniteSetsExt, SequencesExt

CONSTANTS
  Values, MaxSeq,        \* record digests; bound: sequences
  MaxChain,              \* bound: statements of one history
  MaxSigns,              \* bound: statements signed
  MaxReads,              \* bound: readings
  Options,               \* [pinned, save, resume, statements]: readers
  Page,                  \* witnessFetchPage
  MaxWitnessStatements,  \* the lines one reading takes
  None

VARIABLES
  chains,     \* the witness's histories: one, or two once it forked
  signs,
  reads,      \* readings made
  opts,       \* the reader's options
  pc, key, head, body, from,         \* the reading under way
  told,       \* whether anything but what one history holds was answered
  kept,       \* the continuation: the statements it was saved after, or None
  held,       \* the statements the reader kept (--statements)
  outcome, input, verdict            \* the last reading's

witness == <<chains, signs>>
reading == <<pc, key, head, body, from, told>>
result == <<outcome, input, verdict>>
vars == <<witness, reads, opts, reading, kept, held, result>>

-----------------------------------------------------------------------------
(* Statements. *)

Statement(i, k, q, v, p, s) ==
  [trail |-> "t", key |-> "named", sound |-> TRUE, index |-> i, kind |-> k, seq |-> q, val |-> v, prev |-> p, sig |-> s]
Malformed == [Statement(0, "malformed", 0, None, 0, 0) EXCEPT !.sound = FALSE]
Strays ==        \* lines that are no statement of the trail under the key
  LET st == Statement(0, "checkpoint", 1, CHOOSE v \in Values : TRUE, 0, 0)
  IN  {Malformed, [st EXCEPT !.key = "other"], [st EXCEPT !.trail = "u"], [st EXCEPT !.sound = FALSE]}

Newest(S) == IF S = {} THEN None ELSE CHOOSE x \in S : \A y \in S : y.index <= x.index
Before(S, st) == {x \in S : x.index < st.index}
Checkpoints(S) == {x \in S : x.kind = "checkpoint"}

ChainFollows(prev, latest, st) ==
  /\ IF prev = None THEN st.index = 0 /\ st.prev = 0
     ELSE prev.kind # "retirement" /\ st.index = prev.index + 1 /\ st.prev = prev.sig
  /\ CASE st.kind = "checkpoint" -> (latest # None => st.seq > latest.seq)
       [] st.kind = "conflict" -> latest # None /\ st.seq <= latest.seq
       [] OTHER -> latest # None /\ <<st.seq, st.val>> = <<latest.seq, latest.val>>

-----------------------------------------------------------------------------
(* The two readers of a set of statements: lines, and a head or none. *)

CollectStatementLines(lines, hd) == Len(lines) + (IF hd = None THEN 0 ELSE 1) <= MaxWitnessStatements

Refusal == [refused |-> TRUE, findings |-> {}, head |-> None, highest |-> -1, latest |-> None,
            conflicts |-> {}, retired |-> FALSE]
Findings(f) == [Refusal EXCEPT !.refused = FALSE, !.findings = f]
Verdict(chain, hd) ==
  [refused |-> FALSE, findings |-> {}, head |-> IF hd = None THEN None ELSE hd.index,
   highest |-> Newest(chain).index, latest |-> Newest(Checkpoints(chain)),
   conflicts |-> {st.seq : st \in {x \in chain : x.kind = "conflict"}},
   retired |-> Newest(chain).kind = "retirement"]

(* Each statement once, whatever lines gave it; those of the trail that    *)
(* verify under a key pass.                                                *)
FirstFindings(set, passing) ==
  (IF Malformed \in set THEN {"malformed"} ELSE {})
    \cup (IF \E st \in set \ {Malformed} : st.key # "named" \/ ~ st.sound THEN {"signature-invalid"} ELSE {})
    \cup (IF \E st \in set \ {Malformed} : st.key = "named" /\ st.sound /\ st.trail # "t"
            THEN {"trail-mismatch"} ELSE {})
    \cup (IF \E a, b \in passing : a # b /\ a.index = b.index THEN {"equivocation"} ELSE {})

ReadWitness(lines, hd) ==
  LET set == Range(lines) \cup (IF hd = None THEN {} ELSE {hd})
      passing == {st \in set \ {Malformed} : st.key = "named" /\ st.sound /\ st.trail = "t"}
      first == FirstFindings(set, passing)
      other == Newest(passing \ {hd})
      unreached == hd # None /\ hd.index > (IF other = None THEN -1 ELSE other.index) + 1
      chain == IF unreached THEN passing \ {hd} ELSE passing
      broken == \/ chain = {}
                \/ \E st \in chain :
                     ~ ChainFollows(Newest(Before(chain, st)), Newest(Checkpoints(Before(chain, st))), st)
      second == (IF broken THEN {"chain-broken"} ELSE {})
                  \cup (IF unreached THEN {"head-unreached"} ELSE {})
  IN  IF ~ CollectStatementLines(lines, hd) THEN Refusal
      ELSE IF first # {} THEN Findings(first)
      ELSE IF second # {} THEN Findings(second) ELSE Verdict(chain, hd)

(* Mutant: a statement may follow the retirement. *)
TsFollowsRetired(chain, st) ==
  LET before == Newest(Before(chain, st))
      latest == Newest(Checkpoints(Before(chain, st)))
  IN  /\ IF before = None THEN st.index = 0 /\ st.prev = 0
         ELSE st.index = before.index + 1 /\ st.prev = before.sig
      /\ CASE st.kind = "checkpoint" -> (latest # None => ~ (st.seq <= latest.seq))
           [] st.kind = "conflict" -> latest # None /\ ~ (st.seq > latest.seq)
           [] OTHER -> latest # None /\ <<st.seq, st.val>> = <<latest.seq, latest.val>>

(* verify-ts: a retirement is the chain's last, looked at from the         *)
(* retirement and not from what follows it.                                *)
TsFollows(chain, st) ==
  LET before == Newest(Before(chain, st))
      latest == Newest(Checkpoints(Before(chain, st)))
  IN  /\ IF before = None THEN st.index = 0 /\ st.prev = 0
         ELSE st.index = before.index + 1 /\ st.prev = before.sig
      /\ CASE st.kind = "checkpoint" -> (latest # None => ~ (st.seq <= latest.seq))
           [] st.kind = "conflict" -> latest # None /\ ~ (st.seq > latest.seq)
           [] OTHER -> /\ latest # None /\ <<st.seq, st.val>> = <<latest.seq, latest.val>>
                       /\ st = Newest(chain)

TsCollectLines(lines, hd) == ~ (Len(lines) + Cardinality({hd} \ {None}) > MaxWitnessStatements)

TsReadWitness(lines, hd) ==
  LET set == Range(lines) \cup (IF hd = None THEN {} ELSE {hd})
      passing == {st \in set \ {Malformed} : st.key = "named" /\ st.sound /\ st.trail = "t"}
      first == FirstFindings(set, passing)
      other == Newest(passing \ {hd})
      unreached == hd # None /\ hd.index > (IF other = None THEN -1 ELSE other.index) + 1
      chain == {st \in passing : ~ (unreached /\ st = hd)}
      broken == chain = {} \/ \E st \in chain : ~ TsFollows(chain, st)
      second == (IF broken THEN {"chain-broken"} ELSE {})
                  \cup (IF unreached THEN {"head-unreached"} ELSE {})
  IN  IF ~ TsCollectLines(lines, hd) THEN Refusal
      ELSE IF first # {} THEN Findings(first)
      ELSE IF second # {} \/ chain = {} \/ Checkpoints(chain) = {} THEN Findings(second)
      ELSE Verdict(chain, hd)

-----------------------------------------------------------------------------
(* The witness. *)

Init ==
  /\ chains = <<<<>>>> /\ signs = 0 /\ reads = 0
  /\ opts \in Options
  /\ pc = "idle" /\ key = None /\ head = None /\ body = <<>> /\ from = 0 /\ told = FALSE
  /\ kept = None /\ held = <<>>
  /\ outcome = None /\ input = <<<<>>, None>> /\ verdict = None

Sign(f) ==
  LET c == chains[f]
      last == Newest(Range(c))
      latest == Newest(Checkpoints(Range(c)))
  IN  /\ signs < MaxSigns /\ Len(c) < MaxChain
      /\ \E k \in {"checkpoint", "conflict", "retirement"}, q \in 1 .. MaxSeq, v \in Values :
           LET st == Statement(Len(c), k, q, v, IF last = None THEN 0 ELSE last.sig, signs + 1)
           IN  /\ Len(chains) = 1 => ChainFollows(last, latest, st)
               /\ chains' = [chains EXCEPT ![f] = Append(c, st)]
      /\ signs' = signs + 1
      /\ UNCHANGED <<reads, opts, reading, kept, held, result>>

Fork ==
  /\ Len(chains) = 1
  /\ \E n \in 0 .. Len(chains[1]) - 1 : chains' = Append(chains, SubSeq(chains[1], 1, n))
  /\ UNCHANGED <<signs, reads, opts, reading, kept, held, result>>

-----------------------------------------------------------------------------
(* The reading. *)

Finish(out, in, v) ==
  /\ pc' = "idle" /\ outcome' = out /\ input' = in /\ verdict' = v
  /\ key' = None /\ head' = None /\ body' = <<>> /\ from' = 0

(* The origin is held to its form, and the key is one the reader pinned or *)
(* the one the origin serves, if it is the one the receipts name.          *)
Begin ==
  /\ pc = "idle" /\ reads < MaxReads
  /\ reads' = reads + 1 /\ told' = FALSE
  /\ \/ Finish("origin-refused", <<<<>>, None>>, None)
     \/ /\ pc' = IF opts.pinned THEN "head" ELSE "key"
        /\ key' = IF opts.pinned THEN "pinned" ELSE None
        /\ outcome' = None /\ input' = <<<<>>, None>> /\ verdict' = None
        /\ UNCHANGED <<head, body, from>>
  /\ UNCHANGED <<witness, opts, kept, held>>

ServedWitnessKey ==
  /\ pc = "key"
  /\ \/ \E out \in {"unreachable", "not-of-form", "refused", "key-not-named"} :
          Finish(out, <<<<>>, None>>, None)
     \/ pc' = "head" /\ key' = "served" /\ UNCHANGED <<head, body, from, result>>
  /\ UNCHANGED <<witness, reads, opts, told, kept, held>>

(* The continuation a reading resumes from: the statements it stands for.  *)
Prior == IF opts.resume /\ kept # None THEN kept ELSE <<>>

(* The runtime's verdict on lines after the continuation, and what it      *)
(* saves, having found nothing, as the next one.                           *)
Saved(lines, hd, v) ==
  IF opts.save /\ v.findings = {} /\ ~ v.refused
    THEN SetToSortSeq(Range(lines) \cup (IF hd = None THEN {} ELSE {hd}), LAMBDA x, y : x.index < y.index)
    ELSE kept

(* What a refused, missing or misshapen answer leaves the reader: a        *)
(* refusal ends the reading, and otherwise statements it holds are read,   *)
(* as history, under a key it pinned.                                      *)
Unread(out) ==
  IF out = "refused" \/ key # "pinned" \/ ~ opts.statements \/ held = <<>>
    THEN Finish(out, <<<<>>, None>>, None) /\ UNCHANGED kept
  ELSE LET lines == Prior \o held
           v == ReadWitness(lines, None)
       IN  Finish(out, <<lines, None>>, v) /\ kept' = Saved(lines, None, v)

(* The answers of a read that are not read. *)
Unanswered == {"unreachable", "refused", "not-of-form"}

(* What is answered in place of lines: those, or those with one replaced   *)
(* by another statement signed or by a stray, or with one left out.        *)
Answers(lines) ==
  LET signed == UNION {Range(chains[f]) : f \in DOMAIN chains}
      tampered == {ReplaceAt(lines, i, x) : i \in DOMAIN lines, x \in signed \cup Strays}
                    \cup {RemoveAt(lines, i) : i \in DOMAIN lines}
  IN  {<<lines, FALSE>>} \cup {<<t, TRUE>> : t \in IF told THEN {} ELSE tampered \ {lines}}

(* The lines a witness holds from an index, at most limit of them. *)
Statements(f, lo, limit) ==
  SubSeq(chains[f], lo + 1, IF lo + limit < Len(chains[f]) THEN lo + limit ELSE Len(chains[f]))

FetchWitnessHead ==
  /\ pc = "head"
  /\ \/ \E f \in {x \in DOMAIN chains : chains[x] # <<>>} : \E a \in Answers(<<Last(chains[f])>>) :
          /\ Len(a[1]) = 1 /\ Malformed \notin Range(a[1])
          /\ head' = a[1][1] /\ told' = (told \/ a[2])
          /\ from' = IF Prior = <<>> THEN 0 ELSE Last(Prior).index + 1
          /\ pc' = "page" /\ body' = <<>>
          /\ UNCHANGED <<key, result, kept>>
     \/ \E out \in Unanswered : Unread(out) /\ UNCHANGED told
  /\ UNCHANGED <<witness, reads, opts, held>>

(* Mutant: a full page is taken for the last. *)
LastPageFull(lines, all) == Len(lines) <= Page \/ Len(all) > MaxWitnessStatements

LastPage(lines, all) == Len(lines) < Page \/ Len(all) > MaxWitnessStatements

(* Pages until a short one, and then the runtime reads. *)
FetchWitnessStatements ==
  /\ pc = "page"
  /\ \/ \E f \in DOMAIN chains : \E a \in Answers(Statements(f, from, Page)) :
          LET all == body \o a[1]
              whole == Prior \o all
              v == ReadWitness(whole, head)
          IN  /\ Malformed \notin Range(a[1])
              /\ told' = (told \/ a[2])
              /\ IF LastPage(a[1], all)
                   THEN /\ Finish("read", <<whole, head>>, v)
                        /\ held' = IF opts.statements THEN all ELSE held
                        /\ kept' = Saved(whole, head, v)
                   ELSE /\ body' = all /\ from' = from + Len(a[1])
                        /\ UNCHANGED <<pc, key, head, kept, held, result>>
     \/ \E out \in Unanswered : Unread(out) /\ UNCHANGED <<held, told>>
  /\ UNCHANGED <<witness, reads, opts>>

Next ==
  \/ \E f \in DOMAIN chains : Sign(f)
  \/ Fork \/ Begin \/ ServedWitnessKey \/ FetchWitnessHead \/ FetchWitnessStatements

Spec == Init /\ [][Next]_vars

-----------------------------------------------------------------------------
(* Properties. *)

Ok(v) == v # None /\ ~ v.refused /\ v.findings = {}

(* A witness that never forked, read whole and answered truly, is never    *)
(* accused, whatever it signs between the head and the last page: the      *)
(* reading reaches the head it was given.                                  *)
HonestIsCredited ==
  outcome = "read" /\ pc = "idle" /\ Len(chains) = 1 /\ ~ told /\ ~ verdict.refused
    => verdict.findings = {} /\ verdict.head # None /\ verdict.highest >= verdict.head

(* What a reading credits is one history of the witness, whole from its    *)
(* first statement to the highest read, and to the head of a current       *)
(* reading: no mixture of two, no gap, no stray, and every conflict in it. *)
CreditedIsSigned ==
  Ok(verdict) =>
    \E f \in DOMAIN chains :
      LET credited == SubSeq(chains[f], 1, verdict.highest + 1)
      IN  /\ Len(chains[f]) > verdict.highest
          /\ Range(input[1]) \cup (IF input[2] = None THEN {} ELSE {input[2]}) = Range(credited)
          /\ verdict.latest = Newest(Checkpoints(Range(credited)))
          /\ verdict.conflicts = {st.seq : st \in {x \in Range(credited) : x.kind = "conflict"}}
          /\ verdict.head # None => verdict.head <= verdict.highest

(* The two readers give the same verdict on what was read. *)
ReadersAgree ==
  verdict # None => TsReadWitness(input[1], input[2]) = ReadWitness(input[1], input[2])

=============================================================================
