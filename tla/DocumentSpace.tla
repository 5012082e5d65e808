---------------------------- MODULE DocumentSpace ----------------------------
(***************************************************************************)
(* What the store contract promises of one document (go/store_contract.go, *)
(* documentSpace): its revisions follow one another, each made by one      *)
(* compare-and-set against the revision that was current.                  *)
(***************************************************************************)
EXTENDS Naturals, Sequences

CONSTANTS Values, Deleted

VARIABLE
  history   \* Seq([value, expected]): each revision made so far, in order

(* The revision a reader is given: 0, noRevision, where the document is not *)
(* there.                                                                   *)
Revision(h) == IF h = <<>> \/ h[Len(h)].value = Deleted THEN 0 ELSE Len(h)

Init == history = <<>>

(* A write that expects the revision there is makes the next. *)
Write(value, expected) ==
  /\ expected = Revision(history)
  /\ history' = Append(history, [value |-> value, expected |-> expected])

Put(expected) == \E v \in Values : Write(v, expected)
Delete(expected) == expected # 0 /\ Write(Deleted, expected)

Next == \E expected \in 0 .. Len(history) : Put(expected) \/ Delete(expected)

Spec == Init /\ [][Next]_history
=============================================================================
