------------------------------ MODULE ActionKey ------------------------------
(***************************************************************************)
(* What the journal promises of one action key, for each scope that uses   *)
(* it: the key is open until its write is sent once or it is closed, each  *)
(* for good, and an answer given is one its state permits.                 *)
(***************************************************************************)
CONSTANT Scopes

VARIABLES
  status,   \* [Scopes -> {"open", "sent", "closed"}]
  said      \* answers given: <<scope, answer>>

vars == <<status, said>>

TypeOK ==
  /\ status \in [Scopes -> {"open", "sent", "closed"}]
  /\ said \subseteq Scopes \X {"response", "uncertain", "not-dispatched",
                               "key-closed", "retry"}

(* A response needs a write that was sent; a statement that nothing was and *)
(* nothing will be sent needs a close.  Uncertainty and an invitation to    *)
(* retry one attempt say nothing of the others.                             *)
Permitted(state) ==
  {"uncertain", "retry"}
    \cup (IF state = "sent" THEN {"response"} ELSE {})
    \cup (IF state = "closed" THEN {"not-dispatched", "key-closed"} ELSE {})

Init ==
  /\ status = [s \in Scopes |-> "open"]
  /\ said = {}

Open == {s \in Scopes : status[s] = "open"}

(* One write is sent. *)
Send(s) ==
  /\ s \in Open
  /\ status' = [status EXCEPT ![s] = "sent"]
  /\ UNCHANGED said

(* Closes become final, of several scopes at once when one sync or one      *)
(* crash settles them; an answer may be given in the same step.             *)
Close(final) ==
  /\ final \subseteq Open
  /\ status' = [s \in Scopes |-> IF s \in final THEN "closed" ELSE status[s]]
  /\ \/ UNCHANGED said
     \/ \E s \in Scopes : \E answer \in Permitted(status'[s]) :
          said' = said \cup {<<s, answer>>}

Next ==
  \/ \E s \in Scopes : Send(s)
  \/ \E final \in SUBSET Scopes : Close(final)

Spec == Init /\ [][Next]_vars
=============================================================================
