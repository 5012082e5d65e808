--------------------------- MODULE MCActionJournal ---------------------------
(***************************************************************************)
(* The action journal on small instances.  A behaviour is of one kind,     *)
(* which `kind` says: requests of one scope, whose key may be attempted    *)
(* more than once; of two scopes of different subjects; or of one          *)
(* delegated subject under two root actors.                                *)
(***************************************************************************)
EXTENDS ActionJournal, TLC

CONSTANTS Kinds, r1, r2, a, b, c1

VARIABLE kind
mcvars == <<kind, vars>>

(* Every request is served by a process of its own: no in-process lock     *)
(* keeps two of them apart.                                                 *)
OwnProcess == [r \in Requests |-> r]
Symmetric == Permutations(Requests)

Shape(s, sender, leaf, keyScope, reconcile) ==
  {[scope |-> s, content |-> c, sender |-> sender, leaf |-> leaf,
    keyScope |-> keyScope, reconcile |-> reconcile] : c \in Contents}

(* A plain sender, and one that holds the key and reconciles; each scope    *)
(* holding the key to send or to reconcile; and the two root actors, with   *)
(* another sender, and a leaf that names the write and refuses its effect.  *)
ShapesOf ==
  [one |-> Shape(a, "undelegated", "full", FALSE, FALSE)
             \cup Shape(a, "undelegated", "full", TRUE, TRUE),
   two |-> UNION {Shape(s, "undelegated", "full", TRUE, reconcile) :
                    s \in {a, b}, reconcile \in BOOLEAN},
   delegated |->
     UNION {Shape(s, "actor", "full", FALSE, reconcile) :
              s \in {a, b}, reconcile \in BOOLEAN}
       \cup Shape(a, "actor", "names", FALSE, FALSE)
       \cup Shape(a, "actor", "none", FALSE, FALSE)
       \cup Shape(a, "other", "full", FALSE, TRUE)]

KindShapes == UNION {ShapesOf[k] : k \in Kinds}

MCInit == Init /\ kind \in Kinds

(* Two scopes are given one attempt each. *)
MCNext ==
  /\ Next /\ UNCHANGED kind
  /\ \A r \in Requests : req'[r] # None => req'[r] \in ShapesOf[kind]
  /\ kind = "two" => \A r \in Requests : loc'[r].n = 1

MCSpec == MCInit /\ [][MCNext]_mcvars

=============================================================================
