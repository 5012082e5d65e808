--------------------------- MODULE SessionsProofs ---------------------------
(* Proofs about the signer's sessions, for every number of requests,        *)
(* sessions, receipts, starts and seals, and for both stores: the signer's  *)
(* own, and one in which sessions turn up and lose receipts meanwhile.      *)
EXTENDS MCSessions, FiniteSetTheorems, TLAPS

-----------------------------------------------------------------------------
(* Counting requests. *)

LEMMA RequestsCounted ==
  ASSUME NEW A, A \subseteq Requests
  PROVE  /\ IsFiniteSet(A)
         /\ Cardinality(Requests) \in Nat
         /\ Cardinality(A) \in 0 .. Cardinality(Requests)
<1>1. IsFiniteSet(Requests)
  BY SessionsAssumption
<1>2. IsFiniteSet(A) /\ Cardinality(A) <= Cardinality(Requests)
  BY <1>1, FS_Subset
<1>3. Cardinality(A) \in Nat /\ Cardinality(Requests) \in Nat
  BY <1>1, <1>2, FS_CardinalityType
<1> QED BY <1>2, <1>3

LEMMA OneMore ==
  ASSUME NEW A, A \subseteq Requests, NEW r \in Requests, r \notin A
  PROVE  /\ Cardinality(A \cup {r}) = Cardinality(A) + 1
         /\ Cardinality(A) + 1 <= Cardinality(Requests)
<1>1. Cardinality(A \cup {r}) = Cardinality(A) + 1
  BY RequestsCounted, FS_AddElement
<1>2. A \cup {r} \subseteq Requests
  OBVIOUS
<1>3. Cardinality(A \cup {r}) \in 0 .. Cardinality(Requests) /\ Cardinality(Requests) \in Nat
  BY <1>2, RequestsCounted
<1> QED BY <1>1, <1>3

LEMMA OneLess ==
  ASSUME NEW A, A \subseteq Requests, NEW r \in A
  PROVE  /\ Cardinality(A) \in Nat /\ Cardinality(A) >= 1
         /\ Cardinality(A \ {r}) = Cardinality(A) - 1
         /\ Cardinality(A) = 1 => A = {r}
<1>1. IsFiniteSet(A) /\ Cardinality(A) \in Nat
  BY RequestsCounted
<1>2. Cardinality(A \ {r}) = Cardinality(A) - 1
  BY <1>1, FS_RemoveElement
<1>3. IsFiniteSet(A \ {r}) /\ Cardinality(A \ {r}) \in Nat
  <2>1. A \ {r} \subseteq Requests
    OBVIOUS
  <2> QED BY <2>1, RequestsCounted
<1>4. Cardinality(A \ {r}) = 0 <=> A \ {r} = {}
  BY <1>3, FS_EmptySet
<1> QED BY <1>1, <1>2, <1>3, <1>4

LEMMA NoneCounted ==
  ASSUME NEW A, A \subseteq Requests
  PROVE  Cardinality(A) = 0 <=> A = {}
BY RequestsCounted, FS_EmptySet

LEMMA SetsOfRequests ==
  ASSUME NEW s \in Sessions
  PROVE  /\ AllInFlight \subseteq Requests /\ InFlight(s) \subseteq Requests
         /\ Unstamped(s) \subseteq Requests
         /\ InFlight(s) \subseteq AllInFlight
BY DEF AllInFlight, InFlight, Unstamped

(* A session with a request in flight is in the map, not sealed if sealing  *)
(* waits, and the counters say so.                                          *)
LEMMA InFlightIsCounted ==
  ASSUME TypeOK, CountInv, NEW r \in Requests, NEW s \in Sessions,
         s = session[r], pc[r] \in Admitted
  PROVE  /\ r \in InFlight(s) /\ r \in AllInFlight
         /\ state[s].inFlight >= 1 /\ gate.pending >= 1
         /\ s \in known
         /\ state[s].inFlight = 1 => InFlight(s) = {r}
<1>1. r \in InFlight(s) /\ r \in AllInFlight
  BY DEF InFlight, AllInFlight
<1>2. /\ Cardinality(InFlight(s)) \in Nat /\ Cardinality(InFlight(s)) >= 1
      /\ Cardinality(InFlight(s)) = 1 => InFlight(s) = {r}
  BY <1>1, OneLess, SetsOfRequests
<1>3. Cardinality(AllInFlight) >= 1
  BY <1>1, OneLess, SetsOfRequests
<1>4. s \in known
  BY <1>2 DEF CountInv, NewState
<1> QED BY <1>1, <1>2, <1>3, <1>4 DEF CountInv

(* What the signer stamped it holds: the index is within the receipts, so   *)
(* that the room a request is given is still there when it stamps.          *)
LEMMA IndexIsHeld ==
  ASSUME TypeOK, NEW s \in Sessions, OwnInv(s)
  PROVE  /\ IsFiniteSet(Held(s)) /\ Cardinality(Held(s)) \in Nat
         /\ state[s].index <= Cardinality(Held(s))
<1>1. MaxIndex \in Nat /\ MaxIndex # 0
  BY SessionsAssumption
<1>2. IsFiniteSet(Index)
  BY <1>1, FS_Interval DEF Index
<1>3. Held(s) \subseteq Index
  BY DEF Held
<1>4. IsFiniteSet(Held(s)) /\ Cardinality(Held(s)) \in Nat
  BY <1>2, <1>3, FS_Subset, FS_CardinalityType
<1>5. state[s].index \in 0 .. MaxIndex
  BY DEF TypeOK, SessionState
<1>6. PICK n \in 0 .. MaxIndex : n = state[s].index
  BY <1>5
<1>7. 0 .. n - 1 \subseteq Held(s)
  BY <1>1, <1>6 DEF OwnInv, Index
<1>8. Cardinality(0 .. n - 1) = n
  <2>1. n - 1 \in Int /\ n \in Nat
    BY <1>1, <1>6
  <2>2. Cardinality(0 .. n - 1) = IF 0 > n - 1 THEN 0 ELSE n - 1 - 0 + 1
    BY <2>1, FS_Interval
  <2> QED BY <2>1, <2>2
<1>9. Cardinality(0 .. n - 1) <= Cardinality(Held(s))
  BY <1>4, <1>7, FS_Subset
<1> QED BY <1>4, <1>6, <1>8, <1>9

-----------------------------------------------------------------------------
(* The counters follow the requests. *)

(* A request moves on and is as much in flight as before. *)
LEMMA CountsMove ==
  ASSUME TypeOK, CountInv, NEW r \in Requests, NEW step \in Steps, Go(r, step),
         pc[r] \notin {"idle", "release"}, step \in Admitted <=> pc[r] \in Admitted,
         UNCHANGED <<gate, session>>, state' \in [Sessions -> SessionState],
         \A t \in Sessions : /\ state'[t].inFlight = state[t].inFlight
                             /\ t # session[r] => state'[t] = state[t]
                             /\ t \notin known' => state'[t] = NewState,
         \/ state'[session[r]].index = state[session[r]].index
         \/ step = "release" /\ state'[session[r]].index = state[session[r]].index + 1
  PROVE  CountInv'
<1>1. PICK s \in Sessions : s = session[r]
  BY DEF TypeOK
<1>2. \A t \in Sessions :
        /\ AllInFlight' = AllInFlight /\ InFlight(t)' = InFlight(t)
        /\ t # s => Unstamped(t)' = Unstamped(t)
        /\ Unstamped(t)' = Unstamped(t) \/ Unstamped(t)' = Unstamped(t) \ {r}
        /\ step = "release" => Unstamped(t)' = Unstamped(t) \ {r}
  <2> TAKE t \in Sessions
  <2>1. \A q \in Requests : /\ pc'[q] = IF q = r THEN step ELSE pc[q]
                            /\ session'[q] = session[q]
    BY DEF TypeOK, Go
  <2>2. AllInFlight' = AllInFlight
    BY <2>1 DEF AllInFlight
  <2>3. InFlight(t)' = InFlight(t)
    BY <2>1 DEF InFlight
  <2>4. step = "release" => Unstamped(t)' = Unstamped(t) \ {r}
    BY <1>1, <2>1 DEF Unstamped
  <2>5. step = "idle" => Unstamped(t)' = Unstamped(t) \ {r}
    BY <1>1, <2>1 DEF Unstamped
  <2>6. step \notin {"idle", "release"} => Unstamped(t)' = Unstamped(t)
    BY <1>1, <2>1 DEF Unstamped
  <2>7. t # s => r \notin Unstamped(t)
    BY <1>1 DEF Unstamped
  <2> QED BY <2>2, <2>3, <2>4, <2>5, <2>6, <2>7
<1>3. r \in Unstamped(s)
  BY <1>1 DEF Unstamped
<1>4. \A t \in Sessions :
        /\ Cardinality(Unstamped(t)) \in Nat /\ Cardinality(Unstamped(t)') \in Nat
        /\ Cardinality(Unstamped(t)') <= Cardinality(Unstamped(t))
        /\ t = s /\ step = "release" =>
             Cardinality(Unstamped(t)') = Cardinality(Unstamped(t)) - 1
  <2> TAKE t \in Sessions
  <2>0. PICK U : U = Unstamped(t) /\ U \subseteq Requests
    BY SetsOfRequests
  <2>1. Cardinality(U) \in Nat
    BY <2>0, RequestsCounted
  <2>2. Unstamped(t)' = U \/ (Unstamped(t)' = U \ {r} /\ t = s /\ r \in U)
    BY <1>2, <1>3, <2>0
  <2>3. r \in U => Cardinality(U \ {r}) = Cardinality(U) - 1 /\ Cardinality(U) >= 1
    BY <2>0, OneLess
  <2>4. PICK V : V = Unstamped(t)'
    OBVIOUS
  <2>5. t = s /\ step = "release" => V = U \ {r} /\ r \in U
    BY <1>2, <1>3, <2>0, <2>4
  <2>6. V = U \/ (V = U \ {r} /\ r \in U)
    BY <2>2, <2>4
  <2>7. /\ Cardinality(V) \in Nat /\ Cardinality(V) <= Cardinality(U)
        /\ t = s /\ step = "release" => Cardinality(V) = Cardinality(U) - 1
    <3>1. CASE V = U /\ ~ (t = s /\ step = "release")
      BY <2>1, <3>1
    <3>2. CASE V = U \ {r} /\ r \in U
      <4>1. Cardinality(V) = Cardinality(U) - 1
        BY <2>3, <3>2
      <4>2. Cardinality(U) >= 1
        BY <2>3, <3>2
      <4> QED BY <2>1, <4>1, <4>2
    <3> QED BY <2>5, <2>6, <3>1, <3>2
  <2> QED BY <2>0, <2>1, <2>4, <2>7
<1>5. \A t \in Sessions : state[t].index \in Nat /\ state'[t].index \in Nat
  BY SessionsAssumption DEF TypeOK, SessionState
<1>6. MaxIndex \in Nat
  BY SessionsAssumption
<1>7. \A t \in Sessions : state'[t].index + Cardinality(Unstamped(t)') <= MaxIndex
  <2> TAKE t \in Sessions
  <2>1. state[t].index + Cardinality(Unstamped(t)) <= MaxIndex
    BY DEF CountInv
  <2>2. CASE state'[t].index = state[t].index
    BY <1>4, <1>5, <1>6, <2>1, <2>2
  <2>3. CASE t = s /\ step = "release" /\ state'[s].index = state[s].index + 1
    BY <1>4, <1>5, <1>6, <2>1, <2>3
  <2> QED BY <1>1, <2>2, <2>3
<1>8. \A t \in Sessions : /\ state'[t].inFlight = Cardinality(InFlight(t)')
                          /\ t \notin known' => state'[t] = NewState
  BY <1>2 DEF CountInv
<1>9. AllInFlight' = AllInFlight \/ Sessions = {}
  BY <1>2
<1> QED BY <1>1, <1>7, <1>8, <1>9 DEF CountInv

(* A request is admitted: it is counted in its session and by the gate. *)
LEMMA CountsEnter ==
  ASSUME TypeOK, CountInv, NEW r \in Requests, NEW s \in Sessions, s = session[r],
         Go(r, "run"), pc[r] \notin Admitted, pc[r] # "idle", UNCHANGED session,
         ~ gate.closed, gate' = AdmitLocked, known' = known \cup {s},
         NEW new \in [index : 0 .. MaxIndex, prev : Signatures \cup {None},
                      sealed : BOOLEAN, created : BOOLEAN, inFlight : Nat],
         new.inFlight = state[s].inFlight + 1, new.index = state[s].index,
         state' = [state EXCEPT ![s] = new]
  PROVE  CountInv' /\ gate' \in Gates /\ state' \in [Sessions -> SessionState]
<1>1. /\ r \notin AllInFlight /\ r \in Unstamped(s)
      /\ \A t \in Sessions : r \notin InFlight(t) /\ (t # s => r \notin Unstamped(t))
  BY DEF AllInFlight, InFlight, Unstamped, Admitted
<1>2. \A t \in Sessions :
        /\ AllInFlight' = AllInFlight \cup {r} /\ Unstamped(t)' = Unstamped(t)
        /\ InFlight(t)' = IF t = s THEN InFlight(t) \cup {r} ELSE InFlight(t)
  <2> TAKE t \in Sessions
  <2>1. \A q \in Requests : /\ pc'[q] = IF q = r THEN "run" ELSE pc[q]
                            /\ session'[q] = session[q]
    BY DEF TypeOK, Go
  <2>2. AllInFlight' = AllInFlight \cup {r}
    BY <2>1 DEF AllInFlight, Admitted
  <2>3. InFlight(t)' = IF t = s THEN InFlight(t) \cup {r} ELSE InFlight(t)
    BY <2>1 DEF InFlight, Admitted
  <2>4. Unstamped(t)' = Unstamped(t)
    BY <2>1 DEF Unstamped, Admitted
  <2> QED BY <2>2, <2>3, <2>4
<1>3. PICK A : A = AllInFlight /\ A \subseteq Requests /\ r \notin A
  BY <1>1, SetsOfRequests
<1>4. PICK F : F = InFlight(s) /\ F \subseteq Requests /\ r \notin F
  BY <1>1, SetsOfRequests
<1>5. Cardinality(AllInFlight') = gate.pending + 1 /\ gate.pending + 1 <= Cardinality(Requests)
  BY <1>2, <1>3, OneMore DEF CountInv
<1>6. Cardinality(InFlight(s)') = state[s].inFlight + 1
      /\ state[s].inFlight + 1 <= Cardinality(Requests)
  BY <1>2, <1>4, OneMore DEF CountInv
<1>7. Cardinality(Requests) \in Nat
  BY <1>3, RequestsCounted
<1>8. /\ gate'.pending = gate.pending + 1 /\ gate'.closed = gate.closed
      /\ gate'.drained = gate.drained /\ gate' \in Gates
  <2>1. gate \in Gates
    BY DEF TypeOK
  <2> QED BY <1>5, <1>7, <2>1 DEF AdmitLocked, Gates
<1>9. \A t \in Sessions : state'[t] = IF t = s THEN new ELSE state[t]
  BY DEF TypeOK
<1>10. state' \in [Sessions -> SessionState]
  <2>1. new \in SessionState
    BY <1>6, <1>7 DEF SessionState, TypeOK
  <2> QED BY <2>1 DEF TypeOK
<1>11. \A t \in Sessions :
         /\ state'[t].inFlight = Cardinality(InFlight(t)')
         /\ t \notin known' => state'[t] = NewState
         /\ state'[t].index + Cardinality(Unstamped(t)') <= MaxIndex
  BY <1>2, <1>6, <1>9 DEF CountInv
<1> QED BY <1>5, <1>8, <1>10, <1>11 DEF CountInv

(* An admitted request is done: the last of a closure drains it. *)
LEMMA CountsLeave ==
  ASSUME TypeOK, CountInv, NEW r \in Requests, NEW s \in Sessions, s = session[r],
         Go(r, "idle"), pc[r] = "release", UNCHANGED session, gate' = FinishLocked,
         NEW new \in SessionState, new.inFlight = state[s].inFlight - 1,
         new.index = state[s].index, state' = [state EXCEPT ![s] = new],
         \/ known' = known \cup {s}
         \/ known' = known \ {s} /\ new = NewState
  PROVE  CountInv' /\ gate' \in Gates
<1>1. r \in AllInFlight /\ r \in InFlight(s)
  BY DEF AllInFlight, InFlight, Admitted
<1>2. \A t \in Sessions :
        /\ AllInFlight' = AllInFlight \ {r} /\ Unstamped(t)' = Unstamped(t)
        /\ InFlight(t)' = IF t = s THEN InFlight(t) \ {r} ELSE InFlight(t)
  <2> TAKE t \in Sessions
  <2>1. \A q \in Requests : /\ pc'[q] = IF q = r THEN "idle" ELSE pc[q]
                            /\ session'[q] = session[q]
    BY DEF TypeOK, Go
  <2>2. AllInFlight' = AllInFlight \ {r}
    BY <2>1 DEF AllInFlight, Admitted
  <2>3. InFlight(t)' = IF t = s THEN InFlight(t) \ {r} ELSE InFlight(t)
    BY <2>1 DEF InFlight, Admitted
  <2>4. Unstamped(t)' = Unstamped(t)
    BY <2>1 DEF Unstamped, Admitted
  <2> QED BY <2>2, <2>3, <2>4
<1>3. PICK A : A = AllInFlight /\ A \subseteq Requests /\ r \in A
  BY <1>1, SetsOfRequests
<1>4. PICK F : F = InFlight(s) /\ F \subseteq Requests /\ r \in F
  BY <1>1, SetsOfRequests
<1>5. /\ Cardinality(AllInFlight') = gate.pending - 1 /\ gate.pending >= 1
  BY <1>2, <1>3, OneLess DEF CountInv
<1>6. Cardinality(InFlight(s)') = state[s].inFlight - 1
  BY <1>2, <1>4, OneLess DEF CountInv
<1>7. Cardinality(Requests) \in Nat
  BY <1>3, RequestsCounted
<1>8. /\ gate'.pending = gate.pending - 1 /\ gate'.closed = gate.closed
      /\ gate'.drained => gate.drained \/ (gate.closed /\ gate.pending = 1)
      /\ gate' \in Gates /\ gate.pending \in Nat
  <2>1. gate \in Gates
    BY DEF TypeOK
  <2>2. PICK d \in BOOLEAN : d = (gate.drained \/ (gate.closed /\ gate.pending = 1))
    BY <2>1 DEF Gates
  <2>3. gate' = [gate EXCEPT !.pending = gate.pending - 1, !.drained = d]
    BY <2>2 DEF FinishLocked
  <2>4. gate'.pending = gate.pending - 1 /\ gate'.closed = gate.closed /\ gate'.drained = d
    BY <2>1, <2>3 DEF Gates
  <2>5. gate.pending - 1 \in 0 .. Cardinality(Requests) /\ gate.pending \in Nat
    BY <1>5, <1>7, <2>1 DEF Gates
  <2>6. gate' \in Gates
    BY <2>1, <2>3, <2>5 DEF Gates
  <2> QED BY <2>2, <2>4, <2>5, <2>6
<1>9. \A t \in Sessions : state'[t] = IF t = s THEN new ELSE state[t]
  BY DEF TypeOK
<1>10. gate'.drained => gate'.closed /\ gate'.pending = 0
  <2>1. gate.drained => gate.closed /\ gate.pending = 0
    BY DEF CountInv
  <2> QED BY <1>5, <1>8, <2>1
<1>11. \A t \in Sessions :
         /\ state'[t].inFlight = Cardinality(InFlight(t)')
         /\ t \notin known' => state'[t] = NewState
         /\ state'[t].index + Cardinality(Unstamped(t)') <= MaxIndex
  BY <1>2, <1>6, <1>9 DEF CountInv
<1> QED BY <1>5, <1>8, <1>10, <1>11 DEF CountInv

-----------------------------------------------------------------------------
(* Each step keeps the invariant of both stores. *)

(* A request moves on, and neither the session map nor a receipt changes. *)
LEMMA MoveKeeps ==
  ASSUME TypeOK, SessionInv, NEW r \in Requests, NEW step \in Steps, Go(r, step),
         pc[r] \notin {"idle", "release"}, step \in Admitted <=> pc[r] \in Admitted,
         step \in {"run", "stamp"} => pc[r] = "run",
         step \in {"held", "lookup", "admit"} => pc[r] \in {"held", "lookup", "admit"},
         dir \subseteq dir', dir' \subseteq Sessions,
         UNCHANGED <<receipts, registry, run, memory, kind, session>>
  PROVE  TypeOK' /\ SessionInv'
<1>1. TypeOK'
  BY DEF TypeOK, Go, memory
<1>2. CountInv'
  <2>1. UNCHANGED <<known, state, gate, session>> /\ CountInv
    BY DEF SessionInv, memory
  <2>2. state' \in [Sessions -> SessionState]
    BY <2>1 DEF TypeOK
  <2>3. state'[session[r]].index = state[session[r]].index
    BY <2>1
  <2>4. \A t \in Sessions : /\ state'[t].inFlight = state[t].inFlight
                            /\ t # session[r] => state'[t] = state[t]
                            /\ t \notin known' => state'[t] = NewState
    BY <2>1 DEF CountInv
  <2> QED BY <2>1, <2>2, <2>3, <2>4, CountsMove
<1>3. ActionInv'
  BY DEF SessionInv, ActionInv, TypeOK, Go, memory
<1>4. ASSUME NEW t \in Sessions PROVE OwnInv(t)'
  <2>1. Held(t)' = Held(t)
    BY DEF Held
  <2>2. OwnInv(t)
    BY DEF SessionInv
  <2> QED BY <2>1, <2>2 DEF OwnInv, memory
<1> QED BY <1>1, <1>2, <1>3, <1>4 DEF SessionInv

LEMMA BeginKeeps ==
  ASSUME TypeOK, SessionInv, NEW r \in Requests, Begin(r)
  PROVE  TypeOK' /\ SessionInv'
<1>1. PICK s \in Sessions, k \in {"read", "action"} :
        /\ Room(s)
        /\ session' = [session EXCEPT ![r] = s]
        /\ kind' = [kind EXCEPT ![r] = k]
        /\ Go(r, IF k = "read" THEN "held" ELSE "open")
  BY DEF Begin
<1>2. PICK step \in {"held", "open"} : step = IF k = "read" THEN "held" ELSE "open"
  OBVIOUS
<1>3. /\ \A q \in Requests : /\ pc'[q] = IF q = r THEN step ELSE pc[q]
                             /\ session'[q] = IF q = r THEN s ELSE session[q]
      /\ pc[r] = "idle"
      /\ UNCHANGED <<dir, receipts, registry, run, known, state, gate>>
  BY <1>1, <1>2 DEF TypeOK, Go, Begin, store, memory
<1>4. TypeOK'
  BY <1>1, <1>2, <1>3 DEF TypeOK, Go, Steps
<1>5. \A t \in Sessions :
        /\ AllInFlight' = AllInFlight /\ InFlight(t)' = InFlight(t)
        /\ t # s => Unstamped(t)' = Unstamped(t)
        /\ Unstamped(s)' = Unstamped(s) \cup {r} /\ r \notin Unstamped(s)
  <2> TAKE t \in Sessions
  <2>1. AllInFlight' = AllInFlight
    BY <1>3 DEF AllInFlight, Admitted
  <2>2. InFlight(t)' = InFlight(t)
    BY <1>3 DEF InFlight, Admitted
  <2>3. t # s => Unstamped(t)' = Unstamped(t)
    BY <1>3 DEF Unstamped
  <2>4. Unstamped(s)' = Unstamped(s) \cup {r} /\ r \notin Unstamped(s)
    BY <1>3 DEF Unstamped
  <2> QED BY <2>1, <2>2, <2>3, <2>4
<1>6. state[s].index + Cardinality(Unstamped(s)') <= MaxIndex
  <2>1. PICK U : U = Unstamped(s) /\ U \subseteq Requests /\ r \notin U
    BY <1>5, SetsOfRequests
  <2>2. Cardinality(Unstamped(s)') = Cardinality(U) + 1 /\ Cardinality(U) \in Nat
    BY <1>5, <2>1, OneMore, RequestsCounted
  <2>3. PICK P : P = {q \in Requests : pc[q] # "idle" /\ session[q] = s}
    OBVIOUS
  <2>4. U \subseteq P /\ P \subseteq Requests
    BY <2>1, <2>3 DEF Unstamped
  <2>5. Cardinality(U) <= Cardinality(P) /\ Cardinality(P) \in Nat
    BY <2>4, RequestsCounted, FS_Subset
  <2>6. state[s].index <= Cardinality(Held(s)) /\ Cardinality(Held(s)) \in Nat
    BY IndexIsHeld DEF SessionInv
  <2>7. Cardinality(Held(s)) + Cardinality(P) < MaxIndex
    BY <1>1, <2>3 DEF Room
  <2>8. state[s].index \in Nat /\ MaxIndex \in Nat
    BY SessionsAssumption DEF TypeOK, SessionState
  <2> QED BY <2>2, <2>5, <2>6, <2>7, <2>8
<1>7. CountInv'
  <2>1. \A t \in Sessions : state[t].index + Cardinality(Unstamped(t)') <= MaxIndex
    BY <1>5, <1>6 DEF SessionInv, CountInv
  <2> QED BY <1>3, <1>5, <2>1 DEF SessionInv, CountInv
<1>8. ActionInv'
  <2>1. \A q \in Requests : kind'[q] = IF q = r THEN k ELSE kind[q]
    BY <1>1 DEF TypeOK
  <2>2. k = "action" => step = "open"
    BY <1>2
  <2> QED BY <1>3, <2>1, <2>2 DEF SessionInv, ActionInv
<1>9. ASSUME NEW t \in Sessions PROVE OwnInv(t)'
  <2>1. Held(t)' = Held(t)
    BY <1>3 DEF Held
  <2>2. OwnInv(t)
    BY DEF SessionInv
  <2> QED BY <1>3, <2>1, <2>2 DEF OwnInv
<1> QED BY <1>4, <1>7, <1>8, <1>9 DEF SessionInv

LEMMA MovesKeep ==
  ASSUME TypeOK, SessionInv, NEW r \in Requests,
         \/ SeenHere(r) \/ Lookup(r) \/ SessionOpen(r) \/ SessionMintedHere(r)
         \/ RunSource(r) \/ StampFails(r)
  PROVE  TypeOK' /\ SessionInv'
<1>1. /\ UNCHANGED <<receipts, registry, run, memory, kind, session>>
      /\ dir \subseteq dir' /\ dir' \subseteq Sessions
  BY DEF SeenHere, Lookup, SessionOpen, SessionMintedHere, RunSource, StampFails,
         store, TypeOK
<1>2. PICK step \in Steps :
        /\ Go(r, step)
        /\ pc[r] \notin {"idle", "release"} /\ (step \in Admitted <=> pc[r] \in Admitted)
        /\ step \in {"run", "stamp"} => pc[r] = "run"
        /\ step \in {"held", "lookup", "admit"} => pc[r] \in {"held", "lookup", "admit"}
  <2>1. CASE SeenHere(r)
    BY <2>1 DEF SeenHere, Steps, Admitted
  <2>2. CASE Lookup(r)
    BY <2>2 DEF Lookup, Steps, Admitted
  <2>3. CASE SessionOpen(r)
    BY <2>3 DEF SessionOpen, Steps, Admitted
  <2>4. CASE SessionMintedHere(r)
    BY <2>4 DEF SessionMintedHere, Steps, Admitted
  <2>5. CASE RunSource(r)
    BY <2>5 DEF RunSource, Steps, Admitted
  <2>6. CASE StampFails(r)
    BY <2>6 DEF StampFails, Steps, Admitted
  <2> QED BY <2>1, <2>2, <2>3, <2>4, <2>5, <2>6
<1> QED BY <1>1, <1>2, MoveKeeps

(* One record of the map changes, and no receipt. *)
LEMMA OwnUpdated ==
  ASSUME TypeOK, SessionInv, NEW s \in Sessions, NEW new \in SessionState,
         state' = [state EXCEPT ![s] = new], dir' = dir \cup {s} \/ dir' = dir,
         UNCHANGED <<receipts, run>>, new.index = state[s].index \/ new.index = 0,
         new.created => s \in dir' /\ Held(s) = 0 .. new.index - 1
  PROVE  \A t \in Sessions : OwnInv(t)'
<1> TAKE t \in Sessions
<1>1. state'[t] = IF t = s THEN new ELSE state[t]
  BY DEF TypeOK
<1>2. Held(t)' = Held(t) /\ OwnInv(t)
  BY DEF Held, SessionInv
<1>3. new.index \in Nat /\ \A i \in Index : i \in Nat
  BY SessionsAssumption DEF SessionState, Index
<1>4. Held(t)' # {} => t \in dir'
  BY <1>2 DEF OwnInv
<1>5. \A i \in Index : i < state'[t].index => i \in Held(t)' /\ receipts'[t][i].run = run'
  BY <1>1, <1>2, <1>3 DEF OwnInv
<1>6. state'[t].created => t \in dir' /\ Held(t)' = 0 .. state'[t].index - 1
  BY <1>1, <1>2 DEF OwnInv
<1> QED BY <1>4, <1>5, <1>6 DEF OwnInv

LEMMA AdmitKeeps ==
  ASSUME TypeOK, SessionInv, NEW r \in Requests, Admit(r)
  PROVE  TypeOK' /\ SessionInv'
<1>1. PICK s \in Sessions : s = session[r]
  BY DEF TypeOK
<1>2. /\ pc[r] = "admit"
      /\ UNCHANGED <<dir, receipts, registry, run, kind, session>>
  BY DEF Admit, store
<1>3. CASE Go(r, "idle") /\ UNCHANGED memory
  BY <1>2, <1>3, MoveKeeps DEF Steps, Admitted, TypeOK
<1>4. CASE /\ ~ gate.closed /\ ~ state[s].sealed
           /\ Update(s, [state[s] EXCEPT !.inFlight = @ + 1])
           /\ gate' = AdmitLocked
           /\ Go(r, "run")
  <2>1. PICK new : new = [state[s] EXCEPT !.inFlight = @ + 1]
    OBVIOUS
  <2>2. /\ new \in [index : 0 .. MaxIndex, prev : Signatures \cup {None},
                    sealed : BOOLEAN, created : BOOLEAN, inFlight : Nat]
        /\ new.inFlight = state[s].inFlight + 1 /\ new.index = state[s].index
        /\ new.created = state[s].created
    <3>1. state[s] \in SessionState /\ Cardinality(Requests) \in Nat
      BY RequestsCounted DEF TypeOK
    <3> QED BY <2>1, <3>1 DEF SessionState
  <2>3. state' = [state EXCEPT ![s] = new] /\ known' = known \cup {s}
    BY <1>4, <2>1 DEF Update
  <2>4. CountInv' /\ gate' \in Gates /\ state' \in [Sessions -> SessionState]
    BY <1>1, <1>2, <1>4, <2>2, <2>3, CountsEnter DEF SessionInv, Admitted
  <2>5. TypeOK'
    BY <1>2, <1>4, <2>3, <2>4 DEF TypeOK, Go, Steps
  <2>6. new \in SessionState
    <3>1. new = state'[s]
      BY <2>3 DEF TypeOK
    <3> QED BY <2>4, <3>1
  <2>7. \A t \in Sessions : OwnInv(t)'
    <3>1. new.created => s \in dir' /\ Held(s) = 0 .. new.index - 1
      BY <1>2, <2>2 DEF SessionInv, OwnInv
    <3> QED BY <1>2, <2>2, <2>3, <2>6, <3>1, OwnUpdated
  <2>8. ActionInv'
    <3>1. \A t \in Sessions : state'[t].created = state[t].created
      BY <2>2, <2>3 DEF TypeOK
    <3>2. kind[r] # "action"
      BY <1>2 DEF SessionInv, ActionInv
    <3> QED BY <1>2, <1>4, <3>1, <3>2 DEF SessionInv, ActionInv, TypeOK, Go
  <2> QED BY <2>4, <2>5, <2>7, <2>8 DEF SessionInv
<1> QED BY <1>1, <1>3, <1>4 DEF Admit

LEMMA NewStateTyped == NewState \in SessionState
<1>1. Cardinality(Requests) \in Nat
  BY RequestsCounted
<1> QED BY <1>1, SessionsAssumption DEF NewState, SessionState

LEMMA AdmitActionKeeps ==
  ASSUME TypeOK, SessionInv, NEW r \in Requests, AdmitAction(r)
  PROVE  TypeOK' /\ SessionInv'
<1>1. PICK s \in Sessions : s = session[r]
  BY DEF TypeOK
<1>2. /\ pc[r] = "admitAction"
      /\ UNCHANGED <<receipts, registry, run, kind, session>>
  BY DEF AdmitAction
<1>3. CASE Go(r, "idle") /\ UNCHANGED <<dir, known, state, gate>>
  BY <1>2, <1>3, MoveKeeps DEF Steps, Admitted, TypeOK, memory
<1>4. CASE /\ Go(r, "idle") /\ Forget(s) /\ UNCHANGED <<dir, gate>>
           /\ state[s].index = 0 /\ state[s].inFlight = 0
           /\ ~ (state[s].created \/ s \notin dir)
  <2>1. /\ state' = [state EXCEPT ![s] = NewState] /\ known' = known \ {s}
        /\ state' \in [Sessions -> SessionState]
    BY <1>4, NewStateTyped DEF Forget, TypeOK
  <2>2. \A t \in Sessions : state'[t] = IF t = s THEN NewState ELSE state[t]
    BY <2>1 DEF TypeOK
  <2>3. TypeOK'
    BY <1>2, <1>4, <2>1 DEF TypeOK, Go, Steps
  <2>4. CountInv'
    <3>1. \A t \in Sessions : /\ state'[t].inFlight = state[t].inFlight
                              /\ t # session[r] => state'[t] = state[t]
                              /\ t \notin known' => state'[t] = NewState
      BY <1>1, <1>4, <2>1, <2>2 DEF SessionInv, CountInv, NewState
    <3>2. state'[session[r]].index = state[session[r]].index
      BY <1>1, <1>4, <2>2 DEF NewState
    <3>3. "idle" \in Steps /\ CountInv /\ ("idle" \in Admitted <=> pc[r] \in Admitted)
      BY <1>2 DEF Steps, SessionInv, Admitted
    <3> QED BY <1>2, <1>4, <2>1, <3>1, <3>2, <3>3, CountsMove
  <2>5. \A t \in Sessions : OwnInv(t)'
    <3>1. NewState.index = 0 /\ NewState.created = FALSE
      BY DEF NewState
    <3> QED BY <1>2, <1>4, <2>1, <3>1, NewStateTyped, OwnUpdated
  <2>6. ActionInv'
    <3>1. \A t \in Sessions : state[t].created => state'[t].created
      BY <1>4, <2>2
    <3>2. \A q \in Requests : pc'[q] = IF q = r THEN "idle" ELSE pc[q]
      BY <1>4 DEF TypeOK, Go
    <3>3. \A q \in Requests : session'[q] = session[q] /\ session[q] \in Sessions
      BY <1>2 DEF TypeOK
    <3> QED BY <1>2, <3>1, <3>2, <3>3 DEF SessionInv, ActionInv
  <2> QED BY <2>3, <2>4, <2>5, <2>6 DEF SessionInv
<1>5. CASE /\ ~ gate.closed /\ ~ state[s].sealed /\ (state[s].created \/ s \notin dir)
           /\ dir' = dir \cup {s}
           /\ Update(s, [state[s] EXCEPT !.created = TRUE, !.inFlight = @ + 1])
           /\ gate' = AdmitLocked
           /\ Go(r, "run")
  <2>1. PICK new : new = [state[s] EXCEPT !.created = TRUE, !.inFlight = @ + 1]
    OBVIOUS
  <2>2. /\ new \in [index : 0 .. MaxIndex, prev : Signatures \cup {None},
                    sealed : BOOLEAN, created : BOOLEAN, inFlight : Nat]
        /\ new.inFlight = state[s].inFlight + 1 /\ new.index = state[s].index
        /\ new.created = TRUE
    <3>1. state[s] \in SessionState /\ Cardinality(Requests) \in Nat
      BY RequestsCounted DEF TypeOK
    <3>2. new = [index |-> state[s].index, prev |-> state[s].prev,
                 sealed |-> state[s].sealed, created |-> TRUE,
                 inFlight |-> state[s].inFlight + 1]
      BY <2>1, <3>1 DEF SessionState
    <3> QED BY <3>1, <3>2 DEF SessionState
  <2>3. state' = [state EXCEPT ![s] = new] /\ known' = known \cup {s}
    BY <1>5, <2>1 DEF Update
  <2>4. CountInv' /\ gate' \in Gates /\ state' \in [Sessions -> SessionState]
    BY <1>1, <1>2, <1>5, <2>2, <2>3, CountsEnter DEF SessionInv, Admitted
  <2>5. TypeOK'
    BY <1>2, <1>5, <2>3, <2>4 DEF TypeOK, Go, Steps
  <2>6. new \in SessionState
    <3>1. new = state'[s]
      BY <2>3 DEF TypeOK
    <3> QED BY <2>4, <3>1
  <2>7. \A t \in Sessions : OwnInv(t)'
    <3>1. s \in dir' /\ Held(s) = 0 .. new.index - 1
      <4>1. OwnInv(s) /\ state[s].index \in 0 .. MaxIndex /\ MaxIndex \in Nat
        BY SessionsAssumption DEF SessionInv, TypeOK, SessionState
      <4>2. CASE state[s].created
        BY <1>5, <2>2, <4>1, <4>2 DEF OwnInv
      <4>3. CASE s \notin dir
        <5>1. Held(s) = {}
          BY <4>1, <4>3 DEF OwnInv
        <5>2. state[s].index = 0
          BY <4>1, <5>1, SessionsAssumption DEF OwnInv, Index
        <5> QED BY <1>5, <2>2, <5>1, <5>2
      <4> QED BY <1>5, <4>2, <4>3
    <3> QED BY <1>2, <1>5, <2>2, <2>3, <2>6, <3>1, OwnUpdated
  <2>8. ActionInv'
    <3>1. \A t \in Sessions : state[t].created => state'[t].created
      BY <2>2, <2>3 DEF TypeOK
    <3>2. state'[s].created
      BY <2>2, <2>3 DEF TypeOK
    <3>3. \A q \in Requests : pc'[q] = IF q = r THEN "run" ELSE pc[q]
      BY <1>5 DEF TypeOK, Go
    <3>4. \A q \in Requests : session'[q] = session[q] /\ session[q] \in Sessions
      BY <1>2 DEF TypeOK
    <3> QED BY <1>1, <1>2, <3>1, <3>2, <3>3, <3>4 DEF SessionInv, ActionInv
  <2> QED BY <2>4, <2>5, <2>7, <2>8 DEF SessionInv
<1> QED BY <1>1, <1>3, <1>4, <1>5 DEF AdmitAction, memory

(* What a stamp does: the receipt is at the session's index, within bounds, *)
(* and the chain moves on.                                                  *)
Stamps(r, s, i, b) ==
  /\ pc[r] = "stamp" /\ Go(r, "release")
  /\ receipts[s][i] = None
  /\ receipts' = [receipts EXCEPT ![s] =
                    [receipts[s] EXCEPT ![i] = [run |-> run, prev |-> state[s].prev]]]
  /\ dir' = dir \cup {s}
  /\ state' = [state EXCEPT ![s] =
                 [index |-> i + 1, prev |-> <<run, i>>, sealed |-> state[s].sealed,
                  created |-> b, inFlight |-> state[s].inFlight]]
  /\ UNCHANGED <<registry, run, known, gate, kind, session>>

LEMMA StampIs ==
  ASSUME TypeOK, SessionInv, NEW r \in Requests, Stamp(r),
         NEW s \in Sessions, s = session[r]
  PROVE  /\ pc[r] = "stamp" /\ Go(r, "release") /\ state[s].index \in Index
         /\ \/ /\ dir' = dir \cup {s}
               /\ UNCHANGED <<receipts, registry, run, memory, kind, session>>
            \/ \E i \in Index, b \in BOOLEAN :
                 /\ i = state[s].index
                 /\ b = (state[s].created \/ (kind[r] = "read" /\ s \notin dir))
                 /\ Stamps(r, s, i, b)
<1>1. pc[r] = "stamp" /\ Go(r, "release")
  BY DEF Stamp
<1>2. state[s] \in SessionState /\ state[s].index \in Nat /\ MaxIndex \in Nat
  BY SessionsAssumption DEF TypeOK, SessionState
<1>3. state[s].index \in Index
  <2>1. PICK U : U = Unstamped(s) /\ U \subseteq Requests /\ r \in U
    BY <1>1, SetsOfRequests DEF Unstamped
  <2>2. Cardinality(U) \in Nat /\ Cardinality(U) >= 1
    BY <2>1, OneLess
  <2>3. state[s].index + Cardinality(U) <= MaxIndex
    BY <2>1 DEF SessionInv, CountInv
  <2> QED BY <1>2, <2>2, <2>3 DEF Index
<1>4. CASE receipts[s][state[s].index] # None
  BY <1>1, <1>3, <1>4 DEF Stamp, memory
<1>5. CASE receipts[s][state[s].index] = None
  <2>1. PICK i \in Index : i = state[s].index
    BY <1>3
  <2>2. PICK b \in BOOLEAN : b = (state[s].created \/ (kind[r] = "read" /\ s \notin dir))
    BY <1>2 DEF SessionState
  <2>3. receipts' = [receipts EXCEPT ![s] =
                      [receipts[s] EXCEPT ![i] = [run |-> run, prev |-> state[s].prev]]]
    BY <1>5, <2>1 DEF Stamp, TypeOK
  <2>4. state' = [state EXCEPT ![s] =
                   [index |-> i + 1, prev |-> <<run, i>>, sealed |-> state[s].sealed,
                    created |-> b, inFlight |-> state[s].inFlight]]
    BY <1>5, <2>1, <2>2, Zenon DEF Stamp
  <2>6. dir' = dir \cup {s} /\ UNCHANGED <<registry, run, known, gate, kind, session>>
    BY DEF Stamp
  <2>7. Stamps(r, s, i, b)
    BY <1>1, <1>5, <2>1, <2>3, <2>4, <2>6 DEF Stamps
  <2> QED BY <1>1, <1>3, <2>1, <2>2, <2>7
<1> QED BY <1>4, <1>5

LEMMA StampKeeps ==
  ASSUME TypeOK, SessionInv, NEW r \in Requests, Stamp(r)
  PROVE  TypeOK' /\ SessionInv'
<1>1. PICK s \in Sessions : s = session[r]
  BY DEF TypeOK
<1>2. pc[r] = "stamp" /\ Go(r, "release") /\ state[s].index \in Index
  BY <1>1, StampIs
<1>3. CASE /\ dir' = dir \cup {s}
           /\ UNCHANGED <<receipts, registry, run, memory, kind, session>>
  BY <1>2, <1>3, MoveKeeps DEF Steps, Admitted, TypeOK
<1>4. ASSUME NEW i \in Index, NEW b \in BOOLEAN, i = state[s].index,
             b = (state[s].created \/ (kind[r] = "read" /\ s \notin dir)),
             Stamps(r, s, i, b)
      PROVE  TypeOK' /\ SessionInv'
  <2>1. PICK new : new = [index |-> i + 1, prev |-> <<run, i>>, sealed |-> state[s].sealed,
                          created |-> b, inFlight |-> state[s].inFlight]
    OBVIOUS
  <2>2. state[s] \in SessionState /\ i \in Nat /\ i < MaxIndex /\ MaxIndex \in Nat
    BY SessionsAssumption DEF TypeOK, Index
  <2>3. new \in SessionState
    <3>1. <<run, i>> \in Signatures
      BY SessionsAssumption DEF TypeOK, Signatures, Runs
    <3> QED BY <2>1, <2>2, <3>1 DEF SessionState
  <2>4. state' = [state EXCEPT ![s] = new] /\ state' \in [Sessions -> SessionState]
    BY <1>4, <2>1, <2>3 DEF Stamps, TypeOK
  <2>5. receipts' \in [Sessions -> [Index -> Receipts \cup {None}]]
    <3>1. [run |-> run, prev |-> state[s].prev] \in Receipts
      BY <2>2, SessionsAssumption DEF Receipts, SessionState, TypeOK, Runs
    <3> QED BY <1>4, <3>1 DEF Stamps, TypeOK
  <2>6. TypeOK'
    BY <1>4, <2>4, <2>5 DEF TypeOK, Stamps, Go, Steps
  <2>7. /\ \A t \in Sessions : /\ state'[t] = IF t = s THEN new ELSE state[t]
                               /\ t # s => receipts'[t] = receipts[t]
        /\ \A j \in Index : receipts'[s][j] =
             IF j = i THEN [run |-> run, prev |-> state[s].prev] ELSE receipts[s][j]
        /\ run' = run /\ receipts[s][i] = None
    <3>1. \A t \in Sessions : state'[t] = IF t = s THEN new ELSE state[t]
      BY <2>4 DEF TypeOK
    <3>2. receipts' = [receipts EXCEPT ![s] =
                        [receipts[s] EXCEPT ![i] = [run |-> run, prev |-> state[s].prev]]]
      BY <1>4 DEF Stamps
    <3>3. run' = run /\ receipts[s][i] = None
      BY <1>4 DEF Stamps
    <3>4. receipts \in [Sessions -> [Index -> Receipts \cup {None}]]
      BY DEF TypeOK
    <3> QED BY <3>1, <3>2, <3>3, <3>4
  <2>8. CountInv'
    <3>1. \A t \in Sessions : /\ state'[t].inFlight = state[t].inFlight
                              /\ t # session[r] => state'[t] = state[t]
                              /\ t \notin known' => state'[t] = NewState
      <4>1. s \in known /\ CountInv
        BY <1>1, <1>2, InFlightIsCounted DEF Admitted, SessionInv
      <4> QED BY <1>1, <1>4, <2>1, <2>7, <4>1 DEF CountInv, Stamps
    <3>2. state'[session[r]].index = state[session[r]].index + 1
      BY <1>1, <1>4, <2>1, <2>7
    <3>3. "release" \in Steps /\ CountInv /\ ("release" \in Admitted <=> pc[r] \in Admitted)
          /\ pc[r] \notin {"idle", "release"} /\ UNCHANGED <<gate, session>>
      BY <1>2, <1>4 DEF Steps, SessionInv, Admitted, Stamps
    <3> QED BY <1>2, <2>4, <3>1, <3>2, <3>3, CountsMove
  <2>9. ActionInv'
    <3>1. \A t \in Sessions : state[t].created => state'[t].created
      <4>1. state[s].created => b
        BY <1>4
      <4>2. new.created = b
        BY <2>1
      <4> QED BY <2>7, <4>1, <4>2
    <3>2. \A q \in Requests : pc'[q] = IF q = r THEN "release" ELSE pc[q]
      BY <1>2 DEF TypeOK, Go
    <3>3. \A q \in Requests : session'[q] = session[q] /\ session[q] \in Sessions
                              /\ kind'[q] = kind[q]
      BY <1>4 DEF TypeOK, Stamps
    <3> QED BY <3>1, <3>2, <3>3 DEF SessionInv, ActionInv
  <2>10. \A t \in Sessions : t # s => OwnInv(t)'
    <3> SUFFICES ASSUME NEW t \in Sessions, t # s PROVE OwnInv(t)'
      OBVIOUS
    <3>1. Held(t)' = Held(t) /\ OwnInv(t)
      BY <2>7 DEF Held, SessionInv
    <3>2. t \in dir <=> t \in dir'
      BY <1>4 DEF Stamps
    <3> QED BY <2>7, <3>1, <3>2 DEF OwnInv
  <2>11. OwnInv(s)'
    <3>1. OwnInv(s)
      BY DEF SessionInv
    <3>2. None # [run |-> run, prev |-> state[s].prev]
      BY <2>2, SessionsAssumption DEF SessionState, TypeOK, Runs, Signatures, Index
    <3>3. Held(s)' = Held(s) \cup {i}
      BY <2>7, <3>2 DEF Held
    <3>4. new.index = i + 1
      BY <2>1
    <3>5. \A j \in Index : j \in Nat
      BY DEF Index
    <3>6. \A j \in Index : j < state'[s].index =>
                              j \in Held(s)' /\ receipts'[s][j].run = run'
      BY <1>4, <2>2, <2>7, <3>1, <3>3, <3>4, <3>5 DEF OwnInv
    <3>7. Held(s) = 0 .. i - 1 => Held(s)' = 0 .. i
      BY <2>2, <3>3
    <3>8. state'[s].created => Held(s) = 0 .. i - 1
      <4>1. new.created = b
        BY <2>1
      <4>2. CASE state[s].created
        BY <1>4, <3>1, <4>2 DEF OwnInv
      <4>3. CASE s \notin dir
        <5>1. Held(s) = {}
          BY <3>1, <4>3 DEF OwnInv
        <5>2. i = 0
          BY <1>4, <2>2, <3>1, <5>1, SessionsAssumption DEF OwnInv, Index
        <5> QED BY <5>1, <5>2
      <4> QED BY <1>4, <2>7, <4>1, <4>2, <4>3
    <3>9. s \in dir'
      BY <1>4 DEF Stamps
    <3>10. state'[s].index - 1 = i
      BY <2>2, <2>7, <3>4
    <3> QED BY <3>6, <3>7, <3>8, <3>9, <3>10 DEF OwnInv
  <2> QED BY <2>6, <2>8, <2>9, <2>10, <2>11 DEF SessionInv
<1> QED BY <1>1, <1>3, <1>4, StampIs

(* An action that was never dispatched gives its directory back: it is the  *)
(* only one in the session, so no other's receipt loses its place.          *)
LEMMA AbandonKeeps ==
  ASSUME TypeOK, SessionInv, NEW r \in Requests, AbandonUnminted(r)
  PROVE  TypeOK' /\ SessionInv'
<1>1. PICK s \in Sessions : s = session[r]
  BY DEF TypeOK
<1>2. /\ pc[r] = "abandon" /\ Go(r, "release")
      /\ UNCHANGED <<receipts, registry, run, known, gate, kind, session>>
  BY DEF AbandonUnminted
<1>3. CASE UNCHANGED <<dir, state>>
  BY <1>2, <1>3, MoveKeeps DEF Steps, Admitted, TypeOK, memory
<1>4. CASE /\ s \in known /\ state[s].index = 0 /\ state[s].inFlight = 1
           /\ Held(s) = {} /\ dir' = dir \ {s}
           /\ state' = [state EXCEPT ![s] = [state[s] EXCEPT !.created = FALSE]]
  <2>1. PICK new : new = [state[s] EXCEPT !.created = FALSE]
    OBVIOUS
  <2>2. /\ new \in SessionState /\ new.index = state[s].index /\ ~ new.created
        /\ new.inFlight = state[s].inFlight
    <3>1. state[s] \in SessionState
      BY DEF TypeOK
    <3>2. new = [index |-> state[s].index, prev |-> state[s].prev,
                 sealed |-> state[s].sealed, created |-> FALSE,
                 inFlight |-> state[s].inFlight]
      BY <2>1, <3>1 DEF SessionState
    <3> QED BY <3>1, <3>2 DEF SessionState
  <2>3. /\ state' = [state EXCEPT ![s] = new] /\ state' \in [Sessions -> SessionState]
        /\ \A t \in Sessions : state'[t] = IF t = s THEN new ELSE state[t]
    BY <1>4, <2>1, <2>2 DEF TypeOK
  <2>4. TypeOK'
    BY <1>2, <1>4, <2>3 DEF TypeOK, Go, Steps
  <2>5. CountInv /\ InFlight(s) = {r}
    BY <1>1, <1>2, <1>4, InFlightIsCounted DEF Admitted, SessionInv
  <2>6. CountInv'
    <3>1. \A t \in Sessions : /\ state'[t].inFlight = state[t].inFlight
                              /\ t # session[r] => state'[t] = state[t]
                              /\ t \notin known' => state'[t] = NewState
      BY <1>1, <1>2, <1>4, <2>2, <2>3, <2>5 DEF CountInv
    <3>2. state'[session[r]].index = state[session[r]].index
      BY <1>1, <2>2, <2>3
    <3>3. "release" \in Steps /\ ("release" \in Admitted <=> pc[r] \in Admitted)
          /\ pc[r] \notin {"idle", "release"}
      BY <1>2 DEF Steps, Admitted
    <3> QED BY <1>2, <2>3, <2>5, <3>1, <3>2, <3>3, CountsMove
  <2>7. ActionInv'
    <3>1. \A q \in Requests : pc'[q] = IF q = r THEN "release" ELSE pc[q]
      BY <1>2 DEF TypeOK, Go
    <3>2. \A q \in Requests : /\ session'[q] = session[q] /\ session[q] \in Sessions
                              /\ kind'[q] = kind[q]
      BY <1>2 DEF TypeOK
    <3>3. \A q \in Requests : q # r /\ pc[q] \in {"run", "stamp"} => session[q] # s
      BY <2>5 DEF InFlight, Admitted
    <3> QED BY <2>3, <3>1, <3>2, <3>3 DEF SessionInv, ActionInv
  <2>8. ASSUME NEW t \in Sessions PROVE OwnInv(t)'
    <3>1. Held(t)' = Held(t) /\ OwnInv(t)
      BY <1>2 DEF Held, SessionInv
    <3>2. CASE t = s
      BY <1>2, <1>4, <2>2, <2>3, <3>1, <3>2 DEF OwnInv, Index
    <3>3. CASE t # s
      BY <1>2, <1>4, <2>3, <3>1, <3>3 DEF OwnInv
    <3> QED BY <3>2, <3>3
  <2> QED BY <2>4, <2>6, <2>7, <2>8 DEF SessionInv
<1> QED BY <1>1, <1>3, <1>4 DEF AbandonUnminted

(* What a release does: the request is counted no longer, and a session     *)
(* left with nothing leaves the map.                                        *)
LEMMA ReleaseIs ==
  ASSUME TypeOK, SessionInv, NEW r \in Requests, Release(r),
         NEW s \in Sessions, s = session[r]
  PROVE  /\ pc[r] = "release" /\ Go(r, "idle") /\ s \in known /\ gate' = FinishLocked
         /\ UNCHANGED <<dir, receipts, registry, run, kind, session>>
         /\ state[s].inFlight >= 1
         /\ \E new \in SessionState :
              /\ new.inFlight = state[s].inFlight - 1 /\ new.index = state[s].index
              /\ state' = [state EXCEPT ![s] = new]
              /\ \/ /\ known' = known \cup {s}
                    /\ new.created = state[s].created /\ new.prev = state[s].prev
                    /\ new.sealed = state[s].sealed
                    /\ new.inFlight = 0 /\ new.index = 0 => new.sealed \/ new.created
                 \/ /\ known' = known \ {s} /\ new = NewState
                    /\ ~ state[s].sealed /\ ~ state[s].created
<1>1. /\ pc[r] = "release" /\ Go(r, "idle")
      /\ UNCHANGED <<dir, receipts, registry, run, kind, session>>
  BY DEF Release, store
<1>2. s \in known /\ state[s].inFlight >= 1
  BY <1>1, InFlightIsCounted DEF SessionInv, Admitted
<1>3. gate' = FinishLocked
  BY <1>2 DEF Release
<1>4. PICK left : left = [state[s] EXCEPT !.inFlight = @ - 1]
  OBVIOUS
<1>5. /\ left.inFlight = state[s].inFlight - 1 /\ left.index = state[s].index
      /\ left.created = state[s].created /\ left.prev = state[s].prev
      /\ left.sealed = state[s].sealed /\ left \in SessionState
  <2>1. state[s] \in SessionState /\ Cardinality(Requests) \in Nat
    BY RequestsCounted DEF TypeOK
  <2> QED BY <1>2, <1>4, <2>1 DEF SessionState
<1>6. CASE left.inFlight = 0 /\ left.index = 0 /\ ~ left.sealed /\ ~ left.created
  <2>1. known' = known \ {s} /\ state' = [state EXCEPT ![s] = NewState]
    BY <1>2, <1>4, <1>6 DEF Release, Forget
  <2>2. NewState.inFlight = state[s].inFlight - 1 /\ NewState.index = state[s].index
    BY <1>5, <1>6 DEF NewState
  <2> QED BY <1>1, <1>2, <1>3, <1>5, <1>6, <2>1, <2>2, NewStateTyped
<1>7. CASE ~ (left.inFlight = 0 /\ left.index = 0 /\ ~ left.sealed /\ ~ left.created)
  <2>1. known' = known \cup {s} /\ state' = [state EXCEPT ![s] = left]
    BY <1>2, <1>4, <1>7 DEF Release, Update
  <2>2. left.inFlight = 0 /\ left.index = 0 => left.sealed \/ left.created
    BY <1>7
  <2> QED BY <1>1, <1>2, <1>3, <1>5, <2>1, <2>2
<1> QED BY <1>6, <1>7

LEMMA ReleaseKeeps ==
  ASSUME TypeOK, SessionInv, NEW r \in Requests, Release(r)
  PROVE  TypeOK' /\ SessionInv'
<1>1. PICK s \in Sessions : s = session[r]
  BY DEF TypeOK
<1>2. /\ pc[r] = "release" /\ Go(r, "idle") /\ s \in known /\ gate' = FinishLocked
      /\ UNCHANGED <<dir, receipts, registry, run, kind, session>>
  BY <1>1, ReleaseIs
<1>3. PICK new \in SessionState :
              /\ new.inFlight = state[s].inFlight - 1 /\ new.index = state[s].index
              /\ state' = [state EXCEPT ![s] = new]
              /\ \/ /\ known' = known \cup {s}
                    /\ new.created = state[s].created
                 \/ /\ known' = known \ {s} /\ new = NewState
                    /\ ~ state[s].created
  BY <1>1, ReleaseIs
<1>4. CountInv' /\ gate' \in Gates
  BY <1>1, <1>2, <1>3, CountsLeave DEF SessionInv
<1>5. TypeOK'
  BY <1>2, <1>3, <1>4 DEF TypeOK, Go, Steps
<1>6. new.created = state[s].created
  BY <1>3 DEF NewState, TypeOK, SessionState
<1>7. ActionInv'
  <2>1. \A t \in Sessions : state'[t].created = state[t].created
    BY <1>3, <1>6 DEF TypeOK
  <2>2. \A q \in Requests : pc'[q] = IF q = r THEN "idle" ELSE pc[q]
    BY <1>2 DEF TypeOK, Go
  <2>3. \A q \in Requests : session'[q] = session[q] /\ session[q] \in Sessions
    BY <1>2 DEF TypeOK
  <2> QED BY <1>2, <2>1, <2>2, <2>3 DEF SessionInv, ActionInv
<1>8. \A t \in Sessions : OwnInv(t)'
  <2>1. new.created => s \in dir' /\ Held(s) = 0 .. new.index - 1
    BY <1>2, <1>3, <1>6 DEF SessionInv, OwnInv
  <2> QED BY <1>2, <1>3, <2>1, OwnUpdated
<1> QED BY <1>4, <1>5, <1>7, <1>8 DEF SessionInv

LEMMA LineTyped ==
  ASSUME TypeOK, NEW s \in Sessions, NEW w \in BOOLEAN, NEW y \in BOOLEAN
  PROVE  Line(s, w, y) \in Seals /\ Line(s, w, y).session = s
         /\ Line(s, w, y).count = state[s].index /\ Line(s, w, y).whole = w
BY SessionsAssumption DEF Line, Seals, TypeOK, SessionState

LEMMA SyncedTyped ==
  ASSUME NEW lines \in Seq(Seals)
  PROVE  /\ Synced(lines) \in Seq(Seals) /\ Len(Synced(lines)) = Len(lines)
         /\ \A i \in 1 .. Len(lines) : /\ Synced(lines)[i].session = lines[i].session
                                       /\ Synced(lines)[i].count = lines[i].count
                                       /\ Synced(lines)[i].whole = lines[i].whole
<1>1. ASSUME NEW i \in 1 .. Len(lines) PROVE [lines[i] EXCEPT !.synced = TRUE] \in Seals
  <2>1. PICK l \in Seals : l = lines[i]
    OBVIOUS
  <2>2. PICK m : m = [l EXCEPT !.synced = TRUE]
    OBVIOUS
  <2>3. m = [session |-> l.session, count |-> l.count, whole |-> l.whole, synced |-> TRUE]
    BY <2>1, <2>2 DEF Seals
  <2>4. m \in Seals
    BY <2>1, <2>3 DEF Seals
  <2> QED BY <2>1, <2>2, <2>4
<1>2. DOMAIN lines = 1 .. Len(lines) /\ Len(lines) \in Nat
  OBVIOUS
<1>3. Synced(lines) \in Seq(Seals) /\ Len(Synced(lines)) = Len(lines)
  BY <1>1, <1>2 DEF Synced
<1>4. \A i \in 1 .. Len(lines) : Synced(lines)[i] = [lines[i] EXCEPT !.synced = TRUE]
  BY <1>2 DEF Synced
<1>5. \A i \in 1 .. Len(lines) : lines[i] \in Seals
  OBVIOUS
<1>6. ASSUME NEW i \in 1 .. Len(lines)
      PROVE  /\ Synced(lines)[i].session = lines[i].session
             /\ Synced(lines)[i].count = lines[i].count
             /\ Synced(lines)[i].whole = lines[i].whole
  BY <1>4, <1>5, <1>6 DEF Seals
<1> QED BY <1>3, <1>6

(* What a seal appends: one line, of this session and its count. *)
LEMMA SealIs ==
  ASSUME TypeOK, NEW s \in Sessions, SealSession(s)
  PROVE  /\ registry' \in Seq(Seals) /\ Len(registry') = Len(registry) + 1
         /\ \A i \in 1 .. Len(registry) :
              /\ registry'[i].session = registry[i].session
              /\ registry'[i].count = registry[i].count
              /\ registry'[i].whole = registry[i].whole
         /\ registry'[Len(registry) + 1].session = s
         /\ registry'[Len(registry) + 1].count = state[s].index
<1>1. registry \in Seq(Seals) /\ Len(registry) \in Nat
  BY DEF TypeOK
<1>2. ASSUME NEW w \in BOOLEAN, NEW y \in BOOLEAN,
             NEW reg \in Seq(Seals), reg = Append(registry, Line(s, w, y))
      PROVE  /\ Len(reg) = Len(registry) + 1
             /\ \A i \in 1 .. Len(registry) : reg[i] = registry[i]
             /\ reg[Len(registry) + 1].session = s
             /\ reg[Len(registry) + 1].count = state[s].index
  <2>1. PICK l \in Seals : l = Line(s, w, y)
    BY LineTyped
  <2>2. /\ Len(reg) = Len(registry) + 1
        /\ \A i \in 1 .. Len(registry) : reg[i] = registry[i]
        /\ reg[Len(registry) + 1] = l
    BY <1>1, <1>2, <2>1
  <2> QED BY <2>1, <2>2, LineTyped
<1>3. ASSUME NEW w \in BOOLEAN, NEW y \in BOOLEAN
      PROVE  Append(registry, Line(s, w, y)) \in Seq(Seals)
  <2>1. PICK l \in Seals : l = Line(s, w, y)
    BY LineTyped
  <2>2. Append(registry, l) \in Seq(Seals)
    BY <1>1
  <2> QED BY <2>1, <2>2
<1>4. CASE registry' = Append(registry, Line(s, TRUE, FALSE))
  BY <1>1, <1>2, <1>3, <1>4
<1>5. CASE registry' = Append(registry, Line(s, FALSE, FALSE))
  BY <1>1, <1>2, <1>3, <1>5
<1>6. CASE registry' = Synced(Append(registry, Line(s, TRUE, TRUE)))
  <2>1. PICK reg \in Seq(Seals) : reg = Append(registry, Line(s, TRUE, TRUE))
    BY <1>3
  <2>2. /\ Len(reg) = Len(registry) + 1
        /\ \A i \in 1 .. Len(registry) : reg[i] = registry[i]
        /\ reg[Len(registry) + 1].session = s
        /\ reg[Len(registry) + 1].count = state[s].index
    BY <1>2, <2>1
  <2>3. /\ registry' \in Seq(Seals) /\ Len(registry') = Len(reg)
        /\ \A i \in 1 .. Len(reg) : /\ registry'[i].session = reg[i].session
                                    /\ registry'[i].count = reg[i].count
                                    /\ registry'[i].whole = reg[i].whole
    BY <1>6, <2>1, SyncedTyped
  <2> QED BY <1>1, <2>2, <2>3
<1> QED BY <1>4, <1>5, <1>6 DEF SealSession

LEMMA SealKeeps ==
  ASSUME TypeOK, SessionInv, NEW s \in Sessions, SealSession(s)
  PROVE  TypeOK' /\ SessionInv'
<1>1. PICK new : new = [state[s] EXCEPT !.sealed = TRUE]
  OBVIOUS
<1>2. /\ new \in SessionState /\ new.index = state[s].index
      /\ new.created = state[s].created /\ new.inFlight = state[s].inFlight
  <2>1. state[s] \in SessionState
    BY DEF TypeOK
  <2>2. new = [index |-> state[s].index, prev |-> state[s].prev,
               sealed |-> TRUE, created |-> state[s].created,
               inFlight |-> state[s].inFlight]
    BY <1>1, <2>1 DEF SessionState
  <2> QED BY <2>1, <2>2 DEF SessionState
<1>3. /\ state' = [state EXCEPT ![s] = new] /\ s \in known
      /\ UNCHANGED <<dir, receipts, run, known, gate, pc, kind, session>>
  BY <1>1 DEF SealSession, requests
<1>4. \A t \in Sessions : state'[t] = IF t = s THEN new ELSE state[t]
  BY <1>3 DEF TypeOK
<1>5. TypeOK'
  BY <1>2, <1>3, SealIs DEF TypeOK
<1>6. CountInv'
  <2>1. AllInFlight' = AllInFlight /\ \A t \in Sessions : /\ InFlight(t)' = InFlight(t)
                                                          /\ Unstamped(t)' = Unstamped(t)
    BY <1>3 DEF AllInFlight, InFlight, Unstamped
  <2> QED BY <1>2, <1>3, <1>4, <2>1 DEF SessionInv, CountInv
<1>7. ActionInv'
  <2>1. \A t \in Sessions : state'[t].created = state[t].created
    BY <1>2, <1>4
  <2>2. \A q \in Requests : session[q] \in Sessions
    BY DEF TypeOK
  <2> QED BY <1>3, <2>1, <2>2 DEF SessionInv, ActionInv
<1>8. \A t \in Sessions : OwnInv(t)'
  <2>1. new.created => s \in dir' /\ Held(s) = 0 .. new.index - 1
    BY <1>2, <1>3 DEF SessionInv, OwnInv
  <2> QED BY <1>2, <1>3, <2>1, OwnUpdated
<1> QED BY <1>5, <1>6, <1>7, <1>8 DEF SessionInv

LEMMA GateKeeps ==
  ASSUME TypeOK, SessionInv, CloseAdmission \/ OpenAdmission
  PROVE  TypeOK' /\ SessionInv'
<1>1. UNCHANGED <<dir, receipts, registry, run, known, state, pc, kind, session>>
  BY DEF CloseAdmission, OpenAdmission, store, requests
<1>2. PICK g : g = gate /\ g \in Gates
  BY DEF TypeOK
<1>3. /\ gate' \in Gates /\ gate'.pending = gate.pending
      /\ gate'.drained => gate'.closed /\ gate'.pending = 0
  <2>1. CASE CloseAdmission
    <3>1. PICK d \in BOOLEAN : d = (g.pending = 0)
      OBVIOUS
    <3>2. gate' = [closed |-> TRUE, pending |-> g.pending, drained |-> d]
      BY <1>2, <2>1, <3>1 DEF CloseAdmission, Gates
    <3> QED BY <1>2, <3>1, <3>2 DEF Gates
  <2>2. CASE OpenAdmission
    <3>1. gate' = [closed |-> FALSE, pending |-> g.pending, drained |-> FALSE]
      BY <1>2, <2>2 DEF OpenAdmission, Gates
    <3> QED BY <1>2, <3>1 DEF Gates
  <2> QED BY <2>1, <2>2
<1>4. TypeOK'
  BY <1>1, <1>3 DEF TypeOK
<1>5. CountInv'
  <2>1. AllInFlight' = AllInFlight /\ \A t \in Sessions : /\ InFlight(t)' = InFlight(t)
                                                          /\ Unstamped(t)' = Unstamped(t)
    BY <1>1 DEF AllInFlight, InFlight, Unstamped
  <2> QED BY <1>1, <1>3, <2>1 DEF SessionInv, CountInv
<1>6. ActionInv' /\ \A t \in Sessions : OwnInv(t)'
  BY <1>1 DEF SessionInv, ActionInv, OwnInv, Held
<1> QED BY <1>4, <1>5, <1>6 DEF SessionInv

(* What a restart leaves of the registry: a prefix, in which lines may be   *)
(* torn, and no other line.                                                 *)
LEMMA RestartIs ==
  ASSUME TypeOK, Restart
  PROVE  /\ registry' \in Seq(Seals) /\ Len(registry') <= Len(registry)
         /\ \A i \in 1 .. Len(registry') :
              /\ registry'[i].session = registry[i].session
              /\ registry'[i].count = registry[i].count
              /\ registry'[i].whole => registry[i].whole
<1>1. PICK n \in 0 .. Len(registry),
           torn \in SUBSET {i \in DOMAIN registry : ~ registry[i].synced} :
        registry' = [i \in 1 .. n |->
                       [registry[i] EXCEPT !.whole = @ /\ i \notin torn, !.synced = TRUE]]
  BY DEF Restart
<1>2. registry \in Seq(Seals) /\ Len(registry) \in Nat
  BY DEF TypeOK
<1>3. ASSUME NEW i \in 1 .. n
      PROVE  /\ registry'[i] \in Seals /\ registry'[i].session = registry[i].session
             /\ registry'[i].count = registry[i].count
             /\ registry'[i].whole => registry[i].whole
  <2>1. PICK l \in Seals : l = registry[i]
    BY <1>2
  <2>2. PICK w \in BOOLEAN : w = (l.whole /\ i \notin torn)
    BY DEF Seals
  <2>3. registry'[i] = [l EXCEPT !.whole = w, !.synced = TRUE]
    BY <1>1, <2>1, <2>2
  <2>4. registry'[i] = [session |-> l.session, count |-> l.count, whole |-> w,
                        synced |-> TRUE]
    BY <2>1, <2>3 DEF Seals
  <2> QED BY <2>1, <2>2, <2>4 DEF Seals
<1>4. registry' \in Seq(Seals) /\ Len(registry') = n
  <2>1. registry' = [i \in 1 .. n |-> registry'[i]]
    BY <1>1, Zenon
  <2>2. registry' \in [1 .. n -> Seals] /\ n \in Nat
    BY <1>2, <1>3, <2>1
  <2> QED BY <2>2
<1> QED BY <1>2, <1>3, <1>4

LEMMA RestartKeeps ==
  ASSUME TypeOK, SessionInv, Restart
  PROVE  TypeOK' /\ SessionInv'
<1>1. /\ run < MaxRuns /\ run' = run + 1 /\ known' = {}
      /\ state' = [s \in Sessions |-> NewState] /\ gate' = OpenGate
      /\ pc' = [r \in Requests |-> "idle"]
      /\ UNCHANGED <<dir, receipts, kind, session>>
  BY DEF Restart
<1>2. Cardinality(Requests) \in Nat
  BY RequestsCounted
<1>3. TypeOK'
  <2>1. registry' \in Seq(Seals)
    BY RestartIs
  <2>2. run' \in Runs
    BY <1>1, SessionsAssumption DEF TypeOK, Runs
  <2>3. gate' \in Gates
    BY <1>1, <1>2 DEF OpenGate, Gates
  <2> QED BY <1>1, <2>1, <2>2, <2>3, NewStateTyped DEF TypeOK, Steps
<1>4. CountInv'
  <2>1. \A t \in Sessions : AllInFlight' = {} /\ InFlight(t)' = {} /\ Unstamped(t)' = {}
    BY <1>1 DEF AllInFlight, InFlight, Unstamped, Admitted
  <2>2. Cardinality({}) = 0
    BY FS_EmptySet
  <2>3. AllInFlight' = {}
    BY <1>1 DEF AllInFlight, Admitted
  <2>4. gate'.pending = 0 /\ ~ gate'.drained
    BY <1>1 DEF OpenGate
  <2>5. \A t \in Sessions : /\ state'[t] = NewState /\ state'[t].inFlight = 0
                            /\ state'[t].index = 0
    BY <1>1 DEF NewState
  <2>6. MaxIndex \in Nat
    BY SessionsAssumption
  <2>7. gate'.pending = Cardinality(AllInFlight')
    BY <2>2, <2>3, <2>4
  <2>8. \A t \in Sessions : /\ state'[t].inFlight = Cardinality(InFlight(t)')
                            /\ state'[t].index + Cardinality(Unstamped(t)') <= MaxIndex
    BY <2>1, <2>2, <2>5, <2>6
  <2> QED BY <2>4, <2>5, <2>7, <2>8 DEF CountInv
<1>5. ActionInv'
  BY <1>1 DEF ActionInv
<1>6. ASSUME NEW t \in Sessions PROVE OwnInv(t)'
  <2>1. OwnInv(t) /\ Held(t)' = Held(t)
    BY <1>1 DEF SessionInv, Held
  <2>2. state'[t].index = 0 /\ ~ state'[t].created
    BY <1>1 DEF NewState
  <2> QED BY <1>1, <2>1, <2>2 DEF OwnInv, Index
<1> QED BY <1>3, <1>4, <1>5, <1>6 DEF SessionInv

(* What turns up in the store, or is lost from it, is never in a session    *)
(* that this process made or has stamped into.                              *)
LEMMA StrangersKeep ==
  ASSUME TypeOK, SessionInv, NEW s \in Sessions, Appears(s) \/ LosesReceipt(s)
  PROVE  TypeOK' /\ SessionInv'
<1>1. UNCHANGED <<registry, run, known, state, gate, pc, kind, session>>
  BY DEF Appears, LosesReceipt, memory, requests
<1>2. CountInv' /\ ActionInv'
  <2>1. AllInFlight' = AllInFlight /\ \A t \in Sessions : /\ InFlight(t)' = InFlight(t)
                                                          /\ Unstamped(t)' = Unstamped(t)
    BY <1>1 DEF AllInFlight, InFlight, Unstamped
  <2> QED BY <1>1, <2>1 DEF SessionInv, CountInv, ActionInv
<1>3. OwnInv(s) /\ state[s] \in SessionState /\ 0 \in Index /\ MaxIndex \in Nat
      /\ receipts \in [Sessions -> [Index -> Receipts \cup {None}]]
  BY SessionsAssumption DEF SessionInv, TypeOK, Index
<1>4. CASE Appears(s) /\ receipts' = receipts
  <2>1. TypeOK'
    BY <1>1, <1>4 DEF Appears, TypeOK
  <2>2. \A t \in Sessions : OwnInv(t)'
    BY <1>1, <1>4 DEF SessionInv, OwnInv, Held, Appears
  <2> QED BY <1>2, <2>1, <2>2 DEF SessionInv
<1>5. CASE Appears(s) /\ receipts' = [receipts EXCEPT ![s][0] = [run |-> 0, prev |-> None]]
  <2>1. PICK rc \in Receipts : rc = [run |-> 0, prev |-> None]
    <3>1. 0 \in 0 .. MaxRuns
      BY SessionsAssumption
    <3>2. [run |-> 0, prev |-> None] \in Receipts
      BY <3>1 DEF Receipts
    <3> QED BY <3>2
  <2>2. /\ \A t \in Sessions : t # s => receipts'[t] = receipts[t]
        /\ \A i \in Index : receipts'[s][i] = IF i = 0 THEN rc ELSE receipts[s][i]
        /\ receipts' \in [Sessions -> [Index -> Receipts \cup {None}]]
    BY <1>3, <1>5, <2>1
  <2>3. TypeOK'
    BY <1>1, <1>5, <2>2 DEF Appears, TypeOK
  <2>4. s \notin dir /\ dir' = dir \cup {s}
    BY <1>5 DEF Appears
  <2>5. Held(s) = {} /\ ~ state[s].created /\ state[s].index = 0
    BY <1>3, <2>4 DEF OwnInv, Index, SessionState
  <2>6. ASSUME NEW t \in Sessions PROVE OwnInv(t)'
    <3>1. CASE t = s
      BY <1>1, <2>4, <2>5, <3>1 DEF OwnInv, Index
    <3>2. CASE t # s
      BY <1>1, <2>2, <2>4, <3>2 DEF SessionInv, OwnInv, Held
    <3> QED BY <3>1, <3>2
  <2> QED BY <1>2, <2>3, <2>6 DEF SessionInv
<1>6. CASE LosesReceipt(s)
  <2>1. PICK i \in Held(s) : /\ receipts[s][i].run # run
                             /\ receipts' = [receipts EXCEPT ![s][i] = None]
    BY <1>6 DEF LosesReceipt
  <2>2. /\ \A t \in Sessions : t # s => receipts'[t] = receipts[t]
        /\ \A j \in Index : receipts'[s][j] = IF j = i THEN None ELSE receipts[s][j]
        /\ receipts' \in [Sessions -> [Index -> Receipts \cup {None}]] /\ dir' = dir
    BY <1>3, <1>6, <2>1 DEF Held, LosesReceipt
  <2>3. TypeOK'
    BY <1>1, <2>2 DEF TypeOK
  <2>4. i \in Index /\ ~ (i < state[s].index) /\ i \in Nat
    BY <1>3, <2>1 DEF Held, OwnInv, Index
  <2>5. ~ state[s].created
    BY <1>3, <2>1, <2>4 DEF OwnInv, SessionState
  <2>6. Held(s)' = Held(s) \ {i}
    BY <2>2 DEF Held
  <2>7. ASSUME NEW t \in Sessions PROVE OwnInv(t)'
    <3>1. CASE t = s
      BY <1>1, <1>3, <2>2, <2>4, <2>5, <2>6, <3>1 DEF OwnInv
    <3>2. CASE t # s
      BY <1>1, <2>2, <3>2 DEF SessionInv, OwnInv, Held
    <3> QED BY <3>1, <3>2
  <2> QED BY <1>2, <2>3, <2>7 DEF SessionInv
<1> QED BY <1>4, <1>5, <1>6 DEF Appears

LEMMA InitKeeps == Init => TypeOK /\ SessionInv
<1> SUFFICES ASSUME Init PROVE TypeOK /\ SessionInv
  OBVIOUS
<1>1. Cardinality(Requests) \in Nat
  BY RequestsCounted
<1>2. TypeOK
  <2>1. gate \in Gates
    BY <1>1 DEF Init, OpenGate, Gates
  <2>2. run \in Runs /\ registry \in Seq(Seals)
    BY SessionsAssumption DEF Init, Runs
  <2> QED BY <2>1, <2>2, NewStateTyped DEF Init, TypeOK, Steps
<1>3. CountInv
  <2>1. AllInFlight = {} /\ \A t \in Sessions : InFlight(t) = {} /\ Unstamped(t) = {}
    BY DEF Init, AllInFlight, InFlight, Unstamped, Admitted
  <2>2. Cardinality({}) = 0
    BY FS_EmptySet
  <2>3. gate.pending = 0 /\ ~ gate.drained
    BY DEF Init, OpenGate
  <2>4. \A t \in Sessions : /\ state[t] = NewState /\ state[t].inFlight = 0
                            /\ state[t].index = 0
    BY DEF Init, NewState
  <2> QED BY <2>1, <2>2, <2>3, <2>4, SessionsAssumption DEF CountInv
<1>4. ActionInv
  BY DEF Init, ActionInv
<1>5. ASSUME NEW t \in Sessions PROVE OwnInv(t)
  <2>1. Held(t) = {}
    BY DEF Init, Held
  <2>2. state[t].index = 0 /\ ~ state[t].created
    BY DEF Init, NewState
  <2> QED BY <2>1, <2>2 DEF OwnInv, Index
<1> QED BY <1>2, <1>3, <1>4, <1>5 DEF SessionInv

LEMMA NextKeeps ==
  ASSUME TypeOK, SessionInv, Next
  PROVE  TypeOK' /\ SessionInv'
<1>1. ASSUME NEW r \in Requests, Begin(r) PROVE TypeOK' /\ SessionInv'
  BY <1>1, BeginKeeps
<1>2. ASSUME NEW r \in Requests, RequestStep(r) PROVE TypeOK' /\ SessionInv'
  BY <1>2, MovesKeep, AdmitKeeps, AdmitActionKeeps, StampKeeps, AbandonKeeps,
     ReleaseKeeps DEF RequestStep
<1>3. ASSUME NEW s \in Sessions, SealSession(s) PROVE TypeOK' /\ SessionInv'
  BY <1>3, SealKeeps
<1>4. CASE CloseAdmission \/ OpenAdmission
  BY <1>4, GateKeeps
<1>5. CASE Restart
  BY <1>5, RestartKeeps
<1>6. CASE StrangerStep
  BY <1>6, StrangersKeep DEF StrangerStep
<1> QED BY <1>1, <1>2, <1>3, <1>4, <1>5, <1>6 DEF Next, SignerStep

LEMMA StutterKeeps ==
  ASSUME TypeOK, SessionInv, UNCHANGED vars
  PROVE  TypeOK' /\ SessionInv'
<1>1. TypeOK'
  BY DEF TypeOK, vars
<1>2. CountInv' /\ ActionInv'
  <2>1. AllInFlight' = AllInFlight /\ \A t \in Sessions : /\ InFlight(t)' = InFlight(t)
                                                          /\ Unstamped(t)' = Unstamped(t)
    BY DEF AllInFlight, InFlight, Unstamped, vars
  <2> QED BY <2>1 DEF SessionInv, CountInv, ActionInv, vars
<1>3. \A t \in Sessions : OwnInv(t)'
  BY DEF SessionInv, OwnInv, Held, vars
<1> QED BY <1>1, <1>2, <1>3 DEF SessionInv

(* The invariant says it: nothing is in flight once a closure is drained,   *)
(* and a write in flight has its session, made here, every receipt in it    *)
(* this run's.                                                              *)
LEMMA SessionInvSays ==
  ASSUME TypeOK, SessionInv
  PROVE  DrainedIsQuiet /\ WriteIsReceipted
<1>1. DrainedIsQuiet
  <2> SUFFICES ASSUME gate.drained, NEW r \in Requests, pc[r] \in Admitted PROVE FALSE
    BY DEF DrainedIsQuiet
  <2>1. PICK s \in Sessions : s = session[r]
    BY DEF TypeOK
  <2>2. gate.pending >= 1
    BY <2>1, InFlightIsCounted DEF SessionInv
  <2> QED BY <2>2 DEF SessionInv, CountInv
<1>2. WriteIsReceipted
  <2> SUFFICES ASSUME NEW r \in Requests, kind[r] = "action", pc[r] \in {"run", "stamp"},
                      NEW s \in Sessions, s = session[r]
               PROVE  /\ s \in dir /\ state[s].created
                      /\ Held(s) = 0 .. state[s].index - 1
                      /\ \A i \in Held(s) : receipts[s][i].run = run
    BY DEF WriteIsReceipted, TypeOK
  <2>1. state[s].created /\ OwnInv(s) /\ state[s].index \in Nat
    BY SessionsAssumption DEF SessionInv, ActionInv, TypeOK, SessionState
  <2>2. s \in dir /\ Held(s) = 0 .. state[s].index - 1 /\ Held(s) \subseteq Index
    BY <2>1 DEF OwnInv, Held
  <2>3. \A i \in Held(s) : i < state[s].index
    BY <2>1, <2>2
  <2> QED BY <2>1, <2>2, <2>3 DEF OwnInv
<1> QED BY <1>1, <1>2

(* In every store, whatever turns up in it or is lost from it: the session  *)
(* map, the counts and the gate are what they are declared to be, nothing   *)
(* admitted is in flight once a closure is drained, and every write that    *)
(* runs can be receipted (gate.go, act.go sessionOpen and admitAction).     *)
THEOREM SessionsAreSafe == Spec => [](TypeOK /\ DrainedIsQuiet /\ WriteIsReceipted)
<1>1. Init => TypeOK /\ SessionInv
  BY InitKeeps
<1>2. TypeOK /\ SessionInv /\ [Next]_vars => (TypeOK /\ SessionInv)'
  BY NextKeeps, StutterKeeps
<1>3. TypeOK /\ SessionInv => TypeOK /\ DrainedIsQuiet /\ WriteIsReceipted
  BY SessionInvSays
<1> QED BY <1>1, <1>2, <1>3, PTL DEF Spec

-----------------------------------------------------------------------------
(* The store that is the signer's own. *)

LEMMA LoadedIs ==
  ASSUME TypeOK, NEW s \in Sessions
  PROVE  Loaded(s) = {i \in 1 .. Len(registry) :
                        registry[i].session = s /\ registry[i].whole}
BY DEF Loaded, TypeOK

(* Receipts and seals that stay keep what is said of them. *)
LEMMA ReceiptsStay ==
  ASSUME StoreInv, UNCHANGED <<receipts, registry>>
  PROVE  /\ SealIsExact' /\ ChainHolds'
         /\ \A t \in Sessions : /\ Held(t)' = Held(t)
                                /\ SealedOnDisk(t)' = SealedOnDisk(t)
BY DEF StoreInv, SealIsExact, ChainHolds, Held, Loaded, SealedOnDisk

(* A session a step does not touch. *)
LEMMA OthersStay ==
  ASSUME NEW t \in Sessions, SealInv(t), Held(t)' = Held(t),
         SealedOnDisk(t)' = SealedOnDisk(t), run' = run, state'[t] = state[t],
         t \in known' <=> t \in known,
         \A q \in Requests : session'[q] = t => session[q] = t /\ pc'[q] = pc[q]
  PROVE  SealInv(t)'
BY DEF SealInv

(* A request moves on, and nothing else: what it has seen of the seal still *)
(* holds where it moves to.                                                 *)
LEMMA StoreMove ==
  ASSUME TypeOK, StoreInv, NEW r \in Requests, NEW step \in Steps,
         pc' = [pc EXCEPT ![r] = step],
         UNCHANGED <<receipts, registry, run, known, state>>,
         NEW s \in Sessions, session' = [session EXCEPT ![r] = s],
         step \in {"admit", "minted", "admitAction"} /\ SealedOnDisk(s) => state[s].sealed
  PROVE  StoreInv'
<1>1. \A t \in Sessions : /\ Held(t)' = Held(t)
                          /\ SealedOnDisk(t)' = SealedOnDisk(t)
  BY ReceiptsStay
<1>2. ASSUME NEW t \in Sessions PROVE SealInv(t)'
  <2>1. SealInv(t)
    BY DEF StoreInv
  <2>2. \A q \in Requests : /\ pc'[q] = IF q = r THEN step ELSE pc[q]
                            /\ session'[q] = IF q = r THEN s ELSE session[q]
    BY DEF TypeOK
  <2>3. \A q \in Requests :
          (pc'[q] \in {"admit", "minted", "admitAction"} /\ session'[q] = t
             /\ SealedOnDisk(t)) => state[t].sealed
    BY <2>1, <2>2 DEF SealInv
  <2> QED BY <1>1, <2>1, <2>3 DEF SealInv
<1> QED BY <1>2, ReceiptsStay DEF StoreInv

LEMMA StoreMoves ==
  ASSUME TypeOK, SessionInv, StoreInv, NEW r \in Requests,
         \/ Begin(r) \/ SeenHere(r) \/ Lookup(r) \/ SessionOpen(r)
         \/ SessionMintedHere(r) \/ RunSource(r) \/ StampFails(r)
  PROVE  StoreInv'
<1>1. UNCHANGED <<receipts, registry, run, known, state>>
  BY DEF Begin, SeenHere, Lookup, SessionOpen, SessionMintedHere, RunSource, StampFails,
         store, memory
<1>2. PICK s \in Sessions : s = session[r]
  BY DEF TypeOK
<1>3. \A step \in Steps :
        /\ Go(r, step) /\ session' = session
        /\ step \in {"admit", "minted", "admitAction"} /\ SealedOnDisk(s) => state[s].sealed
        => StoreInv'
  <2> SUFFICES ASSUME NEW step \in Steps, Go(r, step), session' = session,
                      step \in {"admit", "minted", "admitAction"} /\ SealedOnDisk(s)
                        => state[s].sealed
               PROVE  StoreInv'
    OBVIOUS
  <2>1. session' = [session EXCEPT ![r] = s] /\ pc' = [pc EXCEPT ![r] = step]
    BY <1>2 DEF TypeOK, Go
  <2> QED BY <1>1, <2>1, StoreMove
<1>4. SealInv(s)
  BY DEF StoreInv
<1>5. CASE Begin(r)
  <2>1. PICK t \in Sessions, step \in {"held", "open"} :
          session' = [session EXCEPT ![r] = t] /\ pc' = [pc EXCEPT ![r] = step]
    BY <1>5 DEF Begin, Go
  <2> QED BY <1>1, <2>1, StoreMove DEF Steps
<1>6. CASE SeenHere(r)
  <2>1. PICK step \in {"admit", "lookup"} : Go(r, step) /\ (step = "admit" => s \in known)
    BY <1>2, <1>6 DEF SeenHere
  <2> QED BY <1>3, <1>4, <1>6, <2>1 DEF SeenHere, SealInv, Steps
<1>7. CASE Lookup(r)
  <2>1. PICK step \in {"admit", "idle"} : Go(r, step) /\ (step = "admit" => ~ SealedOnDisk(s))
    BY <1>2, <1>7 DEF Lookup
  <2> QED BY <1>3, <1>7, <2>1 DEF Lookup, Steps
<1>8. CASE SessionOpen(r)
  <2>1. PICK step \in {"minted", "idle"} : Go(r, step) /\ (step = "minted" => ~ SealedOnDisk(s))
    BY <1>2, <1>8 DEF SessionOpen
  <2> QED BY <1>3, <1>8, <2>1 DEF SessionOpen, Steps
<1>9. CASE SessionMintedHere(r)
  <2>1. PICK step \in {"admitAction", "idle"} : Go(r, step)
    BY <1>9 DEF SessionMintedHere
  <2>2. SealedOnDisk(s) => state[s].sealed
    BY <1>2, <1>4, <1>9 DEF SealInv, SessionMintedHere
  <2> QED BY <1>3, <1>9, <2>1, <2>2 DEF SessionMintedHere, Steps
<1>10. CASE RunSource(r)
  <2>1. PICK step \in {"stamp", "release", "abandon"} : Go(r, step)
    BY <1>10 DEF RunSource
  <2> QED BY <1>3, <1>10, <2>1 DEF RunSource, Steps
<1>11. CASE StampFails(r)
  <2>1. Go(r, "release")
    BY <1>11 DEF StampFails
  <2> QED BY <1>3, <1>11, <2>1 DEF StampFails, Steps
<1> QED BY <1>5, <1>6, <1>7, <1>8, <1>9, <1>10, <1>11

(* One record of the map changes and a request of its session moves on: it  *)
(* is enough that the record agrees with the receipts and with the seal.    *)
LEMMA StoreUpdated ==
  ASSUME TypeOK, StoreInv, NEW r \in Requests, NEW s \in Sessions, s = session[r],
         NEW step \in Steps, Go(r, step), UNCHANGED <<receipts, registry, run, session>>,
         NEW new, state' = [state EXCEPT ![s] = new],
         known' = known \cup {s} \/ known' = known \ {s},
         step \notin {"admit", "minted", "admitAction"},
         new.index = state[s].index, new.prev = state[s].prev,
         new.sealed => state[s].sealed /\ s \in known' /\ new.inFlight = 0,
         SealedOnDisk(s) /\ s \in known' => new.sealed,
         state[s].sealed => new.sealed,
         s \in known' /\ new.inFlight = 0 => new.index > 0 \/ new.created
  PROVE  StoreInv'
<1>1. \A t \in Sessions : /\ Held(t)' = Held(t)
                          /\ SealedOnDisk(t)' = SealedOnDisk(t)
  BY ReceiptsStay
<1>2. \A q \in Requests : pc'[q] = IF q = r THEN step ELSE pc[q]
  BY DEF TypeOK, Go
<1>3. \A t \in Sessions : state'[t] = IF t = s THEN new ELSE state[t]
  BY DEF TypeOK
<1>4. ASSUME NEW t \in Sessions, t # s PROVE SealInv(t)'
  <2>1. SealInv(t)
    BY DEF StoreInv
  <2>2. t \in known' <=> t \in known
    BY <1>4
  <2>3. \A q \in Requests : session'[q] = t => session[q] = t /\ pc'[q] = pc[q]
    BY <1>2, <1>4
  <2>4. state'[t] = state[t] /\ Held(t)' = Held(t) /\ SealedOnDisk(t)' = SealedOnDisk(t)
    BY <1>1, <1>3, <1>4
  <2> QED BY <2>1, <2>2, <2>3, <2>4, OthersStay
<1>5. SealInv(s)'
  <2>1. SealInv(s) /\ state'[s] = new
    BY <1>3 DEF StoreInv
  <2>2. \A q \in Requests :
          (pc'[q] \in {"admit", "minted", "admitAction"} /\ session'[q] = s
             /\ SealedOnDisk(s)) => new.sealed
    BY <1>2, <2>1 DEF SealInv
  <2> QED BY <1>1, <2>1, <2>2 DEF SealInv
<1> QED BY <1>4, <1>5, ReceiptsStay DEF StoreInv

LEMMA StoreAdmit ==
  ASSUME TypeOK, SessionInv, StoreInv, NEW r \in Requests, Admit(r) \/ AdmitAction(r)
  PROVE  StoreInv'
<1>1. PICK s \in Sessions : s = session[r]
  BY DEF TypeOK
<1>2. /\ pc[r] \in {"admit", "admitAction"}
      /\ UNCHANGED <<receipts, registry, run, session>>
  BY DEF Admit, AdmitAction, store
<1>3. SealInv(s) /\ state[s] \in SessionState /\ Cardinality(Requests) \in Nat
  BY RequestsCounted DEF StoreInv, TypeOK
<1>4. CASE Go(r, "idle") /\ UNCHANGED <<known, state>>
  <2>1. session' = [session EXCEPT ![r] = s] /\ "idle" \in Steps
    BY <1>1, <1>2 DEF TypeOK, Steps
  <2> QED BY <1>2, <1>4, <2>1, StoreMove DEF Go
<1>5. CASE /\ Go(r, "idle") /\ Forget(s) /\ ~ state[s].sealed
           /\ state[s].index = 0 /\ state[s].inFlight = 0
  <2>1. /\ state' = [state EXCEPT ![s] = NewState] /\ known' = known \ {s}
        /\ NewState.index = state[s].index /\ NewState.prev = state[s].prev
        /\ ~ NewState.sealed /\ "idle" \in Steps
    BY <1>3, <1>5 DEF Forget, NewState, SealInv, Steps
  <2>2. s \notin known'
    BY <2>1
  <2>3. PICK new : new = NewState
    OBVIOUS
  <2> QED BY <1>1, <1>2, <1>5, <2>1, <2>2, <2>3, StoreUpdated
<1>6. ASSUME NEW new, ~ state[s].sealed, Go(r, "run"), Update(s, new),
             new.index = state[s].index, new.prev = state[s].prev, ~ new.sealed,
             new.inFlight = state[s].inFlight + 1
      PROVE  StoreInv'
  <2>1. ~ SealedOnDisk(s)
    BY <1>1, <1>2, <1>3, <1>6 DEF SealInv
  <2>2. new.inFlight # 0
    BY <1>3, <1>6 DEF SessionState
  <2>3. "run" \in Steps /\ known' = known \cup {s} /\ state' = [state EXCEPT ![s] = new]
    BY <1>6 DEF Steps, Update
  <2> QED BY <1>1, <1>2, <1>6, <2>1, <2>2, <2>3, StoreUpdated
<1>7. CASE Admit(r)
  <2>1. PICK new : new = [state[s] EXCEPT !.inFlight = @ + 1]
    OBVIOUS
  <2>2. /\ new.index = state[s].index /\ new.prev = state[s].prev
        /\ new.sealed = state[s].sealed /\ new.inFlight = state[s].inFlight + 1
    BY <1>3, <2>1 DEF SessionState
  <2>3. \/ Go(r, "idle") /\ UNCHANGED <<known, state>>
        \/ ~ state[s].sealed /\ Update(s, new) /\ Go(r, "run")
    BY <1>1, <1>7, <2>1 DEF Admit, memory
  <2> QED BY <1>4, <1>6, <2>2, <2>3
<1>8. CASE AdmitAction(r)
  <2>1. PICK new : new = [state[s] EXCEPT !.created = TRUE, !.inFlight = @ + 1]
    OBVIOUS
  <2>2. /\ new.index = state[s].index /\ new.prev = state[s].prev
        /\ new.sealed = state[s].sealed /\ new.inFlight = state[s].inFlight + 1
    BY <1>3, <2>1 DEF SessionState
  <2>3. \/ Go(r, "idle") /\ UNCHANGED <<known, state>>
        \/ /\ Go(r, "idle") /\ Forget(s) /\ ~ state[s].sealed
           /\ state[s].index = 0 /\ state[s].inFlight = 0
        \/ ~ state[s].sealed /\ Update(s, new) /\ Go(r, "run")
    BY <1>1, <1>8, <2>1 DEF AdmitAction, memory
  <2> QED BY <1>4, <1>5, <1>6, <2>2, <2>3
<1> QED BY <1>7, <1>8

(* A request in flight is in a session that no seal of the registry is of. *)
LEMMA InFlightUnsealed ==
  ASSUME TypeOK, SessionInv, StoreInv, NEW r \in Requests, pc[r] \in Admitted,
         NEW s \in Sessions, s = session[r]
  PROVE  ~ SealedOnDisk(s) /\ ~ state[s].sealed /\ s \in known
<1>1. s \in known /\ state[s].inFlight >= 1
  BY InFlightIsCounted DEF SessionInv
<1>2. SealInv(s)
  BY DEF StoreInv
<1> QED BY <1>1, <1>2 DEF SealInv

LEMMA StoreRelease ==
  ASSUME TypeOK, SessionInv, StoreInv, NEW r \in Requests, Release(r)
  PROVE  StoreInv'
<1>1. PICK s \in Sessions : s = session[r]
  BY DEF TypeOK
<1>2. /\ pc[r] = "release" /\ Go(r, "idle") /\ s \in known
      /\ UNCHANGED <<receipts, registry, run, session>>
  BY <1>1, ReleaseIs
<1>3. PICK new \in SessionState :
              /\ new.inFlight = state[s].inFlight - 1 /\ new.index = state[s].index
              /\ state' = [state EXCEPT ![s] = new]
              /\ \/ /\ known' = known \cup {s}
                    /\ new.created = state[s].created /\ new.prev = state[s].prev
                    /\ new.sealed = state[s].sealed
                    /\ new.inFlight = 0 /\ new.index = 0 => new.sealed \/ new.created
                 \/ /\ known' = known \ {s} /\ new = NewState
                    /\ ~ state[s].sealed /\ ~ state[s].created
  BY <1>1, ReleaseIs
<1>4. ~ SealedOnDisk(s) /\ ~ state[s].sealed /\ SealInv(s)
  BY <1>1, <1>2, InFlightUnsealed DEF Admitted, StoreInv
<1>5. new.prev = state[s].prev /\ ~ new.sealed
  <2>1. CASE new.prev = state[s].prev /\ new.sealed = state[s].sealed
    BY <1>4, <2>1
  <2>2. CASE new = NewState
    BY <1>3, <1>4, <2>2 DEF NewState, SealInv
  <2> QED BY <1>3, <2>1, <2>2
<1>6. new.index \in Nat /\ "idle" \in Steps
  <2>1. new.index \in 0 .. MaxIndex
    BY <1>3 DEF SessionState
  <2> QED BY <2>1, SessionsAssumption DEF Steps
<1>7. s \in known' /\ new.inFlight = 0 => new.index > 0 \/ new.created
  <2>1. s \in known' => (new.inFlight = 0 /\ new.index = 0 => new.sealed \/ new.created)
    BY <1>3, Zenon
  <2>2. new.index = 0 \/ new.index > 0
    BY <1>6
  <2> QED BY <1>5, <2>1, <2>2
<1> QED BY <1>1, <1>2, <1>3, <1>4, <1>5, <1>6, <1>7, StoreUpdated

LEMMA StoreAbandon ==
  ASSUME TypeOK, SessionInv, StoreInv, NEW r \in Requests, AbandonUnminted(r)
  PROVE  StoreInv'
<1>1. PICK s \in Sessions : s = session[r]
  BY DEF TypeOK
<1>2. /\ pc[r] = "abandon" /\ Go(r, "release") /\ "release" \in Steps
      /\ UNCHANGED <<receipts, registry, run, known, session>>
  BY DEF AbandonUnminted, Steps
<1>3. CASE state' = state
  <2>1. session' = [session EXCEPT ![r] = s]
    BY <1>1, <1>2 DEF TypeOK
  <2> QED BY <1>2, <1>3, <2>1, StoreMove DEF Go
<1>4. CASE /\ state[s].inFlight = 1
           /\ state' = [state EXCEPT ![s] = [state[s] EXCEPT !.created = FALSE]]
  <2>1. PICK new : new = [state[s] EXCEPT !.created = FALSE]
    OBVIOUS
  <2>2. /\ new.index = state[s].index /\ new.prev = state[s].prev
        /\ new.sealed = state[s].sealed /\ new.inFlight = state[s].inFlight
    BY <2>1 DEF TypeOK, SessionState
  <2>3. ~ SealedOnDisk(s) /\ ~ state[s].sealed /\ s \in known
    BY <1>1, <1>2, InFlightUnsealed DEF Admitted
  <2>4. known' = known \cup {s} /\ new.inFlight # 0
    BY <1>2, <1>4, <2>2, <2>3
  <2>5. state' = [state EXCEPT ![s] = new]
    BY <1>4, <2>1
  <2> QED BY <1>1, <1>2, <2>2, <2>3, <2>4, <2>5, StoreUpdated
<1> QED BY <1>1, <1>3, <1>4 DEF AbandonUnminted

(* A stamp extends the chain of its session by one: the receipts were the   *)
(* first ones, up to the index, so none is skipped and none follows.        *)
LEMMA StoreStamp ==
  ASSUME TypeOK, SessionInv, StoreInv, NEW r \in Requests, Stamp(r)
  PROVE  StoreInv'
<1>1. PICK s \in Sessions : s = session[r]
  BY DEF TypeOK
<1>2. pc[r] = "stamp" /\ Go(r, "release") /\ "release" \in Steps
  BY DEF Stamp, Steps
<1>3. CASE UNCHANGED <<receipts, registry, run, memory, kind, session>>
  <2>1. session' = [session EXCEPT ![r] = s]
    BY <1>1, <1>3 DEF TypeOK
  <2> QED BY <1>2, <1>3, <2>1, StoreMove DEF Go, memory
<1>4. ASSUME NEW i \in Index, NEW b \in BOOLEAN, i = state[s].index, Stamps(r, s, i, b)
      PROVE  StoreInv'
  <2>1. PICK rc : rc = [run |-> run, prev |-> state[s].prev]
    OBVIOUS
  <2>2. /\ \A t \in Sessions : t # s => receipts'[t] = receipts[t] /\ state'[t] = state[t]
        /\ \A j \in Index : receipts'[s][j] = IF j = i THEN rc ELSE receipts[s][j]
        /\ receipts[s][i] = None
        /\ UNCHANGED <<registry, run, known, session>>
    BY <1>4, <2>1 DEF TypeOK, Stamps
  <2>3. /\ state'[s].index = i + 1 /\ state'[s].prev = <<run, i>>
        /\ state'[s].sealed = state[s].sealed /\ state'[s].inFlight = state[s].inFlight
    BY <1>4 DEF TypeOK, Stamps
  <2>4. rc.run = run /\ rc.prev = state[s].prev /\ rc # None
    BY <2>1, SessionsAssumption DEF SessionState, TypeOK, Runs, Signatures, Index
  <2>5. /\ OwnInv(s) /\ SealInv(s) /\ i \in Nat
        /\ ~ SealedOnDisk(s) /\ ~ state[s].sealed /\ s \in known /\ state[s].inFlight >= 1
    BY <1>1, <1>2, InFlightUnsealed, InFlightIsCounted
       DEF SessionInv, StoreInv, Index, Admitted
  <2>6. Held(s) = 0 .. i - 1
    <3>1. CASE i > 0
      BY <1>4, <2>5, <3>1 DEF SealInv
    <3>2. CASE i = 0
      <4>1. 0 \notin Held(s)
        BY <2>2, <3>2 DEF Held
      <4>2. \A j \in Held(s) : j \in Nat /\ 0 \in 0 .. j
        BY DEF Held, Index
      <4>3. Held(s) = {}
        BY <2>5, <4>1, <4>2 DEF SealInv
      <4> QED BY <3>2, <4>3
    <3> QED BY <2>5, <3>1, <3>2
  <2>7. /\ Held(s)' = 0 .. i
        /\ \A t \in Sessions : t # s => Held(t)' = Held(t)
    <3>1. Held(s)' = Held(s) \cup {i}
      BY <2>2, <2>4 DEF Held
    <3>2. \A t \in Sessions : t # s => Held(t)' = Held(t)
      BY <2>2 DEF Held
    <3> QED BY <2>5, <2>6, <3>1, <3>2
  <2>8. \A t \in Sessions : Loaded(t)' = Loaded(t) /\ SealedOnDisk(t)' = SealedOnDisk(t)
    BY <2>2 DEF Loaded, SealedOnDisk
  <2>9. SealIsExact'
    <3> SUFFICES ASSUME NEW t \in Sessions, NEW k \in Loaded(t)
                 PROVE  Held(t)' = 0 .. registry[k].count - 1
      BY <2>2, <2>8 DEF SealIsExact
    <3>1. t # s
      BY <2>5 DEF SealedOnDisk
    <3> QED BY <2>7, <3>1 DEF StoreInv, SealIsExact
  <2>10. ChainHolds'
    <3> SUFFICES ASSUME NEW t \in Sessions, NEW j \in Held(t)'
                 PROVE  receipts'[t][j].prev =
                          IF j = 0 \/ receipts'[t][j].run = 0 THEN None
                          ELSE <<receipts'[t][j - 1].run, j - 1>>
      BY DEF ChainHolds
    <3>1. CASE t # s
      BY <2>2, <2>7, <3>1 DEF StoreInv, ChainHolds
    <3>2. CASE t = s /\ j # i
      <4>1. j \in Held(s) /\ j \in 0 .. i - 1 /\ j \in Index
        BY <2>5, <2>6, <2>7, <3>2 DEF Held
      <4>2. receipts'[s][j] = receipts[s][j]
        BY <2>2, <3>2, <4>1
      <4>3. j # 0 => j - 1 \in Index /\ j - 1 # i
        BY <2>5, <4>1, SessionsAssumption DEF Index
      <4>4. j # 0 => receipts'[s][j - 1] = receipts[s][j - 1]
        BY <2>2, <4>3
      <4> QED BY <3>2, <4>1, <4>2, <4>4 DEF StoreInv, ChainHolds
    <3>3. CASE t = s /\ j = i
      <4>1. receipts'[s][i].prev = state[s].prev /\ receipts'[s][i].run = run
        BY <2>2, <2>4
      <4>2. run # 0
        BY SessionsAssumption DEF TypeOK, Runs
      <4>3. CASE i = 0
        BY <1>4, <2>5, <3>3, <4>1, <4>3 DEF SealInv
      <4>4. CASE i # 0
        <5>1. i - 1 \in Index /\ i - 1 # i /\ i - 1 < i
          BY <2>5, <4>4, SessionsAssumption DEF Index
        <5>2. receipts'[s][i - 1].run = run
          BY <1>4, <2>2, <2>5, <5>1 DEF OwnInv
        <5>3. state[s].prev = <<run, i - 1>>
          BY <1>4, <2>5, <4>4 DEF SealInv
        <5> QED BY <3>3, <4>1, <4>2, <4>4, <5>2, <5>3
      <4> QED BY <4>3, <4>4
    <3> QED BY <3>1, <3>2, <3>3
  <2>11. \A q \in Requests : pc'[q] = IF q = r THEN "release" ELSE pc[q]
    BY <1>2 DEF TypeOK, Go
  <2>12. ASSUME NEW t \in Sessions, t # s PROVE SealInv(t)'
    <3>1. SealInv(t)
      BY DEF StoreInv
    <3>2. t \in known' <=> t \in known
      BY <2>2
    <3>3. \A q \in Requests : session'[q] = t => session[q] = t /\ pc'[q] = pc[q]
      BY <1>1, <2>2, <2>11, <2>12
    <3>4. /\ state'[t] = state[t] /\ Held(t)' = Held(t) /\ run' = run
          /\ SealedOnDisk(t)' = SealedOnDisk(t)
      BY <2>2, <2>7, <2>8, <2>12
    <3> QED BY <3>1, <3>2, <3>3, <3>4, OthersStay
  <2>13. SealInv(s)'
    <3>1. \A j \in Held(s)' : 0 .. j \subseteq Held(s)'
      BY <2>5, <2>7
    <3>2. state'[s].index # 0 /\ state'[s].index > 0 /\ state'[s].index - 1 = i
      BY <2>3, <2>5
    <3>3. ~ SealedOnDisk(s)'
      BY <2>5, <2>8
    <3> QED BY <2>2, <2>3, <2>5, <2>7, <3>1, <3>2, <3>3 DEF SealInv
  <2> QED BY <2>9, <2>10, <2>12, <2>13 DEF StoreInv
<1> QED BY <1>1, <1>3, <1>4, StampIs

(* A seal counts what the session holds: nothing is in flight, and what was *)
(* stamped, or was not, is the whole of it.                                 *)
LEMMA StoreSeal ==
  ASSUME TypeOK, SessionInv, StoreInv, NEW s \in Sessions, SealSession(s)
  PROVE  StoreInv'
<1>1. /\ s \in known /\ state[s].inFlight = 0 /\ ~ SealedOnDisk(s)
      /\ UNCHANGED <<receipts, run, known, pc, session>>
  BY DEF SealSession, requests
<1>2. /\ \A t \in Sessions : t # s => state'[t] = state[t]
      /\ state'[s].index = state[s].index /\ state'[s].prev = state[s].prev
      /\ state'[s].sealed /\ state'[s].inFlight = state[s].inFlight
      /\ state'[s].created = state[s].created
  <2>1. PICK new : new = [state[s] EXCEPT !.sealed = TRUE]
    OBVIOUS
  <2>2. state[s] \in SessionState
    BY DEF TypeOK
  <2>3. new = [index |-> state[s].index, prev |-> state[s].prev, sealed |-> TRUE,
               created |-> state[s].created, inFlight |-> state[s].inFlight]
    BY <2>1, <2>2 DEF SessionState
  <2>4. state' = [state EXCEPT ![s] = new]
    BY <2>1 DEF SealSession
  <2> QED BY <2>3, <2>4 DEF TypeOK
<1>3. /\ SealInv(s) /\ OwnInv(s) /\ state[s].index \in Nat
  BY SessionsAssumption DEF StoreInv, SessionInv, TypeOK, SessionState
<1>4. Held(s) = 0 .. state[s].index - 1
  BY <1>1, <1>3 DEF SealInv, OwnInv
<1>5. \A t \in Sessions : Held(t)' = Held(t)
  BY <1>1 DEF Held
<1>6. PICK reg, n : reg = registry' /\ n = Len(registry)
  OBVIOUS
<1>7. /\ n \in Nat /\ DOMAIN reg = 1 .. n + 1 /\ DOMAIN registry = 1 .. n
      /\ \A i \in 1 .. n : /\ reg[i].session = registry[i].session
                           /\ reg[i].count = registry[i].count
                           /\ reg[i].whole = registry[i].whole
      /\ reg[n + 1].session = s /\ reg[n + 1].count = state[s].index
  BY <1>6, SealIs DEF TypeOK
<1>8. \A t \in Sessions : t # s => Loaded(t)' = Loaded(t)
  <2> SUFFICES ASSUME NEW t \in Sessions, t # s PROVE Loaded(t)' = Loaded(t)
    OBVIOUS
  <2>1. Loaded(t)' = {i \in 1 .. n + 1 : reg[i].session = t /\ reg[i].whole}
    BY <1>6, <1>7 DEF Loaded
  <2>2. Loaded(t) = {i \in 1 .. n : registry[i].session = t /\ registry[i].whole}
    BY <1>7 DEF Loaded
  <2>3. \A i \in 1 .. n + 1 : i \in 1 .. n \/ i = n + 1
    BY <1>7
  <2> QED BY <1>7, <2>1, <2>2, <2>3
<1>9. Loaded(s)' \subseteq {n + 1}
  <2>1. Loaded(s) = {}
    BY <1>1 DEF SealedOnDisk
  <2>2. Loaded(s)' = {i \in 1 .. n + 1 : reg[i].session = s /\ reg[i].whole}
    BY <1>6, <1>7 DEF Loaded
  <2>3. Loaded(s) = {i \in 1 .. n : registry[i].session = s /\ registry[i].whole}
    BY <1>7 DEF Loaded
  <2>4. \A i \in 1 .. n + 1 : i \in 1 .. n \/ i = n + 1
    BY <1>7
  <2> QED BY <1>7, <2>1, <2>2, <2>3, <2>4
<1>10. SealIsExact'
  <2> SUFFICES ASSUME NEW t \in Sessions, NEW i \in Loaded(t)'
               PROVE  Held(t)' = 0 .. registry'[i].count - 1
    BY DEF SealIsExact
  <2>1. CASE t = s
    BY <1>4, <1>5, <1>6, <1>7, <1>9, <2>1
  <2>2. CASE t # s
    <3>1. i \in Loaded(t) /\ i \in 1 .. n
      BY <1>7, <1>8, <2>2 DEF Loaded
    <3>2. Held(t) = 0 .. registry[i].count - 1
      BY <3>1 DEF StoreInv, SealIsExact
    <3>3. registry'[i].count = registry[i].count
      BY <1>6, <1>7, <3>1
    <3> QED BY <1>5, <3>2, <3>3
  <2> QED BY <2>1, <2>2
<1>11. ChainHolds'
  BY <1>1, <1>5 DEF StoreInv, ChainHolds
<1>12. ASSUME NEW t \in Sessions, t # s PROVE SealInv(t)'
  <2>1. SealInv(t) /\ SealedOnDisk(t)' = SealedOnDisk(t)
    BY <1>8, <1>12 DEF StoreInv, SealedOnDisk
  <2> QED BY <1>1, <1>2, <1>5, <1>12, <2>1, OthersStay
<1>13. SealInv(s)'
  BY <1>1, <1>2, <1>3, <1>5 DEF SealInv
<1> QED BY <1>10, <1>11, <1>12, <1>13 DEF StoreInv

(* A restart loses the map and may lose seals, never a receipt. *)
LEMMA StoreRestart ==
  ASSUME TypeOK, StoreInv, Restart
  PROVE  StoreInv'
<1>1. /\ known' = {} /\ state' = [s \in Sessions |-> NewState]
      /\ pc' = [r \in Requests |-> "idle"] /\ receipts' = receipts
  BY DEF Restart
<1>2. \A t \in Sessions : Held(t)' = Held(t)
  BY <1>1 DEF Held
<1>3. PICK reg : reg = registry'
  OBVIOUS
<1>4. /\ \A i \in DOMAIN reg : /\ i \in DOMAIN registry
                               /\ reg[i].session = registry[i].session
                               /\ reg[i].count = registry[i].count
                               /\ reg[i].whole => registry[i].whole
  BY <1>3, RestartIs DEF TypeOK
<1>5. SealIsExact'
  <2> SUFFICES ASSUME NEW t \in Sessions, NEW i \in Loaded(t)'
               PROVE  Held(t)' = 0 .. registry'[i].count - 1
    BY DEF SealIsExact
  <2>1. i \in DOMAIN reg /\ reg[i].session = t /\ reg[i].whole
    BY <1>3 DEF Loaded
  <2>2. i \in Loaded(t) /\ reg[i].count = registry[i].count
    BY <1>4, <2>1 DEF Loaded
  <2>3. Held(t) = 0 .. registry[i].count - 1
    BY <2>2 DEF StoreInv, SealIsExact
  <2> QED BY <1>2, <1>3, <2>2, <2>3
<1>6. ChainHolds'
  BY <1>1, <1>2 DEF StoreInv, ChainHolds
<1>7. ASSUME NEW t \in Sessions PROVE SealInv(t)'
  <2>1. /\ state'[t].index = 0 /\ state'[t].prev = None /\ ~ state'[t].sealed
    BY <1>1 DEF NewState
  <2>2. SealInv(t)
    BY DEF StoreInv
  <2> QED BY <1>1, <1>2, <2>1, <2>2 DEF SealInv
<1> QED BY <1>5, <1>6, <1>7 DEF StoreInv

LEMMA StoreGate ==
  ASSUME TypeOK, StoreInv, CloseAdmission \/ OpenAdmission \/ UNCHANGED vars
  PROVE  StoreInv'
<1>1. UNCHANGED <<receipts, registry, run, known, state, pc, session>>
  BY DEF CloseAdmission, OpenAdmission, store, requests, vars
<1>2. ASSUME NEW t \in Sessions PROVE SealInv(t)'
  <2>1. SealInv(t) /\ Held(t)' = Held(t) /\ SealedOnDisk(t)' = SealedOnDisk(t)
    BY ReceiptsStay, <1>1 DEF StoreInv
  <2> QED BY <1>1, <2>1, OthersStay
<1> QED BY <1>1, <1>2, ReceiptsStay DEF StoreInv

LEMMA StoreKeeps ==
  ASSUME TypeOK, SessionInv, StoreInv, SignerStep
  PROVE  StoreInv'
<1>1. ASSUME NEW r \in Requests, Begin(r) \/ RequestStep(r) PROVE StoreInv'
  BY <1>1, StoreMoves, StoreAdmit, StoreStamp, StoreAbandon, StoreRelease DEF RequestStep
<1>2. ASSUME NEW s \in Sessions, SealSession(s) PROVE StoreInv'
  BY <1>2, StoreSeal
<1>3. CASE CloseAdmission \/ OpenAdmission
  BY <1>3, StoreGate
<1>4. CASE Restart
  BY <1>4, StoreRestart
<1> QED BY <1>1, <1>2, <1>3, <1>4 DEF SignerStep

LEMMA StoreInit == Init => StoreInv
<1> SUFFICES ASSUME Init PROVE StoreInv
  OBVIOUS
<1>1. \A t \in Sessions : Held(t) = {} /\ Loaded(t) = {}
  BY DEF Init, Held, Loaded
<1>2. \A t \in Sessions : SealInv(t)
  BY <1>1 DEF Init, SealInv, NewState, SealedOnDisk
<1> QED BY <1>1, <1>2 DEF StoreInv, SealIsExact, ChainHolds

LEMMA StoreInvSays ==
  ASSUME TypeOK, SessionInv, StoreInv
  PROVE  SealIsExact /\ ChainHolds /\ NoPhantomSeal /\ SealedIsQuiet
<1>1. NoPhantomSeal
  <2> SUFFICES ASSUME NEW s \in known, state[s].index = 0, state[s].inFlight = 0
               PROVE  s \in dir /\ state[s].created
    BY DEF NoPhantomSeal
  <2>1. s \in Sessions
    BY DEF TypeOK
  <2>2. SealInv(s) /\ OwnInv(s)
    BY <2>1 DEF StoreInv, SessionInv
  <2> QED BY <2>2 DEF SealInv, OwnInv
<1>2. SealedIsQuiet
  <2> SUFFICES ASSUME NEW r \in Requests, pc[r] \in Admitted,
                      NEW s \in Sessions, s = session[r]
               PROVE  ~ SealedOnDisk(s)
    BY DEF SealedIsQuiet, TypeOK
  <2> QED BY InFlightUnsealed
<1> QED BY <1>1, <1>2 DEF StoreInv

-----------------------------------------------------------------------------
(* Both stores at once. *)

BothInv == TypeOK /\ SessionInv /\ (holder = "own" => StoreInv)

LEMMA BothStores == MCSpec => []BothInv
<1>1. MCInit => BothInv
  BY InitKeeps, StoreInit DEF MCInit, BothInv
<1>2. BothInv /\ [MCNext]_mcvars => BothInv'
  <2> SUFFICES ASSUME BothInv, [MCNext]_mcvars PROVE BothInv'
    OBVIOUS
  <2>1. CASE UNCHANGED mcvars
    <3>1. UNCHANGED vars /\ holder' = holder
      BY <2>1 DEF mcvars
    <3> QED BY <3>1, StutterKeeps, StoreGate DEF BothInv
  <2>2. CASE holder = "own" /\ SignerStep /\ holder' = holder
    BY <2>2, NextKeeps, StoreKeeps DEF BothInv, Next
  <2>3. CASE holder = "shared" /\ Next /\ holder' = holder
    BY <2>3, NextKeeps DEF BothInv
  <2> QED BY <2>1, <2>2, <2>3 DEF MCNext
<1> QED BY <1>1, <1>2, PTL DEF MCSpec

(* In a store of the signer's own, what a seal says is so for good, for any *)
(* number of requests, sessions, receipts and starts: it counts the         *)
(* receipts its session has, they are one chain, and no session whose       *)
(* acquisitions all failed can be sealed (sealSession, stampInto, release). *)
THEOREM SealsStayTrue == MCSpec => []SealsAreTrue
<1>1. BothInv => SealsAreTrue
  BY StoreInvSays DEF BothInv, SealsAreTrue
<1> QED BY <1>1, BothStores, PTL

(* Nothing runs that must not: no source for a session whose seal loads,    *)
(* none once a closure is drained, and no write whose receipt has no place, *)
(* whatever turns up in a shared store (sealedElsewhere, gate.go, act.go    *)
(* sessionOpen).                                                            *)
THEOREM OnlyAdmittedRunsAlways == MCSpec => []OnlyAdmittedRuns
<1>1. BothInv => OnlyAdmittedRuns
  BY SessionInvSays, StoreInvSays DEF BothInv, OnlyAdmittedRuns
<1> QED BY <1>1, BothStores, PTL
=============================================================================
