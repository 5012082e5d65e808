-------------------------- MODULE KeyRotationProofs --------------------------
(***************************************************************************)
(* Proofs about KeyRotation, for every number of processes, keys, seals    *)
(* and deaths: where no --resume runs beside a rotate-key, the registry,   *)
(* the seeds and the gateway that serves agree at every moment.            *)
(***************************************************************************)
EXTENDS MCKeyRotation, WellFoundedInduction, FiniteSetTheorems, TLAPS

-----------------------------------------------------------------------------
(* Induction over the naturals, with a set for the property, and recursion, *)
(* with a function for its step.                                            *)

(* Every set of naturals that is not empty has a least element. *)
LEMMA Least ==
  ASSUME NEW T, T \subseteq Nat, T # {}
  PROVE  \E n \in T : \A m \in T : n <= m
<1>1. PICK R : R = OpToRel(<, Nat)
  OBVIOUS
<1>2. IsWellFoundedOn(R, Nat)
  BY <1>1, NatLessThanWellFounded
<1>3. PICK n \in T : \A m \in T : ~ (<<m, n>> \in R)
  BY <1>2, WFMin
<1>4. \A m \in T : ~ (m < n)
  <2> SUFFICES ASSUME NEW m \in T, m < n PROVE FALSE
    OBVIOUS
  <2>1. <<m, n>> \in R
    BY <1>1, <1>3 DEF OpToRel
  <2> QED BY <1>3, <2>1
<1> QED BY <1>3, <1>4

(* A set that holds 0 and, with a number, the next holds every natural. *)
LEMMA Induct ==
  ASSUME NEW T, 0 \in T, \A n \in Nat : n \in T => n + 1 \in T
  PROVE  Nat \subseteq T
<1> SUFFICES ASSUME Nat \ T # {} PROVE FALSE
  OBVIOUS
<1>1. PICK n \in Nat \ T : \A m \in Nat \ T : n <= m
  BY Least
<1>2. n # 0 /\ n - 1 \in Nat /\ n - 1 + 1 = n
  BY <1>1
<1>3. n - 1 \in T
  BY <1>1, <1>2
<1> QED BY <1>1, <1>2, <1>3

(* A function on 0 .. n whose every value comes from the one before it. *)
LEMMA Recursive ==
  ASSUME NEW V, NEW base \in V, NEW n \in Nat, NEW g \in [1 .. n -> [V -> V]]
  PROVE  \E c \in [0 .. n -> V] : /\ c[0] = base
                                  /\ \A i \in 1 .. n : c[i] = g[i][c[i - 1]]
<1>1. PICK T : T = {k \in Nat : k <= n => \E c \in [0 .. k -> V] :
                       c[0] = base /\ \A i \in 1 .. k : c[i] = g[i][c[i - 1]]}
  OBVIOUS
<1>2. 0 \in T
  <2>1. PICK c : c = [i \in 0 .. 0 |-> base]
    OBVIOUS
  <2>2. c \in [0 .. 0 -> V] /\ c[0] = base /\ \A i \in 1 .. 0 : c[i] = g[i][c[i - 1]]
    BY <2>1
  <2> QED BY <1>1, <2>2
<1>3. ASSUME NEW k \in Nat, k \in T PROVE k + 1 \in T
  <2> SUFFICES ASSUME k + 1 <= n
               PROVE  \E c \in [0 .. k + 1 -> V] :
                        c[0] = base /\ \A i \in 1 .. k + 1 : c[i] = g[i][c[i - 1]]
    BY <1>1
  <2>1. PICK c \in [0 .. k -> V] : c[0] = base /\ \A i \in 1 .. k : c[i] = g[i][c[i - 1]]
    BY <1>1, <1>3
  <2>2. PICK v \in V : v = g[k + 1][c[k]]
    <3>1. c[k] \in V /\ k + 1 \in 1 .. n
      BY <2>1
    <3> QED BY <3>1
  <2>3. PICK d : d = [i \in 0 .. k + 1 |-> IF i = k + 1 THEN v ELSE c[i]]
    OBVIOUS
  <2>4. d \in [0 .. k + 1 -> V]
    BY <2>1, <2>2, <2>3
  <2>5. d[0] = base
    BY <2>1, <2>3
  <2>6. ASSUME NEW i \in 1 .. k + 1 PROVE d[i] = g[i][d[i - 1]]
    <3>1. CASE i = k + 1
      <4>1. d[i] = v /\ d[i - 1] = c[k]
        BY <2>3, <3>1
      <4> QED BY <2>2, <3>1, <4>1
    <3>2. CASE i # k + 1
      <4>1. i \in 1 .. k /\ d[i] = c[i] /\ d[i - 1] = c[i - 1]
        BY <2>3, <3>2
      <4> QED BY <2>1, <4>1
    <3> QED BY <3>1, <3>2
  <2> QED BY <2>4, <2>5, <2>6
<1>4. n \in T
  BY <1>2, <1>3, Induct
<1> QED BY <1>1, <1>4


Findings == {"none", "forged", "order", "refused", "break"}
Walks == {w \in [keys : Seq(Keys), seals : SUBSET (1 .. MaxSeals), finding : Findings] :
            w.keys # <<>>}
Start == [keys |-> <<1>>, seals |-> {}, finding |-> "none"]

-----------------------------------------------------------------------------
(* What the walk of a registry computes. *)

LEMMA StartTypes == Start \in Walks /\ 1 \in Keys
<1>1. 1 \in Keys
  BY RotationAssumption DEF Keys
<1>2. <<1>> \in Seq(Keys) /\ <<1>> # <<>>
  BY <1>1
<1> QED BY <1>1, <1>2 DEF Start, Walks, Findings

LEMMA CurrentTypes ==
  ASSUME NEW w \in Walks
  PROVE  Current(w) \in Keys /\ Current(w) \in Range(w.keys) /\ Len(w.keys) \in Nat \ {0}
<1>1. w.keys \in Seq(Keys) /\ w.keys # <<>>
  BY DEF Walks
<1>2. Len(w.keys) \in 1 .. Len(w.keys) /\ Len(w.keys) \in Nat \ {0}
  BY <1>1
<1>3. w.keys[Len(w.keys)] \in Keys
  BY <1>1, <1>2
<1> QED BY <1>1, <1>2, <1>3 DEF Current, Range

LEMMA ReadLineTypes ==
  ASSUME NEW w \in Walks, NEW l \in Lines
  PROVE  ReadLine(w, l) \in Walks
<1>1. /\ w.keys \in Seq(Keys) /\ w.keys # <<>> /\ w.seals \in SUBSET (1 .. MaxSeals)
      /\ w.finding \in Findings
      /\ w = [keys |-> w.keys, seals |-> w.seals, finding |-> w.finding]
  BY DEF Walks
<1>2. CASE l \in SealLines
  <2>1. l.kind = "seal" /\ l.id \in 1 .. MaxSeals
    BY <1>2 DEF SealLines
  <2>2. CASE l.whole /\ l.key = Current(w)
    <3>1. ReadLine(w, l) = [w EXCEPT !.seals = w.seals \cup {l.id}]
      BY <2>1, <2>2 DEF ReadLine
    <3>2. w.seals \cup {l.id} \in SUBSET (1 .. MaxSeals)
      BY <1>1, <2>1
    <3> QED BY <1>1, <3>1, <3>2 DEF Walks
  <2>3. CASE ~ (l.whole /\ l.key = Current(w))
    BY <2>1, <2>3 DEF ReadLine
  <2> QED BY <2>2, <2>3
<1>3. CASE l \in RotationLines
  <2>1. l.kind # "seal" /\ l.r.to \in Keys
    BY <1>3 DEF RotationLines, Rotations
  <2>2. Follow(w, l) \in Findings
    BY DEF Follow, Findings
  <2>3. Append(w.keys, l.r.to) \in Seq(Keys) /\ Append(w.keys, l.r.to) # <<>>
    BY <1>1, <2>1
  <2>4. \/ ReadLine(w, l) = w
        \/ ReadLine(w, l) = [w EXCEPT !.keys = Append(w.keys, l.r.to)]
        \/ ReadLine(w, l) = [w EXCEPT !.finding = Follow(w, l)]
    BY <2>1 DEF ReadLine
  <2> QED BY <1>1, <2>2, <2>3, <2>4 DEF Walks
<1> QED BY <1>2, <1>3 DEF Lines

(* The walk is the last of a row of walks, each a line further. *)
LEMMA WalkIs ==
  ASSUME NEW lines \in Seq(Lines)
  PROVE  \E c \in [0 .. Len(lines) -> Walks] :
           /\ c[0] = Start
           /\ \A i \in 1 .. Len(lines) : c[i] = ReadLine(c[i - 1], lines[i])
           /\ Root(lines) = c[Len(lines)]
<1>1. PICK n \in Nat : n = Len(lines)
  OBVIOUS
<1>2. \A i \in 1 .. n : lines[i] \in Lines
  BY <1>1
<1>3. PICK g : g = [i \in 1 .. n |-> [w \in Walks |-> ReadLine(w, lines[i])]]
  OBVIOUS
<1>4. g \in [1 .. n -> [Walks -> Walks]]
  BY <1>2, <1>3, ReadLineTypes
<1>5. PICK c \in [0 .. n -> Walks] : c[0] = Start /\ \A i \in 1 .. n : c[i] = g[i][c[i - 1]]
  <2>1. Start \in Walks
    BY StartTypes
  <2> HIDE DEF Start, Walks
  <2>2. PICK V, base : V = Walks /\ base = Start
    OBVIOUS
  <2>3. base \in V /\ g \in [1 .. n -> [V -> V]]
    BY <1>4, <2>1, <2>2
  <2>4. \E c \in [0 .. n -> V] : c[0] = base /\ \A i \in 1 .. n : c[i] = g[i][c[i - 1]]
    BY <2>3, Recursive
  <2> QED BY <2>2, <2>4
<1>6. ASSUME NEW i \in 1 .. n PROVE c[i - 1] \in Walks /\ c[i] = ReadLine(c[i - 1], lines[i])
  <2>1. i - 1 \in 0 .. n
    BY <1>1
  <2>2. c[i - 1] \in Walks
    BY <1>5, <2>1
  <2> QED BY <1>3, <1>5, <2>2
<1>7. PICK f : f = [i \in 0 .. n |-> IF i = 0 THEN Start ELSE ReadLine(c[i - 1], lines[i])]
  OBVIOUS
<1>8. ASSUME NEW i \in 0 .. n PROVE c[i] = f[i]
  <2>1. CASE i = 0
    BY <1>5, <1>7, <2>1
  <2>2. CASE i # 0
    <3>1. i \in 1 .. n
      BY <1>1, <2>2
    <3> QED BY <1>6, <1>7, <2>2, <3>1
  <2> QED BY <2>1, <2>2
<1>9. c = f
  BY <1>5, <1>7, <1>8
<1>10. c = [i \in 0 .. n |-> IF i = 0 THEN Start ELSE ReadLine(c[i - 1], lines[i])]
  BY <1>7, <1>9
<1>11. PICK h : h = CHOOSE w0 : w0 = [i \in 0 .. n |-> IF i = 0 THEN Start ELSE ReadLine(w0[i - 1], lines[i])]
  OBVIOUS
<1>12. h = [i \in 0 .. n |-> IF i = 0 THEN Start ELSE ReadLine(h[i - 1], lines[i])]
  BY <1>10, <1>11
<1>13. ASSUME NEW i \in 1 .. n, h[i - 1] = c[i - 1] PROVE h[i] = c[i]
  <2>1. i \in 0 .. n /\ i # 0
    BY <1>1
  <2>2. h[i] = ReadLine(h[i - 1], lines[i])
    BY <1>12, <2>1
  <2> QED BY <1>6, <1>13, <2>2
<1>14. h[0] = c[0]
  <2>1. 0 \in 0 .. n
    BY <1>1
  <2> QED BY <1>5, <1>12, <2>1
<1>15. \A i \in 0 .. n : h[i] = c[i]
  <2>1. PICK T : T = {k \in Nat : k <= n => h[k] = c[k]}
    OBVIOUS
  <2>2. 0 \in T
    BY <1>14, <2>1
  <2>3. ASSUME NEW k \in Nat, k \in T PROVE k + 1 \in T
    <3>1. CASE k + 1 <= n
      <4>1. k + 1 \in 1 .. n /\ k + 1 - 1 = k /\ k <= n
        BY <3>1
      <4>2. h[k] = c[k]
        BY <2>1, <2>3, <4>1
      <4>3. h[k + 1] = c[k + 1]
        BY <1>13, <4>1, <4>2
      <4> QED BY <2>1, <4>3
    <3>2. CASE ~ (k + 1 <= n)
      BY <2>1, <3>2
    <3> QED BY <3>1, <3>2
  <2>4. Nat \subseteq T
    BY <2>2, <2>3, Induct
  <2> QED BY <2>1, <2>4
<1>16. h[n] = c[n]
  BY <1>1, <1>15
<1>17. Root(lines) = h[n]
  BY <1>1, <1>11 DEF Root, WalkRegistry, Start
<1> QED BY <1>1, <1>5, <1>6, <1>16, <1>17

LEMMA RootTypes ==
  ASSUME NEW lines \in Seq(Lines)
  PROVE  Root(lines) \in Walks
<1>1. PICK c \in [0 .. Len(lines) -> Walks] : Root(lines) = c[Len(lines)]
  BY WalkIs
<1>2. Len(lines) \in 0 .. Len(lines)
  OBVIOUS
<1> QED BY <1>1, <1>2

LEMMA RootOfNone == Root(<<>>) = Start
<1>1. <<>> \in Seq(Lines) /\ Len(<<>>) = 0
  OBVIOUS
<1>2. PICK c \in [0 .. Len(<<>>) -> Walks] : c[0] = Start /\ Root(<<>>) = c[Len(<<>>)]
  BY <1>1, WalkIs
<1> QED BY <1>1, <1>2

LEMMA RootOfAppend ==
  ASSUME NEW lines \in Seq(Lines), NEW l \in Lines
  PROVE  Root(Append(lines, l)) = ReadLine(Root(lines), l)
<1>1. PICK n \in Nat : n = Len(lines)
  OBVIOUS
<1>2. PICK more \in Seq(Lines) : more = Append(lines, l)
  <2>1. Append(lines, l) \in Seq(Lines)
    OBVIOUS
  <2> QED BY <2>1
<1>3. Len(more) = n + 1 /\ more[n + 1] = l /\ \A i \in 1 .. n : more[i] = lines[i]
  BY <1>1, <1>2
<1>4. PICK c \in [0 .. n -> Walks] :
        /\ c[0] = Start
        /\ \A i \in 1 .. n : c[i] = ReadLine(c[i - 1], lines[i])
        /\ Root(lines) = c[n]
  BY <1>1, WalkIs
<1>5. PICK d \in [0 .. n + 1 -> Walks] :
        /\ d[0] = Start
        /\ \A i \in 1 .. n + 1 : d[i] = ReadLine(d[i - 1], more[i])
        /\ Root(more) = d[n + 1]
  BY <1>3, WalkIs
<1>6. d[n] = c[n]
  <2>1. PICK T : T = {k \in Nat : k <= n => d[k] = c[k]}
    OBVIOUS
  <2>2. 0 \in T
    BY <1>4, <1>5, <2>1
  <2>3. ASSUME NEW k \in Nat, k \in T PROVE k + 1 \in T
    <3>1. CASE k + 1 <= n
      <4>1. k + 1 \in 1 .. n /\ k + 1 \in 1 .. n + 1 /\ k + 1 - 1 = k /\ k <= n
        BY <3>1
      <4>2. d[k] = c[k]
        BY <2>1, <2>3, <4>1
      <4>3. d[k + 1] = ReadLine(d[k], lines[k + 1]) /\ c[k + 1] = ReadLine(c[k], lines[k + 1])
        BY <1>3, <1>4, <1>5, <4>1
      <4> QED BY <2>1, <4>2, <4>3
    <3>2. CASE ~ (k + 1 <= n)
      BY <2>1, <3>2
    <3> QED BY <3>1, <3>2
  <2>4. Nat \subseteq T
    BY <2>2, <2>3, Induct
  <2> QED BY <2>1, <2>4
<1>7. d[n + 1] = ReadLine(d[n], l)
  <2>1. n + 1 \in 1 .. n + 1 /\ n + 1 - 1 = n
    OBVIOUS
  <2> QED BY <1>3, <1>5, <2>1
<1> QED BY <1>2, <1>4, <1>5, <1>6, <1>7

LEMMA LineTypes ==
  ASSUME NEW r \in Rotations, NEW part \in 1 .. Whole
  PROVE  Line(r, part) \in Lines
BY DEF Line, Lines, RotationLines

(* The walk past a rotation, and past one that breaks off. *)
Handed(w, k) == [w EXCEPT !.keys = Append(w.keys, k)]
Broken(w) == [w EXCEPT !.finding = "break"]

(* What a part of a rotation does to the walk that it is the next of, to a *)
(* key it has not seen.                                                    *)
LEMMA ReadPart ==
  ASSUME NEW w \in Walks, w.finding = "none", NEW r \in Rotations, NEW part \in 1 .. Whole,
         r.n = Len(w.keys), r.from = Current(w), r.to \notin Range(w.keys)
  PROVE  /\ part = 1 => ReadLine(w, Line(r, part)) = w
         /\ part \in {2, 3} => ReadLine(w, Line(r, part)) = Broken(w)
         /\ part >= 4 => ReadLine(w, Line(r, part)) = Handed(w, r.to)
<1>1. PICK l : l = Line(r, part)
  OBVIOUS
<1>2. l.kind = "rotation" /\ l.r = r /\ l.part = part /\ part \in Nat
  BY <1>1 DEF Line, Whole
<1>3. Followed(w) + 1 = Len(w.keys)
  BY CurrentTypes DEF Followed
<1>4. CASE part = 1
  BY <1>1, <1>2, <1>4 DEF ReadLine
<1>5. CASE part \in {2, 3}
  <2>1. Follow(w, l) = "break"
    BY <1>2, <1>3, <1>5 DEF Follow
  <2> QED BY <1>1, <1>2, <1>5, <2>1 DEF ReadLine, Broken
<1>6. CASE part >= 4
  <2>1. Follow(w, l) = "none"
    BY <1>2, <1>3, <1>6 DEF Follow
  <2> QED BY <1>1, <1>2, <1>6, <2>1 DEF ReadLine, Handed
<1> QED BY <1>4, <1>5, <1>6

LEMMA HandedIs ==
  ASSUME NEW w \in Walks, NEW k \in Keys, NEW v, v = Handed(w, k)
  PROVE  /\ Current(v) = k /\ Len(v.keys) = Len(w.keys) + 1
         /\ Range(v.keys) = Range(w.keys) \cup {k}
         /\ v.seals = w.seals /\ v.finding = w.finding
         /\ \A i \in DOMAIN v.keys : v.keys[i] = k \/ (i \in DOMAIN w.keys /\ v.keys[i] = w.keys[i])
<1>1. w.keys \in Seq(Keys) /\ v.keys = Append(w.keys, k) /\ v.seals = w.seals /\ v.finding = w.finding
  BY DEF Walks, Handed
<1>2. PICK s \in Seq(Keys) : s = w.keys
  BY <1>1
<1>3. Len(Append(s, k)) = Len(s) + 1 /\ Append(s, k)[Len(s) + 1] = k
  OBVIOUS
<1>4. \A i \in 1 .. Len(s) : Append(s, k)[i] = s[i]
  OBVIOUS
<1>5. DOMAIN s = 1 .. Len(s) /\ DOMAIN Append(s, k) = 1 .. Len(s) + 1 /\ Len(s) \in Nat
  BY <1>3
<1>6. ASSUME NEW i \in 1 .. Len(s) + 1
      PROVE  i = Len(s) + 1 \/ i \in 1 .. Len(s)
  BY <1>5
<1>7. Range(Append(s, k)) = Range(s) \cup {k}
  <2>1. Range(Append(s, k)) \subseteq Range(s) \cup {k}
    BY <1>3, <1>4, <1>5, <1>6 DEF Range
  <2>2. Range(s) \subseteq Range(Append(s, k))
    BY <1>4, <1>5 DEF Range
  <2>3. Len(s) + 1 \in 1 .. Len(s) + 1
    BY <1>5
  <2>4. k \in Range(Append(s, k))
    BY <1>3, <1>5, <2>3 DEF Range
  <2> QED BY <2>1, <2>2, <2>4
<1> QED BY <1>1, <1>2, <1>3, <1>4, <1>5, <1>6, <1>7 DEF Current

LEMMA ReadSeal ==
  ASSUME NEW w \in Walks, NEW l \in SealLines
  PROVE  /\ ReadLine(w, l).keys = w.keys /\ ReadLine(w, l).finding = w.finding
         /\ w.seals \subseteq ReadLine(w, l).seals
         /\ l.whole /\ l.key = Current(w) => l.id \in ReadLine(w, l).seals
<1>1. l.kind = "seal"
  BY DEF SealLines
<1>2. w \in [keys : Seq(Keys), seals : SUBSET (1 .. MaxSeals), finding : Findings]
  BY DEF Walks
<1>3. CASE l.whole /\ l.key = Current(w)
  <2>1. ReadLine(w, l) = [w EXCEPT !.seals = w.seals \cup {l.id}]
    BY <1>1, <1>3 DEF ReadLine
  <2> QED BY <1>2, <2>1
<1>4. CASE ~ (l.whole /\ l.key = Current(w))
  <2>1. ReadLine(w, l) = w
    BY <1>1, <1>4 DEF ReadLine
  <2> QED BY <1>4, <2>1
<1> QED BY <1>3, <1>4

(* A registry whose first continuation leaves the pinned key stays one. *)
LEMMA RootedAppend ==
  ASSUME NEW lines \in Seq(Lines), Rooted(lines), NEW l \in Lines,
         Continues(l) => l.r.from = Current(Root(lines)),
         ~ Continues(l) => Root(Append(lines, l)).keys = Root(lines).keys
  PROVE  Rooted(Append(lines, l))
<1>1. PICK n \in Nat : n = Len(lines)
  OBVIOUS
<1>2. PICK more : more = Append(lines, l)
  OBVIOUS
<1>3. /\ DOMAIN more = 1 .. n + 1 /\ DOMAIN lines = 1 .. n /\ more[n + 1] = l
      /\ \A i \in 1 .. n : more[i] = lines[i]
  BY <1>1, <1>2
<1>4. CASE Root(lines).keys = <<1>> /\ \A i \in DOMAIN lines : ~ Continues(lines[i])
  <2>1. Current(Root(lines)) = 1
    BY <1>4 DEF Current
  <2>2. \A i \in 1 .. n : ~ Continues(more[i])
    BY <1>3, <1>4
  <2>3. CASE Continues(l)
    <3>1. n + 1 \in DOMAIN more /\ Continues(more[n + 1]) /\ more[n + 1].r.from = 1
      BY <1>3, <2>1, <2>3
    <3>2. \A j \in 1 .. (n + 1) - 1 : ~ Continues(more[j])
      BY <2>2
    <3> QED BY <1>2, <3>1, <3>2 DEF Rooted
  <2>4. CASE ~ Continues(l)
    <3>1. Root(more).keys = <<1>>
      BY <1>2, <1>4, <2>4
    <3>2. \A i \in DOMAIN more : ~ Continues(more[i])
      <4> SUFFICES ASSUME NEW i \in 1 .. n + 1 PROVE ~ Continues(more[i])
        BY <1>3
      <4> QED BY <1>3, <2>2, <2>4
    <3> QED BY <1>2, <3>1, <3>2 DEF Rooted
  <2> QED BY <2>3, <2>4
<1>5. CASE \E i \in DOMAIN lines :
             /\ Continues(lines[i]) /\ lines[i].r.from = 1
             /\ \A j \in 1 .. i - 1 : ~ Continues(lines[j])
  <2>1. PICK i \in 1 .. n :
             /\ Continues(lines[i]) /\ lines[i].r.from = 1
             /\ \A j \in 1 .. i - 1 : ~ Continues(lines[j])
    BY <1>3, <1>5
  <2>2. i \in DOMAIN more /\ more[i] = lines[i]
    BY <1>3
  <2>3. \A j \in 1 .. i - 1 : ~ Continues(more[j])
    <3> SUFFICES ASSUME NEW j \in 1 .. i - 1 PROVE ~ Continues(more[j])
      OBVIOUS
    <3>1. j \in 1 .. n
      OBVIOUS
    <3> QED BY <1>3, <2>1, <3>1
  <2> QED BY <1>2, <2>1, <2>2, <2>3 DEF Rooted
<1> QED BY <1>4, <1>5 DEF Rooted

(* A reader that starts from its own key walks as every verifier does. *)
LEMMA OwnWalk ==
  ASSUME NEW lines \in Seq(Lines), Rooted(lines), NEW own \in Range(Root(lines).keys)
  PROVE  Walk(lines, own) = Root(lines)
<1>1. PICK rev : rev = {i \in DOMAIN lines : lines[i].kind = "rotation" /\ lines[i].part >= 4}
  OBVIOUS
<1>2. \A i \in DOMAIN lines : i \in rev <=> Continues(lines[i])
  BY <1>1 DEF Continues
<1>3. FirstKey(lines, own) = 1
  <2>1. CASE Root(lines).keys = <<1>> /\ \A i \in DOMAIN lines : ~ Continues(lines[i])
    <3>1. rev = {}
      BY <1>1, <1>2, <2>1
    <3>2. own = 1
      BY <2>1 DEF Range
    <3> QED BY <1>1, <3>1, <3>2 DEF FirstKey
  <2>2. CASE \E i \in DOMAIN lines :
               /\ Continues(lines[i]) /\ lines[i].r.from = 1
               /\ \A j \in 1 .. i - 1 : ~ Continues(lines[j])
    <3>1. PICK i \in DOMAIN lines :
               /\ Continues(lines[i]) /\ lines[i].r.from = 1
               /\ \A j \in 1 .. i - 1 : ~ Continues(lines[j])
      BY <2>2
    <3>2. i \in rev /\ i \in Nat \ {0} /\ rev \subseteq Nat \ {0}
      BY <1>1, <1>2, <3>1
    <3>3. \A j \in rev : i <= j
      <4> SUFFICES ASSUME NEW j \in rev, j < i PROVE FALSE
        BY <3>2
      <4>1. j \in 1 .. i - 1 /\ j \in DOMAIN lines
        BY <1>1, <3>2
      <4> QED BY <1>2, <3>1, <4>1
    <3>4. PICK k : k = CHOOSE m \in rev : \A j \in rev : m <= j
      OBVIOUS
    <3>5. k \in rev /\ \A j \in rev : k <= j
      BY <3>2, <3>3, <3>4
    <3>6. k = i
      BY <3>2, <3>3, <3>5
    <3>7. FirstKey(lines, own) = lines[k].r.from
      BY <1>1, <3>2, <3>4 DEF FirstKey
    <3> QED BY <3>1, <3>6, <3>7
  <2> QED BY <2>1, <2>2 DEF Rooted
<1> QED BY <1>3 DEF Walk, Root

-----------------------------------------------------------------------------
(* The invariant. *)

Inv == TypeOK /\ RotationInv

LEMMA TrunkTypes ==
  ASSUME TypeOK
  PROVE  Trunk \in Seq(Lines) /\ Root(Trunk) \in Walks /\ Root(registry) \in Walks
<1>1. Trunk \in Seq(Lines) /\ registry \in Seq(Lines)
  BY DEF TypeOK, Trunk, Kept, Records
<1> QED BY <1>1, RootTypes

LEMMA InitInv == Init => Inv
<1> SUFFICES ASSUME Init PROVE Inv
  OBVIOUS
<1>1. TypeOK
  BY StartTypes, RotationAssumption DEF Init, TypeOK, Steps, Keys
<1>2. ~ Kept /\ Trunk = <<>> /\ registry = <<>>
  BY RecordAssumption DEF Init, Kept, Trunk
<1>3. Root(Trunk) = Start
  BY <1>2, RootOfNone
<1>4. LockInv
  BY RotationAssumption DEF Init, LockInv, Locked, Rotating, Resuming
<1>5. TrunkInv
  <2>1. Rooted(<<>>)
    BY RootOfNone DEF Rooted, Start
  <2>2. Current(Start) = 1
    BY DEF Start, Current
  <2>3. Len(Start.keys) = 1 /\ \A i \in DOMAIN Start.keys : Start.keys[i] <= 1
    BY DEF Start
  <2>4. Start.finding = "none"
    BY DEF Start
  <2>5. next = None /\ seed = 1 /\ made = 1 /\ record = None /\ sealed = {} /\ seed # None
    BY RotationAssumption DEF Init
  <2>6. Rooted(Trunk)
    BY <1>2, <2>1
  <2>7. PICK w : w = Root(Trunk)
    OBVIOUS
  <2>8. /\ w.finding = "none" /\ sealed \subseteq w.seals /\ Len(w.keys) <= made
        /\ \A i \in DOMAIN w.keys : w.keys[i] <= made
        /\ next \in {made, None} /\ seed \in {Current(w), None}
    <3>1. w = Start
      BY <1>3, <2>7
    <3>2. w.finding = "none" /\ sealed \subseteq w.seals
      BY <2>4, <2>5, <3>1
    <3>3. Len(w.keys) <= made
      <4>1. w.keys = <<1>>
        BY <3>1 DEF Start
      <4>2. Len(w.keys) = 1
        BY <4>1
      <4> QED BY <2>5, <4>2
    <3>4. \A i \in DOMAIN w.keys : w.keys[i] <= made
      BY <2>3, <2>5, <3>1
    <3>5. next \in {made, None} /\ seed \in {Current(w), None}
      BY <2>2, <2>5, <3>1
    <3> QED BY <3>2, <3>3, <3>4, <3>5
  <2>9. seed # None /\ record # Torn /\ next = None
    BY <2>5, RotationAssumption
  <2> QED BY <2>6, <2>7, <2>8, <2>9 DEF TrunkInv
<1>6. KeptInv
  BY <1>2 DEF KeptInv
<1>7. ASSUME NEW p \in Procs PROVE Relies(p)
  BY DEF Init, Relies
<1> QED BY <1>1, <1>4, <1>5, <1>6, <1>7 DEF Inv, RotationInv

(* A process that returns relies on nothing. *)
LEMMA Returned ==
  ASSUME TypeOK, LockInv, NEW p \in Procs, Return(p)
  PROVE  /\ lock' \in Procs \cup {None} /\ pc' \in [Procs -> Steps]
         /\ key' \in [Procs -> Keys \cup {None}] /\ rec' \in [Procs -> Records \cup {None}]
         /\ LockInv' /\ Relies(p)'
         /\ \A q \in Procs \ {p} : pc'[q] = pc[q] /\ key'[q] = key[q] /\ rec'[q] = rec[q]
<1>1. /\ pc' = [pc EXCEPT ![p] = "idle"] /\ lock' = IF lock = p THEN None ELSE lock
      /\ key' = [key EXCEPT ![p] = None] /\ rec' = [rec EXCEPT ![p] = None]
  BY DEF Return, Go
<1>2. /\ pc \in [Procs -> Steps] /\ key \in [Procs -> Keys \cup {None}]
      /\ rec \in [Procs -> Records \cup {None}] /\ lock \in Procs \cup {None}
  BY DEF TypeOK
<1>3. /\ lock' \in Procs \cup {None} /\ pc' \in [Procs -> Steps]
      /\ key' \in [Procs -> Keys \cup {None}] /\ rec' \in [Procs -> Records \cup {None}]
  BY <1>1, <1>2 DEF Steps
<1>4. pc'[p] = "idle" /\ key'[p] = None
  BY <1>1, <1>2
<1>5. \A q \in Procs \ {p} : pc'[q] = pc[q] /\ key'[q] = key[q] /\ rec'[q] = rec[q]
  BY <1>1, <1>2
<1>6. "idle" \notin Locked /\ "idle" \notin Rotating /\ "idle" \notin Resuming
  BY DEF Locked, Rotating, Resuming
<1>7. LockInv'
  <2>1. ASSUME NEW q \in Procs PROVE lock' = q <=> pc'[q] \in Locked
    <3>1. CASE q = p
      BY <1>1, <1>4, <1>6, <3>1, RotationAssumption
    <3>2. CASE q # p
      BY <1>1, <1>5, <3>2, RotationAssumption DEF LockInv
    <3> QED BY <3>1, <3>2
  <2>2. ASSUME NEW q \in Procs, NEW s \in Procs
        PROVE  ~ (pc'[q] \in Rotating /\ pc'[s] \in Resuming)
    BY <1>4, <1>5, <1>6 DEF LockInv
  <2> QED BY <2>1, <2>2 DEF LockInv
<1>8. Relies(p)'
  BY <1>4 DEF Relies
<1> QED BY <1>3, <1>5, <1>7, <1>8

(* A process that goes on keeps the lock as it had it. *)
LEMMA GoesOn ==
  ASSUME TypeOK, LockInv, NEW p \in Procs, NEW s \in Steps, Go(p, s), lock' = lock,
         s \in Locked <=> pc[p] \in Locked,
         s \in Rotating => pc[p] \in Rotating, s \in Resuming => pc[p] \in Resuming
  PROVE  /\ pc' \in [Procs -> Steps] /\ pc'[p] = s /\ LockInv'
         /\ \A q \in Procs \ {p} : pc'[q] = pc[q]
<1>1. pc' = [pc EXCEPT ![p] = s]
  BY DEF Go
<1>2. pc \in [Procs -> Steps]
  BY DEF TypeOK
<1>3. pc' \in [Procs -> Steps] /\ pc'[p] = s /\ \A q \in Procs \ {p} : pc'[q] = pc[q]
  BY <1>1, <1>2
<1>4. ASSUME NEW q \in Procs PROVE lock' = q <=> pc'[q] \in Locked
  <2>1. CASE q = p
    BY <1>3, <2>1 DEF LockInv
  <2>2. CASE q # p
    BY <1>3, <2>2 DEF LockInv
  <2> QED BY <2>1, <2>2
<1>5. ASSUME NEW q \in Procs, NEW r \in Procs
      PROVE  ~ (pc'[q] \in Rotating /\ pc'[r] \in Resuming)
  <2>1. (pc'[q] \in Rotating => pc[q] \in Rotating) /\ (pc'[r] \in Resuming => pc[r] \in Resuming)
    BY <1>3
  <2> QED BY <2>1 DEF LockInv
<1> QED BY <1>3, <1>4, <1>5 DEF LockInv

LEMMA TakesLock ==
  ASSUME TypeOK, LockInv, NEW p \in Procs, NEW s \in Steps, Go(p, s), lock = None, lock' = p,
         s \in Locked, s \in Rotating => pc[p] \in Rotating, s \in Resuming => pc[p] \in Resuming
  PROVE  /\ pc' \in [Procs -> Steps] /\ pc'[p] = s /\ LockInv'
         /\ \A q \in Procs \ {p} : pc'[q] = pc[q]
<1>1. pc' = [pc EXCEPT ![p] = s]
  BY DEF Go
<1>2. pc \in [Procs -> Steps]
  BY DEF TypeOK
<1>3. pc' \in [Procs -> Steps] /\ pc'[p] = s /\ \A q \in Procs \ {p} : pc'[q] = pc[q]
  BY <1>1, <1>2
<1>4. ASSUME NEW q \in Procs PROVE lock' = q <=> pc'[q] \in Locked
  <2>1. CASE q = p
    BY <1>3, <2>1
  <2>2. CASE q # p
    BY <1>3, <2>2, RotationAssumption DEF LockInv
  <2> QED BY <2>1, <2>2
<1>5. ASSUME NEW q \in Procs, NEW r \in Procs
      PROVE  ~ (pc'[q] \in Rotating /\ pc'[r] \in Resuming)
  <2>1. (pc'[q] \in Rotating => pc[q] \in Rotating) /\ (pc'[r] \in Resuming => pc[r] \in Resuming)
    BY <1>3
  <2> QED BY <2>1 DEF LockInv
<1> QED BY <1>3, <1>4, <1>5 DEF LockInv

(* A step that leaves the files alone disturbs nobody else. *)
LEMMA Quiet ==
  ASSUME Inv, NEW p \in Procs, UNCHANGED <<beside, registry, made, sealed>>,
         stops' \in 0 .. MaxStops, lock' \in Procs \cup {None}, pc' \in [Procs -> Steps],
         key' \in [Procs -> Keys \cup {None}], rec' \in [Procs -> Records \cup {None}],
         LockInv', Relies(p)',
         \A q \in Procs \ {p} : pc'[q] = pc[q] /\ key'[q] = key[q] /\ rec'[q] = rec[q]
  PROVE  Inv'
<1>1. /\ seed' = seed /\ next' = next /\ kept' = kept /\ record' = record
      /\ registry' = registry /\ made' = made /\ sealed' = sealed
  BY DEF beside
<1>2. TypeOK'
  BY <1>1 DEF Inv, TypeOK
<1>3. Trunk' = Trunk /\ Kept' = Kept
  BY <1>1 DEF Trunk, Kept
<1>4. TrunkInv'
  BY <1>1, <1>3 DEF Inv, RotationInv, TrunkInv
<1>5. KeptInv'
  BY <1>1, <1>3 DEF Inv, RotationInv, KeptInv
<1>6. ASSUME NEW q \in Procs PROVE Relies(q)'
  <2>1. CASE q = p
    BY <2>1
  <2>2. CASE q # p
    <3>1. pc'[q] = pc[q] /\ key'[q] = key[q] /\ rec'[q] = rec[q]
      BY <2>2
    <3>2. Relies(q)
      BY DEF Inv, RotationInv
    <3> QED BY <1>1, <1>3, <3>1, <3>2 DEF Relies, AtWhole, AtPart
  <2> QED BY <2>1, <2>2
<1> QED BY <1>2, <1>4, <1>5, <1>6 DEF Inv, RotationInv

LEMMA QuietReturn ==
  ASSUME Inv, NEW p \in Procs, Return(p), UNCHANGED <<beside, registry, made, sealed>>,
         stops' \in 0 .. MaxStops
  PROVE  Inv'
BY Returned, Quiet DEF Inv, RotationInv

LEMMA QuietGo ==
  ASSUME Inv, NEW p \in Procs, NEW s \in Steps, Go(p, s), UNCHANGED <<beside, registry, Counts, lock>>,
         s \in Locked <=> pc[p] \in Locked,
         s \in Rotating => pc[p] \in Rotating, s \in Resuming => pc[p] \in Resuming,
         key' \in [Procs -> Keys \cup {None}], rec' \in [Procs -> Records \cup {None}],
         \A q \in Procs \ {p} : key'[q] = key[q] /\ rec'[q] = rec[q],
         pc'[p] = s => Relies(p)'
  PROVE  Inv'
<1>1. TypeOK /\ LockInv
  BY DEF Inv, RotationInv
<1>2. lock' = lock /\ made' = made /\ sealed' = sealed /\ stops' = stops
  BY DEF Counts
<1>3. /\ pc' \in [Procs -> Steps] /\ pc'[p] = s /\ LockInv'
      /\ \A q \in Procs \ {p} : pc'[q] = pc[q]
  BY <1>1, <1>2, GoesOn
<1>4. stops' \in 0 .. MaxStops /\ lock' \in Procs \cup {None}
  BY <1>1, <1>2 DEF TypeOK
<1>5. UNCHANGED <<beside, registry, made, sealed>>
  BY <1>2
<1>6. \A q \in Procs \ {p} : pc'[q] = pc[q] /\ key'[q] = key[q] /\ rec'[q] = rec[q]
  BY <1>3
<1> QED BY <1>3, <1>4, <1>5, <1>6, Quiet

LEMMA QuietContinue ==
  ASSUME Inv, NEW p \in Procs, NEW s \in Steps, Continue(p, s), UNCHANGED <<beside, registry, Counts>>,
         s \in Locked <=> pc[p] \in Locked,
         s \in Rotating => pc[p] \in Rotating, s \in Resuming => pc[p] \in Resuming,
         pc'[p] = s => Relies(p)'
  PROVE  Inv'
<1>1. Go(p, s) /\ lock' = lock /\ key' = key /\ rec' = rec
  BY DEF Continue
<1>2. key' \in [Procs -> Keys \cup {None}] /\ rec' \in [Procs -> Records \cup {None}]
  BY <1>1 DEF Inv, TypeOK
<1> QED BY <1>1, <1>2, QuietGo

(* A step that takes the lock when it is free. *)
LEMMA QuietLock ==
  ASSUME Inv, NEW p \in Procs, NEW s \in Steps, TakeLock(p, s), UNCHANGED <<beside, registry, Counts>>,
         s \in Locked, s \in Rotating => pc[p] \in Rotating, s \in Resuming => pc[p] \in Resuming,
         pc'[p] = s /\ key' = key /\ rec' = rec => Relies(p)'
  PROVE  Inv'
<1>1. TypeOK /\ LockInv
  BY DEF Inv, RotationInv
<1>2. made' = made /\ sealed' = sealed /\ stops' = stops
  BY DEF Counts
<1>3. stops' \in 0 .. MaxStops
  BY <1>1, <1>2 DEF TypeOK
<1>4. UNCHANGED <<beside, registry, made, sealed>>
  BY <1>2
<1>5. CASE lock = None
  <2>1. lock' = p /\ Go(p, s) /\ key' = key /\ rec' = rec
    BY <1>5 DEF TakeLock
  <2>2. /\ pc' \in [Procs -> Steps] /\ pc'[p] = s /\ LockInv'
        /\ \A q \in Procs \ {p} : pc'[q] = pc[q]
    BY <1>1, <1>5, <2>1, TakesLock
  <2>3. key' \in [Procs -> Keys \cup {None}] /\ rec' \in [Procs -> Records \cup {None}]
    BY <1>1, <2>1 DEF TypeOK
  <2>4. \A q \in Procs \ {p} : pc'[q] = pc[q] /\ key'[q] = key[q] /\ rec'[q] = rec[q]
    BY <2>1, <2>2
  <2>5. lock' \in Procs \cup {None}
    BY <2>1
  <2> QED BY <1>3, <1>4, <2>1, <2>2, <2>3, <2>4, <2>5, Quiet
<1>6. CASE lock # None
  BY <1>3, <1>4, <1>6, QuietReturn DEF TakeLock
<1> QED BY <1>5, <1>6

LEMMA RotateLockStep ==
  ASSUME Inv, NEW p \in Procs, RotateLock(p)
  PROVE  Inv'
<1>1. pc[p] = "lock" /\ TakeLock(p, "walk") /\ UNCHANGED <<beside, registry, Counts>> /\ Relies(p)
  BY DEF RotateLock, Inv, RotationInv
<1>2. "walk" \in Steps /\ "walk" \in Locked /\ ("walk" \in Rotating => pc[p] \in Rotating)
      /\ ("walk" \in Resuming => pc[p] \in Resuming)
  BY <1>1 DEF Steps, Locked, Rotating, Resuming
<1>3. ASSUME pc'[p] = "walk", key' = key, rec' = rec PROVE Relies(p)'
  <2>1. /\ seed' = seed /\ next' = next /\ record' = record /\ registry' = registry /\ made' = made
    BY <1>1 DEF beside, Counts
  <2>2. Trunk' = Trunk /\ Kept' = Kept
    BY <2>1 DEF Trunk, Kept
  <2> QED BY <1>1, <1>3, <2>1, <2>2 DEF Relies
<1> QED BY <1>1, <1>2, <1>3, QuietLock

LEMMA ResumeLockStep ==
  ASSUME Inv, NEW p \in Procs, ResumeLock(p)
  PROVE  Inv'
<1>1. pc[p] = "resumeLock" /\ TakeLock(p, "resumeWalk") /\ UNCHANGED <<beside, registry, Counts>> /\ Relies(p)
  BY DEF ResumeLock, Inv, RotationInv
<1>2. "resumeWalk" \in Steps /\ "resumeWalk" \in Locked /\ ("resumeWalk" \in Rotating => pc[p] \in Rotating)
      /\ ("resumeWalk" \in Resuming => pc[p] \in Resuming)
  BY <1>1 DEF Steps, Locked, Rotating, Resuming
<1>3. ASSUME pc'[p] = "resumeWalk", key' = key, rec' = rec PROVE Relies(p)'
  <2>1. /\ seed' = seed /\ next' = next /\ record' = record /\ registry' = registry /\ made' = made
    BY <1>1 DEF beside, Counts
  <2>2. Trunk' = Trunk /\ Kept' = Kept
    BY <2>1 DEF Trunk, Kept
  <2> QED BY <1>1, <1>3, <2>1, <2>2 DEF Relies
<1> QED BY <1>1, <1>2, <1>3, QuietLock

LEMMA GatewayLockStep ==
  ASSUME Inv, NEW p \in Procs, GatewayLock(p)
  PROVE  Inv'
<1>1. pc[p] = "gwLock" /\ TakeLock(p, "gwCheck") /\ UNCHANGED <<beside, registry, Counts>> /\ Relies(p)
  BY DEF GatewayLock, Inv, RotationInv
<1>2. "gwCheck" \in Steps /\ "gwCheck" \in Locked /\ ("gwCheck" \in Rotating => pc[p] \in Rotating)
      /\ ("gwCheck" \in Resuming => pc[p] \in Resuming)
  BY <1>1 DEF Steps, Locked, Rotating, Resuming
<1>3. ASSUME pc'[p] = "gwCheck", key' = key, rec' = rec PROVE Relies(p)'
  <2>1. /\ seed' = seed /\ next' = next /\ record' = record /\ registry' = registry /\ made' = made
    BY <1>1 DEF beside, Counts
  <2>2. Trunk' = Trunk /\ Kept' = Kept
    BY <2>1 DEF Trunk, Kept
  <2> QED BY <1>1, <1>3, <2>1, <2>2 DEF Relies
<1> QED BY <1>1, <1>2, <1>3, QuietLock

(* Where nothing is pending, or what is pending has been switched to, a     *)
(* reader's own walk is every verifier's.                                   *)
LEMMA OwnHolds ==
  ASSUME Inv, NEW p \in Procs, key[p] # None, ~ Kept \/ next = None
  PROVE  /\ Walk(registry, key[p]) = Root(registry)
         /\ Holds(registry, key[p]) => key[p] = Current(Root(registry))
         /\ Root(registry).finding = "none"
<1>1. Trunk = registry
  BY DEF Trunk
<1>2. Rooted(registry) /\ key[p] \in Range(Root(registry).keys) /\ Root(registry).finding = "none"
  BY <1>1 DEF Inv, RotationInv, TrunkInv, Relies
<1>3. registry \in Seq(Lines)
  BY DEF Inv, TypeOK
<1>4. Walk(registry, key[p]) = Root(registry)
  BY <1>2, <1>3, OwnWalk
<1> QED BY <1>2, <1>4 DEF Holds

LEMMA PendingBesideStep ==
  ASSUME Inv, NEW p \in Procs, PendingBeside(p)
  PROVE  Inv'
<1>1. pc[p] = "pending" /\ UNCHANGED <<beside, registry, Counts>> /\ Relies(p) /\ TypeOK
  BY DEF PendingBeside, Inv, RotationInv
<1>2. CASE ~ RotationPending
  <2>1. Continue(p, "lock")
    BY <1>2 DEF PendingBeside, ContinueIf
  <2>2. "lock" \in Steps /\ ("lock" \in Locked <=> pc[p] \in Locked) /\ ("lock" \in Rotating => pc[p] \in Rotating)
        /\ ("lock" \in Resuming => pc[p] \in Resuming)
    BY <1>1 DEF Steps, Locked, Rotating, Resuming
  <2>3. /\ seed' = seed /\ next' = next /\ record' = record /\ registry' = registry /\ made' = made
        /\ key' = key /\ rec' = rec
    BY <1>1, <2>1 DEF beside, Counts, Continue
  <2>4. Trunk' = Trunk /\ Kept' = Kept
    BY <2>3 DEF Trunk, Kept
  <2>5. ~ Kept
    BY <1>2, RecordAssumption DEF RotationPending, Kept
  <2>6. ASSUME pc'[p] = "lock" PROVE Relies(p)'
    BY <1>1, <2>3, <2>4, <2>6, <2>5 DEF Relies
  <2> QED BY <1>1, <2>1, <2>2, <2>6, QuietContinue
<1>3. CASE ~ (~ RotationPending)
  <2>1. Return(p)
    BY <1>3 DEF PendingBeside, ContinueIf
  <2>2. UNCHANGED <<beside, registry, made, sealed>> /\ stops' \in 0 .. MaxStops
    BY <1>1 DEF Counts, TypeOK
  <2> QED BY <2>1, <2>2, QuietReturn
<1> QED BY <1>2, <1>3

LEMMA WalkToRotateStep ==
  ASSUME Inv, NEW p \in Procs, WalkToRotate(p)
  PROVE  Inv'
<1>1. pc[p] = "walk" /\ UNCHANGED <<beside, registry, Counts>> /\ Relies(p) /\ TypeOK
  BY DEF WalkToRotate, Inv, RotationInv
<1>2. CASE Holds(registry, key[p]) /\ kept[Ordinal(p)] = None
  <2>1. Continue(p, "next")
    BY <1>2 DEF WalkToRotate, ContinueIf
  <2>2. "next" \in Steps /\ ("next" \in Locked <=> pc[p] \in Locked) /\ ("next" \in Rotating => pc[p] \in Rotating)
        /\ ("next" \in Resuming => pc[p] \in Resuming)
    BY <1>1 DEF Steps, Locked, Rotating, Resuming
  <2>3. /\ seed' = seed /\ next' = next /\ record' = record /\ registry' = registry /\ made' = made
        /\ key' = key /\ rec' = rec
    BY <1>1, <2>1 DEF beside, Counts, Continue
  <2>4. Trunk' = Trunk /\ Kept' = Kept
    BY <2>3 DEF Trunk, Kept
  <2>5. next = None => key[p] = Current(Root(registry))
    BY <1>1, <1>2, OwnHolds DEF Relies
  <2>6. ASSUME pc'[p] = "next" PROVE Relies(p)'
    BY <1>1, <2>3, <2>4, <2>6, <2>5 DEF Relies
  <2> QED BY <1>1, <2>1, <2>2, <2>6, QuietContinue
<1>3. CASE ~ (Holds(registry, key[p]) /\ kept[Ordinal(p)] = None)
  <2>1. Return(p)
    BY <1>3 DEF WalkToRotate, ContinueIf
  <2>2. UNCHANGED <<beside, registry, made, sealed>> /\ stops' \in 0 .. MaxStops
    BY <1>1 DEF Counts, TypeOK
  <2> QED BY <2>1, <2>2, QuietReturn
<1> QED BY <1>2, <1>3

LEMMA FindSeedsStep ==
  ASSUME Inv, NEW p \in Procs, FindSeeds(p)
  PROVE  Inv'
<1>1. pc[p] = "seeds" /\ UNCHANGED <<beside, registry, Counts>> /\ Relies(p) /\ TypeOK
  BY DEF FindSeeds, Inv, RotationInv
<1>2. CASE {rec[p].r.from, rec[p].r.to} \subseteq {seed, next, kept[rec[p].r.n]}
  <2>1. Continue(p, "resumeLock")
    BY <1>2 DEF FindSeeds, ContinueIf
  <2>2. "resumeLock" \in Steps /\ ("resumeLock" \in Locked <=> pc[p] \in Locked) /\ ("resumeLock" \in Rotating => pc[p] \in Rotating)
        /\ ("resumeLock" \in Resuming => pc[p] \in Resuming)
    BY <1>1 DEF Steps, Locked, Rotating, Resuming
  <2>3. /\ seed' = seed /\ next' = next /\ record' = record /\ registry' = registry /\ made' = made
        /\ key' = key /\ rec' = rec
    BY <1>1, <2>1 DEF beside, Counts, Continue
  <2>4. Trunk' = Trunk /\ Kept' = Kept
    BY <2>3 DEF Trunk, Kept
  <2>6. ASSUME pc'[p] = "resumeLock" PROVE Relies(p)'
    BY <1>1, <2>3, <2>4, <2>6 DEF Relies
  <2> QED BY <1>1, <2>1, <2>2, <2>6, QuietContinue
<1>3. CASE ~ ({rec[p].r.from, rec[p].r.to} \subseteq {seed, next, kept[rec[p].r.n]})
  <2>1. Return(p)
    BY <1>3 DEF FindSeeds, ContinueIf
  <2>2. UNCHANGED <<beside, registry, made, sealed>> /\ stops' \in 0 .. MaxStops
    BY <1>1 DEF Counts, TypeOK
  <2> QED BY <2>1, <2>2, QuietReturn
<1> QED BY <1>2, <1>3

LEMMA OrphanWalkStep ==
  ASSUME Inv, NEW p \in Procs, OrphanWalk(p)
  PROVE  Inv'
<1>1. pc[p] = "orphanWalk" /\ UNCHANGED <<beside, registry, Counts>> /\ Relies(p) /\ TypeOK
  BY DEF OrphanWalk, Inv, RotationInv
<1>2. CASE Holds(registry, key[p])
  <2>1. Continue(p, "orphanRemove")
    BY <1>2 DEF OrphanWalk, ContinueIf
  <2>2. "orphanRemove" \in Steps /\ ("orphanRemove" \in Locked <=> pc[p] \in Locked) /\ ("orphanRemove" \in Rotating => pc[p] \in Rotating)
        /\ ("orphanRemove" \in Resuming => pc[p] \in Resuming)
    BY <1>1 DEF Steps, Locked, Rotating, Resuming
  <2>3. /\ seed' = seed /\ next' = next /\ record' = record /\ registry' = registry /\ made' = made
        /\ key' = key /\ rec' = rec
    BY <1>1, <2>1 DEF beside, Counts, Continue
  <2>4. Trunk' = Trunk /\ Kept' = Kept
    BY <2>3 DEF Trunk, Kept
  <2>6. ASSUME pc'[p] = "orphanRemove" PROVE Relies(p)'
    BY <1>1, <2>3, <2>4, <2>6 DEF Relies
  <2> QED BY <1>1, <2>1, <2>2, <2>6, QuietContinue
<1>3. CASE ~ (Holds(registry, key[p]))
  <2>1. Return(p)
    BY <1>3 DEF OrphanWalk, ContinueIf
  <2>2. UNCHANGED <<beside, registry, made, sealed>> /\ stops' \in 0 .. MaxStops
    BY <1>1 DEF Counts, TypeOK
  <2> QED BY <2>1, <2>2, QuietReturn
<1> QED BY <1>2, <1>3

LEMMA GatewayPendingStep ==
  ASSUME Inv, NEW p \in Procs, GatewayPending(p)
  PROVE  Inv'
<1>1. pc[p] = "gwPending" /\ UNCHANGED <<beside, registry, Counts>> /\ Relies(p) /\ TypeOK
  BY DEF GatewayPending, Inv, RotationInv
<1>2. CASE ~ RotationPending /\ Holds(registry, key[p])
  <2>1. Continue(p, "gwLock")
    BY <1>2 DEF GatewayPending, ContinueIf
  <2>2. "gwLock" \in Steps /\ ("gwLock" \in Locked <=> pc[p] \in Locked) /\ ("gwLock" \in Rotating => pc[p] \in Rotating)
        /\ ("gwLock" \in Resuming => pc[p] \in Resuming)
    BY <1>1 DEF Steps, Locked, Rotating, Resuming
  <2>3. /\ seed' = seed /\ next' = next /\ record' = record /\ registry' = registry /\ made' = made
        /\ key' = key /\ rec' = rec
    BY <1>1, <2>1 DEF beside, Counts, Continue
  <2>4. Trunk' = Trunk /\ Kept' = Kept
    BY <2>3 DEF Trunk, Kept
  <2>6. ASSUME pc'[p] = "gwLock" PROVE Relies(p)'
    BY <1>1, <2>3, <2>4, <2>6 DEF Relies
  <2> QED BY <1>1, <2>1, <2>2, <2>6, QuietContinue
<1>3. CASE ~ (~ RotationPending /\ Holds(registry, key[p]))
  <2>1. Return(p)
    BY <1>3 DEF GatewayPending, ContinueIf
  <2>2. UNCHANGED <<beside, registry, made, sealed>> /\ stops' \in 0 .. MaxStops
    BY <1>1 DEF Counts, TypeOK
  <2> QED BY <2>1, <2>2, QuietReturn
<1> QED BY <1>2, <1>3

LEMMA HoldEngineRegistryStep ==
  ASSUME Inv, NEW p \in Procs, HoldEngineRegistry(p)
  PROVE  Inv'
<1>1. pc[p] = "gwCheck" /\ UNCHANGED <<beside, registry, Counts>> /\ Relies(p) /\ TypeOK
  BY DEF HoldEngineRegistry, Inv, RotationInv
<1>2. CASE ~ RotationPending /\ Holds(registry, key[p])
  <2>1. Continue(p, "serving")
    BY <1>2 DEF HoldEngineRegistry, ContinueIf
  <2>2. "serving" \in Steps /\ ("serving" \in Locked <=> pc[p] \in Locked) /\ ("serving" \in Rotating => pc[p] \in Rotating)
        /\ ("serving" \in Resuming => pc[p] \in Resuming)
    BY <1>1 DEF Steps, Locked, Rotating, Resuming
  <2>3. /\ seed' = seed /\ next' = next /\ record' = record /\ registry' = registry /\ made' = made
        /\ key' = key /\ rec' = rec
    BY <1>1, <2>1 DEF beside, Counts, Continue
  <2>4. Trunk' = Trunk /\ Kept' = Kept
    BY <2>3 DEF Trunk, Kept
  <2>5. record = None /\ next = None /\ key[p] = Current(Root(registry))
    BY <1>1, <1>2, OwnHolds DEF Relies, RotationPending
  <2>6. ASSUME pc'[p] = "serving" PROVE Relies(p)'
    BY <1>1, <2>3, <2>4, <2>6, <2>5 DEF Relies
  <2> QED BY <1>1, <2>1, <2>2, <2>6, QuietContinue
<1>3. CASE ~ (~ RotationPending /\ Holds(registry, key[p]))
  <2>1. Return(p)
    BY <1>3 DEF HoldEngineRegistry, ContinueIf
  <2>2. UNCHANGED <<beside, registry, made, sealed>> /\ stops' \in 0 .. MaxStops
    BY <1>1 DEF Counts, TypeOK
  <2> QED BY <2>1, <2>2, QuietReturn
<1> QED BY <1>2, <1>3

LEMMA LoadSeedStep ==
  ASSUME Inv, NEW p \in Procs, LoadSeed(p)
  PROVE  Inv'
<1>1. pc[p] = "seed" /\ UNCHANGED <<beside, registry, Counts>> /\ Relies(p) /\ TypeOK /\ TrunkInv
  BY DEF LoadSeed, Inv, RotationInv
<1>2. CASE ~ (seed = None)
  <2>1. key' = [key EXCEPT ![p] = seed] /\ Go(p, "pending") /\ lock' = lock /\ rec' = rec
    BY <1>2 DEF LoadSeed
  <2>2. "pending" \in Steps /\ ("pending" \in Locked <=> pc[p] \in Locked) /\ ("pending" \in Rotating => pc[p] \in Rotating)
        /\ ("pending" \in Resuming => pc[p] \in Resuming)
    BY <1>1 DEF Steps, Locked, Rotating, Resuming
  <2>3. /\ seed' = seed /\ next' = next /\ record' = record /\ registry' = registry /\ made' = made
    BY <1>1 DEF beside, Counts
  <2>4. Trunk' = Trunk /\ Kept' = Kept
    BY <2>3 DEF Trunk, Kept
  <2>5. seed \in Keys /\ seed # None /\ seed \in Range(Root(Trunk).keys)
    BY <1>1, <1>2, TrunkTypes, CurrentTypes DEF TrunkInv, TypeOK
  <2>6. /\ key' \in [Procs -> Keys \cup {None}] /\ rec' \in [Procs -> Records \cup {None}]
        /\ key'[p] = seed /\ \A q \in Procs \ {p} : key'[q] = key[q] /\ rec'[q] = rec[q]
    BY <1>1, <2>1, <2>5 DEF TypeOK
  <2>7. ASSUME pc'[p] = "pending" PROVE Relies(p)'
    BY <1>1, <2>3, <2>4, <2>5, <2>6, <2>7 DEF Relies
  <2>8. UNCHANGED <<beside, registry, Counts, lock>>
    BY <1>1, <2>1
  <2> QED BY <2>1, <2>2, <2>6, <2>7, <2>8, QuietGo
<1>3. CASE seed = None
  <2>1. Return(p)
    BY <1>3 DEF LoadSeed
  <2>2. UNCHANGED <<beside, registry, made, sealed>> /\ stops' \in 0 .. MaxStops
    BY <1>1 DEF Counts, TypeOK
  <2> QED BY <2>1, <2>2, QuietReturn
<1> QED BY <1>2, <1>3

LEMMA OrphanStep ==
  ASSUME Inv, NEW p \in Procs, Orphan(p)
  PROVE  Inv'
<1>1. pc[p] = "orphan" /\ UNCHANGED <<beside, registry, Counts>> /\ Relies(p) /\ TypeOK /\ TrunkInv
  BY DEF Orphan, Inv, RotationInv
<1>2. CASE ~ (next = None \/ seed = None)
  <2>1. key' = [key EXCEPT ![p] = seed] /\ Go(p, "orphanWalk") /\ lock' = lock /\ rec' = rec
    BY <1>2 DEF Orphan
  <2>2. "orphanWalk" \in Steps /\ ("orphanWalk" \in Locked <=> pc[p] \in Locked) /\ ("orphanWalk" \in Rotating => pc[p] \in Rotating)
        /\ ("orphanWalk" \in Resuming => pc[p] \in Resuming)
    BY <1>1 DEF Steps, Locked, Rotating, Resuming
  <2>3. /\ seed' = seed /\ next' = next /\ record' = record /\ registry' = registry /\ made' = made
    BY <1>1 DEF beside, Counts
  <2>4. Trunk' = Trunk /\ Kept' = Kept
    BY <2>3 DEF Trunk, Kept
  <2>5. seed \in Keys /\ seed # None /\ seed \in Range(Root(Trunk).keys)
    BY <1>1, <1>2, TrunkTypes, CurrentTypes DEF TrunkInv, TypeOK
  <2>6. /\ key' \in [Procs -> Keys \cup {None}] /\ rec' \in [Procs -> Records \cup {None}]
        /\ key'[p] = seed /\ \A q \in Procs \ {p} : key'[q] = key[q] /\ rec'[q] = rec[q]
    BY <1>1, <2>1, <2>5 DEF TypeOK
  <2>7. ASSUME pc'[p] = "orphanWalk" PROVE Relies(p)'
    BY <1>1, <2>3, <2>4, <2>5, <2>6, <2>7 DEF Relies
  <2>8. UNCHANGED <<beside, registry, Counts, lock>>
    BY <1>1, <2>1
  <2> QED BY <2>1, <2>2, <2>6, <2>7, <2>8, QuietGo
<1>3. CASE next = None \/ seed = None
  <2>1. Return(p)
    BY <1>3 DEF Orphan
  <2>2. UNCHANGED <<beside, registry, made, sealed>> /\ stops' \in 0 .. MaxStops
    BY <1>1 DEF Counts, TypeOK
  <2> QED BY <2>1, <2>2, QuietReturn
<1> QED BY <1>2, <1>3

LEMMA GatewaySeedStep ==
  ASSUME Inv, NEW p \in Procs, GatewaySeed(p)
  PROVE  Inv'
<1>1. pc[p] = "gwSeed" /\ UNCHANGED <<beside, registry, Counts>> /\ Relies(p) /\ TypeOK /\ TrunkInv
  BY DEF GatewaySeed, Inv, RotationInv
<1>2. CASE ~ (seed = None)
  <2>1. key' = [key EXCEPT ![p] = seed] /\ Go(p, "gwPending") /\ lock' = lock /\ rec' = rec
    BY <1>2 DEF GatewaySeed
  <2>2. "gwPending" \in Steps /\ ("gwPending" \in Locked <=> pc[p] \in Locked) /\ ("gwPending" \in Rotating => pc[p] \in Rotating)
        /\ ("gwPending" \in Resuming => pc[p] \in Resuming)
    BY <1>1 DEF Steps, Locked, Rotating, Resuming
  <2>3. /\ seed' = seed /\ next' = next /\ record' = record /\ registry' = registry /\ made' = made
    BY <1>1 DEF beside, Counts
  <2>4. Trunk' = Trunk /\ Kept' = Kept
    BY <2>3 DEF Trunk, Kept
  <2>5. seed \in Keys /\ seed # None /\ seed \in Range(Root(Trunk).keys)
    BY <1>1, <1>2, TrunkTypes, CurrentTypes DEF TrunkInv, TypeOK
  <2>6. /\ key' \in [Procs -> Keys \cup {None}] /\ rec' \in [Procs -> Records \cup {None}]
        /\ key'[p] = seed /\ \A q \in Procs \ {p} : key'[q] = key[q] /\ rec'[q] = rec[q]
    BY <1>1, <2>1, <2>5 DEF TypeOK
  <2>7. ASSUME pc'[p] = "gwPending" PROVE Relies(p)'
    BY <1>1, <2>3, <2>4, <2>5, <2>6, <2>7 DEF Relies
  <2>8. UNCHANGED <<beside, registry, Counts, lock>>
    BY <1>1, <2>1
  <2> QED BY <2>1, <2>2, <2>6, <2>7, <2>8, QuietGo
<1>3. CASE seed = None
  <2>1. Return(p)
    BY <1>3 DEF GatewaySeed
  <2>2. UNCHANGED <<beside, registry, made, sealed>> /\ stops' \in 0 .. MaxStops
    BY <1>1 DEF Counts, TypeOK
  <2> QED BY <2>1, <2>2, QuietReturn
<1> QED BY <1>2, <1>3

LEMMA StopStep ==
  ASSUME Inv, NEW p \in Procs, Stop(p) \/ StopGateway(p)
  PROVE  Inv'
<1>1. Return(p) /\ UNCHANGED <<beside, registry, made, sealed>>
  BY DEF Stop, StopGateway, Counts
<1>2. stops' \in 0 .. MaxStops
  BY RotationAssumption DEF Stop, StopGateway, Counts, Inv, TypeOK
<1> QED BY <1>1, <1>2, QuietReturn

LEMMA ReadKeptStep ==
  ASSUME Inv, NEW p \in Procs, ReadKept(p)
  PROVE  Inv'
<1>1. pc[p] = "resume" /\ UNCHANGED <<beside, registry, Counts>> /\ Relies(p) /\ TypeOK
  BY DEF ReadKept, Inv, RotationInv
<1>2. /\ seed' = seed /\ next' = next /\ record' = record /\ registry' = registry /\ made' = made
      /\ sealed' = sealed /\ stops' = stops
  BY <1>1 DEF beside, Counts
<1>3. Trunk' = Trunk /\ Kept' = Kept
  BY <1>2 DEF Trunk, Kept
<1>4. ASSUME NEW t \in {"orphan", "seeds"}
      PROVE  t \in Steps /\ (t \in Locked <=> pc[p] \in Locked) /\ (t \in Rotating => pc[p] \in Rotating)
             /\ (t \in Resuming => pc[p] \in Resuming)
  BY <1>1 DEF Steps, Locked, Rotating, Resuming
<1>5. CASE record = None
  <2>1. Continue(p, "orphan")
    BY <1>5 DEF ReadKept
  <2>2. key' = key /\ rec' = rec
    BY <2>1 DEF Continue
  <2>3. ASSUME pc'[p] = "orphan" PROVE Relies(p)'
    BY <1>1, <1>2, <1>3, <1>5, <2>2, <2>3 DEF Relies
  <2> QED BY <1>1, <1>4, <2>1, <2>3, QuietContinue
<1>6. CASE record = Torn
  <2>1. Return(p)
    BY <1>6, RotationAssumption DEF ReadKept
  <2>2. UNCHANGED <<beside, registry, made, sealed>> /\ stops' \in 0 .. MaxStops
    BY <1>1 DEF Counts, TypeOK
  <2> QED BY <2>1, <2>2, QuietReturn
<1>7. CASE record # None /\ record # Torn
  <2>1. rec' = [rec EXCEPT ![p] = record] /\ Go(p, "seeds") /\ lock' = lock /\ key' = key
    BY <1>7 DEF ReadKept
  <2>2. record \in Records
    BY <1>1, <1>7 DEF TypeOK
  <2>3. /\ key' \in [Procs -> Keys \cup {None}] /\ rec' \in [Procs -> Records \cup {None}]
        /\ rec'[p] = record /\ \A q \in Procs \ {p} : key'[q] = key[q] /\ rec'[q] = rec[q]
    BY <1>1, <2>1, <2>2 DEF TypeOK
  <2>4. ASSUME pc'[p] = "seeds" PROVE Relies(p)'
    BY <1>1, <1>2, <1>3, <2>1, <2>2, <2>3, <2>4 DEF Relies
  <2>5. UNCHANGED <<beside, registry, Counts, lock>>
    BY <1>1, <2>1
  <2> QED BY <1>4, <2>1, <2>3, <2>4, <2>5, QuietGo
<1> QED BY <1>5, <1>6, <1>7

LEMMA BeginRotateStep ==
  ASSUME Inv, ~ Overlap, NEW p \in Procs, BeginRotate(p)
  PROVE  Inv'
<1>1. /\ pc[p] = "idle" /\ UNCHANGED <<beside, registry, Counts>> /\ Relies(p) /\ TypeOK /\ LockInv
      /\ Continue(p, "seed")
  BY DEF BeginRotate, Inv, RotationInv
<1>2. /\ seed' = seed /\ next' = next /\ record' = record /\ registry' = registry /\ made' = made
      /\ sealed' = sealed /\ stops' = stops /\ lock' = lock /\ key' = key /\ rec' = rec
      /\ pc' = [pc EXCEPT ![p] = "seed"]
  BY <1>1 DEF beside, Counts, Continue, Go
<1>3. Trunk' = Trunk /\ Kept' = Kept
  BY <1>2 DEF Trunk, Kept
<1>4. "seed" \in Steps
  BY DEF Steps
<1>5. pc' \in [Procs -> Steps] /\ pc'[p] = "seed" /\ \A q \in Procs \ {p} : pc'[q] = pc[q]
  BY <1>1, <1>2, <1>4 DEF TypeOK
<1>6. LockInv'
  <2>1. \A q \in Procs : lock' = q <=> pc'[q] \in Locked
    BY <1>1, <1>2, <1>5 DEF LockInv, Locked
  <2>2. \A q \in Procs : pc[q] \notin Resuming
    BY DEF BeginRotate, Running
  <2>3. \A q, r \in Procs : ~ (pc'[q] \in Rotating /\ pc'[r] \in Resuming)
    BY <1>1, <1>5, <2>2 DEF LockInv, Rotating, Resuming
  <2> QED BY <2>1, <2>3 DEF LockInv
<1>7. Relies(p)'
  BY <1>1, <1>2, <1>3, <1>5 DEF Relies
<1>8. /\ key' \in [Procs -> Keys \cup {None}] /\ rec' \in [Procs -> Records \cup {None}]
      /\ lock' \in Procs \cup {None} /\ stops' \in 0 .. MaxStops
      /\ \A q \in Procs \ {p} : pc'[q] = pc[q] /\ key'[q] = key[q] /\ rec'[q] = rec[q]
  BY <1>1, <1>2, <1>5 DEF TypeOK
<1>9. UNCHANGED <<beside, registry, made, sealed>>
  BY <1>1, <1>2
<1> QED BY <1>5, <1>6, <1>7, <1>8, <1>9, Quiet

LEMMA BeginResumeStep ==
  ASSUME Inv, ~ Overlap, NEW p \in Procs, BeginResume(p)
  PROVE  Inv'
<1>1. /\ pc[p] = "idle" /\ UNCHANGED <<beside, registry, Counts>> /\ Relies(p) /\ TypeOK /\ LockInv
      /\ Continue(p, "resume")
  BY DEF BeginResume, Inv, RotationInv
<1>2. /\ seed' = seed /\ next' = next /\ record' = record /\ registry' = registry /\ made' = made
      /\ sealed' = sealed /\ stops' = stops /\ lock' = lock /\ key' = key /\ rec' = rec
      /\ pc' = [pc EXCEPT ![p] = "resume"]
  BY <1>1 DEF beside, Counts, Continue, Go
<1>3. Trunk' = Trunk /\ Kept' = Kept
  BY <1>2 DEF Trunk, Kept
<1>4. "resume" \in Steps
  BY DEF Steps
<1>5. pc' \in [Procs -> Steps] /\ pc'[p] = "resume" /\ \A q \in Procs \ {p} : pc'[q] = pc[q]
  BY <1>1, <1>2, <1>4 DEF TypeOK
<1>6. LockInv'
  <2>1. \A q \in Procs : lock' = q <=> pc'[q] \in Locked
    BY <1>1, <1>2, <1>5 DEF LockInv, Locked
  <2>2. \A q \in Procs : pc[q] \notin Rotating
    BY DEF BeginResume, Running
  <2>3. \A q, r \in Procs : ~ (pc'[q] \in Rotating /\ pc'[r] \in Resuming)
    BY <1>1, <1>5, <2>2 DEF LockInv, Rotating, Resuming
  <2> QED BY <2>1, <2>3 DEF LockInv
<1>7. Relies(p)'
  BY <1>1, <1>2, <1>3, <1>5 DEF Relies
<1>8. /\ key' \in [Procs -> Keys \cup {None}] /\ rec' \in [Procs -> Records \cup {None}]
      /\ lock' \in Procs \cup {None} /\ stops' \in 0 .. MaxStops
      /\ \A q \in Procs \ {p} : pc'[q] = pc[q] /\ key'[q] = key[q] /\ rec'[q] = rec[q]
  BY <1>1, <1>2, <1>5 DEF TypeOK
<1>9. UNCHANGED <<beside, registry, made, sealed>>
  BY <1>1, <1>2
<1> QED BY <1>5, <1>6, <1>7, <1>8, <1>9, Quiet

LEMMA BeginGatewayStep ==
  ASSUME Inv, NEW p \in Procs, BeginGateway(p)
  PROVE  Inv'
<1>1. /\ pc[p] = "idle" /\ UNCHANGED <<beside, registry, Counts>> /\ Relies(p)
      /\ Continue(p, "gwSeed")
  BY DEF BeginGateway, Inv, RotationInv
<1>2. /\ seed' = seed /\ next' = next /\ record' = record /\ registry' = registry /\ made' = made
      /\ key' = key /\ rec' = rec
  BY <1>1 DEF beside, Counts, Continue
<1>3. Trunk' = Trunk /\ Kept' = Kept
  BY <1>2 DEF Trunk, Kept
<1>4. /\ "gwSeed" \in Steps /\ ("gwSeed" \in Locked <=> pc[p] \in Locked)
      /\ "gwSeed" \notin Rotating /\ "gwSeed" \notin Resuming
  BY <1>1 DEF Steps, Locked, Rotating, Resuming
<1>5. ASSUME pc'[p] = "gwSeed" PROVE Relies(p)'
  BY <1>1, <1>2, <1>3, <1>5 DEF Relies
<1> QED BY <1>1, <1>4, <1>5, QuietContinue

LEMMA ResumeWalkStep ==
  ASSUME Inv, NEW p \in Procs, ResumeWalk(p)
  PROVE  Inv'
<1>1. pc[p] = "resumeWalk" /\ UNCHANGED <<beside, registry, Counts>> /\ Relies(p) /\ TypeOK /\ KeptInv
  BY DEF ResumeWalk, Inv, RotationInv
<1>2. PICK k \in Records : k = rec[p]
  BY <1>1 DEF Relies
<1>3. k.before \in Seq(Lines) /\ k.r \in Rotations /\ registry \in Seq(Lines)
  BY <1>1, <1>2 DEF Records, TypeOK
<1>4. PICK n \in Nat : n = Len(k.before)
  BY <1>3
<1>5. PICK tail : tail = SubSeq(registry, n + 1, Len(registry))
  OBVIOUS
<1>6. PICK own \in BOOLEAN : own <=> (Len(tail) = 1 /\ tail[1].kind = "rotation" /\ tail[1].r = k.r)
  OBVIOUS
<1>7. ASSUME Len(registry) > n PROVE Len(tail) = Len(registry) - n /\ tail[1] = registry[n + 1]
  <2>1. PICK m \in Nat : m = Len(registry) /\ n + 1 <= m
    BY <1>3, <1>7
  <2>3. 1 \in 1 .. m - n /\ m - n \in Nat
    BY <2>1
  <2>4. Len(tail) = m - n
    BY <1>3, <1>5, <2>1
  <2>5. tail[1] = registry[n + 1]
    BY <1>3, <1>5, <2>1, <2>3
  <2> QED BY <2>1, <2>4, <2>5
<1>8. Len(registry) = n => tail = <<>> /\ Len(tail) = 0
  BY <1>3, <1>4, <1>5
<1>9. \/ Return(p)
      \/ (tail = <<>> \/ own) /\ Continue(p, IF own /\ tail[1].part = Whole THEN "aside" ELSE "cut")
  <2>1. \/ Return(p)
        \/ /\ \/ tail = <<>>
              \/ (Len(tail) = 1 /\ tail[1].kind = "rotation" /\ tail[1].r = k.r)
           /\ Continue(p, IF (Len(tail) = 1 /\ tail[1].kind = "rotation" /\ tail[1].r = k.r)
                             /\ tail[1].part = Whole THEN "aside" ELSE "cut")
    BY <1>2, <1>4, <1>5 DEF ResumeWalk
  <2> QED BY <1>6, <2>1
<1>10. /\ seed' = seed /\ next' = next /\ record' = record /\ registry' = registry /\ made' = made
  BY <1>1 DEF beside, Counts
<1>11. Trunk' = Trunk /\ Kept' = Kept
  BY <1>10 DEF Trunk, Kept
<1>12. \A t \in {"aside", "cut"} :
         t \in Steps /\ (t \in Locked <=> pc[p] \in Locked) /\ (t \in Rotating => pc[p] \in Rotating)
         /\ (t \in Resuming => pc[p] \in Resuming)
  BY <1>1 DEF Steps, Locked, Rotating, Resuming
<1>13. CASE Return(p)
  <2>1. UNCHANGED <<beside, registry, made, sealed>> /\ stops' \in 0 .. MaxStops
    BY <1>1 DEF Counts, TypeOK
  <2> QED BY <1>13, <2>1, QuietReturn
<1>14. CASE (tail = <<>> \/ own) /\ Continue(p, "aside") /\ own /\ tail[1].part = Whole
  <2>1. key' = key /\ rec' = rec
    BY <1>14 DEF Continue
  <2>2. AtWhole(p) \/ (record = None /\ next = None /\ rec[p] \in Records)
    <3>1. CASE record = rec[p]
      <4>1. record = k /\ Kept
        BY <1>2, <3>1 DEF Kept
      <4>2. Len(registry) # n
        <5>1. Len(tail) = 1
          BY <1>6, <1>14
        <5> QED BY <1>8, <5>1
      <4>3. PICK part \in 1 .. Whole : registry = Append(k.before, Line(k.r, part))
        BY <1>1, <1>4, <4>1, <4>2 DEF KeptInv
      <4>4. Len(registry) = n + 1 /\ registry[n + 1] = Line(k.r, part)
        <5>1. Line(k.r, part) \in Lines
          BY <1>3, LineTypes
        <5> QED BY <1>3, <1>4, <4>3, <5>1
      <4>5. tail[1].part = part
        BY <1>7, <4>4 DEF Line
      <4> QED BY <1>14, <3>1, <4>1, <4>3, <4>5 DEF AtWhole
    <3>2. CASE record # rec[p]
      BY <1>1, <3>2 DEF Relies
    <3> QED BY <3>1, <3>2
  <2>3. ASSUME pc'[p] = "aside" PROVE Relies(p)'
    BY <1>1, <1>10, <1>11, <2>1, <2>2, <2>3 DEF Relies, AtWhole
  <2> QED BY <1>1, <1>12, <1>14, <2>3, QuietContinue
<1>15. CASE (tail = <<>> \/ own) /\ Continue(p, "cut") /\ ~ (own /\ tail[1].part = Whole)
  <2>1. key' = key /\ rec' = rec
    BY <1>15 DEF Continue
  <2>2. AtPart(p)
    <3>1. CASE record = rec[p]
      <4>1. record = k /\ Kept
        BY <1>2, <3>1 DEF Kept
      <4>2. CASE registry = k.before /\ next # None
        <5>1. Line(k.r, Whole) \in Lines
          BY <1>3, LineTypes DEF Whole
        <5>2. registry # Append(k.before, Line(k.r, Whole))
          BY <1>3, <1>4, <4>2, <5>1
        <5> QED BY <3>1, <4>1, <4>2, <5>2 DEF AtPart
      <4>3. CASE \E part \in 1 .. Whole :
                   registry = Append(k.before, Line(k.r, part)) /\ (part = Whole \/ next # None)
        <5>1. PICK part \in 1 .. Whole :
                   registry = Append(k.before, Line(k.r, part)) /\ (part = Whole \/ next # None)
          BY <4>3
        <5>2. Line(k.r, part) \in Lines /\ Line(k.r, Whole) \in Lines
          BY <1>3, LineTypes DEF Whole
        <5>3. Len(registry) = n + 1 /\ registry[n + 1] = Line(k.r, part)
          BY <1>3, <1>4, <5>1, <5>2
        <5>4. Len(tail) = 1 /\ tail[1] = Line(k.r, part)
          BY <1>7, <5>3
        <5>5. own /\ tail[1].part = part
          BY <1>6, <5>4 DEF Line
        <5>6. part # Whole
          BY <1>15, <5>5
        <5>7. Append(k.before, Line(k.r, Whole))[n + 1] = Line(k.r, Whole)
          BY <1>3, <1>4, <5>2
        <5>8. Line(k.r, Whole) # Line(k.r, part)
          BY <5>6 DEF Line
        <5>9. registry # Append(k.before, Line(k.r, Whole))
          BY <5>3, <5>7, <5>8
        <5> QED BY <3>1, <4>1, <5>1, <5>6, <5>9 DEF AtPart
      <4> QED BY <1>1, <4>1, <4>2, <4>3 DEF KeptInv
    <3>2. CASE record # rec[p]
      <4>1. Len(registry) > n /\ registry[n + 1] = Line(k.r, Whole)
        BY <1>1, <1>2, <1>4, <3>2 DEF Relies
      <4>2. Len(tail) > 0 /\ tail[1] = Line(k.r, Whole)
        BY <1>4, <1>7, <4>1
      <4>3. own
        BY <1>15, <4>2
      <4>4. tail[1].part = Whole
        BY <4>2 DEF Line
      <4> QED BY <1>15, <4>3, <4>4
    <3> QED BY <3>1, <3>2
  <2>3. ASSUME pc'[p] = "cut" PROVE Relies(p)'
    BY <1>1, <1>10, <1>11, <2>1, <2>2, <2>3 DEF Relies, AtPart
  <2> QED BY <1>1, <1>12, <1>15, <2>3, QuietContinue
<1> QED BY <1>9, <1>13, <1>14, <1>15

-----------------------------------------------------------------------------
(* Steps that write. *)

(* What the walk of the registry finds while a record is kept. *)
LEMMA KeptWalk ==
  ASSUME TypeOK, KeptInv, Kept, NEW b, b = Root(record.before)
  PROVE  /\ b \in Walks /\ b.finding = "none" /\ record.before \in Seq(Lines)
         /\ record.r \in Rotations /\ record.r.to = made /\ record.r.from = Current(b)
         /\ record.r.n = Len(b.keys) /\ made \notin Range(b.keys)
         /\ \A part \in 1 .. Whole :
              /\ Line(record.r, part) \in Lines
              /\ Append(record.before, Line(record.r, part)) \in Seq(Lines)
              /\ Root(Append(record.before, Line(record.r, part))) = ReadLine(b, Line(record.r, part))
              /\ part = 1 => ReadLine(b, Line(record.r, part)) = b
              /\ part \in {2, 3} => ReadLine(b, Line(record.r, part)) = Broken(b)
              /\ part >= 4 => ReadLine(b, Line(record.r, part)) = Handed(b, made)
<1>1. record.before \in Seq(Lines) /\ record.r \in Rotations
  BY DEF Kept, Records
<1>2. b \in Walks /\ b.keys \in Seq(Keys)
  BY <1>1, RootTypes DEF Walks
<1>3. b.finding = "none" /\ record.r.to = made /\ record.r.from = Current(b) /\ record.r.n = Len(b.keys)
  BY DEF KeptInv
<1>4. made \notin Range(b.keys)
  <2>1. \A i \in DOMAIN b.keys : b.keys[i] < made
    BY DEF KeptInv
  <2>2. made \in Nat
    BY DEF TypeOK, Keys
  <2> QED BY <2>1, <2>2 DEF Range
<1>5. ASSUME NEW part \in 1 .. Whole
      PROVE  /\ Line(record.r, part) \in Lines
             /\ Append(record.before, Line(record.r, part)) \in Seq(Lines)
             /\ Root(Append(record.before, Line(record.r, part))) = ReadLine(b, Line(record.r, part))
             /\ part = 1 => ReadLine(b, Line(record.r, part)) = b
             /\ part \in {2, 3} => ReadLine(b, Line(record.r, part)) = Broken(b)
             /\ part >= 4 => ReadLine(b, Line(record.r, part)) = Handed(b, made)
  <2>1. Line(record.r, part) \in Lines
    BY <1>1, LineTypes
  <2>2. Append(record.before, Line(record.r, part)) \in Seq(Lines)
    BY <1>1, <2>1
  <2>3. Root(Append(record.before, Line(record.r, part))) = ReadLine(b, Line(record.r, part))
    BY <1>1, <2>1, RootOfAppend
  <2>4. /\ part = 1 => ReadLine(b, Line(record.r, part)) = b
        /\ part \in {2, 3} => ReadLine(b, Line(record.r, part)) = Broken(b)
        /\ part >= 4 => ReadLine(b, Line(record.r, part)) = Handed(b, made)
    <3>1. PICK r \in Rotations : r = record.r
      BY <1>1
    <3>2. r.n = Len(b.keys) /\ r.from = Current(b) /\ r.to = made /\ r.to \notin Range(b.keys)
      BY <1>3, <1>4, <3>1
    <3>3. /\ part = 1 => ReadLine(b, Line(r, part)) = b
          /\ part \in {2, 3} => ReadLine(b, Line(r, part)) = Broken(b)
          /\ part >= 4 => ReadLine(b, Line(r, part)) = Handed(b, r.to)
      <4>1. b \in Walks /\ b.finding = "none"
        BY <1>2, <1>3
      <4>2. r.n = Len(b.keys) /\ r.from = Current(b) /\ r.to \notin Range(b.keys)
        BY <3>2
      <4> QED BY <4>1, <4>2, ReadPart
    <3> QED BY <3>1, <3>2, <3>3
  <2> QED BY <2>1, <2>2, <2>3, <2>4
<1> QED BY <1>1, <1>2, <1>3, <1>4, <1>5

LEMMA Longer ==
  ASSUME NEW lines \in Seq(Lines), NEW l \in Lines
  PROVE  lines # Append(lines, l) /\ Len(Append(lines, l)) > Len(lines) /\ Append(lines, l)[Len(lines) + 1] = l
<1>1. Len(Append(lines, l)) = Len(lines) + 1 /\ Append(lines, l)[Len(lines) + 1] = l /\ Len(lines) \in Nat
  OBVIOUS
<1> QED BY <1>1

(* A step under the lock disturbs only what the others rely on unlocked. *)
LEMMA Writes ==
  ASSUME Inv, NEW p \in Procs, pc[p] \in Locked,
         TypeOK', LockInv', TrunkInv', KeptInv', Relies(p)',
         \A q \in Procs \ {p} : pc'[q] = pc[q] /\ key'[q] = key[q] /\ rec'[q] = rec[q],
         \A q \in Procs \ {p} : key[q] # None /\ key[q] \in Range(Root(Trunk).keys) =>
           key[q] \in Range(Root(Trunk').keys),
         \A q \in Procs \ {p} : pc[q] = "lock" /\ Kept' /\ next' = None => key[q] # made',
         \A q \in Procs \ {p} : pc[q] \in {"seeds", "resumeLock"} /\ rec[q] \in Records =>
           \/ record' = rec[q]
           \/ /\ record' = None /\ next' = None
              /\ Len(registry') > Len(rec[q].before)
              /\ registry'[Len(rec[q].before) + 1] = Line(rec[q].r, Whole),
         \A q \in Procs \ {p} : pc[q] \in {"orphan", "orphanWalk", "orphanRemove"} => record' = None
  PROVE  Inv'
<1>1. ASSUME NEW q \in Procs PROVE Relies(q)'
  <2>1. CASE q = p
    BY <2>1
  <2>2. CASE q # p
    <3>1. q \in Procs \ {p}
      BY <2>2
    <3>2. lock = p /\ pc[q] \notin Locked /\ Relies(q)
      BY <2>2 DEF Inv, RotationInv, LockInv
    <3>3. pc'[q] = pc[q] /\ key'[q] = key[q] /\ rec'[q] = rec[q]
      BY <3>1
    <3>4. key'[q] # None => key'[q] \in Range(Root(Trunk').keys)
      BY <3>1, <3>2, <3>3 DEF Relies
    <3>5. pc'[q] \in {"pending", "lock", "orphanWalk", "gwPending", "gwLock"} => key'[q] # None
      BY <3>2, <3>3 DEF Relies
    <3>6. pc'[q] = "lock" /\ Kept' /\ next' = None => key'[q] # made'
      BY <3>1, <3>3
    <3>7. pc'[q] \in {"seeds", "resumeLock"} =>
           /\ rec'[q] \in Records
           /\ \/ record' = rec'[q]
              \/ /\ record' = None /\ next' = None
                 /\ Len(registry') > Len(rec'[q].before)
                 /\ registry'[Len(rec'[q].before) + 1] = Line(rec'[q].r, Whole)
      BY <3>1, <3>2, <3>3 DEF Relies
    <3>8. pc'[q] \in {"orphan", "orphanWalk", "orphanRemove"} => record' = None
      BY <3>1, <3>3
    <3>9. pc'[q] \notin Locked
      BY <3>2, <3>3
    <3> QED BY <3>4, <3>5, <3>6, <3>7, <3>8, <3>9 DEF Relies, Locked
  <2> QED BY <2>1, <2>2
<1> QED BY <1>1 DEF Inv, RotationInv

(* The same for a rotate-key, beside which no --resume runs. *)
LEMMA RotateWrites ==
  ASSUME Inv, NEW p \in Procs, pc[p] \in Locked, pc[p] \in Rotating,
         TypeOK', LockInv', TrunkInv', KeptInv', Relies(p)',
         \A q \in Procs \ {p} : pc'[q] = pc[q] /\ key'[q] = key[q] /\ rec'[q] = rec[q],
         Trunk' = Trunk, Kept' => next' # None
  PROVE  Inv'
<1>1. \A q \in Procs : pc[q] \notin Resuming
  BY DEF Inv, RotationInv, LockInv
<1>2. \A q \in Procs : pc[q] \notin {"seeds", "resumeLock", "orphan", "orphanWalk", "orphanRemove"}
  BY <1>1 DEF Resuming
<1> QED BY <1>2, Writes

LEMMA MakeNextStep ==
  ASSUME Inv, NEW p \in Procs, MakeNext(p)
  PROVE  Inv'
<1>1. /\ pc[p] = "next" /\ Relies(p) /\ TypeOK /\ LockInv /\ TrunkInv /\ KeptInv
      /\ seed' = seed /\ kept' = kept /\ record' = record /\ registry' = registry
      /\ sealed' = sealed /\ stops' = stops
  BY DEF MakeNext, Inv, RotationInv
<1>2. CASE ~ (next = None /\ made < MaxKeys)
  <2>1. Return(p) /\ next' = next /\ made' = made
    BY <1>2 DEF MakeNext
  <2>2. UNCHANGED <<beside, registry, made, sealed>> /\ stops' \in 0 .. MaxStops
    BY <1>1, <2>1 DEF beside, TypeOK
  <2> QED BY <2>1, <2>2, QuietReturn
<1>3. CASE next = None /\ made < MaxKeys
  <2>1. next' = made + 1 /\ made' = made + 1 /\ Continue(p, "keep")
    BY <1>3 DEF MakeNext
  <2>2. made \in 1 .. MaxKeys /\ made + 1 \in Keys /\ made + 1 # None
    BY <1>1, <1>3, RotationAssumption DEF TypeOK, Keys
  <2>3. ~ Kept
    <3> SUFFICES ASSUME Kept PROVE FALSE
      OBVIOUS
    <3>1. registry = Append(record.before, Line(record.r, Whole))
      BY <1>1, <1>3 DEF KeptInv
    <3>2. PICK b : b = Root(record.before)
      OBVIOUS
    <3>3. b \in Walks /\ Root(registry) = Handed(b, made)
      BY <1>1, <3>1, <3>2, KeptWalk DEF Whole
    <3>4. Current(Root(registry)) = made
      BY <2>2, <3>3, HandedIs DEF Keys
    <3> QED BY <1>1, <1>3, <3>4 DEF Relies
  <2>4. record = None
    BY <1>1, <1>3, <2>3 DEF TrunkInv, TypeOK, Kept
  <2>5. ~ Kept' /\ Trunk = registry /\ Trunk' = registry
    BY <1>1, <2>3 DEF Kept, Trunk
  <2>6. key' = key /\ rec' = rec /\ lock' = lock /\ Go(p, "keep")
    BY <2>1 DEF Continue
  <2>7. /\ pc' \in [Procs -> Steps] /\ pc'[p] = "keep" /\ LockInv'
        /\ \A q \in Procs \ {p} : pc'[q] = pc[q]
    <3>1. "keep" \in Steps /\ ("keep" \in Locked <=> pc[p] \in Locked)
          /\ ("keep" \in Rotating => pc[p] \in Rotating) /\ "keep" \notin Resuming
      BY <1>1 DEF Steps, Locked, Rotating, Resuming
    <3> QED BY <1>1, <2>6, <3>1, GoesOn
  <2>8. TypeOK'
    BY <1>1, <2>1, <2>2, <2>6, <2>7 DEF TypeOK
  <2>9. TrunkInv'
    <3>1. seed # None
      BY <1>1, <1>3 DEF TrunkInv
    <3>2. PICK w : w = Root(registry)
      OBVIOUS
    <3>3. /\ Rooted(registry) /\ w.finding = "none" /\ sealed \subseteq w.seals
          /\ Len(w.keys) <= made /\ (\A i \in DOMAIN w.keys : w.keys[i] <= made)
          /\ seed \in {Current(w), None}
      BY <1>1, <1>3, <2>5, <3>2 DEF TrunkInv
    <3>4. made' - 1 = made /\ next' # None /\ record' # Torn
      BY <1>1, <2>1, <2>2, <2>4, RotationAssumption
    <3> QED BY <1>1, <2>1, <2>5, <3>1, <3>2, <3>3, <3>4 DEF TrunkInv
  <2>10. KeptInv'
    BY <2>5 DEF KeptInv
  <2>11. Relies(p)'
    BY <1>1, <1>3, <2>1, <2>2, <2>4, <2>5, <2>6, <2>7 DEF Relies
  <2>12. pc[p] \in Locked /\ pc[p] \in Rotating
    BY <1>1 DEF Locked, Rotating
  <2>13. \A q \in Procs \ {p} : pc'[q] = pc[q] /\ key'[q] = key[q] /\ rec'[q] = rec[q]
    BY <2>6, <2>7
  <2> QED BY <2>5, <2>7, <2>8, <2>9, <2>10, <2>11, <2>12, <2>13, RotateWrites
<1> QED BY <1>2, <1>3

LEMMA MakeRecordStep ==
  ASSUME Inv, NEW p \in Procs, MakeRecord(p)
  PROVE  Inv'
<1>1. /\ pc[p] = "keep" /\ Relies(p) /\ TypeOK /\ LockInv /\ TrunkInv /\ KeptInv
      /\ UNCHANGED <<seed, next, kept, registry, Counts>>
  BY DEF MakeRecord, Inv, RotationInv
<1>2. /\ seed' = seed /\ kept' = kept /\ next' = next /\ registry' = registry
      /\ sealed' = sealed /\ stops' = stops /\ made' = made
  BY <1>1 DEF Counts
<1>3. record = None /\ next # None /\ ~ Kept /\ Trunk = registry
  BY <1>1, RecordAssumption DEF Relies, Kept, Trunk
<1>4. CASE record' = Torn /\ Continue(p, "keeping")
  <2>1. ~ Kept' /\ Trunk' = registry
    BY <1>2, <1>4, RecordAssumption DEF Kept, Trunk
  <2>2. key' = key /\ rec' = rec /\ lock' = lock /\ Go(p, "keeping")
    BY <1>4 DEF Continue
  <2>3. /\ pc' \in [Procs -> Steps] /\ pc'[p] = "keeping" /\ LockInv'
        /\ \A q \in Procs \ {p} : pc'[q] = pc[q]
    <3>1. "keeping" \in Steps /\ ("keeping" \in Locked <=> pc[p] \in Locked)
          /\ ("keeping" \in Rotating => pc[p] \in Rotating) /\ "keeping" \notin Resuming
      BY <1>1 DEF Steps, Locked, Rotating, Resuming
    <3> QED BY <1>1, <2>2, <3>1, GoesOn
  <2>4. TypeOK'
    BY <1>1, <1>2, <1>4, <2>2, <2>3 DEF TypeOK
  <2>5. TrunkInv'
    BY <1>1, <1>2, <1>3, <2>1 DEF TrunkInv
  <2>6. KeptInv'
    BY <2>1 DEF KeptInv
  <2>7. Relies(p)'
    BY <1>1, <1>2, <1>3, <1>4, <2>1, <2>2, <2>3 DEF Relies
  <2>8. pc[p] \in Locked /\ pc[p] \in Rotating
    BY <1>1 DEF Locked, Rotating
  <2>9. \A q \in Procs \ {p} : pc'[q] = pc[q] /\ key'[q] = key[q] /\ rec'[q] = rec[q]
    BY <2>2, <2>3
  <2> QED BY <1>3, <2>1, <2>3, <2>4, <2>5, <2>6, <2>7, <2>8, <2>9, RotateWrites
<1>5. CASE record' = record /\ Continue(p, "abandonNext")
  <2>1. UNCHANGED <<beside, registry, Counts>>
    BY <1>1, <1>5 DEF beside
  <2>2. "abandonNext" \in Steps /\ ("abandonNext" \in Locked <=> pc[p] \in Locked)
        /\ ("abandonNext" \in Rotating => pc[p] \in Rotating) /\ "abandonNext" \notin Resuming
    BY <1>1 DEF Steps, Locked, Rotating, Resuming
  <2>3. ASSUME pc'[p] = "abandonNext" PROVE Relies(p)'
    <3>1. key' = key /\ rec' = rec
      BY <1>5 DEF Continue
    <3>2. Trunk' = Trunk /\ Kept' = Kept
      BY <1>2, <1>5 DEF Trunk, Kept
    <3> QED BY <1>1, <1>2, <1>3, <1>5, <2>3, <3>1, <3>2 DEF Relies
  <2> QED BY <1>5, <2>1, <2>2, <2>3, QuietContinue
<1> QED BY <1>4, <1>5 DEF MakeRecord

LEMMA KeepRecordStep ==
  ASSUME Inv, NEW p \in Procs, KeepRecord(p)
  PROVE  Inv'
<1>1. /\ pc[p] = "keeping" /\ Relies(p) /\ TypeOK /\ LockInv /\ TrunkInv /\ KeptInv
      /\ UNCHANGED <<seed, next, kept, registry, Counts>>
  BY DEF KeepRecord, Inv, RotationInv
<1>2. /\ seed' = seed /\ kept' = kept /\ next' = next /\ registry' = registry
      /\ sealed' = sealed /\ stops' = stops /\ made' = made
  BY <1>1 DEF Counts
<1>3. record = Torn /\ next # None /\ ~ Kept /\ Trunk = registry /\ key[p] # None
      /\ key[p] = Current(Root(registry)) /\ seed # None
  BY <1>1, RecordAssumption DEF Relies, Kept, Trunk, TrunkInv
<1>4. PICK w \in Walks : w = Root(registry)
  BY <1>1, TrunkTypes
<1>5. /\ Rooted(registry) /\ w.finding = "none" /\ sealed \subseteq w.seals
      /\ Len(w.keys) <= made - 1 /\ (\A i \in DOMAIN w.keys : w.keys[i] <= made - 1)
  BY <1>1, <1>3, <1>4 DEF TrunkInv
<1>6. Ordinal(p) = Len(w.keys) /\ Len(w.keys) \in Nat \ {0}
  BY <1>3, <1>4, OwnHolds, CurrentTypes DEF Ordinal, Followed
<1>7. pc[p] \in Locked /\ pc[p] \in Rotating
  BY <1>1 DEF Locked, Rotating
<1>8. PICK k : k = [r |-> [n |-> Ordinal(p), from |-> key[p], to |-> made], before |-> registry]
  OBVIOUS
<1>9. k \in Records /\ k.before = registry /\ k.r = [n |-> Len(w.keys), from |-> Current(w), to |-> made]
  <2>1. made \in 1 .. MaxKeys /\ Ordinal(p) \in Ordinals /\ key[p] \in Keys
    <3>1. made \in 1 .. MaxKeys /\ MaxKeys \in Nat
      BY <1>1, RotationAssumption DEF TypeOK, Keys
    <3>2. Ordinal(p) \in Ordinals
      BY <1>5, <1>6, <3>1 DEF Ordinals
    <3>3. key[p] \in Keys
      BY <1>1, <1>3 DEF TypeOK
    <3> QED BY <3>1, <3>2, <3>3
  <2>2. registry \in Seq(Lines)
    BY <1>1 DEF TypeOK
  <2> QED BY <1>3, <1>4, <1>6, <1>8, <2>1, <2>2 DEF Records, Rotations, Keys
<1>10. CASE record' = k /\ rec' = [rec EXCEPT ![p] = k] /\ Go(p, "append") /\ UNCHANGED <<lock, key>>
  <2>1. Kept' /\ Trunk' = registry /\ record'.before = registry /\ record'.r = k.r
    BY <1>2, <1>3, <1>9, <1>10 DEF Kept, Trunk
  <2>2. /\ pc' \in [Procs -> Steps] /\ pc'[p] = "append" /\ LockInv'
        /\ \A q \in Procs \ {p} : pc'[q] = pc[q]
    <3>1. "append" \in Steps /\ ("append" \in Locked <=> pc[p] \in Locked)
          /\ ("append" \in Rotating => pc[p] \in Rotating) /\ "append" \notin Resuming
      BY <1>1 DEF Steps, Locked, Rotating, Resuming
    <3> QED BY <1>1, <1>10, <3>1, GoesOn
  <2>3. TypeOK'
    <3>1. rec' \in [Procs -> Records \cup {None}] /\ record' \in Records
      BY <1>1, <1>9, <1>10 DEF TypeOK
    <3> QED BY <1>1, <1>2, <1>10, <2>2, <3>1 DEF TypeOK
  <2>4. TrunkInv'
    <3>1. record' # Torn
      BY <1>9, <1>10, RecordAssumption
    <3> QED BY <1>1, <1>2, <1>3, <2>1, <3>1 DEF TrunkInv
  <2>5. KeptInv'
    <3>1. Root(record'.before) = w
      BY <1>4, <2>1
    <3>2. \A i \in DOMAIN w.keys : w.keys[i] < made
      <4> SUFFICES ASSUME NEW i \in DOMAIN w.keys PROVE w.keys[i] < made
        OBVIOUS
      <4>1. w.keys \in Seq(Keys)
        BY DEF Walks
      <4>2. w.keys[i] \in Keys
        BY <4>1
      <4>3. w.keys[i] \in Nat /\ made \in Nat
        BY <1>1, <4>2 DEF Keys, TypeOK
      <4>4. w.keys[i] <= made - 1
        BY <1>5
      <4> QED BY <4>3, <4>4
    <3>3. w.finding = "none" /\ record'.r = [n |-> Len(w.keys), from |-> Current(w), to |-> made']
      BY <1>2, <1>5, <1>9, <2>1
    <3>4. registry' = record'.before /\ next' # None
      BY <1>2, <1>3, <2>1
    <3> QED BY <1>2, <3>1, <3>2, <3>3, <3>4 DEF KeptInv
  <2>6. Relies(p)'
    <3>1. rec'[p] = k /\ key' = key
      BY <1>1, <1>10 DEF TypeOK
    <3>2. Line(k.r, Whole) \in Lines /\ registry \in Seq(Lines)
      BY <1>1, <1>9, LineTypes DEF Records, TypeOK, Whole
    <3>3. registry # Append(registry, Line(k.r, Whole))
      BY <3>2, Longer
    <3>4. AtPart(p)' /\ registry' = record'.before
      BY <1>2, <1>3, <1>10, <2>1, <3>1, <3>3 DEF AtPart
    <3>5. key'[p] \in Range(Root(Trunk').keys)
      BY <1>1, <1>3, <2>1, <3>1 DEF Relies
    <3> QED BY <2>2, <3>4, <3>5 DEF Relies
  <2>7. \A q \in Procs \ {p} : pc'[q] = pc[q] /\ key'[q] = key[q] /\ rec'[q] = rec[q]
    BY <1>1, <1>10, <2>2 DEF TypeOK
  <2>8. Trunk' = Trunk /\ next' # None
    BY <1>2, <1>3, <2>1
  <2> QED BY <1>7, <2>2, <2>3, <2>4, <2>5, <2>6, <2>7, <2>8, RotateWrites
<1>11. CASE record' = None /\ Continue(p, "abandonNext")
  <2>1. ~ Kept' /\ Trunk' = Trunk
    BY <1>2, <1>3, <1>11, RecordAssumption DEF Kept, Trunk
  <2>2. key' = key /\ rec' = rec /\ lock' = lock /\ Go(p, "abandonNext")
    BY <1>11 DEF Continue
  <2>3. /\ pc' \in [Procs -> Steps] /\ pc'[p] = "abandonNext" /\ LockInv'
        /\ \A q \in Procs \ {p} : pc'[q] = pc[q]
    <3>1. "abandonNext" \in Steps /\ ("abandonNext" \in Locked <=> pc[p] \in Locked)
          /\ ("abandonNext" \in Rotating => pc[p] \in Rotating) /\ "abandonNext" \notin Resuming
      BY <1>1 DEF Steps, Locked, Rotating, Resuming
    <3> QED BY <1>1, <2>2, <3>1, GoesOn
  <2>4. TypeOK'
    BY <1>1, <1>2, <1>11, <2>2, <2>3 DEF TypeOK
  <2>5. TrunkInv'
    BY <1>1, <1>2, <1>3, <1>11, <2>1, RotationAssumption DEF TrunkInv
  <2>6. KeptInv'
    BY <2>1 DEF KeptInv
  <2>7. Relies(p)'
    BY <1>1, <1>2, <1>3, <1>11, <2>1, <2>2, <2>3 DEF Relies
  <2>8. \A q \in Procs \ {p} : pc'[q] = pc[q] /\ key'[q] = key[q] /\ rec'[q] = rec[q]
    BY <2>2, <2>3
  <2> QED BY <1>7, <2>1, <2>3, <2>4, <2>5, <2>6, <2>7, <2>8, RotateWrites
<1> QED BY <1>8, <1>10, <1>11 DEF KeepRecord

(* A part of the record, or the whole, reaches the registry. *)
LEMMA Appends ==
  ASSUME Inv, NEW p \in Procs, pc[p] \in {"append", "reappend"},
         NEW part \in 1 .. Whole, registry' = Appended(p, part), UNCHANGED <<beside, made, sealed>>,
         stops' \in 0 .. MaxStops, lock' \in Procs \cup {None}, pc' \in [Procs -> Steps],
         key' \in [Procs -> Keys \cup {None}], rec' \in [Procs -> Records \cup {None}], LockInv',
         \A q \in Procs \ {p} : pc'[q] = pc[q] /\ key'[q] = key[q] /\ rec'[q] = rec[q],
         \/ pc'[p] = "idle" /\ key'[p] = None
         \/ part = Whole /\ pc'[p] = "aside" /\ key'[p] = key[p] /\ rec'[p] = rec[p]
  PROVE  Inv'
<1>1. /\ Relies(p) /\ TypeOK /\ LockInv /\ TrunkInv /\ KeptInv
      /\ seed' = seed /\ kept' = kept /\ next' = next /\ record' = record
      /\ sealed' = sealed /\ made' = made
  BY DEF Inv, RotationInv, beside
<1>2. Kept /\ record = rec[p] /\ next # None /\ registry = record.before
      /\ registry # Append(record.before, Line(record.r, Whole))
  BY <1>1 DEF Relies, AtPart
<1>3. registry' = Append(record.before, Line(record.r, part))
  BY <1>2 DEF Appended, Line
<1>4. Kept' /\ Trunk' = Trunk /\ Trunk = record.before
  BY <1>1, <1>2 DEF Kept, Trunk
<1>5. registry' \in Seq(Lines)
  <2>1. Append(record.before, Line(record.r, part)) \in Seq(Lines)
    BY <1>1, <1>2, KeptWalk
  <2> QED BY <1>3, <2>1
<1>6. TypeOK'
  BY <1>1, <1>5 DEF TypeOK
<1>7. seed # None
  BY <1>1, <1>2 DEF TrunkInv
<1>8. TrunkInv'
  BY <1>1, <1>4, <1>7 DEF TrunkInv
<1>9. KeptInv'
  BY <1>1, <1>2, <1>3, <1>4 DEF KeptInv
<1>10. Relies(p)'
  <2>1. CASE pc'[p] = "idle" /\ key'[p] = None
    BY <2>1 DEF Relies
  <2>2. CASE part = Whole /\ pc'[p] = "aside" /\ key'[p] = key[p] /\ rec'[p] = rec[p]
    <3>1. AtWhole(p)'
      BY <1>1, <1>2, <1>3, <1>4, <2>2 DEF AtWhole
    <3>2. key'[p] # None => key'[p] \in Range(Root(Trunk').keys)
      BY <1>1, <1>4, <2>2 DEF Relies
    <3> QED BY <2>2, <3>1, <3>2 DEF Relies
  <2> QED BY <2>1, <2>2
<1>11. pc[p] \in Locked
  BY DEF Locked
<1>12. \A q \in Procs \ {p} : pc[q] \in {"seeds", "resumeLock"} /\ rec[q] \in Records => record' = rec[q]
  BY <1>1, <1>2, RecordAssumption DEF Inv, RotationInv, Relies, Kept
<1>13. \A q \in Procs \ {p} : pc[q] \notin {"orphan", "orphanWalk", "orphanRemove"}
  BY <1>1, <1>2, RecordAssumption DEF Inv, RotationInv, Relies, Kept
<1> QED BY <1>1, <1>2, <1>4, <1>6, <1>8, <1>9, <1>10, <1>11, <1>12, <1>13, Writes

LEMMA AppendRecordStep ==
  ASSUME Inv, NEW p \in Procs, AppendRecord(p)
  PROVE  Inv'
<1>1. /\ pc[p] = "append" /\ Relies(p) /\ TypeOK /\ LockInv /\ UNCHANGED <<beside, Counts>>
  BY DEF AppendRecord, Inv, RotationInv
<1>2. made' = made /\ sealed' = sealed /\ stops' = stops /\ stops' \in 0 .. MaxStops
  BY <1>1 DEF Counts, TypeOK
<1>3. CASE registry' = registry /\ Continue(p, "abandon")
  <2>1. UNCHANGED <<beside, registry, Counts>>
    BY <1>1, <1>3
  <2>2. "abandon" \in Steps /\ ("abandon" \in Locked <=> pc[p] \in Locked)
        /\ ("abandon" \in Rotating => pc[p] \in Rotating) /\ "abandon" \notin Resuming
    BY <1>1 DEF Steps, Locked, Rotating, Resuming
  <2>3. ASSUME pc'[p] = "abandon" PROVE Relies(p)'
    <3>1. key' = key /\ rec' = rec /\ next' = next /\ record' = record
      BY <1>1, <1>3 DEF Continue, beside
    <3>2. Trunk' = Trunk /\ Kept' = Kept
      BY <1>3, <3>1 DEF Trunk, Kept
    <3> QED BY <1>1, <1>3, <2>3, <3>1, <3>2 DEF Relies, AtPart
  <2> QED BY <1>3, <2>1, <2>2, <2>3, QuietContinue
<1>4. CASE registry' = Appended(p, Whole) /\ Continue(p, "aside")
  <2>1. key' = key /\ rec' = rec /\ lock' = lock /\ Go(p, "aside")
    BY <1>4 DEF Continue
  <2>2. "aside" \in Steps /\ ("aside" \in Locked <=> pc[p] \in Locked)
        /\ "aside" \notin Rotating /\ "aside" \notin Resuming
    BY <1>1 DEF Steps, Locked, Rotating, Resuming
  <2>3. /\ pc' \in [Procs -> Steps] /\ pc'[p] = "aside" /\ LockInv'
        /\ \A q \in Procs \ {p} : pc'[q] = pc[q]
    BY <1>1, <2>1, <2>2, GoesOn
  <2>4. /\ lock' \in Procs \cup {None} /\ key' \in [Procs -> Keys \cup {None}]
        /\ rec' \in [Procs -> Records \cup {None}]
    BY <1>1, <2>1 DEF TypeOK
  <2>5. \A q \in Procs \ {p} : pc'[q] = pc[q] /\ key'[q] = key[q] /\ rec'[q] = rec[q]
    BY <2>1, <2>3
  <2>6. Whole \in 1 .. Whole
    BY DEF Whole
  <2>7. UNCHANGED <<beside, made, sealed>>
    BY <1>1, <1>2
  <2> QED BY <1>1, <1>2, <1>4, <2>1, <2>3, <2>4, <2>5, <2>6, <2>7, Appends
<1>5. CASE \E part \in 1 .. Whole : registry' = Appended(p, part) /\ Return(p)
  <2>1. PICK part \in 1 .. Whole : registry' = Appended(p, part)
    BY <1>5
  <2>2. Return(p)
    BY <1>5
  <2>3. /\ lock' \in Procs \cup {None} /\ pc' \in [Procs -> Steps]
        /\ key' \in [Procs -> Keys \cup {None}] /\ rec' \in [Procs -> Records \cup {None}]
        /\ LockInv' /\ \A q \in Procs \ {p} : pc'[q] = pc[q] /\ key'[q] = key[q] /\ rec'[q] = rec[q]
    BY <1>1, <2>2, Returned
  <2>4. pc'[p] = "idle" /\ key'[p] = None
    BY <1>1, <2>2 DEF Return, Go, TypeOK
  <2>5. UNCHANGED <<beside, made, sealed>>
    BY <1>1, <1>2
  <2> QED BY <1>1, <1>2, <2>1, <2>3, <2>4, <2>5, Appends
<1> QED BY <1>3, <1>4, <1>5 DEF AppendRecord

LEMMA AbandonStep ==
  ASSUME Inv, NEW p \in Procs, Abandon(p)
  PROVE  Inv'
<1>1. /\ pc[p] = "abandon" /\ Relies(p) /\ TypeOK /\ LockInv /\ TrunkInv
      /\ UNCHANGED <<seed, next, kept, registry, Counts>> /\ record' = None /\ Continue(p, "abandonNext")
  BY DEF Abandon, Inv, RotationInv
<1>2. /\ seed' = seed /\ kept' = kept /\ next' = next /\ registry' = registry
      /\ sealed' = sealed /\ stops' = stops /\ made' = made
  BY <1>1 DEF Counts
<1>3. Kept /\ next # None /\ registry = record.before
      /\ registry # Append(record.before, Line(record.r, Whole))
  BY <1>1 DEF Relies, AtPart
<1>4. ~ Kept' /\ Trunk' = Trunk /\ Trunk = registry
  BY <1>1, <1>2, <1>3, RecordAssumption DEF Kept, Trunk
<1>5. key' = key /\ rec' = rec /\ lock' = lock /\ Go(p, "abandonNext")
  BY <1>1 DEF Continue
<1>6. /\ pc' \in [Procs -> Steps] /\ pc'[p] = "abandonNext" /\ LockInv'
      /\ \A q \in Procs \ {p} : pc'[q] = pc[q]
  <2>1. "abandonNext" \in Steps /\ ("abandonNext" \in Locked <=> pc[p] \in Locked)
        /\ ("abandonNext" \in Rotating => pc[p] \in Rotating) /\ "abandonNext" \notin Resuming
    BY <1>1 DEF Steps, Locked, Rotating, Resuming
  <2> QED BY <1>1, <1>5, <2>1, GoesOn
<1>7. TypeOK'
  BY <1>1, <1>2, <1>5, <1>6 DEF TypeOK
<1>8. seed # None
  BY <1>1, <1>3 DEF TrunkInv
<1>9. TrunkInv'
  BY <1>1, <1>2, <1>4, <1>8, RotationAssumption DEF TrunkInv
<1>10. KeptInv'
  BY <1>4 DEF KeptInv
<1>11. Relies(p)'
  BY <1>1, <1>2, <1>4, <1>5, <1>6 DEF Relies
<1>12. pc[p] \in Locked /\ pc[p] \in Rotating
  BY <1>1 DEF Locked, Rotating
<1>13. \A q \in Procs \ {p} : pc'[q] = pc[q] /\ key'[q] = key[q] /\ rec'[q] = rec[q]
  BY <1>5, <1>6
<1> QED BY <1>4, <1>6, <1>7, <1>9, <1>10, <1>11, <1>12, <1>13, RotateWrites

(* The next seed is removed where no record was kept for it. *)
LEMMA NextRemoved ==
  ASSUME Inv, record = None, next' = None, UNCHANGED <<seed, kept, record, registry, Counts>>
  PROVE  /\ TrunkInv' /\ KeptInv' /\ ~ Kept' /\ Trunk' = Trunk
         /\ seed' \in Keys \cup {None} /\ next' \in Keys \cup {None} /\ made' \in Keys
         /\ kept' \in [Ordinals -> Keys \cup {None}] /\ record' \in Records \cup {None, Torn}
         /\ registry' \in Seq(Lines) /\ sealed' \subseteq 1 .. MaxSeals /\ stops' \in 0 .. MaxStops
<1>1. TypeOK /\ TrunkInv
  BY DEF Inv, RotationInv
<1>2. /\ seed' = seed /\ kept' = kept /\ record' = record /\ registry' = registry
      /\ sealed' = sealed /\ stops' = stops /\ made' = made
  BY DEF Counts
<1>3. ~ Kept /\ ~ Kept' /\ Trunk' = Trunk /\ Trunk = registry
  BY <1>2, RecordAssumption DEF Kept, Trunk
<1>4. PICK w \in Walks : w = Root(Trunk)
  BY <1>1, TrunkTypes
<1>5. made \in Nat /\ Len(w.keys) \in Nat /\ \A i \in DOMAIN w.keys : w.keys[i] \in Nat
  <2>1. w.keys \in Seq(Keys)
    BY DEF Walks
  <2>2. \A i \in DOMAIN w.keys : w.keys[i] \in Keys
    BY <2>1
  <2> QED BY <1>1, <2>1, <2>2 DEF TypeOK, Keys
<1>6. PICK last \in {made, made - 1} : Len(w.keys) <= last /\ \A i \in DOMAIN w.keys : w.keys[i] <= last
  <2>1. PICK last : last = IF next = None THEN made ELSE made - 1
    OBVIOUS
  <2>2. Len(w.keys) <= last /\ \A i \in DOMAIN w.keys : w.keys[i] <= last
    BY <1>1, <1>4, <2>1 DEF TrunkInv
  <2> QED BY <2>1, <2>2
<1>7. Len(w.keys) <= made
  BY <1>5, <1>6
<1>8. \A i \in DOMAIN w.keys : w.keys[i] <= made
  BY <1>5, <1>6
<1>9. TrunkInv'
  <2>1. seed # None /\ record' # Torn
    BY <1>1, <1>2, <1>3, RotationAssumption DEF TrunkInv
  <2>2. Rooted(Trunk) /\ w.finding = "none" /\ sealed \subseteq w.seals /\ seed \in {Current(w), None}
    BY <1>1, <1>4 DEF TrunkInv
  <2> QED BY <1>2, <1>3, <1>4, <1>7, <1>8, <2>1, <2>2 DEF TrunkInv
<1>10. KeptInv'
  BY <1>3 DEF KeptInv
<1> QED BY <1>1, <1>2, <1>3, <1>9, <1>10 DEF TypeOK

LEMMA AbandonNextStep ==
  ASSUME Inv, NEW p \in Procs, AbandonNext(p)
  PROVE  Inv'
<1>1. /\ pc[p] = "abandonNext" /\ Relies(p) /\ TypeOK /\ LockInv /\ next' = None /\ Return(p)
      /\ UNCHANGED <<seed, kept, record, registry, Counts>>
  BY DEF AbandonNext, Inv, RotationInv
<1>2. record = None
  BY <1>1 DEF Relies
<1>3. /\ TrunkInv' /\ KeptInv' /\ ~ Kept' /\ Trunk' = Trunk
      /\ seed' \in Keys \cup {None} /\ next' \in Keys \cup {None} /\ made' \in Keys
      /\ kept' \in [Ordinals -> Keys \cup {None}] /\ record' \in Records \cup {None, Torn}
      /\ registry' \in Seq(Lines) /\ sealed' \subseteq 1 .. MaxSeals /\ stops' \in 0 .. MaxStops
  BY <1>1, <1>2, NextRemoved
<1>4. /\ lock' \in Procs \cup {None} /\ pc' \in [Procs -> Steps]
      /\ key' \in [Procs -> Keys \cup {None}] /\ rec' \in [Procs -> Records \cup {None}]
      /\ LockInv' /\ Relies(p)'
      /\ \A q \in Procs \ {p} : pc'[q] = pc[q] /\ key'[q] = key[q] /\ rec'[q] = rec[q]
  BY <1>1, Returned
<1>5. TypeOK'
  BY <1>3, <1>4 DEF TypeOK
<1>6. pc[p] \in Locked /\ pc[p] \in Rotating
  BY <1>1 DEF Locked, Rotating
<1> QED BY <1>3, <1>4, <1>5, <1>6, RotateWrites

(* --resume without a record takes no lock; beside it nobody rotates, and   *)
(* without a record nobody switches.                                        *)
LEMMA OrphanRemoveStep ==
  ASSUME Inv, NEW p \in Procs, OrphanRemove(p)
  PROVE  Inv'
<1>1. /\ pc[p] = "orphanRemove" /\ Relies(p) /\ TypeOK /\ LockInv /\ next' = None /\ Return(p)
      /\ UNCHANGED <<seed, kept, record, registry, Counts>>
  BY DEF OrphanRemove, Inv, RotationInv
<1>2. record = None
  BY <1>1 DEF Relies
<1>3. /\ TrunkInv' /\ KeptInv' /\ ~ Kept' /\ Trunk' = Trunk
      /\ seed' \in Keys \cup {None} /\ next' \in Keys \cup {None} /\ made' \in Keys
      /\ kept' \in [Ordinals -> Keys \cup {None}] /\ record' \in Records \cup {None, Torn}
      /\ registry' \in Seq(Lines) /\ sealed' \subseteq 1 .. MaxSeals /\ stops' \in 0 .. MaxStops
  BY <1>1, <1>2, NextRemoved
<1>4. /\ lock' \in Procs \cup {None} /\ pc' \in [Procs -> Steps]
      /\ key' \in [Procs -> Keys \cup {None}] /\ rec' \in [Procs -> Records \cup {None}]
      /\ LockInv' /\ Relies(p)'
      /\ \A q \in Procs \ {p} : pc'[q] = pc[q] /\ key'[q] = key[q] /\ rec'[q] = rec[q]
  BY <1>1, Returned
<1>5. TypeOK'
  BY <1>3, <1>4 DEF TypeOK
<1>6. ASSUME NEW q \in Procs PROVE Relies(q)'
  <2>1. CASE q = p
    BY <1>4, <2>1
  <2>2. CASE q # p
    <3>1. pc'[q] = pc[q] /\ key'[q] = key[q] /\ rec'[q] = rec[q] /\ Relies(q)
      BY <1>4, <2>2 DEF Inv, RotationInv
    <3>2. ~ Kept /\ record' = None /\ registry' = registry
      BY <1>1, <1>2, RecordAssumption DEF Kept
    <3>3. pc[q] \notin Rotating
      BY <1>1 DEF LockInv, Resuming
    <3>4. pc[q] \notin {"next", "keep", "keeping", "append", "abandon", "reappend", "cut", "switch"}
      BY <3>1, <3>2, <3>3 DEF Relies, AtPart, AtWhole, Rotating
    <3>5. pc[q] \in {"seeds", "resumeLock", "resumeWalk"} =>
            /\ rec[q] \in Records /\ Len(registry) > Len(rec[q].before)
            /\ registry[Len(rec[q].before) + 1] = Line(rec[q].r, Whole)
      BY <1>2, <3>1, RecordAssumption DEF Relies
    <3>6. pc[q] = "aside" => rec[q] \in Records
      BY <3>1, <3>2 DEF Relies, AtWhole
    <3>7. record' # Torn
      BY <3>2, RotationAssumption
    <3> QED BY <1>1, <1>3, <3>1, <3>2, <3>4, <3>5, <3>6, <3>7 DEF Relies
  <2> QED BY <2>1, <2>2
<1> QED BY <1>3, <1>4, <1>5, <1>6 DEF Inv, RotationInv

LEMMA SeedAsideStep ==
  ASSUME Inv, NEW p \in Procs, SeedAside(p)
  PROVE  Inv'
<1>1. /\ pc[p] = "aside" /\ Relies(p) /\ TypeOK /\ LockInv /\ TrunkInv /\ KeptInv
      /\ next' = next /\ record' = record /\ registry' = registry
      /\ made' = made /\ sealed' = sealed /\ stops' = stops
  BY DEF SeedAside, Inv, RotationInv, Counts
<1>2. AtWhole(p) \/ (record = None /\ next = None /\ rec[p] \in Records)
  BY <1>1 DEF Relies
<1>3. Kept' = Kept /\ Trunk' = Trunk
  BY <1>1 DEF Kept, Trunk
<1>4. stops' \in 0 .. MaxStops
  BY <1>1 DEF TypeOK
<1>5. \A t \in {"done", "switch"} :
        t \in Steps /\ (t \in Locked <=> pc[p] \in Locked) /\ t \notin Rotating /\ t \notin Resuming
  BY <1>1 DEF Steps, Locked, Rotating, Resuming
<1>6. CASE next = None
  <2>1. Continue(p, "done") /\ seed' = seed /\ kept' = kept
    BY <1>6 DEF SeedAside
  <2>2. UNCHANGED <<beside, registry, Counts>>
    BY <1>1, <2>1 DEF beside, Counts
  <2>3. record # Torn
    BY <1>2, RecordAssumption, RotationAssumption DEF AtWhole, Kept
  <2>4. ASSUME pc'[p] = "done" PROVE Relies(p)'
    BY <1>1, <1>3, <1>6, <2>1, <2>3, <2>4 DEF Relies, Continue
  <2> QED BY <1>5, <2>1, <2>2, <2>4, QuietContinue
<1>7. CASE next # None /\ seed = None
  <2>1. Continue(p, "switch") /\ seed' = seed /\ kept' = kept
    BY <1>7 DEF SeedAside
  <2>2. UNCHANGED <<beside, registry, Counts>>
    BY <1>1, <2>1 DEF beside, Counts
  <2>3. key' = key /\ rec' = rec
    BY <2>1 DEF Continue
  <2>4. ASSUME pc'[p] = "switch" PROVE Relies(p)'
    BY <1>1, <1>2, <1>3, <1>7, <2>1, <2>3, <2>4 DEF Relies, AtWhole
  <2> QED BY <1>5, <2>1, <2>2, <2>4, QuietContinue
<1>8. CASE next # None /\ seed # None /\ kept[rec[p].r.n] # None
  <2>1. Return(p) /\ seed' = seed /\ kept' = kept
    BY <1>8 DEF SeedAside
  <2>2. UNCHANGED <<beside, registry, made, sealed>>
    BY <1>1, <2>1 DEF beside
  <2> QED BY <1>4, <2>1, <2>2, QuietReturn
<1>9. CASE next # None /\ seed # None /\ kept[rec[p].r.n] = None
  <2>1. kept' = [kept EXCEPT ![rec[p].r.n] = seed] /\ seed' = None /\ Continue(p, "switch")
    BY <1>9 DEF SeedAside
  <2>2. key' = key /\ rec' = rec /\ lock' = lock /\ Go(p, "switch")
    BY <2>1 DEF Continue
  <2>3. /\ pc' \in [Procs -> Steps] /\ pc'[p] = "switch" /\ LockInv'
        /\ \A q \in Procs \ {p} : pc'[q] = pc[q]
    BY <1>1, <1>5, <2>2, GoesOn
  <2>4. AtWhole(p)
    BY <1>2, <1>9
  <2>5. TypeOK'
    <3>1. kept' \in [Ordinals -> Keys \cup {None}] /\ seed' \in Keys \cup {None}
      BY <1>1, <2>1 DEF TypeOK
    <3> QED BY <1>1, <2>2, <2>3, <3>1 DEF TypeOK
  <2>6. TrunkInv'
    BY <1>1, <1>3, <1>9, <2>1, <2>4 DEF TrunkInv, AtWhole
  <2>7. KeptInv'
    BY <1>1, <1>3 DEF KeptInv
  <2>8. Relies(p)'
    BY <1>1, <1>3, <2>1, <2>2, <2>3, <2>4 DEF Relies, AtWhole
  <2>9. \A q \in Procs \ {p} : pc'[q] = pc[q] /\ key'[q] = key[q] /\ rec'[q] = rec[q]
    BY <2>2, <2>3
  <2>10. pc[p] \in Locked
    BY <1>1 DEF Locked
  <2>11. \A q \in Procs \ {p} : pc[q] \in {"seeds", "resumeLock"} /\ rec[q] \in Records => record' = rec[q]
    BY <1>1, <2>4, RecordAssumption DEF Inv, RotationInv, Relies, Kept, AtWhole
  <2>12. \A q \in Procs \ {p} : pc[q] \notin {"orphan", "orphanWalk", "orphanRemove"}
    BY <2>4, RecordAssumption DEF Inv, RotationInv, Relies, Kept, AtWhole
  <2> QED BY <1>1, <1>3, <1>9, <2>3, <2>5, <2>6, <2>7, <2>8, <2>9, <2>10, <2>11, <2>12, Writes
<1> QED BY <1>6, <1>7, <1>8, <1>9

(* The trunk takes the rotation in: the keys known so far stay in it. *)
LEMMA SwitchSeedStep ==
  ASSUME Inv, NEW p \in Procs, SwitchSeed(p)
  PROVE  Inv'
<1>1. /\ pc[p] = "switch" /\ Relies(p) /\ TypeOK /\ LockInv /\ TrunkInv /\ KeptInv
      /\ kept' = kept /\ record' = record /\ registry' = registry
      /\ made' = made /\ sealed' = sealed /\ stops' = stops
  BY DEF SwitchSeed, Inv, RotationInv, Counts
<1>2. /\ Kept /\ record = rec[p] /\ registry = Append(record.before, Line(record.r, Whole))
      /\ next # None /\ next = made
  BY <1>1 DEF Relies, AtWhole, TrunkInv
<1>3. seed' = made /\ next' = None /\ Continue(p, "done")
  BY <1>2 DEF SwitchSeed
<1>4. key' = key /\ rec' = rec /\ lock' = lock /\ Go(p, "done")
  BY <1>3 DEF Continue
<1>5. /\ pc' \in [Procs -> Steps] /\ pc'[p] = "done" /\ LockInv'
      /\ \A q \in Procs \ {p} : pc'[q] = pc[q]
  <2>1. "done" \in Steps /\ ("done" \in Locked <=> pc[p] \in Locked)
        /\ "done" \notin Rotating /\ "done" \notin Resuming
    BY <1>1 DEF Steps, Locked, Rotating, Resuming
  <2> QED BY <1>1, <1>4, <2>1, GoesOn
<1>6. Kept' /\ Trunk = record.before /\ Trunk' = registry
  BY <1>1, <1>2, <1>3 DEF Kept, Trunk
<1>7. PICK b \in Walks : b = Root(record.before)
  BY <1>1, <1>6, TrunkTypes
<1>8. PICK v : v = Root(registry)
  OBVIOUS
<1>9. /\ v = Handed(b, made) /\ record.before \in Seq(Lines) /\ Line(record.r, Whole) \in Lines
      /\ record.r.from = Current(b) /\ made \notin Range(b.keys)
  <2>1. Whole \in 1 .. Whole /\ Whole >= 4
    BY DEF Whole
  <2> QED BY <1>1, <1>2, <1>7, <1>8, <2>1, KeptWalk
<1>10. made \in Keys /\ made \in Nat /\ made # None
  BY <1>1, RotationAssumption DEF TypeOK, Keys
<1>11. /\ Current(v) = made /\ Len(v.keys) = Len(b.keys) + 1
       /\ Range(v.keys) = Range(b.keys) \cup {made}
       /\ v.seals = b.seals /\ v.finding = b.finding
       /\ \A i \in DOMAIN v.keys : v.keys[i] = made \/ (i \in DOMAIN b.keys /\ v.keys[i] = b.keys[i])
  BY <1>9, <1>10, HandedIs
<1>12. TypeOK'
  BY <1>1, <1>3, <1>4, <1>5, <1>10 DEF TypeOK
<1>13. TrunkInv'
  <2>1. /\ Rooted(record.before) /\ b.finding = "none" /\ sealed \subseteq b.seals
        /\ Len(b.keys) <= made - 1 /\ \A i \in DOMAIN b.keys : b.keys[i] <= made - 1
    BY <1>1, <1>2, <1>6, <1>7 DEF TrunkInv
  <2>2. Rooted(registry)
    <3>1. PICK l \in Lines : l = Line(record.r, Whole)
      BY <1>9
    <3>2. l.r.from = Current(Root(record.before)) /\ Continues(l)
      BY <1>7, <1>9, <3>1 DEF Line, Continues, Whole
    <3> QED BY <1>2, <1>9, <2>1, <3>1, <3>2, RootedAppend
  <2>3. Len(v.keys) <= made
    BY <1>10, <1>11, <2>1, CurrentTypes
  <2>4. \A i \in DOMAIN v.keys : v.keys[i] <= made
    <3> SUFFICES ASSUME NEW i \in DOMAIN v.keys PROVE v.keys[i] <= made
      OBVIOUS
    <3>1. CASE v.keys[i] = made
      BY <1>10, <3>1
    <3>2. CASE i \in DOMAIN b.keys /\ v.keys[i] = b.keys[i]
      <4>1. b.keys \in Seq(Keys)
        BY DEF Walks
      <4>2. b.keys[i] \in Nat /\ b.keys[i] <= made - 1
        <5>1. b.keys[i] \in Keys
          BY <3>2, <4>1
        <5> QED BY <2>1, <3>2, <5>1 DEF Keys
      <4> QED BY <1>10, <3>2, <4>2
    <3> QED BY <1>11, <3>1, <3>2
  <2>5. v.finding = "none" /\ sealed' \subseteq v.seals /\ seed' \in {Current(v), None} /\ seed' # None
    BY <1>1, <1>3, <1>10, <1>11, <2>1
  <2>6. record' # Torn
    BY <1>6, RecordAssumption DEF Kept
  <2> QED BY <1>1, <1>3, <1>6, <1>8, <2>2, <2>3, <2>4, <2>5, <2>6 DEF TrunkInv
<1>14. KeptInv'
  <2>1. Whole \in 1 .. Whole
    BY DEF Whole
  <2> QED BY <1>1, <1>2, <1>6, <2>1 DEF KeptInv
<1>15. Relies(p)'
  <2>1. record' # Torn
    BY <1>6, RecordAssumption DEF Kept
  <2>2. key'[p] # None => key'[p] \in Range(Root(Trunk').keys)
    BY <1>1, <1>4, <1>6, <1>7, <1>8, <1>11 DEF Relies
  <2> QED BY <1>3, <1>5, <2>1, <2>2 DEF Relies
<1>16. \A q \in Procs \ {p} : pc'[q] = pc[q] /\ key'[q] = key[q] /\ rec'[q] = rec[q]
  BY <1>4, <1>5
<1>17. \A q \in Procs \ {p} : key[q] # None /\ key[q] \in Range(Root(Trunk).keys) =>
         key[q] \in Range(Root(Trunk').keys)
  BY <1>6, <1>7, <1>8, <1>11
<1>18. ASSUME NEW q \in Procs \ {p} PROVE key[q] # made'
  <2>1. key[q] # None => key[q] \in Range(b.keys)
    BY <1>6, <1>7 DEF Inv, RotationInv, Relies
  <2> QED BY <1>1, <1>9, <1>10, <2>1
<1>19. \A q \in Procs \ {p} : pc[q] \in {"seeds", "resumeLock"} /\ rec[q] \in Records => record' = rec[q]
  BY <1>1, <1>2, RecordAssumption DEF Inv, RotationInv, Relies, Kept
<1>20. \A q \in Procs \ {p} : pc[q] \notin {"orphan", "orphanWalk", "orphanRemove"}
  BY <1>2, RecordAssumption DEF Inv, RotationInv, Relies, Kept
<1>21. pc[p] \in Locked
  BY <1>1 DEF Locked
<1> QED BY <1>5, <1>12, <1>13, <1>14, <1>15, <1>16, <1>17, <1>18, <1>19, <1>20, <1>21, Writes

LEMMA RemoveRecordStep ==
  ASSUME Inv, NEW p \in Procs, RemoveRecord(p)
  PROVE  Inv'
<1>1. /\ pc[p] = "done" /\ Relies(p) /\ TypeOK /\ LockInv /\ TrunkInv /\ KeptInv
      /\ record' = None /\ Return(p)
      /\ seed' = seed /\ next' = next /\ kept' = kept /\ registry' = registry
      /\ made' = made /\ sealed' = sealed /\ stops' = stops
  BY DEF RemoveRecord, Inv, RotationInv, Counts
<1>2. next = None
  BY <1>1 DEF Relies
<1>3. ~ Kept' /\ Trunk' = Trunk
  BY <1>1, <1>2, RecordAssumption DEF Kept, Trunk
<1>4. /\ lock' \in Procs \cup {None} /\ pc' \in [Procs -> Steps]
      /\ key' \in [Procs -> Keys \cup {None}] /\ rec' \in [Procs -> Records \cup {None}]
      /\ LockInv' /\ Relies(p)'
      /\ \A q \in Procs \ {p} : pc'[q] = pc[q] /\ key'[q] = key[q] /\ rec'[q] = rec[q]
  BY <1>1, Returned
<1>5. TypeOK'
  BY <1>1, <1>4 DEF TypeOK
<1>6. TrunkInv'
  BY <1>1, <1>2, <1>3, RotationAssumption DEF TrunkInv
<1>7. KeptInv'
  BY <1>3 DEF KeptInv
<1>8. pc[p] \in Locked
  BY <1>1 DEF Locked
<1>9. ASSUME NEW q \in Procs \ {p}, pc[q] \in {"seeds", "resumeLock"}, rec[q] \in Records
      PROVE  /\ Len(registry') > Len(rec[q].before)
             /\ registry'[Len(rec[q].before) + 1] = Line(rec[q].r, Whole)
  <2>1. CASE record = rec[q]
    <3>1. Kept
      BY <1>9, <2>1 DEF Kept
    <3>2. registry = Append(record.before, Line(record.r, Whole))
      BY <1>1, <1>2, <3>1 DEF KeptInv
    <3>3. record.before \in Seq(Lines) /\ Line(record.r, Whole) \in Lines
      BY <1>1, <3>1, LineTypes DEF Kept, Records, Whole
    <3> QED BY <1>1, <2>1, <3>2, <3>3, Longer
  <2>2. CASE record # rec[q]
    BY <1>1, <1>9, <2>2 DEF Inv, RotationInv, Relies
  <2> QED BY <2>1, <2>2
<1> QED BY <1>1, <1>2, <1>3, <1>4, <1>5, <1>6, <1>7, <1>8, <1>9, Writes

LEMMA CutRegistryStep ==
  ASSUME Inv, NEW p \in Procs, CutRegistry(p)
  PROVE  Inv'
<1>1. /\ pc[p] = "cut" /\ Relies(p) /\ TypeOK /\ LockInv /\ TrunkInv /\ KeptInv
      /\ registry' = rec[p].before /\ Continue(p, "reappend")
      /\ seed' = seed /\ next' = next /\ kept' = kept /\ record' = record
      /\ made' = made /\ sealed' = sealed /\ stops' = stops
  BY DEF CutRegistry, Inv, RotationInv, Counts, beside
<1>2. /\ Kept /\ record = rec[p] /\ next # None
      /\ registry # Append(record.before, Line(record.r, Whole))
  BY <1>1 DEF Relies, AtPart
<1>3. Kept' /\ Trunk' = Trunk /\ registry' = record.before
  BY <1>1, <1>2 DEF Kept, Trunk
<1>4. key' = key /\ rec' = rec /\ lock' = lock /\ Go(p, "reappend")
  BY <1>1 DEF Continue
<1>5. /\ pc' \in [Procs -> Steps] /\ pc'[p] = "reappend" /\ LockInv'
      /\ \A q \in Procs \ {p} : pc'[q] = pc[q]
  <2>1. "reappend" \in Steps /\ ("reappend" \in Locked <=> pc[p] \in Locked)
        /\ "reappend" \notin Rotating /\ ("reappend" \in Resuming => pc[p] \in Resuming)
    BY <1>1 DEF Steps, Locked, Rotating, Resuming
  <2> QED BY <1>1, <1>4, <2>1, GoesOn
<1>6. record.before \in Seq(Lines) /\ Line(record.r, Whole) \in Lines
  BY <1>2, LineTypes DEF Kept, Records, Whole
<1>7. TypeOK'
  BY <1>1, <1>3, <1>4, <1>5, <1>6 DEF TypeOK
<1>8. seed # None
  BY <1>1, <1>2 DEF TrunkInv
<1>9. TrunkInv'
  BY <1>1, <1>3, <1>8 DEF TrunkInv
<1>10. KeptInv'
  BY <1>1, <1>2, <1>3 DEF KeptInv
<1>11. Relies(p)'
  <2>1. registry' # Append(record.before, Line(record.r, Whole))
    BY <1>3, <1>6, Longer
  <2>2. AtPart(p)' /\ registry' = record'.before
    BY <1>1, <1>2, <1>3, <1>4, <2>1 DEF AtPart
  <2>3. key'[p] # None => key'[p] \in Range(Root(Trunk').keys)
    BY <1>1, <1>3, <1>4 DEF Relies
  <2> QED BY <1>5, <2>2, <2>3 DEF Relies
<1>12. \A q \in Procs \ {p} : pc'[q] = pc[q] /\ key'[q] = key[q] /\ rec'[q] = rec[q]
  BY <1>4, <1>5
<1>13. \A q \in Procs \ {p} : pc[q] \in {"seeds", "resumeLock"} /\ rec[q] \in Records => record' = rec[q]
  BY <1>1, <1>2, RecordAssumption DEF Inv, RotationInv, Relies, Kept
<1>14. \A q \in Procs \ {p} : pc[q] \notin {"orphan", "orphanWalk", "orphanRemove"}
  BY <1>2, RecordAssumption DEF Inv, RotationInv, Relies, Kept
<1>15. pc[p] \in Locked
  BY <1>1 DEF Locked
<1> QED BY <1>1, <1>2, <1>3, <1>5, <1>7, <1>9, <1>10, <1>11, <1>12, <1>13, <1>14, <1>15, Writes

LEMMA ReappendStep ==
  ASSUME Inv, NEW p \in Procs, Reappend(p)
  PROVE  Inv'
<1>1. /\ pc[p] = "reappend" /\ TypeOK /\ LockInv /\ UNCHANGED <<beside, Counts>>
      /\ registry' = Appended(p, Whole) /\ Continue(p, "aside")
  BY DEF Reappend, Inv, RotationInv
<1>2. made' = made /\ sealed' = sealed /\ stops' = stops /\ stops' \in 0 .. MaxStops
  BY <1>1 DEF Counts, TypeOK
<1>3. key' = key /\ rec' = rec /\ lock' = lock /\ Go(p, "aside")
  BY <1>1 DEF Continue
<1>4. "aside" \in Steps /\ ("aside" \in Locked <=> pc[p] \in Locked)
      /\ "aside" \notin Rotating /\ "aside" \notin Resuming
  BY <1>1 DEF Steps, Locked, Rotating, Resuming
<1>5. /\ pc' \in [Procs -> Steps] /\ pc'[p] = "aside" /\ LockInv'
      /\ \A q \in Procs \ {p} : pc'[q] = pc[q]
  BY <1>1, <1>3, <1>4, GoesOn
<1>6. /\ lock' \in Procs \cup {None} /\ key' \in [Procs -> Keys \cup {None}]
      /\ rec' \in [Procs -> Records \cup {None}]
  BY <1>1, <1>3 DEF TypeOK
<1>7. \A q \in Procs \ {p} : pc'[q] = pc[q] /\ key'[q] = key[q] /\ rec'[q] = rec[q]
  BY <1>3, <1>5
<1>8. Whole \in 1 .. Whole /\ UNCHANGED <<beside, made, sealed>>
  BY <1>1, <1>2 DEF Whole
<1> QED BY <1>1, <1>2, <1>3, <1>5, <1>6, <1>7, <1>8, Appends

LEMMA ReappendFailsStep ==
  ASSUME Inv, NEW p \in Procs, ReappendFails(p)
  PROVE  Inv'
<1>1. /\ pc[p] = "reappend" /\ TypeOK /\ LockInv /\ UNCHANGED <<beside, made, sealed>>
      /\ stops < MaxStops /\ stops' = stops + 1 /\ Return(p)
  BY DEF ReappendFails, Inv, RotationInv
<1>2. PICK part \in 1 .. Whole : registry' = Appended(p, part)
  BY DEF ReappendFails
<1>3. stops' \in 0 .. MaxStops
  BY <1>1, RotationAssumption DEF TypeOK
<1>4. /\ lock' \in Procs \cup {None} /\ pc' \in [Procs -> Steps]
      /\ key' \in [Procs -> Keys \cup {None}] /\ rec' \in [Procs -> Records \cup {None}]
      /\ LockInv' /\ \A q \in Procs \ {p} : pc'[q] = pc[q] /\ key'[q] = key[q] /\ rec'[q] = rec[q]
  BY <1>1, Returned
<1>5. pc'[p] = "idle" /\ key'[p] = None
  BY <1>1 DEF Return, Go, TypeOK
<1> QED BY <1>1, <1>2, <1>3, <1>4, <1>5, Appends

LEMMA SealStep ==
  ASSUME Inv, NEW p \in Procs, Seal(p)
  PROVE  Inv'
<1>1. /\ pc[p] = "serving" /\ Relies(p) /\ TypeOK /\ LockInv /\ TrunkInv /\ NextSeal <= MaxSeals
      /\ seed' = seed /\ next' = next /\ kept' = kept /\ record' = record /\ lock' = lock
      /\ pc' = pc /\ key' = key /\ rec' = rec /\ made' = made /\ stops' = stops
  BY DEF Seal, Inv, RotationInv, beside
<1>2. record = None /\ next = None /\ key[p] = Current(Root(registry)) /\ key[p] # None
  BY <1>1 DEF Relies
<1>3. NextSeal \in 1 .. MaxSeals
  <2>1. registry \in Seq(Lines)
    BY <1>1 DEF TypeOK
  <2>2. IsFiniteSet(1 .. Len(registry))
    BY <2>1, FS_Interval
  <2>3. PICK S : S = {i \in DOMAIN registry : registry[i].kind = "seal"}
    OBVIOUS
  <2>4. S \subseteq 1 .. Len(registry)
    BY <2>1, <2>3
  <2>5. Cardinality(S) \in Nat
    BY <2>2, <2>4, FS_Subset, FS_CardinalityType
  <2> QED BY <1>1, <2>3, <2>5, RotationAssumption DEF NextSeal
<1>4. PICK whole \in BOOLEAN :
        /\ registry' = Append(registry, [kind |-> "seal", id |-> NextSeal, key |-> key[p], whole |-> whole])
        /\ (whole /\ sealed' = sealed \cup {NextSeal}) \/ sealed' = sealed
  BY DEF Seal
<1>5. PICK l : l = [kind |-> "seal", id |-> NextSeal, key |-> key[p], whole |-> whole]
  OBVIOUS
<1>6. /\ l \in SealLines /\ l \in Lines /\ l.id = NextSeal /\ l.key = Current(Root(registry))
      /\ ~ Continues(l) /\ l.whole = whole /\ registry' = Append(registry, l)
  <2>1. key[p] \in Keys
    BY <1>1, <1>2 DEF TypeOK
  <2>2. l \in SealLines
    BY <1>3, <1>5, <2>1 DEF SealLines
  <2>3. l.id = NextSeal /\ l.key = key[p] /\ l.whole = whole /\ l.kind = "seal"
    BY <1>5
  <2> QED BY <1>2, <1>4, <1>5, <2>2, <2>3 DEF Lines, Continues
<1>7. PICK w \in Walks : w = Root(registry)
  BY <1>1, TrunkTypes
<1>8. PICK v : v = Root(registry')
  OBVIOUS
<1>9. registry \in Seq(Lines) /\ v = ReadLine(w, l)
  <2>1. registry \in Seq(Lines)
    BY <1>1 DEF TypeOK
  <2> QED BY <1>6, <1>7, <1>8, <2>1, RootOfAppend
<1>10. /\ v.keys = w.keys /\ v.finding = w.finding /\ w.seals \subseteq v.seals
       /\ whole => NextSeal \in v.seals
  BY <1>6, <1>7, <1>9, ReadSeal
<1>11. Current(v) = Current(w)
  BY <1>10 DEF Current
<1>12. ~ Kept /\ ~ Kept' /\ Trunk = registry /\ Trunk' = registry'
  BY <1>1, <1>2, RecordAssumption DEF Kept, Trunk
<1>13. TypeOK'
  <2>1. registry' \in Seq(Lines)
    BY <1>6, <1>9
  <2>2. sealed' \subseteq 1 .. MaxSeals
    BY <1>1, <1>3, <1>4 DEF TypeOK
  <2> QED BY <1>1, <2>1, <2>2 DEF TypeOK
<1>14. LockInv'
  BY <1>1 DEF LockInv
<1>15. TrunkInv'
  <2>1. /\ Rooted(registry) /\ w.finding = "none" /\ sealed \subseteq w.seals
        /\ Len(w.keys) <= made /\ (\A i \in DOMAIN w.keys : w.keys[i] <= made)
        /\ seed \in {Current(w), None} /\ seed # None
    BY <1>1, <1>2, <1>7, <1>12 DEF TrunkInv
  <2>2. Rooted(registry')
    <3>1. Root(Append(registry, l)).keys = Root(registry).keys
      BY <1>6, <1>7, <1>8, <1>10
    <3> QED BY <1>6, <1>9, <2>1, <3>1, RootedAppend
  <2>3. sealed' \subseteq v.seals
    BY <1>4, <1>10, <2>1
  <2>4. record' # Torn
    BY <1>1, <1>2, RotationAssumption
  <2> QED BY <1>1, <1>2, <1>8, <1>10, <1>11, <1>12, <2>1, <2>2, <2>3, <2>4 DEF TrunkInv
<1>16. KeptInv'
  BY <1>12 DEF KeptInv
<1>17. Relies(p)'
  <2>1. key'[p] = Current(Root(registry')) /\ key'[p] \in Range(Root(Trunk').keys)
    BY <1>1, <1>2, <1>7, <1>8, <1>10, <1>11, <1>12 DEF Relies
  <2> QED BY <1>1, <1>2, <1>12, <2>1 DEF Relies
<1>18. ASSUME NEW q \in Procs \ {p}, pc[q] \in {"seeds", "resumeLock"}, rec[q] \in Records
       PROVE  /\ Len(registry') > Len(rec[q].before)
              /\ registry'[Len(rec[q].before) + 1] = Line(rec[q].r, Whole)
  <2>1. PICK n \in Nat : n = Len(rec[q].before)
    BY <1>18 DEF Records
  <2>2. Len(registry) > n /\ registry[n + 1] = Line(rec[q].r, Whole)
    BY <1>2, <1>18, <2>1, RecordAssumption DEF Inv, RotationInv, Relies
  <2>3. n + 1 \in 1 .. Len(registry) /\ Len(registry) \in Nat
    BY <1>9, <2>2
  <2>4. Len(registry') = Len(registry) + 1 /\ registry'[n + 1] = registry[n + 1]
    BY <1>6, <1>9, <2>3
  <2> QED BY <2>1, <2>2, <2>3, <2>4
<1>19. \A q \in Procs \ {p} : pc'[q] = pc[q] /\ key'[q] = key[q] /\ rec'[q] = rec[q]
  BY <1>1
<1>20. \A q \in Procs \ {p} : key[q] # None /\ key[q] \in Range(Root(Trunk).keys) =>
         key[q] \in Range(Root(Trunk').keys)
  BY <1>7, <1>8, <1>10, <1>12
<1>21. pc[p] \in Locked
  BY <1>1 DEF Locked
<1> QED BY <1>1, <1>2, <1>12, <1>13, <1>14, <1>15, <1>16, <1>17, <1>18, <1>19, <1>20, <1>21, Writes

LEMMA UnchangedInv ==
  ASSUME Inv, kept' \in [Ordinals -> Keys \cup {None}],
         UNCHANGED <<seed, next, record, registry, lock, pc, key, rec, Counts>>
  PROVE  Inv'
<1>1. /\ seed' = seed /\ next' = next /\ record' = record /\ registry' = registry /\ lock' = lock
      /\ pc' = pc /\ key' = key /\ rec' = rec /\ made' = made /\ sealed' = sealed /\ stops' = stops
  BY DEF Counts
<1>2. Trunk' = Trunk /\ Kept' = Kept
  BY <1>1 DEF Trunk, Kept
<1>3. TypeOK' /\ LockInv' /\ TrunkInv' /\ KeptInv'
  BY <1>1, <1>2 DEF Inv, RotationInv, TypeOK, LockInv, TrunkInv, KeptInv
<1>4. ASSUME NEW q \in Procs PROVE Relies(q)'
  <2>1. Relies(q)
    BY DEF Inv, RotationInv
  <2> QED BY <1>1, <1>2, <2>1 DEF Relies, AtWhole, AtPart
<1> QED BY <1>3, <1>4 DEF Inv, RotationInv

LEMMA NextInv ==
  ASSUME Inv, ~ Overlap, [Next]_vars
  PROVE  Inv'
<1>1. ASSUME NEW p \in Procs, ProcStep(p) PROVE Inv'
  BY <1>1, LoadSeedStep, PendingBesideStep, RotateLockStep, WalkToRotateStep, MakeNextStep,
     MakeRecordStep, KeepRecordStep, AppendRecordStep, AbandonStep, AbandonNextStep, SeedAsideStep,
     SwitchSeedStep, RemoveRecordStep, ReadKeptStep, FindSeedsStep, ResumeLockStep, ResumeWalkStep,
     CutRegistryStep, ReappendStep, OrphanStep, OrphanWalkStep, OrphanRemoveStep, GatewaySeedStep,
     GatewayPendingStep, GatewayLockStep, HoldEngineRegistryStep, StopStep DEF ProcStep
<1>2. ASSUME NEW p \in Procs, BeginRotate(p) \/ BeginResume(p) \/ BeginGateway(p) PROVE Inv'
  BY <1>2, BeginRotateStep, BeginResumeStep, BeginGatewayStep
<1>3. ASSUME NEW p \in Procs, Seal(p) \/ ReappendFails(p) \/ Stop(p) PROVE Inv'
  BY <1>3, SealStep, ReappendFailsStep, StopStep
<1>4. ASSUME NEW n \in Ordinals, Destroy(n) PROVE Inv'
  <2>1. kept' \in [Ordinals -> Keys \cup {None}]
    BY <1>4 DEF Destroy, Inv, TypeOK
  <2> QED BY <1>4, <2>1, UnchangedInv DEF Destroy
<1>5. CASE UNCHANGED vars
  <2>1. kept' \in [Ordinals -> Keys \cup {None}]
    BY <1>5 DEF vars, Inv, TypeOK
  <2> QED BY <1>5, <2>1, UnchangedInv DEF vars, Counts
<1> QED BY <1>1, <1>2, <1>3, <1>4, <1>5 DEF Next

-----------------------------------------------------------------------------
(* What follows from it. *)

LEMMA InvHolds ==
  ASSUME Inv
  PROVE  RotationHolds
<1>1. TypeOK /\ TrunkInv /\ KeptInv /\ \A p \in Procs : Relies(p)
  BY DEF Inv, RotationInv
<1>2. PICK w : w = Root(registry)
  OBVIOUS
<1>3. Verified = w
  BY <1>2 DEF Verified, Root
<1>4. CASE ~ Kept \/ next = None
  <2>1. Trunk = registry
    BY <1>4 DEF Trunk
  <2>2. w.finding = "none" /\ sealed \subseteq w.seals /\ seed \in {Current(w), None} /\ seed # None
    BY <1>1, <1>2, <1>4, <2>1 DEF TrunkInv
  <2>3. \A p \in Procs : pc[p] = "serving" => key[p] = Current(w)
    BY <1>1, <1>2 DEF Relies
  <2> QED BY <1>3, <2>2, <2>3
          DEF RotationHolds, CurrentSeedHeld, ServesCurrentKey, BreakIsPending, SealsKept
<1>5. CASE Kept /\ next # None
  <2>1. PICK b : b = Root(record.before)
    OBVIOUS
  <2>2. /\ b \in Walks /\ b.finding = "none" /\ record.r.n = Len(b.keys)
        /\ \A part \in 1 .. Whole :
             /\ Root(Append(record.before, Line(record.r, part))) = ReadLine(b, Line(record.r, part))
             /\ part = 1 => ReadLine(b, Line(record.r, part)) = b
             /\ part \in {2, 3} => ReadLine(b, Line(record.r, part)) = Broken(b)
             /\ part >= 4 => ReadLine(b, Line(record.r, part)) = Handed(b, made)
    BY <1>1, <1>5, <2>1, KeptWalk
  <2>3. made \in Keys /\ next = made /\ sealed \subseteq b.seals
    BY <1>1, <1>5, <2>1 DEF TypeOK, TrunkInv, Trunk
  <2>4. w = b \/ w = Broken(b) \/ w = Handed(b, made)
    <3>1. CASE registry = record.before
      BY <1>2, <2>1, <3>1
    <3>2. CASE \E part \in 1 .. Whole : registry = Append(record.before, Line(record.r, part))
      <4>1. PICK part \in 1 .. Whole : registry = Append(record.before, Line(record.r, part))
        BY <3>2
      <4>2. part = 1 \/ part \in {2, 3} \/ part >= 4
        BY DEF Whole
      <4> QED BY <1>2, <2>2, <4>1, <4>2
    <3> QED BY <1>1, <1>5, <3>1, <3>2 DEF KeptInv
  <2>5. b \in [keys : Seq(Keys), seals : SUBSET (1 .. MaxSeals), finding : Findings]
    BY <2>2 DEF Walks
  <2>6. /\ Broken(b).keys = b.keys /\ Broken(b).seals = b.seals /\ Broken(b).finding = "break"
    BY <2>5 DEF Broken
  <2>7. Current(Handed(b, made)) = made /\ Handed(b, made).seals = b.seals /\ Handed(b, made).finding = "none"
    BY <2>2, <2>3, HandedIs
  <2>8. SealsKept
    BY <1>3, <2>3, <2>4, <2>6, <2>7 DEF SealsKept
  <2>9. BreakIsPending
    <3> SUFFICES ASSUME w.finding # "none"
                 PROVE  w.finding = "break" /\ record \notin {None, Torn} /\ record.r.n = Followed(w) + 1
      BY <1>3 DEF BreakIsPending
    <3>1. w = Broken(b)
      BY <2>2, <2>4, <2>7
    <3>2. Followed(w) + 1 = Len(b.keys)
      BY <2>2, <2>6, <3>1, CurrentTypes DEF Followed
    <3>3. record \notin {None, Torn}
      BY <1>5, RecordAssumption DEF Kept
    <3> QED BY <2>2, <2>6, <3>1, <3>2, <3>3
  <2>10. ServesCurrentKey
    BY <1>1, <1>5 DEF ServesCurrentKey, Relies
  <2>11. CurrentSeedHeld
    <3>1. CASE seed = None
      <4>1. registry = Append(record.before, Line(record.r, Whole)) /\ Whole \in 1 .. Whole /\ Whole >= 4
        BY <1>1, <3>1 DEF TrunkInv, Whole
      <4>2. w = Handed(b, made)
        BY <1>2, <2>2, <4>1
      <4> QED BY <1>3, <2>3, <2>7, <4>2 DEF CurrentSeedHeld
    <3>2. CASE seed # None
      <4>1. seed = Current(b)
        BY <1>1, <1>5, <2>1, <3>2 DEF TrunkInv, Trunk
      <4>2. Current(Broken(b)) = Current(b)
        BY <2>6 DEF Current
      <4> QED BY <1>3, <2>3, <2>4, <2>7, <4>1, <4>2 DEF CurrentSeedHeld
    <3> QED BY <3>1, <3>2
  <2> QED BY <2>8, <2>9, <2>10, <2>11 DEF RotationHolds
<1> QED BY <1>4, <1>5

(* Where no --resume runs beside a rotate-key: for every number of          *)
(* processes, keys, seals and deaths, the seed of the key the registry ends *)
(* at is held, a gateway serves under that key only, a line torn in the     *)
(* registry is the pending rotation's, and a seal answered as written loads *)
(* for every verifier for good (rotate_key.go, rotation.go).                *)
THEOREM RotationIsSafe ==
  ASSUME ~ Overlap
  PROVE  Spec => []RotationHolds
<1>1. Init => Inv
  BY InitInv
<1>2. Inv /\ [Next]_vars => Inv'
  BY NextInv
<1>3. Inv => RotationHolds
  BY InvHolds
<1> QED BY <1>1, <1>2, <1>3, PTL DEF Spec

(* The same for the files' and processes' types. *)
THEOREM RotationTypes ==
  ASSUME ~ Overlap
  PROVE  Spec => []TypeOK
<1>1. Init => Inv
  BY InitInv
<1>2. Inv /\ [Next]_vars => Inv'
  BY NextInv
<1>3. Inv => TypeOK
  BY DEF Inv
<1> QED BY <1>1, <1>2, <1>3, PTL DEF Spec
=============================================================================
