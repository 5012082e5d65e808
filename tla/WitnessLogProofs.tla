-------------------------- MODULE WitnessLogProofs ---------------------------
(***************************************************************************)
(* The witness never shows two histories, for every number of trails,      *)
(* submitters, statements, failures and copies put back.  First the        *)
(* sequences and the chains the log's lines make, then what a judged log   *)
(* says of its marks, then every step.                                     *)
(***************************************************************************)
EXTENDS MCWitnessLog, WellFoundedInduction, TLAPS

-----------------------------------------------------------------------------
(* Induction over the naturals, with a set for the property, and recursion, *)
(* with a function for its step.                                            *)

(* Every set of naturals that is not empty has a least element. *)
LEMMA Least ==
  ASSUME NEW T, T \subseteq Nat, T # {}
  PROVE  \E n \in T : \A m \in T : n <= m
<1>1. PICK R : R = OpToRel(<, Nat)
  OBVIOUS
<1>2. IsWellFoundedOn(R, Nat)
  BY <1>1, NatLessThanWellFounded
<1>3. PICK n \in T : \A m \in T : ~ (<<m, n>> \in R)
  BY <1>2, WFMin
<1>4. \A m \in T : ~ (m < n)
  <2> SUFFICES ASSUME NEW m \in T, m < n PROVE FALSE
    OBVIOUS
  <2>1. <<m, n>> \in R
    BY <1>1, <1>3 DEF OpToRel
  <2> QED BY <1>3, <2>1
<1> QED BY <1>3, <1>4

(* A set that holds 0 and, with a number, the next holds every natural. *)
LEMMA Induct ==
  ASSUME NEW T, 0 \in T, \A n \in Nat : n \in T => n + 1 \in T
  PROVE  Nat \subseteq T
<1> SUFFICES ASSUME Nat \ T # {} PROVE FALSE
  OBVIOUS
<1>1. PICK n \in Nat \ T : \A m \in Nat \ T : n <= m
  BY Least
<1>2. n # 0 /\ n - 1 \in Nat /\ n - 1 + 1 = n
  BY <1>1
<1>3. n - 1 \in T
  BY <1>1, <1>2
<1> QED BY <1>1, <1>2, <1>3

(* A function on 0 .. n whose every value comes from the one before it. *)
LEMMA Recursive ==
  ASSUME NEW V, NEW base \in V, NEW n \in Nat, NEW g \in [1 .. n -> [V -> V]]
  PROVE  \E c \in [0 .. n -> V] : /\ c[0] = base
                                  /\ \A i \in 1 .. n : c[i] = g[i][c[i - 1]]
<1>1. PICK T : T = {k \in Nat : k <= n => \E c \in [0 .. k -> V] :
                       c[0] = base /\ \A i \in 1 .. k : c[i] = g[i][c[i - 1]]}
  OBVIOUS
<1>2. 0 \in T
  <2>1. PICK c : c = [i \in 0 .. 0 |-> base]
    OBVIOUS
  <2>2. c \in [0 .. 0 -> V] /\ c[0] = base /\ \A i \in 1 .. 0 : c[i] = g[i][c[i - 1]]
    BY <2>1
  <2> QED BY <1>1, <2>2
<1>3. ASSUME NEW k \in Nat, k \in T PROVE k + 1 \in T
  <2> SUFFICES ASSUME k + 1 <= n
               PROVE  \E c \in [0 .. k + 1 -> V] :
                        c[0] = base /\ \A i \in 1 .. k + 1 : c[i] = g[i][c[i - 1]]
    BY <1>1
  <2>1. PICK c \in [0 .. k -> V] : c[0] = base /\ \A i \in 1 .. k : c[i] = g[i][c[i - 1]]
    BY <1>1, <1>3
  <2>2. PICK value \in V : value = g[k + 1][c[k]]
    <3>1. c[k] \in V /\ k + 1 \in 1 .. n
      BY <2>1
    <3> QED BY <3>1
  <2>3. PICK d : d = [i \in 0 .. k + 1 |-> IF i = k + 1 THEN value ELSE c[i]]
    OBVIOUS
  <2>4. d \in [0 .. k + 1 -> V]
    BY <2>1, <2>2, <2>3
  <2>5. d[0] = base
    BY <2>1, <2>3
  <2>6. ASSUME NEW i \in 1 .. k + 1 PROVE d[i] = g[i][d[i - 1]]
    <3>1. CASE i = k + 1
      <4>1. d[i] = value /\ d[i - 1] = c[k]
        BY <2>3, <3>1
      <4> QED BY <2>2, <3>1, <4>1
    <3>2. CASE i # k + 1
      <4>1. i \in 1 .. k /\ d[i] = c[i] /\ d[i - 1] = c[i - 1]
        BY <2>3, <3>2
      <4> QED BY <2>1, <4>1
    <3> QED BY <3>1, <3>2
  <2> QED BY <2>4, <2>5, <2>6
<1>4. n \in T
  BY <1>2, <1>3, Induct
<1> QED BY <1>1, <1>4


-----------------------------------------------------------------------------
(* Sequences of whatever they hold. *)

LEMMA RangeIs ==
  ASSUME NEW s
  PROVE  \A x : x \in Range(s) <=> \E i \in DOMAIN s : x = s[i]
BY DEF Range

LEMMA SequencedIs ==
  ASSUME NEW s, NEW S, s \in Seq(S)
  PROVE  Sequenced(s) /\ Range(s) \subseteq S
<1>1. \A i \in 1 .. Len(s) : s[i] \in S
  OBVIOUS
<1>2. DOMAIN s = 1 .. Len(s) /\ Len(s) \in Nat
  OBVIOUS
<1>3. \A i \in 1 .. Len(s) : s[i] \in Range(s)
  BY <1>2, RangeIs
<1>4. s \in [1 .. Len(s) -> Range(s)]
  BY <1>2, <1>3
<1>5. s \in Seq(Range(s))
  BY <1>2, <1>4
<1> QED BY <1>1, <1>2, <1>5, RangeIs DEF Sequenced

LEMMA SequencedHas ==
  ASSUME NEW s, Sequenced(s)
  PROVE  /\ s \in Seq(Range(s)) /\ Len(s) \in Nat /\ DOMAIN s = 1 .. Len(s)
         /\ \A i \in 1 .. Len(s) : s[i] \in Range(s)
<1>1. s \in Seq(Range(s))
  BY DEF Sequenced
<1> QED BY <1>1

LEMMA NoneSequenced == Sequenced(<<>>) /\ Range(<<>>) = {}
<1>1. PICK e, S : e = <<>> /\ S = {}
  OBVIOUS
<1>2. e \in Seq(S)
  BY <1>1
<1>3. Sequenced(e) /\ Range(e) \subseteq S
  BY <1>2, SequencedIs
<1> QED BY <1>1, <1>3

LEMMA SequencedAppend ==
  ASSUME NEW s, Sequenced(s), NEW x
  PROVE  Sequenced(Append(s, x)) /\ Range(Append(s, x)) = Range(s) \cup {x}
<1>1. PICK S : S = Range(s) \cup {x}
  OBVIOUS
<1>2. s \in Seq(S) /\ x \in S
  <2>1. s \in Seq(Range(s)) /\ Range(s) \subseteq S
    BY <1>1, SequencedHas
  <2> QED BY <1>1, <2>1
<1>3. PICK app : app = Append(s, x)
  OBVIOUS
<1>4. app \in Seq(S) /\ Len(app) = Len(s) + 1 /\ app[Len(s) + 1] = x
      /\ \A i \in 1 .. Len(s) : app[i] = s[i]
  BY <1>2, <1>3
<1>5. Sequenced(app) /\ Range(app) \subseteq S
  BY <1>4, SequencedIs
<1>6. S \subseteq Range(app)
  <2>1. DOMAIN app = 1 .. Len(s) + 1 /\ DOMAIN s = 1 .. Len(s) /\ Len(s) \in Nat
    BY <1>2, <1>4
  <2>2. x \in Range(app)
    BY <1>4, <2>1, RangeIs
  <2>3. ASSUME NEW y \in Range(s) PROVE y \in Range(app)
    <3>1. PICK i \in DOMAIN s : y = s[i]
      BY RangeIs
    <3>2. i \in DOMAIN app /\ app[i] = y
      BY <1>4, <2>1, <3>1
    <3> QED BY <3>2, RangeIs
  <2> QED BY <1>1, <2>2, <2>3
<1> QED BY <1>1, <1>3, <1>5, <1>6

LEMMA SequencedPrefix ==
  ASSUME NEW s, Sequenced(s), NEW n \in 0 .. Len(s)
  PROVE  /\ Sequenced(SubSeq(s, 1, n)) /\ Range(SubSeq(s, 1, n)) \subseteq Range(s)
         /\ Len(SubSeq(s, 1, n)) = n /\ \A i \in 1 .. n : SubSeq(s, 1, n)[i] = s[i]
<1>1. PICK S : S = Range(s) /\ s \in Seq(S) /\ Len(s) \in Nat
  BY SequencedHas
<1>2. PICK p : p = SubSeq(s, 1, n)
  OBVIOUS
<1>3. p \in Seq(S) /\ Len(p) = n /\ \A i \in 1 .. n : p[i] = s[i]
  BY <1>1, <1>2
<1> QED BY <1>1, <1>2, <1>3, SequencedIs

LEMMA SequencedExcept ==
  ASSUME NEW s, Sequenced(s), NEW i \in DOMAIN s, NEW x
  PROVE  /\ Sequenced([s EXCEPT ![i] = x])
         /\ Range([s EXCEPT ![i] = x]) \subseteq Range(s) \cup {x}
<1>1. PICK S : S = Range(s) \cup {x}
  OBVIOUS
<1>2. PICK e : e = [s EXCEPT ![i] = x]
  OBVIOUS
<1>3. s \in [1 .. Len(s) -> S] /\ Len(s) \in Nat
  <2>1. s \in Seq(Range(s)) /\ Len(s) \in Nat /\ DOMAIN s = 1 .. Len(s)
        /\ \A j \in 1 .. Len(s) : s[j] \in Range(s)
    BY SequencedHas
  <2> QED BY <1>1, <2>1
<1>4. e \in [1 .. Len(s) -> S]
  BY <1>1, <1>2, <1>3
<1>5. e \in Seq(S)
  BY <1>3, <1>4
<1> QED BY <1>1, <1>2, <1>5, SequencedIs

-----------------------------------------------------------------------------
(* Chains: a trail's statements among the lines, in order. *)

ReadOn(chain, line, t) == IF line.trail = t THEN Append(chain, line) ELSE chain

LEMMA ReadOnTypes ==
  ASSUME NEW S, NEW chain \in Seq(S), NEW line \in S, NEW t
  PROVE  /\ ReadOn(chain, line, t) \in Seq(S)
         /\ Len(ReadOn(chain, line, t)) = Len(chain) + IF line.trail = t THEN 1 ELSE 0
BY DEF ReadOn

(* The chain is the last of a row of chains, each a line further, and the  *)
(* chain of the lines before one is that row's.                            *)
LEMMA ChainIs ==
  ASSUME NEW lines, Sequenced(lines), NEW t
  PROVE  \E c \in [0 .. Len(lines) -> Seq(Range(lines))] :
           /\ c[0] = <<>>
           /\ \A i \in 1 .. Len(lines) : c[i] = ReadOn(c[i - 1], lines[i], t)
           /\ Chain(lines, t) = c[Len(lines)]
<1> PICK S : S = Range(lines)
  OBVIOUS
<1>1. PICK n \in Nat : n = Len(lines) /\ S = Range(lines)
  BY SequencedHas
<1>2. \A i \in 1 .. n : lines[i] \in S
  BY <1>1, SequencedHas
<1>3. PICK V, base : V = Seq(S) /\ base = <<>>
  OBVIOUS
<1>4. PICK g : g = [i \in 1 .. n |-> [chain \in V |-> ReadOn(chain, lines[i], t)]]
  OBVIOUS
<1>5. g \in [1 .. n -> [V -> V]] /\ base \in V
  BY <1>2, <1>3, <1>4, ReadOnTypes
<1>6. PICK c \in [0 .. n -> V] : c[0] = base /\ \A i \in 1 .. n : c[i] = g[i][c[i - 1]]
  BY <1>5, Recursive
<1>7. ASSUME NEW i \in 1 .. n PROVE c[i - 1] \in V /\ c[i] = ReadOn(c[i - 1], lines[i], t)
  <2>1. i - 1 \in 0 .. n
    BY <1>1
  <2>2. c[i - 1] \in V
    BY <1>6, <2>1
  <2> QED BY <1>4, <1>6, <2>2
<1>8. c = [i \in 0 .. n |-> IF i = 0 THEN <<>> ELSE ReadOn(c[i - 1], lines[i], t)]
  <2>1. PICK f : f = [i \in 0 .. n |-> IF i = 0 THEN <<>> ELSE ReadOn(c[i - 1], lines[i], t)]
    OBVIOUS
  <2>2. ASSUME NEW i \in 0 .. n PROVE c[i] = f[i]
    <3>1. CASE i = 0
      BY <1>3, <1>6, <2>1, <3>1
    <3>2. CASE i # 0
      <4>1. i \in 1 .. n
        BY <1>1, <3>2
      <4> QED BY <1>7, <2>1, <3>2, <4>1
    <3> QED BY <3>1, <3>2
  <2>3. c = f
    BY <1>6, <2>1, <2>2
  <2> QED BY <2>1, <2>3
<1>9. PICK h : h = CHOOSE w0 : w0 = [i \in 0 .. n |-> IF i = 0 THEN <<>> ELSE ReadOn(w0[i - 1], lines[i], t)]
  OBVIOUS
<1>10. h = [i \in 0 .. n |-> IF i = 0 THEN <<>> ELSE ReadOn(h[i - 1], lines[i], t)]
  BY <1>8, <1>9
<1>11. \A i \in 0 .. n : h[i] = c[i]
  <2>1. PICK T : T = {k \in Nat : k <= n => h[k] = c[k]}
    OBVIOUS
  <2>2. 0 \in T
    <3>1. 0 \in 0 .. n
      BY <1>1
    <3>2. h[0] = <<>>
      BY <1>10, <3>1
    <3> QED BY <1>3, <1>6, <2>1, <3>2
  <2>3. ASSUME NEW k \in Nat, k \in T PROVE k + 1 \in T
    <3>1. CASE k + 1 <= n
      <4>1. k + 1 \in 1 .. n /\ k + 1 - 1 = k /\ k <= n /\ k + 1 \in 0 .. n /\ k + 1 # 0
        BY <3>1
      <4>2. h[k] = c[k]
        BY <2>1, <2>3, <4>1
      <4>3. h[k + 1] = ReadOn(h[k], lines[k + 1], t)
        BY <1>10, <4>1
      <4>4. c[k + 1] = ReadOn(c[k], lines[k + 1], t)
        BY <1>7, <4>1
      <4> QED BY <2>1, <4>2, <4>3, <4>4
    <3>2. CASE ~ (k + 1 <= n)
      BY <2>1, <3>2
    <3> QED BY <3>1, <3>2
  <2>4. Nat \subseteq T
    BY <2>2, <2>3, Induct
  <2> QED BY <2>1, <2>4
<1>12. Chain(lines, t) = h[n]
  BY <1>1, <1>9 DEF Chain, ReadOn
<1>13. n \in 0 .. n
  BY <1>1
<1> QED BY <1>1, <1>3, <1>6, <1>7, <1>11, <1>12, <1>13

Row(c, lines, t) ==
  /\ c \in [0 .. Len(lines) -> Seq(Range(lines))]
  /\ \A i \in 1 .. Len(lines) : c[i] = ReadOn(c[i - 1], lines[i], t)
  /\ Chain(lines, t) = c[Len(lines)]
  /\ \A k \in 0 .. Len(lines) : Chain(SubSeq(lines, 1, k), t) = c[k]

LEMMA ChainRow ==
  ASSUME NEW lines, Sequenced(lines), NEW t
  PROVE  \E c : Row(c, lines, t)
<1>1. PICK c \in [0 .. Len(lines) -> Seq(Range(lines))] :
           /\ c[0] = <<>>
           /\ \A i \in 1 .. Len(lines) : c[i] = ReadOn(c[i - 1], lines[i], t)
           /\ Chain(lines, t) = c[Len(lines)]
  BY ChainIs
<1>2. ASSUME NEW k \in 0 .. Len(lines) PROVE Chain(SubSeq(lines, 1, k), t) = c[k]
  <2>1. Len(lines) \in Nat
    BY SequencedHas
  <2>2. PICK p : p = SubSeq(lines, 1, k)
    OBVIOUS
  <2>3. Sequenced(p) /\ Len(p) = k /\ \A i \in 1 .. k : p[i] = lines[i]
    BY <2>2, SequencedPrefix
  <2>4. PICK d \in [0 .. Len(p) -> Seq(Range(p))] :
           /\ d[0] = <<>>
           /\ \A i \in 1 .. Len(p) : d[i] = ReadOn(d[i - 1], p[i], t)
           /\ Chain(p, t) = d[Len(p)]
    BY <2>3, ChainIs
  <2>5. PICK T : T = {j \in Nat : j <= k => d[j] = c[j]}
    OBVIOUS
  <2>6. 0 \in T
    BY <1>1, <2>4, <2>5
  <2>7. ASSUME NEW j \in Nat, j \in T PROVE j + 1 \in T
    <3>1. CASE j + 1 <= k
      <4>1. j + 1 \in 1 .. k /\ j + 1 \in 1 .. Len(lines) /\ j + 1 - 1 = j /\ j <= k
        BY <2>1, <3>1
      <4>2. d[j] = c[j]
        BY <2>5, <2>7, <4>1
      <4>3. d[j + 1] = ReadOn(d[j], p[j + 1], t)
        BY <2>3, <2>4, <4>1
      <4>4. c[j + 1] = ReadOn(c[j], lines[j + 1], t)
        BY <1>1, <4>1
      <4> QED BY <2>3, <2>5, <4>1, <4>2, <4>3, <4>4
    <3>2. CASE ~ (j + 1 <= k)
      BY <2>1, <2>5, <3>2
    <3> QED BY <3>1, <3>2
  <2>8. Nat \subseteq T
    BY <2>6, <2>7, Induct
  <2> QED BY <2>1, <2>2, <2>3, <2>4, <2>5, <2>8
<1> QED BY <1>1, <1>2 DEF Row

LEMMA ChainTypes ==
  ASSUME NEW lines, Sequenced(lines), NEW t
  PROVE  Sequenced(Chain(lines, t)) /\ Len(Chain(lines, t)) \in Nat
<1>1. PICK c \in [0 .. Len(lines) -> Seq(Range(lines))] : Chain(lines, t) = c[Len(lines)]
  BY ChainIs
<1>2. Len(lines) \in Nat
  BY SequencedHas
<1>3. PICK chain, S : chain = c[Len(lines)] /\ S = Range(lines)
  OBVIOUS
<1>4. chain \in Seq(S)
  BY <1>1, <1>2, <1>3
<1>5. Sequenced(chain) /\ Len(chain) \in Nat
  BY <1>4, SequencedIs
<1> QED BY <1>1, <1>3, <1>5

(* A chain only grows as lines are read, by the line that is its own. *)
LEMMA ChainGrows ==
  ASSUME NEW lines, Sequenced(lines), NEW i \in 1 .. Len(lines), NEW k \in i .. Len(lines)
  PROVE  LET t == lines[i].trail
         IN  /\ Len(Chain(SubSeq(lines, 1, i - 1), t)) \in Nat
             /\ Len(Chain(SubSeq(lines, 1, k), t)) \in Nat
             /\ Len(Chain(SubSeq(lines, 1, i - 1), t)) < Len(Chain(SubSeq(lines, 1, k), t))
<1>1. PICK t : t = lines[i].trail
  OBVIOUS
<1> PICK S : S = Range(lines)
  OBVIOUS
<1>2. PICK n \in Nat : n = Len(lines) /\ S = Range(lines)
  BY SequencedHas
<1>3. \A j \in 1 .. n : lines[j] \in S
  BY <1>2, SequencedHas
<1>4. PICK c : Row(c, lines, t)
  BY ChainRow
<1>5. PICK len : len = [j \in 0 .. n |-> Len(c[j])]
  OBVIOUS
<1>6. ASSUME NEW j \in 0 .. n PROVE c[j] \in Seq(S) /\ len[j] = Len(c[j]) /\ len[j] \in Nat
  <2>1. c[j] \in Seq(S)
    BY <1>2, <1>4 DEF Row
  <2> QED BY <1>5, <2>1
<1>7. ASSUME NEW j \in 1 .. n
      PROVE  len[j] = len[j - 1] + IF lines[j].trail = t THEN 1 ELSE 0
  <2>1. PICK chain, line : chain = c[j - 1] /\ line = lines[j]
    OBVIOUS
  <2>2. j - 1 \in 0 .. n /\ j \in 0 .. n
    BY <1>2
  <2>3. chain \in Seq(S) /\ line \in S /\ len[j - 1] = Len(chain)
    BY <1>3, <1>6, <2>1, <2>2
  <2>4. Len(ReadOn(chain, line, t)) = Len(chain) + IF line.trail = t THEN 1 ELSE 0
    BY <2>3, ReadOnTypes
  <2>5. c[j] = ReadOn(chain, line, t)
    BY <1>2, <1>4, <2>1 DEF Row
  <2> QED BY <1>6, <2>1, <2>2, <2>3, <2>4, <2>5
<1>8. PICK T : T = {j \in Nat : i + j <= n => len[i - 1] < len[i + j]}
  OBVIOUS
<1>9. i \in 1 .. n /\ i \in 0 .. n /\ i - 1 \in 0 .. n /\ k \in 0 .. n /\ k - i \in Nat
      /\ i + (k - i) = k
  BY <1>2
<1>10. 0 \in T
  <2>1. len[i] = len[i - 1] + 1 /\ len[i - 1] \in Nat /\ i + 0 = i
    BY <1>1, <1>6, <1>7, <1>9
  <2> QED BY <1>8, <2>1
<1>11. ASSUME NEW j \in Nat, j \in T PROVE j + 1 \in T
  <2>1. CASE i + (j + 1) <= n
    <3>1. i + (j + 1) \in 1 .. n /\ i + (j + 1) - 1 = i + j /\ i + j <= n /\ i + j \in 0 .. n
      BY <1>9, <2>1
    <3>2. len[i - 1] < len[i + j] /\ len[i - 1] \in Nat /\ len[i + j] \in Nat
      BY <1>6, <1>8, <1>9, <1>11, <3>1
    <3>3. len[i + (j + 1)] = len[i + j] \/ len[i + (j + 1)] = len[i + j] + 1
      BY <1>7, <3>1, <3>2
    <3> QED BY <1>8, <3>2, <3>3
  <2>2. CASE ~ (i + (j + 1) <= n)
    BY <1>8, <2>2
  <2> QED BY <2>1, <2>2
<1>12. Nat \subseteq T
  BY <1>10, <1>11, Induct
<1>13. len[i - 1] < len[k]
  <2>1. k - i \in T /\ k <= n
    BY <1>2, <1>9, <1>12
  <2> QED BY <1>8, <1>9, <2>1
<1> QED BY <1>1, <1>2, <1>4, <1>6, <1>9, <1>13 DEF Row

(* Where no line fails, every line follows its chain. *)
LEMMA NoneFails ==
  ASSUME NEW lines, Sequenced(lines), Failing(lines) = {}, NEW i \in 1 .. Len(lines)
  PROVE  /\ lines[i].kind # "damaged"
         /\ lines[i].index = Len(Chain(SubSeq(lines, 1, i - 1), lines[i].trail))
<1>1. Len(lines) \in Nat /\ DOMAIN lines = 1 .. Len(lines)
  BY SequencedHas
<1>2. PICK bad : bad = {j \in DOMAIN lines : lines[j].kind = "damaged"}
  OBVIOUS
<1>3. PICK broken : broken = {j \in DOMAIN lines \ bad :
                   ~ ChainFollows(Chain(SubSeq(lines, 1, j - 1), lines[j].trail), lines[j])}
  OBVIOUS
<1>4. Failing(lines) = bad \cup {j \in broken : \A m \in bad \cup broken : j <= m}
  BY <1>2, <1>3 DEF Failing
<1>5. bad = {}
  BY <1>4
<1>6. broken = {}
  <2> SUFFICES ASSUME broken # {} PROVE FALSE
    OBVIOUS
  <2>1. broken \subseteq Nat
    BY <1>1, <1>3
  <2>2. PICK j \in broken : \A m \in broken : j <= m
    BY <2>1, Least
  <2> QED BY <1>4, <1>5, <2>2
<1>7. lines[i].kind # "damaged"
  BY <1>1, <1>2, <1>5
<1>8. ChainFollows(Chain(SubSeq(lines, 1, i - 1), lines[i].trail), lines[i])
  BY <1>1, <1>3, <1>5, <1>6
<1>9. PICK chain : chain = Chain(SubSeq(lines, 1, i - 1), lines[i].trail)
  OBVIOUS
<1>10. lines[i].index = Len(chain)
  BY <1>8, <1>9 DEF ChainFollows
<1> QED BY <1>7, <1>9, <1>10

LEMMA WholePrefix ==
  ASSUME NEW lines, Sequenced(lines)
  PROVE  \A t : Chain(SubSeq(lines, 1, Len(lines)), t) = Chain(lines, t)
<1> TAKE t
<1>1. Len(lines) \in Nat
  BY SequencedHas
<1>2. PICK c : Row(c, lines, t)
  BY ChainRow
<1> QED BY <1>1, <1>2 DEF Row

(* So a line of a trail is below the end of the chain that holds it. *)
LEMMA LineIsBelow ==
  ASSUME NEW lines, Sequenced(lines), Failing(lines) = {},
         NEW i \in 1 .. Len(lines), NEW k \in i .. Len(lines)
  PROVE  lines[i].index \in Nat /\ lines[i].index < Len(Chain(SubSeq(lines, 1, k), lines[i].trail))
<1>1. PICK t : t = lines[i].trail
  OBVIOUS
<1>2. lines[i].index = Len(Chain(SubSeq(lines, 1, i - 1), t))
  BY <1>1, NoneFails
<1>3. /\ Len(Chain(SubSeq(lines, 1, i - 1), t)) \in Nat
      /\ Len(Chain(SubSeq(lines, 1, i - 1), t)) < Len(Chain(SubSeq(lines, 1, k), t))
  BY <1>1, ChainGrows
<1> QED BY <1>1, <1>2, <1>3

-----------------------------------------------------------------------------
(* What the start-up checks say of the marks. *)

LEMMA JudgedLog ==
  ASSUME NEW log, NEW marks, NEW regs,
         NEW o \in {"start", "mark-completed", "newline-and-mark-completed"},
         Outcome(log, marks, regs) = o
  PROVE  LogOutcome(log, marks) = o
BY DEF Outcome

LEMMA JudgedStart ==
  ASSUME NEW log, NEW marks, NEW regs, Outcome(log, marks, regs) = "start"
  PROVE  \/ marks = None /\ log = Empty
         \/ /\ marks # None /\ Unreached(log.lines, marks) = {}
            /\ Unmarked(log.lines, marks) = {} /\ Failing(log.lines) = {}
<1>1. LogOutcome(log, marks) = "start"
  BY JudgedLog
<1>2. PICK u, f, r, l : u = Unmarked(log.lines, marks) /\ f = Failing(log.lines)
                        /\ r = Unreached(log.lines, marks) /\ l = Len(log.lines)
  OBVIOUS
<1> QED BY <1>1, <1>2 DEF LogOutcome

LEMMA JudgedMark ==
  ASSUME NEW log, NEW marks, NEW regs, Outcome(log, marks, regs) = "mark-completed"
  PROVE  /\ marks # None /\ Unreached(log.lines, marks) = {}
         /\ Unmarked(log.lines, marks) = {Len(log.lines)} /\ Failing(log.lines) = {}
<1>1. LogOutcome(log, marks) = "mark-completed"
  BY JudgedLog
<1>2. PICK u, f, r, l : u = Unmarked(log.lines, marks) /\ f = Failing(log.lines)
                        /\ r = Unreached(log.lines, marks) /\ l = Len(log.lines)
  OBVIOUS
<1> QED BY <1>1, <1>2 DEF LogOutcome

LEMMA JudgedLine ==
  ASSUME NEW log, NEW marks, NEW regs,
         Outcome(log, marks, regs) = "newline-and-mark-completed"
  PROVE  /\ marks # None /\ log.tail # None /\ Unreached(log.lines, marks) = {}
         /\ Failing(log.lines) = {}
         /\ ChainFollows(Chain(log.lines, log.tail.of.trail), log.tail.of)
<1>1. LogOutcome(log, marks) = "newline-and-mark-completed"
  BY JudgedLog
<1>2. PICK u, f, r, l : u = Unmarked(log.lines, marks) /\ f = Failing(log.lines)
                        /\ r = Unreached(log.lines, marks) /\ l = Len(log.lines)
  OBVIOUS
<1> QED BY <1>1, <1>2 DEF LogOutcome

(* A mark is of a line, and below the end of that line's chain. *)
LEMMA MarkIsBelow ==
  ASSUME NEW lines, Sequenced(lines), NEW marks, Unreached(lines, marks) = {},
         Failing(lines) = {}, NEW m \in Range(marks.lines)
  PROVE  \E i \in 1 .. Len(lines) :
           /\ m = MarkOf(lines[i]) /\ m.index \in Nat
           /\ m.trail = lines[i].trail /\ m.index = lines[i].index
           /\ m.index < Len(Chain(lines, m.trail))
<1>1. Len(lines) \in Nat /\ DOMAIN lines = 1 .. Len(lines)
  BY SequencedHas
<1>2. PICK i \in 1 .. Len(lines) : MarkOf(lines[i]) = m
  BY <1>1 DEF Unreached
<1>3. m.trail = lines[i].trail /\ m.index = lines[i].index
  BY <1>2 DEF MarkOf
<1>4. Len(lines) \in i .. Len(lines)
  BY <1>1
<1>5. lines[i].index \in Nat
      /\ lines[i].index < Len(Chain(SubSeq(lines, 1, Len(lines)), lines[i].trail))
  BY <1>4, LineIsBelow
<1>6. Chain(SubSeq(lines, 1, Len(lines)), lines[i].trail) = Chain(lines, lines[i].trail)
  BY WholePrefix
<1> QED BY <1>2, <1>3, <1>5, <1>6

Fresh(st, marks) == \A m \in Range(marks.lines) : ~ (m.trail = st.trail /\ m.index = st.index)

(* The last line, its mark alone missing, is at an index no mark has. *)
LEMMA LastIsFresh ==
  ASSUME NEW lines, Sequenced(lines), NEW marks, Unreached(lines, marks) = {},
         Failing(lines) = {}, Unmarked(lines, marks) = {Len(lines)}
  PROVE  /\ Last(lines) \in Range(lines) /\ Last(lines).kind # "damaged"
         /\ Fresh(Last(lines), marks)
<1>1. Len(lines) \in Nat /\ DOMAIN lines = 1 .. Len(lines)
      /\ \A i \in 1 .. Len(lines) : lines[i] \in Range(lines)
  BY SequencedHas
<1>2. PICK n \in 1 .. Len(lines) : n = Len(lines) /\ MarkOf(lines[n]) \notin Range(marks.lines)
  BY <1>1 DEF Unmarked
<1>3. PICK st : st = lines[n] /\ st = Last(lines)
  BY <1>2 DEF Last
<1>4. st.kind # "damaged" /\ st.index = Len(Chain(SubSeq(lines, 1, n - 1), st.trail))
  BY <1>3, NoneFails
<1>5. ASSUME NEW m \in Range(marks.lines), m.trail = st.trail PROVE m.index # st.index
  <2>1. PICK i \in 1 .. Len(lines) : m = MarkOf(lines[i])
                                     /\ m.trail = lines[i].trail /\ m.index = lines[i].index
    <3>1. \E i \in 1 .. Len(lines) :
           /\ m = MarkOf(lines[i]) /\ m.index \in Nat
           /\ m.trail = lines[i].trail /\ m.index = lines[i].index
           /\ m.index < Len(Chain(lines, m.trail))
      BY MarkIsBelow
    <3> QED BY <3>1
  <2>2. i # n
    BY <1>2, <2>1
  <2>3. n - 1 \in i .. Len(lines)
    <3>1. PICK k \in Nat : k = Len(lines)
      BY <1>1
    <3>2. i \in 1 .. k /\ n = k
      BY <1>2, <3>1
    <3>3. n - 1 \in i .. k
      BY <2>2, <3>1, <3>2
    <3> QED BY <3>1, <3>3
  <2>4. lines[i].index \in Nat
        /\ lines[i].index < Len(Chain(SubSeq(lines, 1, n - 1), lines[i].trail))
    BY <2>3, LineIsBelow
  <2> QED BY <1>4, <1>5, <2>1, <2>4
<1> QED BY <1>1, <1>3, <1>4, <1>5 DEF Fresh

(* So is the whole line the log ends in but for its newline. *)
LEMMA TailIsFresh ==
  ASSUME NEW lines, Sequenced(lines), NEW marks, Unreached(lines, marks) = {},
         Failing(lines) = {}, NEW st, ChainFollows(Chain(lines, st.trail), st)
  PROVE  st.kind # "damaged" /\ Fresh(st, marks)
<1>1. PICK chain : chain = Chain(lines, st.trail)
  OBVIOUS
<1>2. st.index = Len(chain) /\ st.kind # "damaged"
  BY <1>1 DEF ChainFollows
<1>3. ASSUME NEW m \in Range(marks.lines), m.trail = st.trail PROVE m.index # st.index
  BY <1>1, <1>2, <1>3, MarkIsBelow, ChainTypes
<1> QED BY <1>2, <1>3 DEF Fresh

-----------------------------------------------------------------------------
(* Files as steps leave them. *)

LEMMA PlainWith ==
  ASSUME NEW f, Plain(f), NEW line
  PROVE  /\ Plain(With(f, line))
         /\ Said(With(f, line)) \subseteq Said(f) \cup {line}
<1>1. PICK g : g = With(f, line)
  OBVIOUS
<1>2. g.lines = Append(f.lines, line) /\ g.tail = None /\ g = [lines |-> g.lines, tail |-> g.tail]
  BY <1>1 DEF With
<1>3. Sequenced(g.lines) /\ Range(g.lines) = Range(f.lines) \cup {line}
  BY <1>2, SequencedAppend DEF Plain
<1>4. Plain(g)
  BY <1>2, <1>3 DEF Plain
<1>5. Said(g) \subseteq Said(f) \cup {line}
  BY <1>2, <1>3 DEF Said
<1> QED BY <1>1, <1>4, <1>5

LEMMA PlainTail ==
  ASSUME NEW f, Plain(f), NEW x
  PROVE  /\ Plain([f EXCEPT !.tail = x]) /\ [f EXCEPT !.tail = x].lines = f.lines
         /\ [f EXCEPT !.tail = x].tail = x
<1>1. PICK l, y : f = [lines |-> l, tail |-> y] /\ Sequenced(l)
  BY DEF Plain
<1>2. PICK g : g = [f EXCEPT !.tail = x]
  OBVIOUS
<1>3. g = [lines |-> l, tail |-> x]
  BY <1>1, <1>2
<1>4. Plain(g) /\ g.lines = f.lines /\ g.tail = x
  BY <1>1, <1>3 DEF Plain
<1> QED BY <1>2, <1>4

MarkLines == [trail : Trails, index : Nat, sig : Nat \ {0}]

LEMMA MarkFileIs ==
  ASSUME NEW f \in MarkFiles
  PROVE  /\ f.lines \in Seq(MarkLines) /\ Sequenced(f.lines) /\ f # None
         /\ Range(f.lines) \subseteq MarkLines /\ Len(f.lines) \in Nat
         /\ f.tail \in {None} \cup [of : MarkLines, whole : BOOLEAN]
         /\ f = [lines |-> f.lines, tail |-> f.tail]
<1>1. f \in [lines : Seq(MarkLines), tail : {None} \cup [of : MarkLines, whole : BOOLEAN]]
  BY DEF MarkFiles, Files, MarkLines
<1>2. PICK l, S : l = f.lines /\ S = MarkLines
  OBVIOUS
<1>3. l \in Seq(S)
  BY <1>1, <1>2
<1>4. Sequenced(l) /\ Range(l) \subseteq S /\ Len(l) \in Nat
  BY <1>3, SequencedIs
<1> QED BY <1>1, <1>2, <1>3, <1>4, MarksAssumption

LEMMA MarkFileOf ==
  ASSUME NEW l \in Seq(MarkLines), NEW x \in {None} \cup [of : MarkLines, whole : BOOLEAN]
  PROVE  [lines |-> l, tail |-> x] \in MarkFiles
BY DEF MarkFiles, Files, MarkLines

LEMMA EmptyFiles ==
  /\ Plain(Empty) /\ Said(Empty) = {} /\ Empty \in MarkFiles /\ Empty # None
  /\ Range(Empty.lines) = {}
<1>1. Empty.lines = <<>> /\ Empty.tail = None /\ Empty = [lines |-> Empty.lines, tail |-> Empty.tail]
  BY DEF Empty
<1>2. Plain(Empty) /\ Range(Empty.lines) = {}
  BY <1>1, NoneSequenced DEF Plain
<1>3. Said(Empty) = {}
  BY <1>1, <1>2 DEF Said
<1>4. Empty \in MarkFiles
  <2>1. PICK S, l : S = MarkLines /\ l = <<>>
    OBVIOUS
  <2>2. l \in Seq(S)
    BY <2>1
  <2>3. [lines |-> l, tail |-> None] \in MarkFiles
    BY <2>1, <2>2, MarkFileOf
  <2> QED BY <2>1, <2>3 DEF Empty
<1> QED BY <1>2, <1>3, <1>4, MarksAssumption

LEMMA MarkWith ==
  ASSUME NEW f \in MarkFiles, NEW m \in MarkLines
  PROVE  /\ With(f, m) \in MarkFiles /\ With(f, m) # None
         /\ With(f, m).lines = Append(f.lines, m)
         /\ Range(With(f, m).lines) = Range(f.lines) \cup {m}
<1>1. PICK g : g = With(f, m)
  OBVIOUS
<1>2. g = [lines |-> Append(f.lines, m), tail |-> None] /\ g.lines = Append(f.lines, m)
  BY <1>1 DEF With
<1>3. f.lines \in Seq(MarkLines) /\ Sequenced(f.lines)
  BY MarkFileIs
<1>4. PICK S : S = MarkLines
  OBVIOUS
<1>5. Append(f.lines, m) \in Seq(S)
  BY <1>3, <1>4
<1>6. g \in MarkFiles
  BY <1>2, <1>4, <1>5, MarkFileOf
<1>7. Range(g.lines) = Range(f.lines) \cup {m}
  BY <1>2, <1>3, SequencedAppend
<1> QED BY <1>1, <1>2, <1>6, <1>7, MarksAssumption

(* A known statement, unless it is a damaged line, has a mark of its own. *)
LEMMA MarkIs ==
  ASSUME SignedInv, NEW st \in Known, st # Damaged
  PROVE  MarkOf(st) \in MarkLines
<1>1. signs \in Nat /\ st.trail \in Trails /\ st.index \in Nat /\ st.sig \in 1 .. signs
  BY DEF SignedInv
<1>2. st.sig \in Nat \ {0}
  BY <1>1
<1> QED BY <1>1, <1>2 DEF MarkOf, MarkLines

-----------------------------------------------------------------------------
(* Steps that sign and mark nothing. *)

Quiet ==
  /\ DOMAIN file' = Names /\ DOMAIN disk' = Names
  /\ Plain(file'["log"]) /\ Plain(disk'["log"]) /\ Plain(copy')
  /\ \/ file'["marks"] = file["marks"]
     \/ /\ file["marks"] # None /\ file'["marks"] \in MarkFiles
        /\ file'["marks"].lines = file["marks"].lines
  /\ disk'["marks"] \in {disk["marks"], file["marks"]}
  /\ published' = published /\ signs' = signs
  /\ \A x \in Said(file'["log"]) \cup Said(disk'["log"]) \cup Said(copy') \cup Stated' :
       x \in Known \/ x = Damaged

(* The marks on the disk are among the marks. *)
LEMMA DiskIsMarked ==
  ASSUME FileInv
  PROVE  MarksOf(disk["marks"]) \subseteq Marks
<1>1. CASE disk["marks"] = None
  BY <1>1 DEF MarksOf
<1>2. CASE disk["marks"] # None
  <2>1. PICK d, c : d = disk["marks"] /\ c = file["marks"]
    OBVIOUS
  <2>2. /\ d \in MarkFiles /\ c \in MarkFiles /\ d # None /\ c # None
        /\ Len(d.lines) <= Len(c.lines)
        /\ \A i \in 1 .. Len(d.lines) : d.lines[i] = c.lines[i]
    BY <1>2, <2>1 DEF FileInv
  <2>3. /\ Len(d.lines) \in Nat /\ DOMAIN d.lines = 1 .. Len(d.lines)
        /\ Len(c.lines) \in Nat /\ DOMAIN c.lines = 1 .. Len(c.lines)
    BY <2>2, MarkFileIs, SequencedHas
  <2>4. ASSUME NEW m \in Range(d.lines) PROVE m \in Range(c.lines)
    <3>1. PICK i \in DOMAIN d.lines : m = d.lines[i]
      BY RangeIs
    <3>2. i \in DOMAIN c.lines /\ m = c.lines[i]
      BY <2>2, <2>3, <3>1
    <3> QED BY <3>2, RangeIs
  <2> QED BY <2>1, <2>2, <2>4 DEF Marks, MarksOf
<1> QED BY <1>1, <1>2

LEMMA QuietStep ==
  ASSUME FileInv, SignedInv, MarkInv, Quiet
  PROVE  FileInv' /\ SignedInv' /\ MarkInv' /\ Marks' = Marks
         /\ (file'["marks"] = None <=> file["marks"] = None)
<1>1. file'["marks"] \in {None} \cup MarkFiles /\ (file'["marks"] = None <=> file["marks"] = None)
  BY MarkFileIs DEF Quiet, FileInv
<1>2. file["marks"] # None => file'["marks"].lines = file["marks"].lines
  BY DEF Quiet
<1>3. Marks' = Marks
  BY <1>1, <1>2 DEF Marks, MarksOf
<1>4. FileInv'
  <2>1. ASSUME disk'["marks"] # None
        PROVE  /\ file'["marks"] # None
               /\ Len(disk'["marks"].lines) <= Len(file'["marks"].lines)
               /\ \A i \in 1 .. Len(disk'["marks"].lines) :
                    disk'["marks"].lines[i] = file'["marks"].lines[i]
    <3>1. CASE disk'["marks"] = disk["marks"]
      BY <1>1, <1>2, <2>1, <3>1 DEF FileInv
    <3>2. CASE disk'["marks"] = file["marks"]
      <4>1. file["marks"] \in MarkFiles /\ file["marks"] # None
        BY <2>1, <3>2 DEF FileInv
      <4>2. Len(file["marks"].lines) \in Nat
        BY <4>1, MarkFileIs
      <4>3. file'["marks"] # None /\ file'["marks"].lines = file["marks"].lines
        BY <1>1, <1>2, <4>1
      <4> QED BY <3>2, <4>2, <4>3
    <3> QED BY <3>1, <3>2 DEF Quiet
  <2> QED BY <1>1, <2>1 DEF FileInv, Quiet
<1>5. SignedInv'
  <2>1. \A x \in Known' : x \in Known \/ x = Damaged
    BY DEF Known, Quiet
  <2>2. signs' = signs /\ Damaged.sig = 0
    BY DEF Quiet, Damaged
  <2>3. ASSUME NEW x \in Known', NEW y \in Known', x.sig = y.sig PROVE x = y
    BY <2>1, <2>2, <2>3 DEF SignedInv
  <2>4. ASSUME NEW x \in Known'
        PROVE  x = Damaged \/ (x.trail \in Trails /\ x.index \in Nat /\ x.sig \in 1 .. signs')
    BY <2>1, <2>2 DEF SignedInv
  <2> QED BY <2>2, <2>3, <2>4 DEF SignedInv
<1>6. MarkInv'
  <2>1. ASSUME NEW st \in published' PROVE MarkOf(st) \in MarksOf(disk'["marks"])
    <3>1. st \in published
      BY DEF Quiet
    <3>2. PICK m : m = MarkOf(st)
      OBVIOUS
    <3>3. m \in MarksOf(disk["marks"]) /\ m \in MarksOf(file["marks"])
      BY <3>1, <3>2, DiskIsMarked DEF MarkInv, Marks
    <3> QED BY <3>2, <3>3 DEF Quiet
  <2> QED BY <1>3, <2>1 DEF MarkInv
<1> QED BY <1>1, <1>3, <1>4, <1>5, <1>6

(* The files of the log and the marks are left as they are, or synced. *)
LEMMA SameFiles ==
  ASSUME FileInv, DOMAIN file' = Names, DOMAIN disk' = Names,
         file'["log"] = file["log"], file'["marks"] = file["marks"],
         disk'["log"] \in {disk["log"], file["log"]},
         disk'["marks"] \in {disk["marks"], file["marks"]},
         copy' \in {copy, file["log"]}, published' = published, signs' = signs,
         Stated' \subseteq Known
  PROVE  Quiet
<1>1. Said(disk'["log"]) \subseteq Said(disk["log"]) \cup Said(file["log"])
  OBVIOUS
<1>2. Said(copy') \subseteq Said(copy) \cup Said(file["log"])
  OBVIOUS
<1>3. Said(file'["log"]) = Said(file["log"])
  OBVIOUS
<1>4. \A x \in Said(file'["log"]) \cup Said(disk'["log"]) \cup Said(copy') \cup Stated' :
       x \in Known \/ x = Damaged
  BY <1>1, <1>2, <1>3 DEF Known
<1>5. Plain(file'["log"]) /\ Plain(disk'["log"]) /\ Plain(copy')
  BY DEF FileInv
<1> QED BY <1>4, <1>5 DEF Quiet

MemInv(m) ==
  /\ DOMAIN m = {"trails", "regs", "counts"}
  /\ DOMAIN m.trails = Trails /\ \A t \in Trails : Sequenced(m.trails[t])

LEMMA NoMemInv == MemInv(NoMem)
BY NoneSequenced DEF MemInv, NoMem

Resting == {"idle", "stopped", "check", "offline", "offline-sync", "complete-sync"}
Setting == {"aside", "settle", "keep", "keep-sync", "cut", "cut-sync"}

LEMMA RestStep ==
  ASSUME StepInv, mem' \in {mem, NoMem}, pc' \in Resting
  PROVE  StepInv' /\ Stated' = {}
<1>1. MemInv(mem')
  BY NoMemInv DEF StepInv, MemInv
<1> QED BY <1>1 DEF StepInv, MemInv, Stated, Resting, Signing, Completing

LEMMA SetStep ==
  ASSUME StepInv, mem' = mem, pc' \in Setting, job'.cut \in {"log", "registrations"}
  PROVE  StepInv' /\ Stated' = {}
BY DEF StepInv, Stated, Setting, Signing, Completing

LEMMA ServeStep ==
  ASSUME StepInv, pc \in {"serving", "register", "register-sync"},
         pc' \in {"serving", "register", "register-sync"},
         DOMAIN mem' = DOMAIN mem, mem'.trails = mem.trails, Marks' = Marks,
         file'["marks"] = None <=> file["marks"] = None,
         pc' # "serving" => job'.reg.trail \in Trails
  PROVE  StepInv'
<1>1. \A m \in Marks' : m.index < Len(mem'.trails[m.trail])
  BY DEF StepInv
<1> QED BY <1>1 DEF StepInv, Signing, Completing

LEMMA ServeStates ==
  ASSUME pc' \in {"serving", "register", "register-sync"}
  PROVE  Stated' = {}
BY DEF Stated, Signing, Completing

-----------------------------------------------------------------------------
(* Registrations, and the statement signed. *)

LEMMA KeepRegistrationStep ==
  ASSUME ForkInv, KeepRegistration
  PROVE  ForkInv'
<1>1. Stated' = {}
  BY ServeStates DEF KeepRegistration, Move
<1>2. Quiet
  <2>1. DOMAIN file' = Names /\ file'["log"] = file["log"] /\ file'["marks"] = file["marks"]
        /\ disk' = disk
    BY DEF KeepRegistration, Write, ForkInv, FileInv, Names
  <2> QED BY <1>1, <2>1, SameFiles DEF ForkInv, FileInv, KeepRegistration, Move, history
<1>3. StepInv'
  BY <1>2, QuietStep, ServeStep DEF ForkInv, KeepRegistration, Move, StepInv
<1> QED BY <1>2, <1>3, QuietStep DEF ForkInv

(* The trail's next statement is at the end of the chain in memory, where  *)
(* no mark is, and its signature is new.                                   *)
LEMMA SignStep ==
  ASSUME ForkInv, pc \in {"serving", "register-sync"}, NEW t \in Trails, NEW offer,
         Sign(t, offer), DOMAIN mem' = DOMAIN mem, mem'.trails = mem.trails,
         DOMAIN file' = Names, DOMAIN disk' = Names, file' = file,
         disk'["log"] = disk["log"], disk'["marks"] = disk["marks"],
         copy' = copy, published' = published
  PROVE  ForkInv'
<1>1. CASE pc' = "serving" /\ job' = NoJob /\ UNCHANGED signs
  <2>1. Stated' = {}
    BY <1>1, ServeStates
  <2>2. Quiet
    BY <1>1, <2>1, SameFiles DEF ForkInv
  <2>3. StepInv'
    BY <1>1, <2>2, QuietStep, ServeStep DEF ForkInv
  <2> QED BY <2>2, <2>3, QuietStep DEF ForkInv
<1>2. CASE /\ pc' = "append" /\ job' = [NoJob EXCEPT !.st = NextStatement(t, offer)]
           /\ signs' = signs + 1
  <2>1. PICK st : st = NextStatement(t, offer)
    OBVIOUS
  <2>2. st.trail = t /\ st.index = Len(mem.trails[t]) /\ st.sig = signs + 1
    BY <2>1 DEF NextStatement
  <2>3. job'.st = st
    BY <1>2, <2>1 DEF NoJob
  <2>4. signs \in Nat /\ Sequenced(mem.trails[t])
    BY DEF ForkInv, SignedInv, StepInv
  <2>5. st.index \in Nat
    BY <2>2, <2>4, SequencedHas
  <2>6. st # Damaged
    BY <2>2, <2>4 DEF Damaged
  <2>7. Stated' = {st} /\ Known' = published \cup Said(file["log"]) \cup Said(disk["log"])
                                      \cup Said(copy) \cup {st}
    BY <1>2, <2>3 DEF Stated, Known, Signing
  <2>8. \A x \in Known' : x \in Known \/ x = st
    BY <2>7 DEF Known
  <2>9. SignedInv'
    <3>1. \A x \in Known : x = Damaged \/ (x.trail \in Trails /\ x.index \in Nat /\ x.sig \in 1 .. signs)
      BY DEF ForkInv, SignedInv
    <3>2. Damaged.sig = 0
      BY DEF Damaged
    <3>3. \A x \in Known : x.sig # st.sig
      BY <2>2, <2>4, <3>1, <3>2
    <3>4. ASSUME NEW x \in Known', NEW y \in Known', x.sig = y.sig PROVE x = y
      BY <2>8, <3>3, <3>4 DEF ForkInv, SignedInv
    <3>5. ASSUME NEW x \in Known'
          PROVE  x = Damaged \/ (x.trail \in Trails /\ x.index \in Nat /\ x.sig \in 1 .. signs')
      <4>1. CASE x = st
        BY <1>2, <2>2, <2>4, <2>5, <4>1
      <4>2. CASE x \in Known
        BY <1>2, <2>4, <3>1, <4>2
      <4> QED BY <2>8, <4>1, <4>2
    <3> QED BY <1>2, <2>4, <3>4, <3>5 DEF SignedInv
  <2>10. FileInv' /\ MarkInv' /\ Marks' = Marks
    BY DEF ForkInv, FileInv, MarkInv, Marks
  <2>11. StepInv'
    <3>1. \A m \in Marks' : m.index < Len(mem'.trails[m.trail])
      BY <2>10 DEF ForkInv, StepInv
    <3>2. file'["marks"] # None
      BY DEF ForkInv, StepInv
    <3> QED BY <1>2, <2>2, <2>3, <2>6, <3>1, <3>2 DEF ForkInv, StepInv, Signing, Completing
  <2> QED BY <2>9, <2>10, <2>11 DEF ForkInv
<1> QED BY <1>1, <1>2 DEF Sign

LEMMA RegistrationKeptStep ==
  ASSUME ForkInv, RegistrationKept
  PROVE  ForkInv'
<1>1. PICK t \in Trails : t = job.reg.trail
  BY DEF ForkInv, StepInv, RegistrationKept
<1>2. PICK offer : Sign(t, offer)
  BY <1>1 DEF RegistrationKept
<1>3. DOMAIN mem' = DOMAIN mem /\ mem'.trails = mem.trails
  BY DEF RegistrationKept, ForkInv, StepInv
<1>4. /\ DOMAIN file' = Names /\ DOMAIN disk' = Names /\ file' = file
      /\ disk'["log"] = disk["log"] /\ disk'["marks"] = disk["marks"]
      /\ copy' = copy /\ published' = published
  BY DEF RegistrationKept, Sync, ForkInv, FileInv, Names, history
<1>5. pc = "register-sync"
  BY DEF RegistrationKept
<1> QED BY <1>2, <1>3, <1>4, <1>5, SignStep

LEMMA SubmitStep ==
  ASSUME ForkInv, NEW s \in Submitters, NEW t \in Trails, NEW sub \in Submissions, Submit(s, t, sub)
  PROVE  ForkInv'
<1>1. /\ file' = file /\ disk' = disk /\ copy' = copy /\ published' = published
      /\ pc = "serving" /\ mem' = mem /\ DOMAIN file = Names /\ DOMAIN disk = Names
  BY DEF Submit, history, ForkInv, FileInv
<1>2. CASE mem.regs[t] = None
  <2>1. pc' = "register" /\ job' = [NoJob EXCEPT !.reg = [trail |-> t, by |-> s], !.sub = sub]
        /\ signs' = signs
    BY <1>2 DEF Submit
  <2>2. job'.reg.trail = t
    BY <2>1 DEF NoJob
  <2>3. Stated' = {}
    BY <2>1, ServeStates
  <2>4. Quiet
    BY <1>1, <2>1, <2>3, SameFiles DEF ForkInv
  <2>5. StepInv'
    BY <1>1, <2>1, <2>2, <2>4, QuietStep, ServeStep DEF ForkInv
  <2> QED BY <2>4, <2>5, QuietStep DEF ForkInv
<1>3. CASE mem.regs[t] # None
  <2>1. PICK offer : Sign(t, offer)
    BY <1>3 DEF Submit
  <2> QED BY <1>1, <2>1, SignStep
<1> QED BY <1>2, <1>3

LEMMA RetireStep ==
  ASSUME ForkInv, NEW t \in Trails, Retire(t)
  PROVE  ForkInv'
<1>1. /\ file' = file /\ disk' = disk /\ copy' = copy /\ published' = published
      /\ pc = "serving" /\ mem' = mem /\ DOMAIN file = Names /\ DOMAIN disk = Names
  BY DEF Retire, history, ForkInv, FileInv
<1>2. PICK offer : Sign(t, offer)
  BY DEF Retire
<1> QED BY <1>1, <1>2, SignStep

LEMMA ReregisterStep ==
  ASSUME ForkInv, NEW s \in Submitters, NEW t \in Trails, Reregister(s, t)
  PROVE  ForkInv'
<1>1. /\ file' = file /\ disk' = disk /\ copy' = copy /\ published' = published
      /\ pc = "serving" /\ mem' = mem /\ DOMAIN file = Names /\ DOMAIN disk = Names
  BY DEF Reregister, history, ForkInv, FileInv
<1>2. pc' = "register" /\ job' = [NoJob EXCEPT !.reg = [trail |-> t, by |-> s]] /\ signs' = signs
  BY DEF Reregister
<1>3. job'.reg.trail = t
  BY <1>2 DEF NoJob
<1>4. Stated' = {}
  BY <1>2, ServeStates
<1>5. Quiet
  BY <1>1, <1>2, <1>4, SameFiles DEF ForkInv
<1>6. StepInv'
  BY <1>1, <1>2, <1>3, <1>5, QuietStep, ServeStep DEF ForkInv
<1> QED BY <1>5, <1>6, QuietStep DEF ForkInv

LEMMA RegisterOfflineStep ==
  ASSUME ForkInv, NEW s \in Submitters, NEW t \in Trails, RegisterOffline(s, t)
  PROVE  ForkInv'
<1>1. /\ file' = file /\ copy' = copy /\ published' = published /\ signs' = signs
      /\ pc' = "offline" /\ mem' = mem /\ DOMAIN file = Names
  BY DEF RegisterOffline, history, ForkInv, FileInv
<1>2. DOMAIN disk' = Names /\ disk'["log"] = file["log"] /\ disk'["marks"] = file["marks"]
  BY DEF RegisterOffline, SyncRead, Names, Held
<1>3. StepInv' /\ Stated' = {}
  BY <1>1, RestStep DEF ForkInv, Resting
<1>4. Quiet
  BY <1>1, <1>2, <1>3, SameFiles DEF ForkInv
<1> QED BY <1>3, <1>4, QuietStep DEF ForkInv

LEMMA OfflineAppendStep ==
  ASSUME ForkInv, OfflineAppend
  PROVE  ForkInv'
<1>1. /\ disk' = disk /\ copy' = copy /\ published' = published /\ signs' = signs
      /\ pc' = "offline-sync" /\ mem' = mem /\ DOMAIN disk = Names
  BY DEF OfflineAppend, Write, Move, history, ForkInv, FileInv
<1>2. DOMAIN file' = Names /\ file'["log"] = file["log"] /\ file'["marks"] = file["marks"]
  BY DEF OfflineAppend, Write, Names, ForkInv, FileInv
<1>3. StepInv' /\ Stated' = {}
  BY <1>1, RestStep DEF ForkInv, Resting
<1>4. Quiet
  BY <1>1, <1>2, <1>3, SameFiles DEF ForkInv
<1> QED BY <1>3, <1>4, QuietStep DEF ForkInv

LEMMA OfflineDurableStep ==
  ASSUME ForkInv, OfflineDurable
  PROVE  ForkInv'
<1>1. /\ file' = file /\ copy' = copy /\ published' = published /\ signs' = signs
      /\ pc' = "idle" /\ mem' = mem /\ DOMAIN file = Names
  BY DEF OfflineDurable, Sync, history, ForkInv, FileInv
<1>2. DOMAIN disk' = Names /\ disk'["log"] = disk["log"] /\ disk'["marks"] = disk["marks"]
  BY DEF OfflineDurable, Sync, Names, ForkInv, FileInv
<1>3. StepInv' /\ Stated' = {}
  BY <1>1, RestStep DEF ForkInv, Resting
<1>4. Quiet
  BY <1>1, <1>2, <1>3, SameFiles DEF ForkInv
<1> QED BY <1>3, <1>4, QuietStep DEF ForkInv

-----------------------------------------------------------------------------
(* The statement kept: appended, durable, marked, published. *)

LEMMA AppendStatementStep ==
  ASSUME ForkInv, AppendStatement
  PROVE  ForkInv'
<1>1. /\ disk' = disk /\ copy' = copy /\ published' = published /\ signs' = signs
      /\ pc = "append" /\ pc' = "append-sync" /\ mem' = mem /\ job' = job /\ DOMAIN disk = Names
  BY DEF AppendStatement, Write, Move, history, ForkInv, FileInv
<1>2. /\ DOMAIN file' = Names /\ file'["log"] = With(file["log"], job.st)
      /\ file'["marks"] = file["marks"]
  BY DEF AppendStatement, Write, Names, ForkInv, FileInv
<1>3. Stated = {job.st} /\ Stated' = {job.st} /\ job.st \in Known
  BY <1>1 DEF Stated, Signing, Known
<1>4. Plain(file'["log"]) /\ Said(file'["log"]) \subseteq Said(file["log"]) \cup {job.st}
  BY <1>2, PlainWith DEF ForkInv, FileInv
<1>5. Quiet
  BY <1>1, <1>2, <1>3, <1>4 DEF Quiet, Known, ForkInv, FileInv
<1>6. Marks' = Marks /\ (file'["marks"] = None <=> file["marks"] = None)
  BY <1>5, QuietStep DEF ForkInv
<1>7. StepInv'
  BY <1>1, <1>6 DEF ForkInv, StepInv, Signing, Completing
<1> QED BY <1>5, <1>7, QuietStep DEF ForkInv

LEMMA StatementDurableStep ==
  ASSUME ForkInv, StatementDurable
  PROVE  ForkInv'
<1>1. /\ file' = file /\ copy' = copy /\ published' = published /\ signs' = signs
      /\ pc = "append-sync" /\ pc' = "mark" /\ mem' = mem /\ job' = job /\ DOMAIN file = Names
  BY DEF StatementDurable, Sync, Move, history, ForkInv, FileInv
<1>2. DOMAIN disk' = Names /\ disk'["log"] = file["log"] /\ disk'["marks"] = disk["marks"]
  BY DEF StatementDurable, Sync, Names, ForkInv, FileInv
<1>3. Stated' = {job.st} /\ job.st \in Known
  BY <1>1 DEF Stated, Signing, Known
<1>4. Quiet
  BY <1>1, <1>2, <1>3, SameFiles DEF ForkInv
<1>5. Marks' = Marks /\ (file'["marks"] = None <=> file["marks"] = None)
  BY <1>4, QuietStep DEF ForkInv
<1>6. StepInv'
  BY <1>1, <1>5 DEF ForkInv, StepInv, Signing, Completing
<1> QED BY <1>4, <1>6, QuietStep DEF ForkInv

(* A mark is appended where no mark has its index. *)
LEMMA MarkStep ==
  ASSUME ForkInv, file["marks"] # None, pc \in Signing \cup Completing,
         \A m \in Marks : ~ (m.trail = job.st.trail /\ m.index = job.st.index),
         Write("marks", MarkOf(job.st)), Stated' \subseteq Known,
         copy' = copy, published' = published, signs' = signs
  PROVE  /\ FileInv' /\ SignedInv' /\ MarkInv' /\ file'["marks"] # None
         /\ Marks' = Marks \cup {MarkOf(job.st)}
<1>1. PICK st : st = job.st
  OBVIOUS
<1>2. st \in Known /\ st # Damaged
  BY <1>1 DEF Known, Stated, ForkInv, StepInv
<1>3. PICK m : m = MarkOf(st)
  OBVIOUS
<1>4. m \in MarkLines /\ m.trail = st.trail /\ m.index = st.index
  <2>1. MarkOf(st) \in MarkLines
    BY <1>2, MarkIs DEF ForkInv
  <2> QED BY <1>3, <2>1 DEF MarkOf
<1>5. PICK f, g : f = file["marks"] /\ g = file'["marks"]
  OBVIOUS
<1>6. f \in MarkFiles
  BY <1>5 DEF ForkInv, FileInv
<1>7. /\ g = With(f, m) /\ disk' = disk /\ DOMAIN file' = Names /\ DOMAIN disk' = Names
      /\ file'["log"] = file["log"]
  BY <1>1, <1>3, <1>5 DEF Write, Names, ForkInv, FileInv
<1>8. g \in MarkFiles /\ g # None /\ g.lines = Append(f.lines, m)
      /\ Range(g.lines) = Range(f.lines) \cup {m}
  BY <1>4, <1>6, <1>7, MarkWith
<1>9. Marks' = Marks \cup {m}
  BY <1>5, <1>8 DEF Marks, MarksOf
<1>10. FileInv'
  <2>1. ASSUME disk["marks"] # None
        PROVE  /\ Len(disk["marks"].lines) <= Len(g.lines)
               /\ \A i \in 1 .. Len(disk["marks"].lines) : disk["marks"].lines[i] = g.lines[i]
    <3>1. PICK d : d = disk["marks"] /\ d \in MarkFiles
      BY <2>1 DEF ForkInv, FileInv
    <3>2. Len(d.lines) <= Len(f.lines) /\ \A i \in 1 .. Len(d.lines) : d.lines[i] = f.lines[i]
      BY <1>5, <2>1, <3>1 DEF ForkInv, FileInv
    <3>3. Len(d.lines) \in Nat /\ Len(f.lines) \in Nat /\ f.lines \in Seq(MarkLines)
      BY <1>6, <3>1, MarkFileIs
    <3>4. PICK l, b_1, S : l = f.lines /\ b_1 = g.lines /\ S = MarkLines
      OBVIOUS
    <3>5. Len(b_1) = Len(l) + 1 /\ \A i \in 1 .. Len(l) : b_1[i] = l[i]
      BY <1>4, <1>8, <3>3, <3>4
    <3> QED BY <3>1, <3>2, <3>3, <3>4, <3>5
  <2> QED BY <1>5, <1>7, <1>8, <2>1 DEF ForkInv, FileInv
<1>11. SignedInv'
  <2>1. Known' \subseteq Known
    BY <1>7 DEF Known
  <2> QED BY <2>1 DEF ForkInv, SignedInv
<1>12. MarkInv'
  <2>1. \A x, y \in Marks : x.trail = y.trail /\ x.index = y.index => x.sig = y.sig
    BY DEF ForkInv, MarkInv
  <2>2. \A x \in Marks : ~ (x.trail = m.trail /\ x.index = m.index)
    BY <1>1, <1>4
  <2>3. \A x, y \in Marks' : x.trail = y.trail /\ x.index = y.index => x.sig = y.sig
    BY <1>9, <2>1, <2>2
  <2>4. \A x \in published' : MarkOf(x) \in MarksOf(disk'["marks"])
    BY <1>7 DEF ForkInv, MarkInv
  <2> QED BY <2>3, <2>4 DEF MarkInv
<1> QED BY <1>1, <1>3, <1>5, <1>8, <1>9, <1>10, <1>11, <1>12

LEMMA AppendMarkStep ==
  ASSUME ForkInv, AppendMark
  PROVE  ForkInv'
<1>1. /\ copy' = copy /\ published' = published /\ signs' = signs
      /\ pc = "mark" /\ pc' = "mark-sync" /\ mem' = mem /\ job' = job
      /\ Write("marks", MarkOf(job.st))
  BY DEF AppendMark, Move, history
<1>2. Stated' = {job.st} /\ job.st \in Known /\ pc \in Signing
  BY <1>1 DEF Stated, Signing, Known
<1>3. /\ file["marks"] # None /\ job.st # Damaged
      /\ \A m \in Marks : m.index < Len(mem.trails[m.trail])
      /\ job.st.index = Len(mem.trails[job.st.trail])
  BY <1>1 DEF ForkInv, StepInv, Signing
<1>4. job.st.index \in Nat
  BY <1>2, <1>3 DEF ForkInv, SignedInv
<1>5. \A m \in Marks : ~ (m.trail = job.st.trail /\ m.index = job.st.index)
  <2>1. \A m \in Marks : m.index \in Nat
    <3>1. file["marks"] \in MarkFiles
      BY <1>3 DEF ForkInv, FileInv
    <3>2. Range(file["marks"].lines) \subseteq MarkLines
      BY <3>1, MarkFileIs
    <3> QED BY <1>3, <3>2 DEF Marks, MarksOf, MarkLines
  <2> QED BY <1>3, <1>4, <2>1
<1>6. /\ FileInv' /\ SignedInv' /\ MarkInv' /\ file'["marks"] # None
      /\ Marks' = Marks \cup {MarkOf(job.st)}
  BY <1>1, <1>2, <1>3, <1>5, MarkStep
<1>7. StepInv'
  <2>1. \A m \in Marks' : m.index < Len(mem'.trails[m.trail]) \/ m = MarkOf(job'.st)
    BY <1>1, <1>3, <1>6
  <2>2. MarkOf(job'.st) \in Marks'
    BY <1>1, <1>6
  <2>3. /\ DOMAIN mem' = {"trails", "regs", "counts"}
        /\ DOMAIN mem'.trails = Trails /\ \A t \in Trails : Sequenced(mem'.trails[t])
    BY <1>1 DEF ForkInv, StepInv
  <2> QED BY <1>1, <1>3, <1>6, <2>1, <2>2, <2>3 DEF StepInv, Signing, Completing
<1> QED BY <1>6, <1>7 DEF ForkInv

LEMMA MarksTyped ==
  ASSUME FileInv
  PROVE  Marks \subseteq MarkLines
<1>1. CASE file["marks"] = None
  BY <1>1 DEF Marks, MarksOf
<1>2. CASE file["marks"] # None
  <2>1. file["marks"] \in MarkFiles
    BY <1>2 DEF FileInv
  <2>2. Range(file["marks"].lines) \subseteq MarkLines
    BY <2>1, MarkFileIs
  <2> QED BY <1>2, <2>2 DEF Marks, MarksOf
<1> QED BY <1>1, <1>2

LEMMA PublishStep ==
  ASSUME ForkInv, Publish
  PROVE  ForkInv'
<1>1. /\ file' = file /\ copy' = copy /\ published' = published \cup {job.st} /\ signs' = signs
      /\ pc = "mark-sync" /\ pc' = "serving" /\ DOMAIN file = Names
  BY DEF Publish, Sync, ForkInv, FileInv
<1>2. DOMAIN disk' = Names /\ disk'["log"] = disk["log"] /\ disk'["marks"] = file["marks"]
  BY DEF Publish, Sync, Names, ForkInv, FileInv
<1>3. PICK st : st = job.st
  OBVIOUS
<1>4. /\ file["marks"] # None /\ st # Damaged /\ MarkOf(st) \in Marks
      /\ \A m \in Marks : m.index < Len(mem.trails[m.trail]) \/ m = MarkOf(st)
      /\ st.index = Len(mem.trails[st.trail])
      /\ DOMAIN mem = {"trails", "regs", "counts"}
      /\ DOMAIN mem.trails = Trails /\ \A t \in Trails : Sequenced(mem.trails[t])
  BY <1>1, <1>3 DEF ForkInv, StepInv, Signing
<1>5. Stated = {st} /\ Stated' = {} /\ st \in Known
  BY <1>1, <1>3 DEF Stated, Signing, Completing, Known
<1>6. st.trail \in Trails
  BY <1>4, <1>5 DEF ForkInv, SignedInv
<1>7. Known' \subseteq Known
  BY <1>1, <1>2, <1>3, <1>5 DEF Known
<1>8. SignedInv'
  BY <1>1, <1>7 DEF ForkInv, SignedInv
<1>9. FileInv' /\ Marks' = Marks
  <2>1. file["marks"] \in MarkFiles
    BY <1>4 DEF ForkInv, FileInv
  <2>2. Len(file["marks"].lines) \in Nat
    BY <2>1, MarkFileIs
  <2> QED BY <1>1, <1>2, <2>1, <2>2 DEF ForkInv, FileInv, Marks
<1>10. MarkInv'
  <2>1. MarksOf(disk'["marks"]) = Marks
    BY <1>2 DEF Marks
  <2>2. \A x \in published : MarkOf(x) \in Marks
    BY DiskIsMarked DEF ForkInv, MarkInv
  <2>3. \A x \in published' : MarkOf(x) \in MarksOf(disk'["marks"])
    BY <1>1, <1>3, <1>4, <2>1, <2>2
  <2> QED BY <1>9, <2>3 DEF ForkInv, MarkInv
<1>11. StepInv'
  <2>1. PICK chain : chain = mem.trails[st.trail]
    OBVIOUS
  <2>2. Sequenced(chain) /\ st.index = Len(chain) /\ Len(chain) \in Nat
    BY <1>4, <1>6, <2>1, SequencedHas
  <2>3. Sequenced(Append(chain, st)) /\ Len(Append(chain, st)) = Len(chain) + 1
    <3>1. Sequenced(Append(chain, st))
      BY <2>2, SequencedAppend
    <3>2. PICK S : S = Range(chain) /\ chain \in Seq(S)
      BY <2>2, SequencedHas
    <3> QED BY <3>1, <3>2
  <2>4. DOMAIN mem' = DOMAIN mem /\ mem'.trails = [mem.trails EXCEPT ![st.trail] = Append(chain, st)]
    BY <1>3, <1>4, <2>1 DEF Publish
  <2>5. DOMAIN mem'.trails = Trails /\ \A t \in Trails : Sequenced(mem'.trails[t])
    BY <1>4, <1>6, <2>3, <2>4
  <2>6. ASSUME NEW m \in Marks' PROVE m.index < Len(mem'.trails[m.trail])
    <3>1. m \in Marks /\ m.trail \in Trails /\ m.index \in Nat
      BY <1>9, MarksTyped DEF ForkInv, MarkLines
    <3>2. CASE m.trail = st.trail
      <4>1. mem'.trails[m.trail] = Append(chain, st)
        BY <1>4, <2>4, <3>1, <3>2
      <4>2. m.index < Len(chain) \/ m.index = Len(chain)
        BY <1>4, <2>1, <2>2, <3>1, <3>2 DEF MarkOf
      <4> QED BY <2>2, <2>3, <3>1, <4>1, <4>2
    <3>3. CASE m.trail # st.trail
      <4>1. mem'.trails[m.trail] = mem.trails[m.trail]
        BY <1>4, <2>4, <3>1, <3>3
      <4>2. m # MarkOf(st)
        BY <3>3 DEF MarkOf
      <4> QED BY <1>4, <3>1, <4>1, <4>2
    <3> QED BY <3>2, <3>3
  <2> QED BY <1>1, <1>4, <2>4, <2>5, <2>6 DEF StepInv, Signing, Completing
<1> QED BY <1>8, <1>9, <1>10, <1>11 DEF ForkInv

-----------------------------------------------------------------------------
(* A start: what is served has its marks, and the chains in memory reach   *)
(* past every mark.                                                        *)
LEMMA StartStep ==
  ASSUME ForkInv, Start
  PROVE  ForkInv'
<1>1. /\ copy' = copy /\ signs' = signs /\ pc' = "serving"
      /\ published' = published \cup Range(file["log"].lines)
      /\ Outcome(file["log"], file["marks"], file["registrations"]) = "start"
      /\ DOMAIN file = Names
  BY DEF Start, Judged, ForkInv, FileInv
<1>2. /\ DOMAIN file' = Names /\ file'["log"] = file["log"]
      /\ file'["marks"] = IF file["marks"] = None THEN Empty ELSE file["marks"]
  BY DEF Start, Names, ForkInv, FileInv
<1>3. DOMAIN disk' = Names /\ disk'["log"] = file["log"] /\ disk'["marks"] = file'["marks"]
  BY <1>2 DEF Start, SyncRead, Names, Held
<1>4. PICK log, lines, marks : log = file["log"] /\ lines = log.lines /\ marks = file["marks"]
  OBVIOUS
<1>5. Sequenced(lines) /\ Plain(log) /\ marks \in {None} \cup MarkFiles
  BY <1>4 DEF ForkInv, FileInv, Plain
<1>6. Stated' = {}
  BY <1>1, ServeStates
<1>7. SignedInv'
  <2>1. Known' \subseteq Known
    BY <1>1, <1>2, <1>3, <1>6 DEF Known, Said
  <2> QED BY <1>1, <2>1 DEF ForkInv, SignedInv
<1>8. file'["marks"] \in MarkFiles /\ file'["marks"] # None
  BY <1>2, <1>4, <1>5, EmptyFiles
<1>9. FileInv'
  <2>1. Len(file'["marks"].lines) \in Nat
    BY <1>8, MarkFileIs
  <2> QED BY <1>1, <1>2, <1>3, <1>8, <2>1 DEF ForkInv, FileInv
<1>10. mem' = Loaded(log, file["registrations"]) /\ DOMAIN mem' = {"trails", "regs", "counts"}
       /\ mem'.trails = [t \in Trails |-> Chain(lines, t)]
  BY <1>4 DEF Start, Loaded
<1>11. DOMAIN mem'.trails = Trails /\ \A t \in Trails : Sequenced(mem'.trails[t])
  BY <1>5, <1>10, ChainTypes
<1>12. CASE marks = None /\ log = Empty
  <2>1. Marks' = {} /\ MarksOf(disk'["marks"]) = {}
    BY <1>2, <1>3, <1>4, <1>12, EmptyFiles DEF Marks, MarksOf
  <2>2. published' = {}
    <3>1. disk["marks"] = None
      BY <1>4, <1>12 DEF ForkInv, FileInv
    <3>2. published = {}
      BY <3>1 DEF ForkInv, MarkInv, MarksOf
    <3> QED BY <1>1, <1>4, <1>12, <3>2, EmptyFiles
  <2>3. MarkInv'
    BY <2>1, <2>2 DEF MarkInv
  <2>4. StepInv'
    BY <1>1, <1>8, <1>10, <1>11, <2>1 DEF StepInv, Signing, Completing
  <2> QED BY <1>7, <1>9, <2>3, <2>4 DEF ForkInv
<1>13. CASE marks # None /\ Unreached(lines, marks) = {} /\ Unmarked(lines, marks) = {}
            /\ Failing(lines) = {}
  <2>1. Marks' = Marks /\ Marks = Range(marks.lines) /\ MarksOf(disk'["marks"]) = Marks
    BY <1>2, <1>3, <1>4, <1>13 DEF Marks, MarksOf
  <2>2. ASSUME NEW x \in published' PROVE MarkOf(x) \in MarksOf(disk'["marks"])
    <3>1. CASE x \in published
      BY <2>1, <3>1, DiskIsMarked DEF ForkInv, MarkInv
    <3>2. CASE x \in Range(lines)
      <4>1. PICK i \in DOMAIN lines : x = lines[i]
        BY <3>2, RangeIs
      <4> QED BY <1>13, <2>1, <4>1 DEF Unmarked
    <3> QED BY <1>1, <1>4, <3>1, <3>2
  <2>3. MarkInv'
    BY <2>1, <2>2 DEF ForkInv, MarkInv
  <2>4. ASSUME NEW m \in Marks' PROVE m.index < Len(mem'.trails[m.trail])
    <3>1. m.trail \in Trails /\ m \in Range(marks.lines)
      BY <2>1, MarksTyped DEF ForkInv, MarkLines
    <3>2. m.index < Len(Chain(lines, m.trail))
      BY <1>5, <1>13, <3>1, MarkIsBelow
    <3> QED BY <1>10, <3>1, <3>2
  <2>5. StepInv'
    BY <1>1, <1>8, <1>10, <1>11, <2>4 DEF StepInv, Signing, Completing
  <2> QED BY <1>7, <1>9, <2>3, <2>5 DEF ForkInv
<1> QED BY <1>1, <1>4, <1>12, <1>13, JudgedStart

-----------------------------------------------------------------------------
(* Repairs. *)

LEMMA BeginRepairStep ==
  ASSUME ForkInv, BeginRepair
  PROVE  ForkInv'
<1>1. /\ file' = file /\ copy' = copy /\ published' = published /\ signs' = signs
      /\ mem' = mem /\ DOMAIN file = Names
  BY DEF BeginRepair, history, ForkInv, FileInv
<1>2. DOMAIN disk' = Names /\ disk'["log"] = file["log"] /\ disk'["marks"] = file["marks"]
  BY DEF BeginRepair, SyncRead, Names, Held
<1>3. PICK log, lines, marks : log = file["log"] /\ lines = log.lines /\ marks = file["marks"]
  OBVIOUS
<1>4. Sequenced(lines) /\ Plain(log)
  BY <1>3 DEF ForkInv, FileInv, Plain
<1>5. ASSUME Stated' \subseteq Known, StepInv'
      PROVE  ForkInv'
  <2>1. Quiet
    BY <1>1, <1>2, <1>5, SameFiles DEF ForkInv
  <2> QED BY <1>5, <2>1, QuietStep DEF ForkInv
<1>6. CASE pc' = "aside" /\ job'.cut \in {"log", "registrations"}
  <2>1. StepInv' /\ Stated' = {}
    BY <1>1, <1>6, SetStep DEF ForkInv, Setting
  <2> QED BY <1>5, <2>1
<1>7. ASSUME pc' \in Completing, job'.st \in Said(log), job'.st.kind # "damaged",
             Fresh(job'.st, marks), marks # None
      PROVE  ForkInv'
  <2>1. job'.st \in Known /\ Stated' \subseteq {job'.st}
    BY <1>3, <1>7 DEF Known, Stated
  <2>2. job'.st # Damaged
    BY <1>7 DEF Damaged
  <2>3. Marks' = Range(marks.lines)
    BY <1>1, <1>3, <1>7 DEF Marks, MarksOf
  <2>4. \A m \in Marks' : ~ (m.trail = job'.st.trail /\ m.index = job'.st.index)
    BY <1>7, <2>3 DEF Fresh
  <2>5. StepInv'
    BY <1>1, <1>3, <1>7, <2>2, <2>4 DEF ForkInv, StepInv, Signing, Completing
  <2> QED BY <1>5, <2>1, <2>5
<1>8. CASE Judged = "newline-and-mark-completed"
  <2>1. PICK st : st = log.tail.of
    OBVIOUS
  <2>2. pc' = "newline" /\ job'.st = st
    BY <1>3, <1>8, <2>1 DEF BeginRepair, NoJob
  <2>3. /\ marks # None /\ log.tail # None /\ Unreached(lines, marks) = {} /\ Failing(lines) = {}
        /\ ChainFollows(Chain(lines, st.trail), st)
    BY <1>3, <1>8, <2>1, JudgedLine DEF Judged
  <2>4. st.kind # "damaged" /\ Fresh(st, marks)
    BY <1>4, <2>3, TailIsFresh
  <2>5. st \in Said(log)
    BY <2>1, <2>3 DEF Said
  <2> QED BY <1>7, <2>2, <2>3, <2>4, <2>5 DEF Completing
<1>9. CASE Judged = "mark-completed"
  <2>1. pc' = "complete" /\ job'.st = Last(lines)
    BY <1>3, <1>9 DEF BeginRepair, NoJob
  <2>2. /\ marks # None /\ Unreached(lines, marks) = {} /\ Failing(lines) = {}
        /\ Unmarked(lines, marks) = {Len(lines)}
    BY <1>3, <1>9, JudgedMark DEF Judged
  <2>3. Last(lines) \in Range(lines) /\ Last(lines).kind # "damaged" /\ Fresh(Last(lines), marks)
    BY <1>4, <2>2, LastIsFresh
  <2>4. Last(lines) \in Said(log)
    BY <1>3, <2>3 DEF Said
  <2> QED BY <1>7, <2>1, <2>2, <2>3, <2>4 DEF Completing
<1>10. CASE Judged = "set-aside" \/ Judged = "registration-set-aside"
  <2>1. pc' = "aside" /\ job'.cut \in {"log", "registrations"}
    BY <1>10 DEF BeginRepair, NoJob
  <2> QED BY <1>6, <2>1
<1>11. Judged \in {"start", "refused", "new-key", "set-aside", "newline-and-mark-completed",
                   "mark-completed", "registration-set-aside"}
  <2>1. LogOutcome(log, marks) \in {"start", "refused", "new-key", "set-aside",
                                    "newline-and-mark-completed", "mark-completed"}
    <3>1. PICK u, f, r, l, fo : u = Unmarked(log.lines, marks) /\ f = Failing(log.lines)
                /\ r = Unreached(log.lines, marks) /\ l = Len(log.lines)
                /\ fo = ChainFollows(Chain(log.lines, log.tail.of.trail), log.tail.of)
      OBVIOUS
    <3> QED BY <3>1 DEF LogOutcome
  <2> QED BY <1>3, <2>1 DEF Judged, Outcome
<1> QED BY <1>8, <1>9, <1>10, <1>11 DEF BeginRepair

LEMMA EndLineStep ==
  ASSUME ForkInv, EndLine
  PROVE  ForkInv'
<1>1. /\ disk' = disk /\ copy' = copy /\ published' = published /\ signs' = signs
      /\ pc = "newline" /\ pc' = "newline-sync" /\ mem' = mem /\ job' = job /\ DOMAIN disk = Names
  BY DEF EndLine, Write, Move, history, ForkInv, FileInv
<1>2. /\ DOMAIN file' = Names /\ file'["log"] = With(file["log"], job.st)
      /\ file'["marks"] = file["marks"]
  BY DEF EndLine, Write, Names, ForkInv, FileInv
<1>3. Stated = {job.st} /\ Stated' = {job.st} /\ job.st \in Known
  BY <1>1 DEF Stated, Completing, Known
<1>4. Plain(file'["log"]) /\ Said(file'["log"]) \subseteq Said(file["log"]) \cup {job.st}
  BY <1>2, PlainWith DEF ForkInv, FileInv
<1>5. Quiet
  BY <1>1, <1>2, <1>3, <1>4 DEF Quiet, Known, ForkInv, FileInv
<1>6. Marks' = Marks /\ (file'["marks"] = None <=> file["marks"] = None)
  BY <1>5, QuietStep DEF ForkInv
<1>7. StepInv'
  BY <1>1, <1>6 DEF ForkInv, StepInv, Signing, Completing
<1> QED BY <1>5, <1>7, QuietStep DEF ForkInv

LEMMA LineDurableStep ==
  ASSUME ForkInv, LineDurable
  PROVE  ForkInv'
<1>1. /\ file' = file /\ copy' = copy /\ published' = published /\ signs' = signs
      /\ pc = "newline-sync" /\ pc' = "complete" /\ mem' = mem /\ job' = job /\ DOMAIN file = Names
  BY DEF LineDurable, Sync, Move, history, ForkInv, FileInv
<1>2. DOMAIN disk' = Names /\ disk'["log"] = file["log"] /\ disk'["marks"] = disk["marks"]
  BY DEF LineDurable, Sync, Names, ForkInv, FileInv
<1>3. Stated' = {job.st} /\ job.st \in Known
  BY <1>1 DEF Stated, Completing, Known
<1>4. Quiet
  BY <1>1, <1>2, <1>3, SameFiles DEF ForkInv
<1>5. Marks' = Marks /\ (file'["marks"] = None <=> file["marks"] = None)
  BY <1>4, QuietStep DEF ForkInv
<1>6. StepInv'
  BY <1>1, <1>5 DEF ForkInv, StepInv, Signing, Completing
<1> QED BY <1>4, <1>6, QuietStep DEF ForkInv

LEMMA CompleteMarkStep ==
  ASSUME ForkInv, CompleteMark
  PROVE  ForkInv'
<1>1. /\ copy' = copy /\ published' = published /\ signs' = signs
      /\ pc = "complete" /\ pc' = "complete-sync" /\ mem' = mem
      /\ Write("marks", MarkOf(job.st))
  BY DEF CompleteMark, Move, history
<1>2. StepInv' /\ Stated' = {}
  BY <1>1, RestStep DEF ForkInv, Resting
<1>3. /\ pc \in Completing /\ file["marks"] # None
      /\ \A m \in Marks : ~ (m.trail = job.st.trail /\ m.index = job.st.index)
  BY <1>1 DEF ForkInv, StepInv, Completing
<1>4. FileInv' /\ SignedInv' /\ MarkInv'
  BY <1>1, <1>2, <1>3, MarkStep
<1> QED BY <1>2, <1>4 DEF ForkInv

LEMMA ThenRegistrationsStep ==
  ASSUME ForkInv, ThenRegistrations
  PROVE  StepInv' /\ Stated' = {} /\ signs' = signs
<1>1. mem' = mem /\ signs' = signs
  BY DEF ThenRegistrations
<1>2. CASE pc' = "aside" /\ job' = [NoJob EXCEPT !.cut = "registrations"]
  <2>1. job'.cut = "registrations"
    BY <1>2 DEF NoJob
  <2> QED BY <1>1, <1>2, <2>1, SetStep DEF ForkInv, Setting
<1>3. CASE pc' = "check"
  BY <1>1, <1>3, RestStep DEF ForkInv, Resting
<1> QED BY <1>2, <1>3 DEF ThenRegistrations

LEMMA MarkDurableStep ==
  ASSUME ForkInv, MarkDurable
  PROVE  ForkInv'
<1>1. StepInv' /\ Stated' = {} /\ signs' = signs
  BY ThenRegistrationsStep DEF MarkDurable
<1>2. /\ file' = file /\ copy' = copy /\ published' = published /\ DOMAIN file = Names
  BY DEF MarkDurable, Sync, history, ForkInv, FileInv
<1>3. DOMAIN disk' = Names /\ disk'["log"] = disk["log"] /\ disk'["marks"] = file["marks"]
  BY DEF MarkDurable, Sync, Names, ForkInv, FileInv
<1>4. Quiet
  BY <1>1, <1>2, <1>3, SameFiles DEF ForkInv
<1> QED BY <1>1, <1>4, QuietStep DEF ForkInv

LEMMA OpenAsideStep ==
  ASSUME ForkInv, OpenAside
  PROVE  ForkInv'
<1>1. /\ copy' = copy /\ published' = published /\ signs' = signs
      /\ mem' = mem /\ job' = job /\ pc = "aside" /\ pc' = "settle"
  BY DEF OpenAside, Move, history
<1>2. /\ DOMAIN file' = Names /\ file'["log"] = file["log"] /\ file'["marks"] = file["marks"]
      /\ DOMAIN disk' = Names /\ disk'["log"] = disk["log"] /\ disk'["marks"] = disk["marks"]
  BY DEF OpenAside, Names, ForkInv, FileInv
<1>3. StepInv' /\ Stated' = {}
  BY <1>1, SetStep DEF ForkInv, StepInv, Setting
<1>4. Quiet
  BY <1>1, <1>2, <1>3, SameFiles DEF ForkInv, FileInv
<1> QED BY <1>3, <1>4, QuietStep DEF ForkInv

LEMMA SettleStep ==
  ASSUME ForkInv, Settle
  PROVE  ForkInv'
<1>1. /\ copy' = copy /\ published' = published /\ signs' = signs
      /\ mem' = mem /\ job' = job /\ pc = "settle" /\ pc' \in {"keep", "settle"}
  BY DEF Settle, Move, history
<1>2. /\ DOMAIN file' = Names /\ file'["log"] = file["log"] /\ file'["marks"] = file["marks"]
      /\ disk' = disk
  BY DEF Settle, Write, Names, ForkInv, FileInv
<1>3. StepInv' /\ Stated' = {}
  BY <1>1, SetStep DEF ForkInv, StepInv, Setting
<1>4. Quiet
  BY <1>1, <1>2, <1>3, SameFiles DEF ForkInv, FileInv
<1> QED BY <1>3, <1>4, QuietStep DEF ForkInv

LEMMA KeepTailStep ==
  ASSUME ForkInv, KeepTail
  PROVE  ForkInv'
<1>1. /\ copy' = copy /\ published' = published /\ signs' = signs
      /\ mem' = mem /\ job' = job /\ pc = "keep" /\ pc' = "keep-sync"
  BY DEF KeepTail, Move, history
<1>2. /\ DOMAIN file' = Names /\ file'["log"] = file["log"] /\ file'["marks"] = file["marks"]
      /\ disk' = disk
  BY DEF KeepTail, Write, Names, ForkInv, FileInv
<1>3. StepInv' /\ Stated' = {}
  BY <1>1, SetStep DEF ForkInv, StepInv, Setting
<1>4. Quiet
  BY <1>1, <1>2, <1>3, SameFiles DEF ForkInv, FileInv
<1> QED BY <1>3, <1>4, QuietStep DEF ForkInv

LEMMA TailKeptStep ==
  ASSUME ForkInv, TailKept
  PROVE  ForkInv'
<1>1. /\ copy' = copy /\ published' = published /\ signs' = signs
      /\ mem' = mem /\ job' = job /\ pc = "keep-sync" /\ pc' = "cut"
  BY DEF TailKept, Move, history
<1>2. /\ file' = file /\ DOMAIN file = Names
      /\ DOMAIN disk' = Names /\ disk'["log"] = disk["log"] /\ disk'["marks"] = disk["marks"]
  BY DEF TailKept, Sync, Names, ForkInv, FileInv
<1>3. StepInv' /\ Stated' = {}
  BY <1>1, SetStep DEF ForkInv, StepInv, Setting
<1>4. Quiet
  BY <1>1, <1>2, <1>3, SameFiles DEF ForkInv, FileInv
<1> QED BY <1>3, <1>4, QuietStep DEF ForkInv

LEMMA CutStep ==
  ASSUME ForkInv, Cut
  PROVE  ForkInv'
<1>1. /\ disk' = disk /\ copy' = copy /\ published' = published /\ signs' = signs
      /\ mem' = mem /\ job' = job /\ pc = "cut" /\ pc' = "cut-sync" /\ DOMAIN disk = Names
  BY DEF Cut, Move, ForkInv, FileInv
<1>2. job.cut \in {"log", "registrations"}
  BY <1>1 DEF ForkInv, StepInv
<1>3. StepInv' /\ Stated' = {}
  BY <1>1, <1>2, SetStep DEF ForkInv, Setting
<1>4. DOMAIN file' = Names /\ file'["marks"] = file["marks"]
  BY <1>2 DEF Cut, Names, ForkInv, FileInv
<1>5. CASE job.cut = "registrations"
  <2>1. file'["log"] = file["log"]
    BY <1>5 DEF Cut, Names, ForkInv, FileInv
  <2>2. Quiet
    BY <1>1, <1>3, <1>4, <2>1, SameFiles DEF ForkInv
  <2> QED BY <1>3, <2>2, QuietStep DEF ForkInv
<1>6. CASE job.cut = "log"
  <2>1. file'["log"] = [file["log"] EXCEPT !.tail = None]
    BY <1>6 DEF Cut, Names, ForkInv, FileInv
  <2>2. Plain(file'["log"]) /\ file'["log"].lines = file["log"].lines /\ file'["log"].tail = None
    BY <2>1, PlainTail DEF ForkInv, FileInv
  <2>3. Said(file'["log"]) \subseteq Said(file["log"])
    BY <2>2 DEF Said
  <2>4. Quiet
    BY <1>1, <1>3, <1>4, <2>2, <2>3 DEF Quiet, Known, ForkInv, FileInv
  <2> QED BY <1>3, <2>4, QuietStep DEF ForkInv
<1> QED BY <1>2, <1>5, <1>6

LEMMA CutDurableStep ==
  ASSUME ForkInv, CutDurable
  PROVE  ForkInv'
<1>1. StepInv' /\ Stated' = {} /\ signs' = signs
  BY ThenRegistrationsStep DEF CutDurable
<1>2. job.cut \in {"log", "registrations"}
  BY DEF ForkInv, StepInv, CutDurable
<1>3. /\ file' = file /\ copy' = copy /\ published' = published /\ DOMAIN file = Names
  BY DEF CutDurable, Sync, history, ForkInv, FileInv
<1>4. DOMAIN disk' = Names /\ disk'["log"] \in {disk["log"], file["log"]}
      /\ disk'["marks"] = disk["marks"]
  BY <1>2 DEF CutDurable, Sync, Names, ForkInv, FileInv
<1>5. Quiet
  BY <1>1, <1>3, <1>4, SameFiles DEF ForkInv
<1> QED BY <1>1, <1>5, QuietStep DEF ForkInv

LEMMA CheckAgainStep ==
  ASSUME ForkInv, CheckAgain
  PROVE  ForkInv'
<1>1. /\ file' = file /\ disk' = disk /\ copy' = copy /\ published' = published /\ signs' = signs
      /\ mem' = mem /\ pc' = "idle"
  BY DEF CheckAgain, history
<1>2. StepInv' /\ Stated' = {}
  BY <1>1, RestStep DEF ForkInv, Resting
<1>3. Quiet
  BY <1>1, <1>2, SameFiles DEF ForkInv, FileInv
<1> QED BY <1>2, <1>3, QuietStep DEF ForkInv

-----------------------------------------------------------------------------
(* Failures. *)

LEMMA SyncFailsStep ==
  ASSUME ForkInv, SyncFails
  PROVE  ForkInv'
<1>1. /\ file' = file /\ disk' = disk /\ copy' = copy /\ published' = published /\ signs' = signs
      /\ mem' = mem /\ pc' = "stopped"
  BY DEF SyncFails, history
<1>2. StepInv' /\ Stated' = {}
  BY <1>1, RestStep DEF ForkInv, Resting
<1>3. Quiet
  BY <1>1, <1>2, SameFiles DEF ForkInv, FileInv
<1> QED BY <1>2, <1>3, QuietStep DEF ForkInv

LEMMA StopStep ==
  ASSUME ForkInv, Stop
  PROVE  ForkInv'
<1>1. /\ file' = file /\ disk' = disk /\ copy' = copy /\ published' = published /\ signs' = signs
      /\ mem' = NoMem /\ pc' = "idle"
  BY DEF Stop, history
<1>2. StepInv' /\ Stated' = {}
  BY <1>1, RestStep DEF ForkInv, Resting
<1>3. Quiet
  BY <1>1, <1>2, SameFiles DEF ForkInv, FileInv
<1> QED BY <1>2, <1>3, QuietStep DEF ForkInv

(* A short write leaves a tail on the log, the marks or another file. *)
LEMMA WriteFailsStep ==
  ASSUME ForkInv, WriteFails
  PROVE  ForkInv'
<1>1. /\ disk' = disk /\ copy' = copy /\ published' = published /\ signs' = signs
      /\ mem' = mem /\ pc' = "stopped"
  BY DEF WriteFails, history
<1>2. StepInv' /\ Stated' = {}
  BY <1>1, RestStep DEF ForkInv, Resting
<1> PICK f, line : f = Pending.f /\ line = Pending.line
  OBVIOUS
<1>3. PICK whole \in BOOLEAN : /\ f = Pending.f /\ line = Pending.line
                              /\ file' = [file EXCEPT ![f].tail = Part(line, whole)]
  BY DEF WriteFails
<1>4. CASE pc \in {"register", "offline", "settle", "keep"}
  <2>1. f \in {"registrations", "set-aside"}
    BY <1>3, <1>4 DEF Pending
  <2>2. DOMAIN file' = Names /\ file'["log"] = file["log"] /\ file'["marks"] = file["marks"]
    BY <1>3, <2>1 DEF Names, ForkInv, FileInv
  <2>3. Quiet
    BY <1>1, <1>2, <2>2, SameFiles DEF ForkInv, FileInv
  <2> QED BY <1>2, <2>3, QuietStep DEF ForkInv
<1>5. CASE pc = "append"
  <2>1. f = "log" /\ line = job.st
    BY <1>3, <1>5 DEF Pending
  <2>2. line \in Known
    BY <1>5, <2>1 DEF Known, Stated, Signing
  <2>3. PICK x : x = Part(line, whole) /\ x.of = line
    <3>1. Part(line, whole).of = line
      BY DEF Part
    <3> QED BY <3>1
  <2>4. DOMAIN file' = Names /\ file'["log"] = [file["log"] EXCEPT !.tail = x]
        /\ file'["marks"] = file["marks"]
    BY <1>3, <2>1, <2>3 DEF Names, ForkInv, FileInv
  <2>5. Plain(file'["log"]) /\ file'["log"].lines = file["log"].lines /\ file'["log"].tail = x
    BY <2>4, PlainTail DEF ForkInv, FileInv
  <2>6. Said(file'["log"]) \subseteq Said(file["log"]) \cup {line}
    BY <2>3, <2>5 DEF Said
  <2>7. Quiet
    BY <1>1, <1>2, <2>2, <2>4, <2>5, <2>6 DEF Quiet, Known, ForkInv, FileInv
  <2> QED BY <1>2, <2>7, QuietStep DEF ForkInv
<1>6. CASE pc \in {"mark", "complete"}
  <2>1. f = "marks" /\ line = MarkOf(job.st)
    BY <1>3, <1>6 DEF Pending
  <2>2. job.st \in Known /\ job.st # Damaged /\ file["marks"] # None
    BY <1>6 DEF Known, Stated, Signing, Completing, ForkInv, StepInv
  <2>3. line \in MarkLines
    BY <2>1, <2>2, MarkIs DEF ForkInv
  <2>4. PICK x : x = Part(line, whole)
    OBVIOUS
  <2>5. x \in [of : MarkLines, whole : BOOLEAN]
    BY <2>3, <2>4 DEF Part
  <2>6. PICK g : g = file["marks"] /\ g \in MarkFiles
    BY <2>2 DEF ForkInv, FileInv
  <2>7. DOMAIN file' = Names /\ file'["log"] = file["log"]
        /\ file'["marks"] = [g EXCEPT !.tail = x]
    BY <1>3, <2>1, <2>4, <2>6 DEF Names, ForkInv, FileInv
  <2>8. g = [lines |-> g.lines, tail |-> g.tail] /\ g.lines \in Seq(MarkLines)
    BY <2>6, MarkFileIs
  <2>9. file'["marks"] = [lines |-> g.lines, tail |-> x] /\ file'["marks"].lines = g.lines
    BY <2>7, <2>8
  <2>10. file'["marks"] \in MarkFiles
    BY <2>5, <2>8, <2>9, MarkFileOf
  <2>11. Quiet
    BY <1>1, <1>2, <2>2, <2>6, <2>7, <2>9, <2>10 DEF Quiet, Known, ForkInv, FileInv
  <2> QED BY <1>2, <2>11, QuietStep DEF ForkInv
<1> QED BY <1>4, <1>5, <1>6 DEF WriteFails

Survived(f, d, c) ==
  \/ f = c \/ f = d
  \/ \E n \in Len(d.lines) + 1 .. Len(c.lines) :
       f = [lines |-> SubSeq(c.lines, 1, n), tail |-> None]
  \/ \E n \in (IF d.tail = None THEN Len(d.lines) ELSE Len(d.lines) + 1) .. Len(c.lines) - 1 :
       \E whole \in BOOLEAN :
         f = [lines |-> SubSeq(c.lines, 1, n), tail |-> Part(c.lines[n + 1], whole)]
  \/ d.tail = None /\ c.tail # None /\ f = [lines |-> c.lines, tail |-> Part(c.tail.of, FALSE)]

LEMMA SurvivorCases ==
  ASSUME NEW d, NEW c, NEW f \in Survivors(d, c)
  PROVE  Survived(f, d, c)
<1>1. PICK A : A = {[lines |-> SubSeq(c.lines, 1, n), tail |-> None] :
                      n \in Len(d.lines) + 1 .. Len(c.lines)}
  OBVIOUS
<1>2. PICK J : J = (IF d.tail = None THEN Len(d.lines) ELSE Len(d.lines) + 1) .. Len(c.lines) - 1
  OBVIOUS
<1>3. PICK B : B = UNION {CutAfter(c, n) :
            n \in (IF d.tail = None THEN Len(d.lines) ELSE Len(d.lines) + 1) .. Len(c.lines) - 1}
  OBVIOUS
<1>4. PICK C : C = (IF d.tail = None /\ c.tail # None
                      THEN {[lines |-> c.lines, tail |-> Part(c.tail.of, FALSE)]} ELSE {})
  OBVIOUS
<1>5. Survivors(d, c) = IF c = None \/ d = None THEN {c} ELSE {d, c} \cup A \cup B \cup C
  BY <1>1, <1>3, <1>4 DEF Survivors
<1>6. CASE f = c \/ f = d
  BY <1>6 DEF Survived
<1>7. CASE f \in A
  BY <1>1, <1>7 DEF Survived
<1>8. CASE f \in B
  <2>1. PICK n \in J : f \in CutAfter(c, n)
    BY <1>2, <1>3, <1>8
  <2>2. PICK whole \in BOOLEAN :
           f = [lines |-> SubSeq(c.lines, 1, n), tail |-> Part(c.lines[n + 1], whole)]
    BY <2>1 DEF CutAfter
  <2> QED BY <1>2, <2>2 DEF Survived
<1>9. CASE f \in C
  BY <1>4, <1>9 DEF Survived
<1> QED BY <1>5, <1>6, <1>7, <1>8, <1>9

(* What a crash of the host leaves says no more than the two files did. *)
LEMMA SurvivorIs ==
  ASSUME NEW d, Plain(d), NEW c, Plain(c), NEW f \in Survivors(d, c)
  PROVE  Plain(f) /\ Said(f) \subseteq Said(d) \cup Said(c)
<1>1. /\ Sequenced(d.lines) /\ Len(d.lines) \in Nat
      /\ Sequenced(c.lines) /\ Len(c.lines) \in Nat /\ DOMAIN c.lines = 1 .. Len(c.lines)
      /\ \A i \in 1 .. Len(c.lines) : c.lines[i] \in Range(c.lines)
  BY SequencedHas DEF Plain
<1>2. CASE f = c \/ f = d
  BY <1>2
<1>3. ASSUME NEW n \in 0 .. Len(c.lines), NEW x, f = [lines |-> SubSeq(c.lines, 1, n), tail |-> x],
             x # None => x.of \in Said(c)
      PROVE  Plain(f) /\ Said(f) \subseteq Said(c)
  <2>1. PICK l : l = SubSeq(c.lines, 1, n)
    OBVIOUS
  <2>2. Sequenced(l) /\ Range(l) \subseteq Range(c.lines)
    BY <1>1, <2>1, SequencedPrefix
  <2>3. f.lines = l /\ f.tail = x /\ f = [lines |-> f.lines, tail |-> f.tail]
    BY <1>3, <2>1
  <2> QED BY <1>3, <2>2, <2>3 DEF Plain, Said
<1>4. CASE \E n \in Len(d.lines) + 1 .. Len(c.lines) :
             f = [lines |-> SubSeq(c.lines, 1, n), tail |-> None]
  <2>1. PICK n \in Len(d.lines) + 1 .. Len(c.lines) :
           f = [lines |-> SubSeq(c.lines, 1, n), tail |-> None]
    BY <1>4
  <2>2. n \in 0 .. Len(c.lines)
    BY <1>1
  <2> QED BY <1>3, <2>1, <2>2
<1>5. CASE \E n \in (IF d.tail = None THEN Len(d.lines) ELSE Len(d.lines) + 1) .. Len(c.lines) - 1 :
             \E whole \in BOOLEAN :
               f = [lines |-> SubSeq(c.lines, 1, n), tail |-> Part(c.lines[n + 1], whole)]
  <2>1. PICK n \in (IF d.tail = None THEN Len(d.lines) ELSE Len(d.lines) + 1) .. Len(c.lines) - 1,
             whole \in BOOLEAN :
           f = [lines |-> SubSeq(c.lines, 1, n), tail |-> Part(c.lines[n + 1], whole)]
    BY <1>5
  <2>2. n \in 0 .. Len(c.lines) /\ n + 1 \in 1 .. Len(c.lines)
    BY <1>1
  <2>3. PICK x : x = Part(c.lines[n + 1], whole)
    OBVIOUS
  <2>4. x.of \in Said(c)
    BY <1>1, <2>2, <2>3 DEF Said, Part
  <2> QED BY <1>3, <2>1, <2>2, <2>3, <2>4
<1>6. CASE d.tail = None /\ c.tail # None /\ f = [lines |-> c.lines, tail |-> Part(c.tail.of, FALSE)]
  <2>1. PICK x : x = Part(c.tail.of, FALSE)
    OBVIOUS
  <2>2. x.of \in Said(c)
    BY <1>6, <2>1 DEF Said, Part
  <2>3. f.lines = c.lines /\ f.tail = x /\ f = [lines |-> f.lines, tail |-> f.tail]
    BY <1>6, <2>1
  <2> QED BY <1>1, <2>2, <2>3 DEF Plain, Said
<1>7. Survived(f, d, c)
  BY SurvivorCases
<1> QED BY <1>2, <1>4, <1>5, <1>6, <1>7 DEF Survived

(* Of the marks it keeps at least the durable ones. *)
LEMMA SurvivingMarks ==
  ASSUME FileInv, NEW f \in Survivors(disk["marks"], file["marks"])
  PROVE  /\ f \in {None} \cup MarkFiles
         /\ MarksOf(disk["marks"]) \subseteq MarksOf(f) /\ MarksOf(f) \subseteq Marks
<1> PICK d, c : d = disk["marks"] /\ c = file["marks"]
  OBVIOUS
<1>1. CASE d = None
  <2>1. f = c
    BY <1>1 DEF Survivors
  <2> QED BY <1>1, <2>1 DEF FileInv, MarksOf, Marks
<1>2. CASE d # None
  <2>1. /\ d \in MarkFiles /\ c \in MarkFiles /\ c # None /\ Len(d.lines) <= Len(c.lines)
        /\ \A i \in 1 .. Len(d.lines) : d.lines[i] = c.lines[i]
    BY <1>2 DEF FileInv
  <2>2. /\ c.lines \in Seq(MarkLines) /\ Sequenced(c.lines) /\ Len(c.lines) \in Nat
        /\ c.tail \in {None} \cup [of : MarkLines, whole : BOOLEAN]
        /\ Sequenced(d.lines) /\ Len(d.lines) \in Nat
    BY <2>1, MarkFileIs
  <2>3. DOMAIN d.lines = 1 .. Len(d.lines) /\ DOMAIN c.lines = 1 .. Len(c.lines)
        /\ \A i \in 1 .. Len(c.lines) : c.lines[i] \in MarkLines
    BY <2>2, SequencedHas
  <2>4. MarksOf(d) \subseteq MarksOf(c) /\ MarksOf(c) = Marks
    BY DiskIsMarked DEF Marks
  <2>5. ASSUME NEW n \in Len(d.lines) .. Len(c.lines),
               NEW x \in {None} \cup [of : MarkLines, whole : BOOLEAN],
               f = [lines |-> SubSeq(c.lines, 1, n), tail |-> x]
        PROVE  f \in MarkFiles /\ MarksOf(d) \subseteq MarksOf(f) /\ MarksOf(f) \subseteq MarksOf(c)
    <3>1. PICK l : l = SubSeq(c.lines, 1, n)
      OBVIOUS
    <3>2. n \in 0 .. Len(c.lines)
      BY <2>2
    <3>3. /\ Sequenced(l) /\ Range(l) \subseteq Range(c.lines) /\ Len(l) = n
          /\ \A i \in 1 .. n : l[i] = c.lines[i]
      BY <2>2, <3>1, <3>2, SequencedPrefix
    <3>4. l \in Seq(MarkLines)
      <4>1. PICK S, y : S = MarkLines /\ y = c.lines
        OBVIOUS
      <4>2. y \in Seq(S) /\ l = SubSeq(y, 1, n) /\ n \in 0 .. Len(y)
        BY <2>2, <3>1, <3>2, <4>1
      <4>3. l \in Seq(S)
        BY <4>2
      <4> QED BY <4>1, <4>3
    <3>5. f \in MarkFiles /\ f # None /\ f.lines = l
      BY <2>5, <3>1, <3>4, MarkFileOf, MarksAssumption
    <3>6. ASSUME NEW m \in Range(d.lines) PROVE m \in Range(l)
      <4>1. PICK i \in 1 .. Len(d.lines) : m = d.lines[i]
        BY <2>3, RangeIs
      <4>2. i \in 1 .. n
        BY <2>2, <4>1
      <4>3. DOMAIN l = 1 .. n
        BY <3>3, SequencedHas
      <4>4. l[i] = m
        BY <2>1, <3>3, <4>1, <4>2
      <4> QED BY <4>2, <4>3, <4>4, RangeIs
    <3> QED BY <1>2, <2>1, <3>3, <3>5, <3>6 DEF MarksOf
  <2>6. CASE f = c \/ f = d
    BY <2>1, <2>4, <2>6
  <2>7. CASE \E n \in Len(d.lines) + 1 .. Len(c.lines) :
             f = [lines |-> SubSeq(c.lines, 1, n), tail |-> None]
    <3>1. PICK n \in Len(d.lines) + 1 .. Len(c.lines) :
             f = [lines |-> SubSeq(c.lines, 1, n), tail |-> None]
      BY <2>7
    <3>2. n \in Len(d.lines) .. Len(c.lines)
      BY <2>2
    <3> QED BY <2>4, <2>5, <3>1, <3>2
  <2>8. CASE \E n \in (IF d.tail = None THEN Len(d.lines) ELSE Len(d.lines) + 1) .. Len(c.lines) - 1 :
             \E whole \in BOOLEAN :
               f = [lines |-> SubSeq(c.lines, 1, n), tail |-> Part(c.lines[n + 1], whole)]
    <3>1. PICK n \in (IF d.tail = None THEN Len(d.lines) ELSE Len(d.lines) + 1) .. Len(c.lines) - 1,
               whole \in BOOLEAN :
             f = [lines |-> SubSeq(c.lines, 1, n), tail |-> Part(c.lines[n + 1], whole)]
      BY <2>8
    <3>2. n \in Len(d.lines) .. Len(c.lines) /\ n + 1 \in 1 .. Len(c.lines)
      BY <2>2
    <3>3. PICK x : x = Part(c.lines[n + 1], whole)
      OBVIOUS
    <3>4. x \in [of : MarkLines, whole : BOOLEAN]
      BY <2>3, <3>2, <3>3 DEF Part
    <3> QED BY <2>4, <2>5, <3>1, <3>2, <3>3, <3>4
  <2>9. CASE d.tail = None /\ c.tail # None /\ f = [lines |-> c.lines, tail |-> Part(c.tail.of, FALSE)]
    <3>1. PICK x : x = Part(c.tail.of, FALSE)
      OBVIOUS
    <3>2. c.tail.of \in MarkLines
      BY <2>2, <2>9
    <3>3. x \in [of : MarkLines, whole : BOOLEAN]
      BY <3>1, <3>2 DEF Part
    <3>4. f = [lines |-> c.lines, tail |-> x] /\ f.lines = c.lines
      BY <2>9, <3>1
    <3>5. f \in MarkFiles /\ f # None
      BY <2>2, <3>3, <3>4, MarkFileOf, MarksAssumption
    <3> QED BY <2>1, <2>4, <3>4, <3>5 DEF MarksOf
  <2>10. f \in Survivors(d, c)
    OBVIOUS
  <2>11. Survived(f, d, c)
    BY <2>10, SurvivorCases
  <2> QED BY <2>6, <2>7, <2>8, <2>9, <2>11 DEF Survived
<1> QED BY <1>1, <1>2

LEMMA HostCrashStep ==
  ASSUME ForkInv, HostCrash
  PROVE  ForkInv'
<1>1. /\ copy' = copy /\ published' = published /\ signs' = signs /\ disk' = file'
      /\ mem' = NoMem /\ pc' = "idle"
  BY DEF HostCrash, history
<1>2. StepInv' /\ Stated' = {}
  BY <1>1, RestStep DEF ForkInv, Resting
<1>3. PICK log \in Survivors(disk["log"], file["log"]),
           marks \in Survivors(disk["marks"], file["marks"]) :
        DOMAIN file' = Names /\ file'["log"] = log /\ file'["marks"] = marks
  BY DEF HostCrash, Names
<1>4. Plain(log) /\ Said(log) \subseteq Said(disk["log"]) \cup Said(file["log"])
  BY SurvivorIs DEF ForkInv, FileInv
<1>5. /\ marks \in {None} \cup MarkFiles
      /\ MarksOf(disk["marks"]) \subseteq MarksOf(marks) /\ MarksOf(marks) \subseteq Marks
  BY SurvivingMarks DEF ForkInv
<1>6. SignedInv'
  <2>1. Known' \subseteq Known
    BY <1>1, <1>2, <1>3, <1>4 DEF Known
  <2> QED BY <1>1, <2>1 DEF ForkInv, SignedInv
<1>7. FileInv'
  <2>1. marks # None => Len(marks.lines) \in Nat
    BY <1>5, MarkFileIs
  <2> QED BY <1>1, <1>3, <1>4, <1>5, <2>1 DEF ForkInv, FileInv
<1>8. MarkInv'
  <2>1. Marks' = MarksOf(marks) /\ MarksOf(disk'["marks"]) = MarksOf(marks)
    BY <1>1, <1>3 DEF Marks
  <2> QED BY <1>1, <1>5, <2>1 DEF ForkInv, MarkInv
<1> QED BY <1>2, <1>6, <1>7, <1>8 DEF ForkInv

-----------------------------------------------------------------------------
(* The operator. *)

LEMMA CopyLogStep ==
  ASSUME ForkInv, CopyLog
  PROVE  ForkInv'
<1>1. /\ file' = file /\ disk' = disk /\ copy' = file["log"] /\ published' = published
      /\ signs' = signs /\ mem' = mem /\ job' = job /\ pc' = pc /\ pc \in {"idle", "serving"}
  BY DEF CopyLog
<1>2. Stated' = {}
  BY <1>1 DEF Stated, Signing, Completing
<1>3. Quiet
  BY <1>1, <1>2, SameFiles DEF ForkInv, FileInv
<1>4. StepInv'
  <2>1. CASE pc = "idle"
    BY <1>1, <2>1, RestStep DEF ForkInv, Resting
  <2>2. CASE pc = "serving"
    BY <1>1, <1>3, <2>2, QuietStep, ServeStep DEF ForkInv
  <2> QED BY <1>1, <2>1, <2>2
<1> QED BY <1>3, <1>4, QuietStep DEF ForkInv

LEMMA PutBackStep ==
  ASSUME ForkInv, NEW log, PutBack(log), Plain(log), \A x \in Said(log) : x \in Known \/ x = Damaged
  PROVE  ForkInv'
<1>1. /\ copy' = copy /\ published' = published /\ signs' = signs /\ mem' = mem
      /\ pc' = "idle"
  BY DEF PutBack
<1>2. StepInv' /\ Stated' = {}
  BY <1>1, RestStep DEF ForkInv, Resting
<1>3. /\ DOMAIN file' = Names /\ file'["log"] = log /\ file'["marks"] = file["marks"]
      /\ DOMAIN disk' = Names /\ disk'["log"] = log /\ disk'["marks"] = disk["marks"]
  BY DEF PutBack, Names, ForkInv, FileInv
<1>4. Quiet
  BY <1>1, <1>2, <1>3 DEF Quiet, Known, ForkInv, FileInv
<1> QED BY <1>2, <1>4, QuietStep DEF ForkInv

LEMMA RestoreStep ==
  ASSUME ForkInv, Restore
  PROVE  ForkInv'
<1>1. Plain(copy) /\ \A x \in Said(copy) : x \in Known
  BY DEF ForkInv, FileInv, Known
<1> QED BY <1>1, PutBackStep DEF Restore

LEMMA DamageStep ==
  ASSUME ForkInv, NEW i, Damage(i)
  PROVE  ForkInv'
<1>1. PICK log, l : log = file["log"] /\ l = log.lines
  OBVIOUS
<1>2. Plain(log) /\ Sequenced(l) /\ i \in DOMAIN l /\ log = [lines |-> l, tail |-> log.tail]
  BY <1>1 DEF Damage, ForkInv, FileInv, Plain
<1>3. PICK e : e = [l EXCEPT ![i] = Damaged]
  OBVIOUS
<1>4. Sequenced(e) /\ Range(e) \subseteq Range(l) \cup {Damaged}
  BY <1>2, <1>3, SequencedExcept
<1>5. PICK g : g = [log EXCEPT !.lines[i] = Damaged]
  OBVIOUS
<1>6. g.lines = e /\ g.tail = log.tail /\ g = [lines |-> g.lines, tail |-> g.tail]
  BY <1>1, <1>2, <1>3, <1>5
<1>7. Plain(g) /\ Said(g) \subseteq Said(log) \cup {Damaged}
  BY <1>1, <1>4, <1>6 DEF Plain, Said
<1>8. \A x \in Said(g) : x \in Known \/ x = Damaged
  BY <1>1, <1>7 DEF Known
<1>9. PutBack(g)
  BY <1>1, <1>5 DEF Damage
<1> QED BY <1>7, <1>8, <1>9, PutBackStep

-----------------------------------------------------------------------------
LEMMA InitFork == Init => ForkInv
<1> SUFFICES ASSUME Init PROVE ForkInv
  OBVIOUS
<1>1. /\ DOMAIN file = Names /\ disk = file /\ file["log"] = Empty /\ file["marks"] = None
      /\ copy = Empty /\ published = {} /\ signs = 0 /\ pc = "idle" /\ mem = NoMem
  BY DEF Init, Names
<1>2. FileInv
  BY <1>1, EmptyFiles DEF FileInv
<1>3. Known = {}
  BY <1>1, EmptyFiles DEF Known, Stated, Signing, Completing
<1>4. SignedInv
  BY <1>1, <1>3 DEF SignedInv
<1>5. MarkInv
  BY <1>1 DEF MarkInv, Marks, MarksOf
<1>6. StepInv
  BY <1>1, NoMemInv DEF StepInv, MemInv, Signing, Completing
<1> QED BY <1>2, <1>4, <1>5, <1>6 DEF ForkInv

LEMMA ForkStutter ==
  ASSUME ForkInv, UNCHANGED vars
  PROVE  ForkInv'
<1>1. /\ file' = file /\ disk' = disk /\ pc' = pc /\ job' = job /\ mem' = mem /\ signs' = signs
      /\ published' = published /\ copy' = copy
  BY DEF vars
<1>2. Known' = Known /\ Marks' = Marks
  BY <1>1 DEF Known, Stated, Marks
<1> QED BY <1>1, <1>2 DEF ForkInv, FileInv, SignedInv, MarkInv, StepInv

(* Every step keeps the invariant. *)
LEMMA NextFork == ForkInv /\ [Next]_vars => ForkInv'
<1> SUFFICES ASSUME ForkInv, [Next]_vars PROVE ForkInv'
  OBVIOUS
<1>1. CASE UNCHANGED vars
  BY <1>1, ForkStutter
<1>2. CASE Start \/ KeepRegistration \/ RegistrationKept
  BY <1>2, StartStep, KeepRegistrationStep, RegistrationKeptStep
<1>3. CASE \E s \in Submitters, t \in Trails, sub \in Submissions : Submit(s, t, sub)
  BY <1>3, SubmitStep
<1>4. CASE \E t \in Trails : Retire(t)
  BY <1>4, RetireStep
<1>5. CASE \E s \in Submitters, t \in Trails : Reregister(s, t) \/ RegisterOffline(s, t)
  BY <1>5, ReregisterStep, RegisterOfflineStep
<1>6. CASE AppendStatement \/ StatementDurable \/ AppendMark \/ Publish
  BY <1>6, AppendStatementStep, StatementDurableStep, AppendMarkStep, PublishStep
<1>7. CASE OfflineAppend \/ OfflineDurable
  BY <1>7, OfflineAppendStep, OfflineDurableStep
<1>8. CASE BeginRepair \/ EndLine \/ LineDurable \/ CompleteMark \/ MarkDurable
  BY <1>8, BeginRepairStep, EndLineStep, LineDurableStep, CompleteMarkStep, MarkDurableStep
<1>9. CASE OpenAside \/ Settle \/ KeepTail \/ TailKept \/ Cut \/ CutDurable \/ CheckAgain
  BY <1>9, OpenAsideStep, SettleStep, KeepTailStep, TailKeptStep, CutStep, CutDurableStep,
     CheckAgainStep
<1>10. CASE WriteFails \/ SyncFails \/ Stop \/ HostCrash
  BY <1>10, WriteFailsStep, SyncFailsStep, StopStep, HostCrashStep
<1>11. CASE CopyLog \/ Restore \/ \E i \in 1 .. MaxSigns : Damage(i)
  BY <1>11, CopyLogStep, RestoreStep, DamageStep
<1> QED BY <1>1, <1>2, <1>3, <1>4, <1>5, <1>6, <1>7, <1>8, <1>9, <1>10, <1>11 DEF Next

(* Two statements that were served and are at one index of a trail have    *)
(* one mark, hence one signature, hence are one.                           *)
LEMMA ForkInvImplies == ForkInv => NoFork
<1> SUFFICES ASSUME ForkInv, NEW p \in published, NEW q \in published,
                    p.trail = q.trail, p.index = q.index
             PROVE  p = q
  BY DEF NoFork
<1>1. MarkOf(p) \in Marks /\ MarkOf(q) \in Marks
  BY DiskIsMarked DEF ForkInv, MarkInv
<1>2. PICK m, o : m = MarkOf(p) /\ o = MarkOf(q)
  OBVIOUS
<1>3. /\ m.trail = p.trail /\ m.index = p.index /\ m.sig = p.sig
      /\ o.trail = q.trail /\ o.index = q.index /\ o.sig = q.sig
  BY <1>2 DEF MarkOf
<1>4. p.sig = q.sig
  BY <1>1, <1>2, <1>3 DEF ForkInv, MarkInv
<1>5. p \in Known /\ q \in Known
  BY DEF Known
<1> QED BY <1>4, <1>5 DEF ForkInv, SignedInv

(* The invariant behind it: what is known is told apart by its signature,  *)
(* the marks of what was served are durable and one for an index, and an   *)
(* index is signed for or completed only where no mark has it              *)
(* (signAndKeep, openWitnessLog, repairWitnessLog).                        *)
THEOREM WitnessIsSafe == Spec => []ForkInv
<1>1. Init => ForkInv
  BY InitFork
<1>2. ForkInv /\ [Next]_vars => ForkInv'
  BY NextFork
<1> QED BY <1>1, <1>2, PTL DEF Spec

(* The witness never shows two histories: no two statements a reader may   *)
(* hold are at one index of a trail, for every number of trails,           *)
(* submitters, statements, failures, crashes and copies put back.          *)
THEOREM NoForkEver == Spec => []NoFork
BY WitnessIsSafe, ForkInvImplies, PTL
=============================================================================
