-------------------------- MODULE MultirouteProofs --------------------------
(***************************************************************************)
(* Theorems about Multiroute, for conversations of any length.             *)
(*                                                                         *)
(* First what sequences, runs of positions and queues of events do, by     *)
(* taking least counterexamples; then the inductive invariant Inv, the     *)
(* kinds of steps (Kind), one lemma ...Next per conjunct of Inv, and the   *)
(* theorems at the end.  FeedInv, and NoFalsePoison with it, stand alone.  *)
(***************************************************************************)
EXTENDS Multiroute, SequenceTheorems, WellFoundedInduction, TLAPS

-----------------------------------------------------------------------------
(* Induction, and what FlattenSeq computes.                                *)

Less == OpToRel(<, Nat)

\* The order of the naturals as a relation.
LEMMA LessNat == \A x, y \in Nat : <<x, y>> \in Less <=> x < y
BY DEF Less, OpToRel

\* Every set of numbers has a least one.
LEMMA LeastNat ==
  ASSUME NEW T \in SUBSET Nat, T # {}
  PROVE  \E x \in T : \A y \in T : x <= y
<1>1. IsWellFoundedOn(Less, Nat)
  BY NatLessThanWellFounded DEF Less
<1>2. PICK x \in T : \A y \in T : ~ (<<y, x>> \in Less)
  BY <1>1, WFMin
<1>3. ASSUME NEW y \in T PROVE x <= y
  <2>1. x \in Nat /\ y \in Nat
    OBVIOUS
  <2>2. ~(y < x)
    BY <2>1, <1>2, LessNat
  <2> QED
    BY <2>1, <2>2
<1> QED
  BY <1>3

\* Induction, for a set.
LEMMA Inductive ==
  ASSUME NEW T \in SUBSET Nat, 0 \in T, \A n \in T : n + 1 \in T
  PROVE  T = Nat
<1> SUFFICES ASSUME Nat \ T # {} PROVE FALSE
  OBVIOUS
<1>1. PICK x \in Nat \ T : \A y \in Nat \ T : x <= y
  BY LeastNat
<1>2. x # 0 /\ x - 1 \in Nat
  BY <1>1
<1>3. x - 1 \in T
  BY <1>1, <1>2
<1>4. x - 1 + 1 = x
  BY <1>1
<1> QED
  BY <1>3, <1>4

\* f[i] is the concatenation of the first i sequences of s.
FlatStep(s, f, n) ==
  \A i \in 1..n : f[i] = IF i = 1 THEN s[i] ELSE f[i - 1] \o s[i]

\* Such a function exists.
LEMMA FlatExists ==
  ASSUME NEW S, NEW s \in Seq(Seq(S)), NEW n \in Nat, n <= Len(s)
  PROVE  \E f \in [1..n -> Seq(S)] : FlatStep(s, f, n)
<1> DEFINE T == {m \in Nat : m <= Len(s) =>
                    \E f \in [1..m -> Seq(S)] : FlatStep(s, f, m)}
<1>0. Len(s) \in Nat
  OBVIOUS
<1>1. 0 \in T
  <2>1. [i \in 1..0 |-> <<>>] \in [1..0 -> Seq(S)]
    OBVIOUS
  <2>2. FlatStep(s, [i \in 1..0 |-> <<>>], 0)
    BY DEF FlatStep
  <2> QED
    BY <2>1, <2>2
<1>2. ASSUME NEW m \in T PROVE m + 1 \in T
  <2> SUFFICES ASSUME m + 1 <= Len(s)
               PROVE  \E f \in [1..(m + 1) -> Seq(S)] : FlatStep(s, f, m + 1)
    OBVIOUS
  <2>1. m \in Nat /\ m <= Len(s)
    BY <1>0
  <2>2. PICK g \in [1..m -> Seq(S)] : FlatStep(s, g, m)
    BY <2>1
  <2> DEFINE x == IF m = 0 THEN s[1] ELSE g[m] \o s[m + 1]
             f == [i \in 1..(m + 1) |-> IF i = m + 1 THEN x ELSE g[i]]
  <2>3. s[m + 1] \in Seq(S)
    BY <2>1
  <2>4. x \in Seq(S)
    <3>1. CASE m = 0
      BY <2>3, <3>1
    <3>2. CASE m # 0
      <4>1. g[m] \in Seq(S)
        BY <2>1, <3>2
      <4> QED
        BY <2>3, <3>2, <4>1, ConcatProperties
    <3> QED
      BY <3>1, <3>2
  <2> HIDE DEF x
  <2>5. ASSUME NEW i \in 1..(m + 1), i # m + 1 PROVE i \in 1..m
    BY <2>1, <2>5
  <2>6. f \in [1..(m + 1) -> Seq(S)]
    BY <2>4, <2>5
  <2>7. ASSUME NEW i \in 1..(m + 1)
        PROVE  f[i] = IF i = 1 THEN s[i] ELSE f[i - 1] \o s[i]
    <3>1. CASE i = m + 1
      <4>1. CASE m = 0
        BY <3>1, <4>1, <2>1 DEF x
      <4>2. CASE m # 0
        <5>1. i # 1 /\ i - 1 = m /\ m \in 1..(m + 1) /\ m # m + 1
          BY <3>1, <4>2, <2>1
        <5>2. f[m] = g[m] /\ f[i] = x
          BY <5>1, <3>1
        <5> QED
          BY <5>1, <5>2, <3>1, <4>2 DEF x
      <4> QED
        BY <4>1, <4>2
    <3>2. CASE i # m + 1
      <4>1. i \in 1..m /\ f[i] = g[i]
        BY <2>5, <3>2
      <4>2. g[i] = IF i = 1 THEN s[i] ELSE g[i - 1] \o s[i]
        BY <4>1, <2>2 DEF FlatStep
      <4>3. i # 1 => f[i - 1] = g[i - 1]
        BY <4>1, <2>1
      <4> QED
        BY <4>1, <4>2, <4>3
    <3> QED
      BY <3>1, <3>2
  <2>8. FlatStep(s, f, m + 1)
    BY <2>7 DEF FlatStep
  <2> QED
    BY <2>6, <2>8
<1> HIDE DEF T
<1>3. T = Nat
  <2>1. T \in SUBSET Nat
    BY DEF T
  <2> QED
    BY <1>1, <1>2, <2>1, Inductive
<1> QED
  BY <1>3 DEF T

\* One step of it.
LEMMA FlatAt ==
  ASSUME NEW s, NEW f, NEW n \in Nat, FlatStep(s, f, n), NEW i \in 1..n
  PROVE  /\ i = 1 => f[i] = s[i]
         /\ i # 1 => f[i] = f[i - 1] \o s[i]
BY DEF FlatStep

\* Two functions that follow the same recursion agree.
LEMMA FlatUnique ==
  ASSUME NEW s, NEW f, NEW g, NEW n \in Nat,
         FlatStep(s, f, n), FlatStep(s, g, n)
  PROVE  \A i \in 1..n : f[i] = g[i]
<1> DEFINE T == {k \in Nat : k \in 1..n => f[k] = g[k]}
<1> HIDE DEF T
<1>1. 0 \in T
  BY DEF T
<1>2. ASSUME NEW k \in T PROVE k + 1 \in T
  <2>1. k \in Nat /\ (k \in 1..n => f[k] = g[k])
    BY DEF T
  <2>2. ASSUME k + 1 \in 1..n PROVE f[k + 1] = g[k + 1]
    <3>2. CASE k = 0
      <4>1. k + 1 = 1
        BY <3>2
      <4>2. f[k + 1] = s[k + 1]
        BY <4>1, <2>2, FlatAt
      <4>3. g[k + 1] = s[k + 1]
        BY <4>1, <2>2, FlatAt
      <4> QED
        BY <4>2, <4>3
    <3>3. CASE k # 0
      <4>1. k + 1 # 1 /\ k \in 1..n /\ (k + 1) - 1 = k
        BY <3>3, <2>1, <2>2
      <4>2. f[k + 1] = f[(k + 1) - 1] \o s[k + 1]
        BY <4>1, <2>2, FlatAt
      <4>3. g[k + 1] = g[(k + 1) - 1] \o s[k + 1]
        BY <4>1, <2>2, FlatAt
      <4> QED
        BY <2>1, <4>1, <4>2, <4>3
    <3> QED
      BY <3>2, <3>3
  <2> QED
    BY <2>1, <2>2 DEF T
<1>3. T = Nat
  <2>1. T \in SUBSET Nat
    BY DEF T
  <2> QED
    BY <1>1, <1>2, <2>1, Inductive
<1> QED
  BY <1>3 DEF T

\* FlattenSeq is the last value of such a function.
LEMMA FlatFunction ==
  ASSUME NEW S, NEW s \in Seq(Seq(S)), Len(s) # 0
  PROVE  \E f :
           FlatStep(s, f, Len(s)) /\ FlattenSeq(s) = f[Len(s)]
<1> DEFINE Eqn(f) == f = [i \in 1..Len(s) |->
                            IF i = 1 THEN s[i] ELSE f[i - 1] \o s[i]]
           g == CHOOSE f : Eqn(f)
<1>1. Len(s) \in Nat /\ Len(s) # 0 /\ Len(s) <= Len(s) /\ Len(s) \in 1..Len(s)
  OBVIOUS
<1>2. PICK h : h \in [1..Len(s) -> Seq(S)] /\ FlatStep(s, h, Len(s))
  BY <1>1, FlatExists
<1>3. Eqn(h)
  BY <1>2 DEF FlatStep
<1>4. FlattenSeq(s) = g[Len(s)]
  BY <1>1 DEF FlattenSeq
<1>5. Eqn(g)
  BY <1>3
<1>6. FlatStep(s, g, Len(s))
  BY <1>5 DEF FlatStep
<1> HIDE DEF g
<1>7. \A i \in 1..Len(s) : h[i] = g[i]
  BY <1>1, <1>2, <1>6, FlatUnique
<1> QED
  BY <1>1, <1>2, <1>4, <1>7

\* FlattenSeq follows the last sequence.
LEMMA FlattenAppend ==
  ASSUME NEW S, NEW s \in Seq(Seq(S)), NEW x \in Seq(S)
  PROVE  FlattenSeq(Append(s, x)) = FlattenSeq(s) \o x
<1> DEFINE t == Append(s, x)
<1>1. t \in Seq(Seq(S)) /\ Len(t) = Len(s) + 1 /\ Len(s) \in Nat
      /\ t[Len(s) + 1] = x /\ \A i \in 1..Len(s) : t[i] = s[i]
  BY AppendProperties
<1> HIDE DEF t
<1>2. PICK h :
        FlatStep(t, h, Len(t)) /\ FlattenSeq(t) = h[Len(t)]
  BY <1>1, FlatFunction
<1>5. Len(t) \in Nat /\ Len(t) \in 1..Len(t) /\ Len(s) <= Len(t)
  BY <1>1
<1>3. CASE Len(s) = 0
  <2>1. FlattenSeq(s) = <<>>
    BY <1>3 DEF FlattenSeq
  <2>2. h[1] = t[1] /\ Len(t) = 1 /\ t[1] = x
    BY <1>1, <1>2, <1>3 DEF FlatStep
  <2>3. <<>> \o x = x
    OBVIOUS
  <2> QED
    BY <1>2, <2>1, <2>2, <2>3 DEF t
<1>4. CASE Len(s) # 0
  <2>1. PICK g :
          FlatStep(s, g, Len(s)) /\ FlattenSeq(s) = g[Len(s)]
    BY <1>4, FlatFunction
  <2>2. FlatStep(s, h, Len(s))
    BY <1>1, <1>2, <1>5 DEF FlatStep
  <2>3. \A i \in 1..Len(s) : g[i] = h[i]
    BY <1>1, <2>1, <2>2, FlatUnique
  <2>4. Len(t) # 1 /\ Len(t) - 1 = Len(s) /\ Len(s) \in 1..Len(s)
    BY <1>1, <1>4
  <2>5. h[Len(t)] = h[Len(t) - 1] \o t[Len(t)]
    BY <1>2, <1>5, <2>4, FlatAt
  <2> QED
    BY <1>1, <1>2, <2>1, <2>3, <2>4, <2>5 DEF t
<1> QED
  BY <1>3, <1>4

\* FlattenSeq of a function that grows by one.
LEMMA FlattenStep ==
  ASSUME NEW S, NEW n \in Nat, NEW f, \A i \in 1..(n + 1) : f[i] \in Seq(S)
  PROVE  /\ FlattenSeq([i \in 1..(n + 1) |-> f[i]]) =
              FlattenSeq([i \in 1..n |-> f[i]]) \o f[n + 1]
         /\ FlattenSeq([i \in 1..0 |-> f[i]]) = <<>>
<1> DEFINE s == [i \in 1..n |-> f[i]]
           t == [i \in 1..(n + 1) |-> f[i]]
           x == f[n + 1]
<1>1. \A i \in 1..n : f[i] \in Seq(S)
  OBVIOUS
<1>2. s \in Seq(Seq(S)) /\ Len(s) = n /\ \A i \in 1..n : s[i] = f[i]
  BY <1>1
<1>3. t \in Seq(Seq(S)) /\ Len(t) = n + 1 /\ \A i \in 1..(n + 1) : t[i] = f[i]
  OBVIOUS
<1>4. x \in Seq(S)
  OBVIOUS
<1> HIDE DEF s, t
<1>5. Append(s, x) = t
  <2> DEFINE u == Append(s, x)
  <2>1. /\ u \in Seq(Seq(S)) /\ Len(u) = n + 1 /\ u[n + 1] = x
        /\ \A i \in 1..n : u[i] = s[i]
    BY <1>2, <1>4, AppendProperties
  <2> HIDE DEF u
  <2>2. ASSUME NEW i \in 1..(n + 1) PROVE u[i] = t[i]
    <3>1. CASE i = n + 1
      BY <1>3, <2>1, <3>1
    <3>2. CASE i # n + 1
      <4>1. i \in 1..n
        BY <3>2
      <4> QED
        BY <1>2, <1>3, <2>1, <4>1
    <3> QED
      BY <3>1, <3>2
  <2>3. u = t
    BY <1>3, <2>1, <2>2, SeqEqual
  <2> QED
    BY <2>3 DEF u
<1>6. FlattenSeq(t) = FlattenSeq(s) \o x
  BY <1>2, <1>4, <1>5, FlattenAppend
<1>7. FlattenSeq([i \in 1..0 |-> f[i]]) = <<>>
  <2>1. Len([i \in 1..0 |-> f[i]]) = 0 /\ [i \in 1..0 |-> f[i]] = <<>>
    OBVIOUS
  <2> QED
    BY <2>1 DEF FlattenSeq
<1> QED
  BY <1>6, <1>7 DEF s, t

-----------------------------------------------------------------------------
(* The client's stream on its way to the parser.                           *)

\* The tokens from a, a not included, to b.
Run(a, b) == [i \in 1..(b - a) |-> a + i]

\* A run is a sequence, and what is left of one is a run.
LEMMA RunFacts ==
  ASSUME NEW a \in Nat, NEW b \in Nat, a <= b
  PROVE  /\ Run(a, b) \in Seq((a + 1)..b) /\ Run(a, b) \in Seq(Nat)
         /\ Len(Run(a, b)) = b - a
         /\ \A i \in 1..(b - a) : Run(a, b)[i] = a + i
<1>1. b - a \in Nat
  OBVIOUS
<1> QED
  BY <1>1 DEF Run

\* Taking k of a run.
LEMMA RunSplit ==
  ASSUME NEW a \in Nat, NEW b \in Nat, a <= b, NEW k \in 0..(b - a)
  PROVE  /\ SubSeq(Run(a, b), 1, k) = Run(a, a + k)
         /\ SubSeq(Run(a, b), k + 1, Len(Run(a, b))) = Run(a + k, b)
<1> DEFINE r == Run(a, b)
           s == SubSeq(r, 1, k)
           t == SubSeq(r, k + 1, b - a)
<1>1. r \in Seq(Nat) /\ Len(r) = b - a /\ \A i \in 1..(b - a) : r[i] = a + i
  BY RunFacts
<1>2. k \in Nat /\ a + k \in Nat /\ a <= a + k /\ a + k <= b /\ (a + k) - a = k
      /\ b - (a + k) = b - a - k /\ k + 1 \in Int /\ b - a \in Int /\ 1 \in Int
  OBVIOUS
<1> HIDE DEF r
<1>3. \A i \in 1..k : r[i] \in Nat
  BY <1>1
<1>4. \A i \in (k + 1)..(b - a) : r[i] \in Nat
  BY <1>1
<1>5. s \in Seq(Nat) /\ Len(s) = k /\ \A i \in 1..k : s[i] = r[i]
  <2>1. /\ s \in Seq(Nat) /\ Len(s) = (IF 1 <= k THEN k - 1 + 1 ELSE 0)
        /\ \A i \in 1..(k - 1 + 1) : s[i] = r[1 + i - 1]
    BY <1>2, <1>3, SubSeqProperties
  <2> QED
    BY <1>2, <2>1
<1>6. t \in Seq(Nat) /\ Len(t) = b - a - k /\ \A i \in 1..(b - a - k) : t[i] = r[k + i]
  <2>1. /\ t \in Seq(Nat)
        /\ Len(t) = (IF k + 1 <= b - a THEN (b - a) - (k + 1) + 1 ELSE 0)
        /\ \A i \in 1..((b - a) - (k + 1) + 1) : t[i] = r[(k + 1) + i - 1]
    BY <1>2, <1>4, SubSeqProperties
  <2>2. (b - a) - (k + 1) + 1 = b - a - k
    BY <1>2
  <2>3. \A i \in 1..(b - a - k) : (k + 1) + i - 1 = k + i
    BY <1>2
  <2> QED
    BY <1>2, <2>1, <2>2, <2>3
<1> HIDE DEF s, t
<1>7. s = Run(a, a + k)
  <2>1. /\ Run(a, a + k) \in Seq(Nat) /\ Len(Run(a, a + k)) = k
        /\ \A i \in 1..k : Run(a, a + k)[i] = a + i
    BY <1>2, RunFacts
  <2>2. ASSUME NEW i \in 1..k PROVE s[i] = Run(a, a + k)[i]
    <3>1. i \in 1..(b - a)
      BY <1>2
    <3> QED
      BY <1>1, <1>2, <1>5, <2>1, <3>1
  <2> QED
    BY <1>5, <2>1, <2>2, SeqEqual
<1>8. t = Run(a + k, b)
  <2>1. /\ Run(a + k, b) \in Seq(Nat) /\ Len(Run(a + k, b)) = b - a - k
        /\ \A i \in 1..(b - a - k) : Run(a + k, b)[i] = (a + k) + i
    BY <1>2, RunFacts
  <2>2. ASSUME NEW i \in 1..(b - a - k) PROVE t[i] = Run(a + k, b)[i]
    <3>1. k + i \in 1..(b - a)
      BY <1>2
    <3> QED
      BY <1>1, <1>2, <1>6, <2>1, <3>1
  <2> QED
    BY <1>6, <2>1, <2>2, SeqEqual
<1> QED
  BY <1>1, <1>7, <1>8 DEF s, t, r

\* What the parser makes of the next k tokens after a.
Framing(a, k)  == FlattenSeq([i \in 1..k |-> RequestEvents(a + i)])
Leftover(a, k) == FlattenSeq([i \in 1..k |-> RawUp(a + i)])

\* push_bytes with the run from fed to m offered: k tokens of it are accepted,
\* no gap is seen, and what is left is again a run.
Accepts(k, m) ==
  /\ k \in 0..(m - fed)
  /\ tunnelled \/ poison # "none" => k = 0
  /\ fed' = fed + k
  /\ client_pending' = Run(fed + k, m)
  /\ events' = events \o Framing(fed, k)
  /\ residue' = [residue EXCEPT !["up"] = @ \o Leftover(fed, k)]
  /\ poison' = poison \/ (poison' = "client" /\ poison = "none"
                            /\ \E p \in (fed + 1)..(fed + k) : Script[p].kind = "bad")
  /\ tunnelled' = (tunnelled \/ \E p \in (fed + 1)..(fed + k) : Script[p].kind = "h2")

\* push_bytes never reports a gap when it is offered a run from where it stands.
LEMMA PushRun ==
  ASSUME fed \in Nat, NEW m \in Nat, fed <= m, NEW least \in {0, 1},
         PushClient(Run(fed, m), least)
  PROVE  \E k \in 0..(m - fed) : Accepts(k, m)
<1> DEFINE off == Run(fed, m)
<1>1. off \in Seq(Nat) /\ Len(off) = m - fed /\ m - fed \in Nat
  BY RunFacts
<1>2. PICK k \in (IF tunnelled \/ poison # "none" \/ off = <<>> THEN {0}
                  ELSE least..Len(off)) :
    LET s   == SubSeq(off, 1, k)
        gap == k > 0 /\ s[1] # fed + 1
        bad == \E i \in 1..k : Script[s[i]].kind = "bad"
    IN  /\ client_pending' = SubSeq(off, k + 1, Len(off))
        /\ fed' = IF k = 0 THEN fed ELSE s[k]
        /\ events' = IF gap THEN events
                     ELSE events \o FlattenSeq([i \in 1..k |-> RequestEvents(s[i])])
        /\ residue' = [residue EXCEPT !["up"] =
                         @ \o FlattenSeq([i \in 1..k |-> RawUp(s[i])])]
        /\ poison' = IF poison = "none" /\ (gap \/ bad) THEN "client" ELSE poison
        /\ tunnelled' = (tunnelled \/ \E i \in 1..k : Script[s[i]].kind = "h2")
  BY Zenon DEF PushClient
<1>3. k \in 0..(m - fed) /\ (tunnelled \/ poison # "none" => k = 0)
  BY <1>1, <1>2, SMTT(20)
<1>4. k \in Nat /\ fed + k \in Nat /\ (fed + k) - fed = k
  BY <1>3
<1> DEFINE s == SubSeq(off, 1, k)
<1>5. s = Run(fed, fed + k) /\ SubSeq(off, k + 1, Len(off)) = Run(fed + k, m)
  BY <1>3, RunSplit
<1>6. \A i \in 1..k : s[i] = fed + i
  <2>1. fed <= fed + k
    BY <1>4
  <2>2. \A i \in 1..((fed + k) - fed) : Run(fed, fed + k)[i] = fed + i
    BY <1>4, <2>1, RunFacts
  <2> QED
    BY <1>4, <1>5, <2>2
<1> HIDE DEF s
<1>7. ~(k > 0 /\ s[1] # fed + 1)
  BY <1>4, <1>6
<1>8. fed' = fed + k
  BY <1>2, <1>4, <1>6 DEF s
<1>9. [i \in 1..k |-> RequestEvents(s[i])] = [i \in 1..k |-> RequestEvents(fed + i)]
  BY <1>6
<1>10. [i \in 1..k |-> RawUp(s[i])] = [i \in 1..k |-> RawUp(fed + i)]
  BY <1>6
<1>11. events' = events \o Framing(fed, k)
  BY <1>2, <1>7, <1>9 DEF s, Framing
<1>12. residue' = [residue EXCEPT !["up"] = @ \o Leftover(fed, k)]
  BY <1>2, <1>10 DEF s, Leftover
<1>13. ASSUME NEW i \in 1..k PROVE s[i] \in (fed + 1)..(fed + k)
  BY <1>4, <1>6
<1>14. ASSUME NEW p \in (fed + 1)..(fed + k) PROVE \E i \in 1..k : s[i] = p
  <2>1. p - fed \in 1..k /\ fed + (p - fed) = p
    BY <1>4
  <2> QED
    BY <1>6, <2>1
<1>15. poison' = IF poison = "none" /\ \E i \in 1..k : Script[s[i]].kind = "bad"
                THEN "client" ELSE poison
  BY <1>2, <1>7 DEF s
<1>16. poison' = poison \/ (poison' = "client" /\ poison = "none"
                            /\ \E p \in (fed + 1)..(fed + k) : Script[p].kind = "bad")
  BY <1>13, <1>15
<1>17. tunnelled' = (tunnelled \/ \E i \in 1..k : Script[s[i]].kind = "h2")
  BY <1>2 DEF s
<1>18. (\E i \in 1..k : Script[s[i]].kind = "h2")
         <=> \E p \in (fed + 1)..(fed + k) : Script[p].kind = "h2"
  BY <1>13, <1>14
<1>19. tunnelled' = (tunnelled \/ \E p \in (fed + 1)..(fed + k) : Script[p].kind = "h2")
  BY <1>17, <1>18
<1>20. client_pending' = Run(fed + k, m)
  BY <1>2, <1>5
<1> QED
  BY <1>3, <1>8, <1>11, <1>12, <1>16, <1>19, <1>20 DEF Accepts

-----------------------------------------------------------------------------
(* NoFalsePoison: the parser is fed without a gap.                         *)

\* The client's bytes are no longer the parser's: the connection is a tunnel,
\* or will not be kept.
Over == \/ pc \in {"splice", "finish", "done"}
        \/ pc = "teardown" /\ ~response_done

\* The client's stream reaches the parser without a gap.
FeedInv ==
  /\ load \in Loads
  /\ fed \in Nat /\ inp \in Nat /\ fed <= inp /\ inp <= Len(Script)
  /\ ~Over => client_pending = Run(fed, inp)
  /\ pc \in Exchange => ~response_done
  /\ NoFalsePoison

\* The client's stream is a sequence of tokens.
LEMMA ScriptFacts ==
  ASSUME load \in Loads
  PROVE  /\ Script \in Seq(Token) /\ Len(Script) \in Nat
         /\ DOMAIN Script = 1..Len(Script)
         /\ load.resp \in Seq(Response) /\ Len(load.resp) \in Nat
         /\ Stream(Script, load.resp)
         /\ \A r \in 1..Len(load.resp) : Framed(load.resp[r])
<1>1. Conversation(load)
  BY MultirouteAssumption
<1>2. Script \in Seq(Token) /\ load.resp \in Seq(Response)
  BY <1>1 DEF Conversation, Script
<1> QED
  BY <1>1, <1>2, LenProperties DEF Conversation, Script

\* Nothing has been read when the handler starts.
LEMMA FeedInit == Init => FeedInv
<1> SUFFICES ASSUME Init PROVE FeedInv
  OBVIOUS
<1>1. load \in Loads /\ Len(Script) \in Nat
  BY ScriptFacts DEF Init
<1>2. Run(0, 0) = <<>>
  BY DEF Run
<1> QED
  BY <1>1, <1>2 DEF Init, FeedInv, NoFalsePoison, Over, Exchange

\* A step that leaves the parser's client side alone.
LEMMA FeedFrame ==
  ASSUME FeedInv, UNCHANGED <<load, inp, client_eof, client_pending, fed, poison>>,
         Over => Over', pc' \in Exchange => ~response_done'
  PROVE  FeedInv'
BY DEF FeedInv, NoFalsePoison, Script

\* A step that fills the server's fault in leaves the client unaccused.
LEMMA FeedServer ==
  ASSUME FeedInv, UNCHANGED <<load, inp, client_eof, client_pending, fed>>,
         poison' \in {poison, "server"},
         Over => Over', pc' \in Exchange => ~response_done'
  PROVE  FeedInv'
BY DEF FeedInv, NoFalsePoison, Script

\* A push of the client's bytes.
LEMMA FeedPush ==
  ASSUME FeedInv, NEW m \in Nat, inp <= m, m <= Len(Script), inp' = m,
         NEW k, Accepts(k, m), UNCHANGED <<load, client_eof>>,
         pc' \in Exchange => ~response_done'
  PROVE  FeedInv'
<1>1. fed \in Nat /\ fed <= inp /\ inp \in Nat /\ k \in 0..(m - fed) /\ fed' = fed + k
      /\ client_pending' = Run(fed + k, m) /\ load \in Loads
  BY DEF FeedInv, Accepts
<1>2. fed' \in Nat /\ fed' <= m
  BY <1>1
<1>3. NoFalsePoison'
  <2> SUFFICES ASSUME poison' = "client", ~client_eof'
               PROVE  \E p \in 1..m : Script[p].kind = "bad"
    BY DEF NoFalsePoison, Script
  <2>1. CASE poison' = poison
    <3>1. \E p \in 1..inp : Script[p].kind = "bad"
      BY <2>1 DEF FeedInv, NoFalsePoison
    <3> QED
      BY <1>1, <3>1
  <2>2. CASE \E p \in (fed + 1)..(fed + k) : Script[p].kind = "bad"
    BY <1>1, <2>2
  <2> QED
    BY <2>1, <2>2 DEF Accepts
<1> QED
  BY <1>1, <1>2, <1>3 DEF FeedInv, Script

\* What is read next continues the run, once nothing is pending.
LEMMA ReadRun ==
  ASSUME FeedInv, ~Over, client_pending = <<>>, NEW n \in 1..(Len(Script) - inp)
  PROVE  /\ fed = inp /\ Tokens(n) = Run(fed, inp + n)
         /\ inp + n \in Nat /\ inp <= inp + n /\ inp + n <= Len(Script)
<1>1. fed \in Nat /\ inp \in Nat /\ fed <= inp /\ Len(Script) \in Nat
      /\ client_pending = Run(fed, inp)
  BY ScriptFacts DEF FeedInv
<1>2. Len(Run(fed, inp)) = inp - fed
  BY <1>1, RunFacts
<1>3. Len(<<>>) = 0
  OBVIOUS
<1>4. fed = inp
  BY <1>1, <1>2, <1>3
<1>5. (inp + n) - fed = n
  BY <1>1, <1>4
<1> QED
  BY <1>1, <1>4, <1>5 DEF Tokens, Run

\* The three places that push what is pending, or what was just read.
LEMMA OfferRun ==
  ASSUME FeedInv, ~Over, NEW least \in {0, 1}, PushClient(client_pending, least),
         UNCHANGED inp
  PROVE  \E k \in 0..(inp - fed) : Accepts(k, inp)
BY PushRun DEF FeedInv

\* What was just read, offered at once.
LEMMA PushTokens ==
  ASSUME FeedInv, ~Over, client_pending = <<>>, NEW n \in 1..(Len(Script) - inp),
         inp' = inp + n, NEW least \in {0, 1}, PushClient(Tokens(n), least)
  PROVE  /\ inp' \in Nat /\ inp <= inp' /\ inp' <= Len(Script) /\ fed = inp
         /\ \E k \in 0..(inp' - fed) : Accepts(k, inp')
<1>1. /\ fed = inp /\ Tokens(n) = Run(fed, inp + n)
      /\ inp + n \in Nat /\ inp <= inp + n /\ inp + n <= Len(Script)
  BY ReadRun
<1> DEFINE m == inp + n
<1>2. fed \in Nat /\ fed <= m /\ m \in Nat /\ PushClient(Run(fed, m), least)
  BY <1>1 DEF FeedInv
<1> HIDE DEF m
<1>3. \E k \in 0..(m - fed) : Accepts(k, m)
  BY <1>2, PushRun
<1> QED
  BY <1>1, <1>3 DEF m

\* Every step of the handler keeps the client's stream in one piece.
LEMMA FeedNext == FeedInv /\ [Next]_vars => FeedInv'
<1> SUFFICES ASSUME FeedInv, [Next]_vars PROVE FeedInv'
  OBVIOUS
<1> USE DEF ctl, cli, par, exch, bus, hist, Goto, Over, Exchange
<1>1. CASE NextPop
  BY <1>1, FeedFrame DEF NextPop
<1>2. CASE NextEof
  BY <1>2, FeedFrame DEF NextEof
<1>3. CASE NextTunnelled
  BY <1>3, FeedFrame DEF NextTunnelled, Refuse, Waiting
<1>4. CASE NextOffer
  <2>1. PICK k \in 0..(inp - fed) : Accepts(k, inp)
    BY <1>4, OfferRun DEF NextOffer, Waiting
  <2>2. pc' \in {"next", "finish"}
    BY <1>4 DEF NextOffer, Waiting, NextPushed, Refuse
  <2> QED
    BY <1>4, <2>1, <2>2, FeedPush DEF NextOffer, NextPushed, Refuse, FeedInv
<1>5. CASE NextRead
  <2>1. PICK n \in 1..(Len(Script) - inp) : inp' = inp + n /\ PushClient(Tokens(n), 1)
    BY <1>5 DEF NextRead
  <2>2. PICK k \in 0..(inp' - fed) : Accepts(k, inp')
    BY <1>5, <2>1, PushTokens DEF NextRead, Waiting
  <2>3. inp' \in Nat /\ inp <= inp' /\ inp' <= Len(Script)
    BY <1>5, <2>1, PushTokens DEF NextRead, Waiting
  <2>4. pc' \in {"next", "finish"} /\ UNCHANGED <<load, client_eof>>
    BY <1>5 DEF NextRead, Waiting, NextPushed, Refuse
  <2> QED
    BY <2>2, <2>3, <2>4, FeedPush
<1>6. CASE NextReadEof
  BY <1>6 DEF NextReadEof, FinClient, FeedInv, NoFalsePoison, Waiting, Script
<1>7. CASE NextTimeout
  BY <1>7, FeedFrame DEF NextTimeout, Refuse, Waiting
<1>8. CASE NextDrain
  BY <1>8, FeedFrame DEF NextDrain, Waiting
<1>9. CASE RouteBad
  BY <1>9, FeedFrame DEF RouteBad, Refuse
<1>10. CASE RouteServed
  BY <1>10, FeedFrame DEF RouteServed
<1>11. CASE RouteUnavailable
  BY <1>11, FeedFrame DEF RouteUnavailable
<1>12. CASE Consume
  <2>1. CASE client_pending = <<>>
    BY <1>12, <2>1, FeedFrame DEF Consume
  <2>2. CASE client_pending # <<>>
    <3>1. PICK k \in 0..(inp - fed) : Accepts(k, inp)
      BY <1>12, <2>2, OfferRun DEF Consume
    <3>2. pc' \in {"next", "discard"} /\ UNCHANGED <<load, inp, client_eof>>
      BY <1>12, <2>2 DEF Consume, ConsumePushed
    <3> QED
      BY <3>1, <3>2, FeedPush DEF FeedInv
  <2> QED
    BY <2>1, <2>2
<1>13. CASE DiscardPop
  BY <1>13, FeedFrame DEF DiscardPop
<1>14. CASE DiscardAgain
  BY <1>14, FeedFrame DEF DiscardAgain
<1>15. CASE DiscardEnd
  BY <1>15, FeedFrame DEF DiscardEnd, Waiting
<1>16. CASE DiscardRead
  <2>1. CASE FinClient /\ Goto("consume")
             /\ UNCHANGED <<inp, client_pending, fed, events, tunnelled, residue>>
    BY <1>16, <2>1 DEF DiscardRead, FinClient, FeedInv, NoFalsePoison, Waiting, Script
  <2>2. CASE /\ \E n \in 1..(Len(Script) - inp) :
                  inp' = inp + n /\ PushClient(Tokens(n), 1)
             /\ IF poison' # "none" \/ tunnelled' THEN Goto("next") ELSE Goto("consume")
             /\ UNCHANGED client_eof
    <3>1. PICK n \in 1..(Len(Script) - inp) : inp' = inp + n /\ PushClient(Tokens(n), 1)
      BY <2>2
    <3>2. PICK k \in 0..(inp' - fed) : Accepts(k, inp')
      BY <1>16, <3>1, PushTokens DEF DiscardRead, Waiting
    <3>3. inp' \in Nat /\ inp <= inp' /\ inp' <= Len(Script)
      BY <1>16, <3>1, PushTokens DEF DiscardRead, Waiting
    <3>4. pc' \in {"next", "consume"} /\ UNCHANGED <<load, client_eof>>
      BY <1>16, <2>2 DEF DiscardRead
    <3> QED
      BY <3>2, <3>3, <3>4, FeedPush
  <2> QED
    BY <1>16, <2>1, <2>2 DEF DiscardRead
<1>17. CASE SetupOk
  BY <1>17, FeedFrame DEF SetupOk
<1>18. CASE SetupFail
  BY <1>18, FeedFrame DEF SetupFail, Fail
<1>19. CASE OfferClient
  <2>1. PICK k \in 0..(inp - fed) : Accepts(k, inp)
    BY <1>19, OfferRun DEF OfferClient
  <2>2. pc' = "reoffer" /\ pc = "offer" /\ UNCHANGED <<load, inp, client_eof, response_done>>
    BY <1>19 DEF OfferClient
  <2> QED
    BY <2>1, <2>2, FeedPush DEF FeedInv
<1>20. CASE OfferResp
  BY <1>20, FeedServer DEF OfferResp, PushResp, FeedInv
<1>21. CASE Process
  <2>1. CASE ProcessRequest
    BY <2>1, FeedFrame DEF ProcessRequest, Popped, Pop, Fail, FeedInv
  <2>2. CASE ProcessDefer
    BY <2>2, FeedFrame DEF ProcessDefer, Popped, Pop, FeedInv
  <2>3. CASE ProcessHead
    BY <2>3, FeedFrame DEF ProcessHead, Popped, Pop, Fail, FeedInv
  <2>4. CASE ProcessBody
    BY <2>4, FeedFrame DEF ProcessBody, Popped, Pop, Fail, FeedInv, Stop
  <2>5. CASE ProcessEnd
    BY <2>5, FeedFrame DEF ProcessEnd, Popped, Stop
  <2>6. CASE ProcessSwitch
    BY <2>6, FeedFrame DEF ProcessSwitch, Popped, Stop, FeedInv
  <2>7. CASE ProcessDone
    BY <2>7, FeedFrame DEF ProcessDone, Abandon, FeedInv
  <2> QED
    BY <1>21, <2>1, <2>2, <2>3, <2>4, <2>5, <2>6, <2>7 DEF Process
<1>22. CASE Select
  <2>1. CASE SelectRecv
    BY <2>1, FeedServer DEF SelectRecv, FinResp, PushResp, FeedInv
  <2>2. CASE SelectTimeout
    BY <2>2, FeedFrame DEF SelectTimeout, Abandon, FeedInv
  <2>3. CASE SelectClosed
    BY <2>3, FeedFrame DEF SelectClosed, Abandon, FeedInv
  <2>4. CASE SelectOverflow
    BY <2>4, FeedFrame DEF SelectOverflow, Abandon, FeedInv
  <2>5. CASE SelectDrain
    BY <2>5, FeedFrame DEF SelectDrain, Abandon, FeedInv
  <2> QED
    BY <1>22, <2>1, <2>2, <2>3, <2>4, <2>5 DEF Select
<1>23. CASE Switch
  BY <1>23, FeedFrame DEF Switch, Fail, FeedInv, NoFalsePoison, Script
<1>24. CASE SpliceDown
  BY <1>24, FeedFrame DEF SpliceDown, FeedInv
<1>25. CASE SpliceCancelled
  BY <1>25, FeedFrame DEF SpliceCancelled, FeedInv
<1>26. CASE Teardown
  BY <1>26, FeedFrame DEF Teardown, Reusable
<1>27. CASE Finish
  BY <1>27, FeedFrame DEF Finish
<1>28. CASE SelectRead
  <2>1. CASE /\ \E n \in 1..(Len(Script) - inp) :
                  inp' = inp + n /\ PushClient(Tokens(n), 0)
             /\ Goto("offer")
             /\ UNCHANGED <<ctl, client_eof, exch, bus, hist>>
    <3>1. PICK n \in 1..(Len(Script) - inp) : inp' = inp + n /\ PushClient(Tokens(n), 0)
      BY <2>1
    <3>2. PICK k \in 0..(inp' - fed) : Accepts(k, inp')
      BY <1>28, <3>1, PushTokens DEF SelectRead, MayRead
    <3>3. inp' \in Nat /\ inp <= inp' /\ inp' <= Len(Script)
      BY <1>28, <3>1, PushTokens DEF SelectRead, MayRead
    <3>4. pc' = "offer" /\ UNCHANGED <<load, client_eof, response_done>> /\ ~response_done
      BY <1>28, <2>1 DEF SelectRead, FeedInv
    <3> QED
      BY <3>2, <3>3, <3>4, FeedPush
  <2>2. CASE /\ Goto("offer") /\ FinClient
             /\ UNCHANGED <<ctl, inp, client_pending, fed, events, tunnelled, residue,
                            exch, bus, hist>>
    BY <1>28, <2>2 DEF SelectRead, FinClient, FeedInv, NoFalsePoison, Script
  <2>3. CASE Fail("peer")
    BY <1>28, <2>3, FeedFrame DEF Fail
  <2> QED
    BY <1>28, <2>1, <2>2, <2>3 DEF SelectRead
<1>29. CASE SpliceUp
  BY <1>29, ScriptFacts DEF SpliceUp, FeedInv, NoFalsePoison, Script
<1>30. CASE SpliceEof
  BY <1>30, FeedFrame DEF SpliceEof, FeedInv
<1>31. CASE Backend
  BY <1>31, FeedFrame DEF Backend, FeedInv
<1>32. CASE Drain
  BY <1>32, FeedFrame DEF Drain, FeedInv
<1>33. CASE UNCHANGED vars
  BY <1>33, FeedFrame DEF vars, FeedInv
<1>34. CASE Done
  BY <1>33, <1>34 DEF Done
<1> QED
  BY <1>1, <1>2, <1>3, <1>4, <1>5, <1>6, <1>7, <1>8, <1>9, <1>10, <1>11, <1>12,
     <1>13, <1>14, <1>15, <1>16, <1>17, <1>18, <1>19, <1>20, <1>21, <1>22, <1>23,
     <1>24, <1>25, <1>26, <1>27, <1>28, <1>29, <1>30, <1>31, <1>32, <1>33, <1>34
  DEF Next, Handler, FromClient, NextRequest, Route, RunExchange

\* next_request_head, consume_request_body and run_exchange feed one parser in
\* turn: while the connection lives, what they have read of the socket and the
\* parser has not taken is exactly client_pending, in order.
THEOREM MultirouteFeedsWithoutGap == Spec => []FeedInv
<1>1. FeedInv /\ [Next]_vars => FeedInv'
  BY FeedNext
<1> QED
  BY <1>1, FeedInit, PTL DEF Spec

\* The parser is never poisoned on the client's side unless the client sent
\* malformed framing, or closed in the middle of a request: no loop of the handler
\* loses a refused tail or reads over it.
THEOREM MultirouteAccusesNobody == Spec => []NoFalsePoison
<1>1. FeedInv => NoFalsePoison
  BY DEF FeedInv
<1> QED
  BY <1>1, MultirouteFeedsWithoutGap, PTL

\* The concatenation is a sequence of what the parts hold.
LEMMA FlatType ==
  ASSUME NEW S, NEW s \in Seq(Seq(S))
  PROVE  FlattenSeq(s) \in Seq(S)
<1>1. CASE Len(s) = 0
  BY <1>1 DEF FlattenSeq
<1>2. CASE Len(s) # 0
  <2>1. Len(s) \in Nat /\ Len(s) <= Len(s) /\ Len(s) \in 1..Len(s)
    BY <1>2
  <2>2. PICK f : FlatStep(s, f, Len(s)) /\ FlattenSeq(s) = f[Len(s)]
    BY <1>2, FlatFunction
  <2>3. PICK h : h \in [1..Len(s) -> Seq(S)] /\ FlatStep(s, h, Len(s))
    BY <2>1, FlatExists
  <2>4. \A i \in 1..Len(s) : f[i] = h[i]
    BY <2>1, <2>2, <2>3, FlatUnique
  <2> QED
    BY <2>1, <2>2, <2>3, <2>4
<1> QED
  BY <1>1, <1>2

\* The concatenation of one sequence, and of none.
LEMMA FlatOne ==
  ASSUME NEW S, NEW x \in Seq(S)
  PROVE  FlattenSeq(<<x>>) = x /\ FlattenSeq(<<>>) = <<>>
<1>1. <<>> \in Seq(Seq(S)) /\ Append(<<>>, x) = <<x>>
  OBVIOUS
<1>2. FlattenSeq(<<>>) = <<>>
  BY DEF FlattenSeq
<1>3. FlattenSeq(<<x>>) = <<>> \o x
  BY <1>1, <1>2, FlattenAppend
<1>4. <<>> \o x = x
  BY ConcatEmptySeq
<1> QED
  BY <1>2, <1>3, <1>4

\* Appending to the second of two sequences.
LEMMA ConcatAppend ==
  ASSUME NEW S, NEW s \in Seq(S), NEW u \in Seq(S), NEW x \in S
  PROVE  s \o (u \o <<x>>) = Append(s \o u, x)
<1> DEFINE w == <<x>>
<1>1. w \in Seq(S) /\ s \o u \in Seq(S)
  BY ConcatProperties
<1>2. Append(s \o u, x) = (s \o u) \o w
  BY <1>1, AppendIsConcat
<1> HIDE DEF w
<1>3. (s \o u) \o w = s \o (u \o w)
  BY <1>1, ConcatAssociative
<1> QED
  BY <1>2, <1>3 DEF w

\* It takes concatenation to concatenation.
LEMMA FlatConcat ==
  ASSUME NEW S, NEW s \in Seq(Seq(S)), NEW t \in Seq(Seq(S))
  PROVE  FlattenSeq(s \o t) = FlattenSeq(s) \o FlattenSeq(t)
<1> DEFINE pre(n) == SubSeq(t, 1, n)
           T == {n \in Nat : n <= Len(t) =>
                   FlattenSeq(s \o pre(n)) = FlattenSeq(s) \o FlattenSeq(pre(n))}
<1>0. Len(t) \in Nat /\ FlattenSeq(s) \in Seq(S)
  BY FlatType
<1>1. 0 \in T
  <2>1. pre(0) = <<>>
    BY SubSeqEmpty
  <2>2. s \o <<>> = s /\ FlattenSeq(s) \o <<>> = FlattenSeq(s)
    BY <1>0, ConcatEmptySeq
  <2>3. FlattenSeq(<<>>) = <<>>
    BY DEF FlattenSeq
  <2> QED
    BY <2>1, <2>2, <2>3
<1>2. ASSUME NEW n \in T PROVE n + 1 \in T
  <2> SUFFICES ASSUME n + 1 <= Len(t)
      PROVE FlattenSeq(s \o pre(n + 1)) = FlattenSeq(s) \o FlattenSeq(pre(n + 1))
    OBVIOUS
  <2>1. n \in Nat /\ n <= Len(t) /\ n + 1 \in 1..Len(t) /\ (n + 1) - 1 = n
        /\ 1 \in 1..Len(t) /\ n + 1 \in 1..Len(t) /\ 1 \in Int /\ n \in Int
    BY <1>0
  <2> DEFINE x == t[n + 1]
             u == pre(n)
  <2>2. FlattenSeq(s \o u) = FlattenSeq(s) \o FlattenSeq(u)
    BY <2>1
  <2>3. x \in Seq(S)
    BY <2>1
  <2>4. u \in Seq(Seq(S))
    <3>1. \A i \in 1..n : t[i] \in Seq(S)
      BY <2>1
    <3> QED
      BY <2>1, <3>1, SubSeqProperties
  <2>5. pre(n + 1) = u \o <<x>>
    <3>1. pre(n + 1) = SubSeq(t, 1, (n + 1) - 1) \o <<t[n + 1]>>
      BY <2>1, SubSeqRecursiveSecond
    <3> QED
      BY <2>1, <3>1
  <2> HIDE DEF x, u, pre, T
  <2>6. u \o <<x>> = Append(u, x)
    BY <2>3, <2>4, AppendIsConcat
  <2>7. s \o (u \o <<x>>) = Append(s \o u, x)
    BY <2>3, <2>4, ConcatAppend
  <2>8. FlattenSeq(Append(s \o u, x)) = FlattenSeq(s \o u) \o x
    <3>1. s \o u \in Seq(Seq(S))
      BY <2>4, ConcatProperties
    <3> QED
      BY <2>3, <3>1, FlattenAppend
  <2>9. FlattenSeq(Append(u, x)) = FlattenSeq(u) \o x
    BY <2>3, <2>4, FlattenAppend
  <2>10. (FlattenSeq(s) \o FlattenSeq(u)) \o x = FlattenSeq(s) \o (FlattenSeq(u) \o x)
    <3> DEFINE a == FlattenSeq(s)
               b == FlattenSeq(u)
    <3>1. a \in Seq(S) /\ b \in Seq(S)
      BY <1>0, <2>4, FlatType
    <3> HIDE DEF a, b
    <3>2. (a \o b) \o x = a \o (b \o x)
      BY <2>3, <3>1, ConcatAssociative, SMTT(20)
    <3> QED
      BY <3>2 DEF a, b
  <2> QED
    BY <2>2, <2>5, <2>6, <2>7, <2>8, <2>9, <2>10 DEF T
<1> HIDE DEF T
<1>3. T = Nat
  <2>1. T \in SUBSET Nat
    BY DEF T
  <2> QED
    BY <1>1, <1>2, <2>1, Inductive
<1>4. pre(Len(t)) = t
  BY SubSeqFull
<1>5. FlattenSeq(s \o pre(Len(t))) = FlattenSeq(s) \o FlattenSeq(pre(Len(t)))
  <2>1. Len(t) \in T /\ Len(t) <= Len(t)
    BY <1>0, <1>3
  <2> QED
    BY <2>1 DEF T
<1> QED
  BY <1>4, <1>5

-----------------------------------------------------------------------------
\* Each element of s replaced by a sequence.
FlatMap(s, G) == FlattenSeq([i \in 1..Len(s) |-> G[s[i]]])

\* The sequence of sequences it concatenates.
LEMMA MapType ==
  ASSUME NEW A, NEW S, NEW G \in [A -> Seq(S)], NEW s \in Seq(A)
  PROVE  /\ [i \in 1..Len(s) |-> G[s[i]]] \in Seq(Seq(S))
         /\ Len([i \in 1..Len(s) |-> G[s[i]]]) = Len(s)
         /\ FlatMap(s, G) \in Seq(S)
<1> DEFINE m == [i \in 1..Len(s) |-> G[s[i]]]
<1>1. \A i \in 1..Len(s) : G[s[i]] \in Seq(S)
  BY ElementOfSeq
<1>2. m \in Seq(Seq(S)) /\ Len(m) = Len(s)
  <2>1. Len(s) \in Nat
    OBVIOUS
  <2> QED
    BY <1>1, <2>1
<1> HIDE DEF m
<1>3. FlattenSeq(m) \in Seq(S)
  BY <1>2, FlatType
<1> QED
  BY <1>2, <1>3 DEF FlatMap, m

\* Replacing distributes over concatenation.
LEMMA MapConcat ==
  ASSUME NEW A, NEW S, NEW G \in [A -> Seq(S)], NEW s \in Seq(A), NEW t \in Seq(A)
  PROVE  FlatMap(s \o t, G) = FlatMap(s, G) \o FlatMap(t, G)
<1> DEFINE m == [i \in 1..Len(s) |-> G[s[i]]]
           n == [i \in 1..Len(t) |-> G[t[i]]]
           st == s \o t
           mn == [i \in 1..Len(st) |-> G[st[i]]]
<1>1. m \in Seq(Seq(S)) /\ Len(m) = Len(s)
  BY MapType
<1>2. n \in Seq(Seq(S)) /\ Len(n) = Len(t)
  BY MapType
<1>3. st \in Seq(A) /\ Len(st) = Len(s) + Len(t)
      /\ \A i \in 1..(Len(s) + Len(t)) :
           st[i] = IF i <= Len(s) THEN s[i] ELSE t[i - Len(s)]
  BY ConcatProperties
<1>4. mn \in Seq(Seq(S)) /\ Len(mn) = Len(st)
  <2> HIDE DEF st
  <2> QED
    BY <1>3, MapType
<1>5. \A i \in 1..Len(s) : m[i] = G[s[i]]
  OBVIOUS
<1>6. \A i \in 1..Len(t) : n[i] = G[t[i]]
  OBVIOUS
<1>7. \A i \in 1..Len(st) : mn[i] = G[st[i]]
  OBVIOUS
<1>8. Len(s) \in Nat /\ Len(t) \in Nat
  OBVIOUS
<1> HIDE DEF m, n, mn, st
<1>9. /\ m \o n \in Seq(Seq(S)) /\ Len(m \o n) = Len(m) + Len(n)
      /\ \A i \in 1..(Len(m) + Len(n)) :
           (m \o n)[i] = IF i <= Len(m) THEN m[i] ELSE n[i - Len(m)]
  BY <1>1, <1>2, ConcatProperties
<1>10. ASSUME NEW i \in 1..Len(mn) PROVE mn[i] = (m \o n)[i]
  <2>1. i \in 1..(Len(s) + Len(t)) /\ i \in 1..Len(st)
    BY <1>3, <1>4
  <2>2. CASE i <= Len(s)
    <3>1. i \in 1..Len(s)
      BY <1>8, <2>1, <2>2
    <3> QED
      BY <1>1, <1>2, <1>3, <1>5, <1>7, <1>9, <2>1, <2>2, <3>1
  <2>3. CASE ~(i <= Len(s))
    <3>1. i - Len(s) \in 1..Len(t)
      BY <1>8, <2>1, <2>3
    <3> QED
      BY <1>1, <1>2, <1>3, <1>6, <1>7, <1>9, <2>1, <2>3, <3>1
  <2> QED
    BY <2>2, <2>3
<1>11. mn = m \o n
  BY <1>1, <1>2, <1>3, <1>4, <1>9, <1>10, SeqEqual
<1>12. FlattenSeq(m \o n) = FlattenSeq(m) \o FlattenSeq(n)
  BY <1>1, <1>2, FlatConcat
<1> QED
  BY <1>11, <1>12 DEF FlatMap, m, n, mn, st

\* Replacing a single element.
LEMMA MapOne ==
  ASSUME NEW A, NEW S, NEW G \in [A -> Seq(S)], NEW x \in A
  PROVE  FlatMap(<<x>>, G) = G[x] /\ FlatMap(<<>>, G) = <<>>
<1>1. G[x] \in Seq(S)
  OBVIOUS
<1>2. [i \in 1..Len(<<x>>) |-> G[<<x>>[i]]] = <<G[x]>>
  <2>1. Len(<<x>>) = 1 /\ <<x>>[1] = x
    OBVIOUS
  <2>2. [i \in 1..1 |-> G[<<x>>[i]]] = <<G[x]>>
    <3> DEFINE a == [i \in 1..1 |-> G[<<x>>[i]]]
               b == <<G[x]>>
    <3>1. a \in Seq(Seq(S)) /\ Len(a) = 1 /\ a[1] = G[x]
      BY <1>1, <2>1
    <3>2. b \in Seq(Seq(S)) /\ Len(b) = 1 /\ b[1] = G[x]
      BY <1>1
    <3> HIDE DEF a, b
    <3>3. \A i \in 1..Len(a) : a[i] = b[i]
      BY <3>1, <3>2
    <3>4. a = b
      BY <3>1, <3>2, <3>3, SeqEqual
    <3> QED
      BY <3>4 DEF a, b
  <2> QED
    BY <2>1, <2>2
<1>3. [i \in 1..Len(<<>>) |-> G[<<>>[i]]] = <<>>
  OBVIOUS
<1> QED
  BY <1>1, <1>2, <1>3, FlatOne DEF FlatMap

\* Nothing where every element is replaced by nothing.
LEMMA MapNothing ==
  ASSUME NEW A, NEW S, NEW G \in [A -> Seq(S)], NEW s \in Seq(A),
         \A i \in 1..Len(s) : G[s[i]] = <<>>
  PROVE  FlatMap(s, G) = <<>>
<1> DEFINE pre(n) == SubSeq(s, 1, n)
           T == {n \in Nat : n <= Len(s) => FlatMap(pre(n), G) = <<>>}
<1>0. Len(s) \in Nat
  OBVIOUS
<1>1. 0 \in T
  <2>1. pre(0) = <<>>
    BY SubSeqEmpty
  <2>2. FlatMap(<<>>, G) = <<>>
    BY DEF FlatMap, FlattenSeq
  <2> QED
    BY <2>1, <2>2
<1>2. ASSUME NEW n \in T PROVE n + 1 \in T
  <2> SUFFICES ASSUME n + 1 <= Len(s) PROVE FlatMap(pre(n + 1), G) = <<>>
    OBVIOUS
  <2>1. n \in Nat /\ n <= Len(s) /\ n + 1 \in 1..Len(s) /\ (n + 1) - 1 = n
        /\ 1 \in 1..Len(s) /\ n + 1 \in 1..Len(s) /\ 1 \in Int /\ n \in Int
    BY <1>0
  <2> DEFINE x == s[n + 1]
             u == pre(n)
  <2>2. x \in A /\ G[x] = <<>> /\ FlatMap(u, G) = <<>>
    BY <2>1
  <2>3. u \in Seq(A)
    <3>1. \A i \in 1..n : s[i] \in A
      BY <2>1
    <3> QED
      BY <2>1, <3>1, SubSeqProperties
  <2>4. pre(n + 1) = u \o <<x>>
    <3>1. pre(n + 1) = SubSeq(s, 1, (n + 1) - 1) \o <<s[n + 1]>>
      BY <2>1, SubSeqRecursiveSecond
    <3> QED
      BY <2>1, <3>1
  <2> HIDE DEF x, u, pre
  <2>5. <<x>> \in Seq(A)
    BY <2>2
  <2>6. FlatMap(u \o <<x>>, G) = FlatMap(u, G) \o FlatMap(<<x>>, G)
    BY <2>3, <2>5, MapConcat
  <2>7. FlatMap(<<x>>, G) = G[x]
    BY <2>2, MapOne
  <2>8. <<>> \o <<>> = <<>>
    OBVIOUS
  <2> QED
    BY <2>2, <2>4, <2>6, <2>7, <2>8
<1> HIDE DEF T
<1>3. T = Nat
  <2>1. T \in SUBSET Nat
    BY DEF T
  <2> QED
    BY <1>1, <1>2, <2>1, Inductive
<1>4. pre(Len(s)) = s
  BY SubSeqFull
<1>5. FlatMap(pre(Len(s)), G) = <<>>
  <2>1. Len(s) \in T /\ Len(s) <= Len(s)
    BY <1>0, <1>3
  <2> QED
    BY <2>1 DEF T
<1> QED
  BY <1>4, <1>5

-----------------------------------------------------------------------------
(* What a client's stream looks like from one of its tokens.               *)

HB == {"head", "body"}

\* A piece of the stream is a token.
LEMMA TokenFacts ==
  ASSUME load \in Loads, NEW p \in 1..Len(Script)
  PROVE  /\ Script[p].req \in Nat \ {0}
         /\ Script[p].kind \in {"head", "body", "raw", "bad", "h2"}
         /\ Script[p].last \in BOOLEAN
         /\ p > 1 => p - 1 \in 1..Len(Script)
<1>1. Script \in Seq(Token) /\ Len(Script) \in Nat
  BY ScriptFacts
<1>2. Script[p] \in Token
  BY <1>1
<1> QED
  BY <1>1, <1>2 DEF Token

\* One token and the one before it.
LEMMA StreamStep ==
  ASSUME load \in Loads, NEW p \in 1..Len(Script)
  PROVE  /\ Script[p].kind = "head" =>
              /\ p = 1 => Script[p].req = 1
              /\ p > 1 => /\ Script[p - 1].kind \in HB /\ Script[p - 1].last
                          /\ Script[p].req = Script[p - 1].req + 1
                          /\ load.resp[Script[p - 1].req].framing # "switch"
              /\ Script[p].req <= Len(load.resp)
         /\ Script[p].kind = "body" =>
              /\ p > 1 /\ Script[p - 1].kind \in HB /\ ~Script[p - 1].last
              /\ Script[p].req = Script[p - 1].req
         /\ Script[p].kind = "raw" =>
              /\ p > 1 /\ Script[p].req = Script[p - 1].req
              /\ \/ Script[p - 1].kind \in {"raw", "h2"}
                 \/ Script[p - 1].kind \in HB /\ Script[p - 1].last
         /\ Script[p].kind = "h2" => p = 1
         /\ Script[p].kind = "bad" /\ p > 1 =>
              /\ Script[p - 1].kind \in {"head", "body", "bad"}
              /\ Script[p - 1].kind \in HB =>
                   load.resp[Script[p - 1].req].framing # "switch"
<1>1. Stream(Script, load.resp) /\ p \in DOMAIN Script
  BY ScriptFacts
<1> DEFINE s == Script
           resp == load.resp
<1> HIDE DEF s, resp
<1>2. Stream(s, resp) /\ p \in DOMAIN s
  BY <1>1 DEF s, resp
<1>3. p \in Nat /\ (p > 1 \/ p = 1) /\ ~(p > 1 /\ p = 1)
  BY ScriptFacts
<1>4. LET before(kinds) == p > 1 /\ s[p - 1].kind \in kinds
          switches      == before({"head", "body"}) /\ resp[s[p - 1].req].framing = "switch"
      IN  /\ s[p].kind = "head" =>
               /\ s[p].req = (IF p = 1 THEN 1 ELSE s[p - 1].req + 1)
               /\ p > 1 => before({"head", "body"}) /\ s[p - 1].last
               /\ s[p].req <= Len(resp) /\ ~switches
          /\ s[p].kind = "body" => /\ before({"head", "body"}) /\ ~s[p - 1].last
                                   /\ s[p].req = s[p - 1].req
          /\ s[p].kind = "raw" => /\ \/ before({"raw", "h2"})
                                     \/ switches /\ s[p - 1].last
                                  /\ s[p].req = s[p - 1].req
          /\ s[p].kind = "h2" => p = 1
          /\ s[p].kind = "bad" /\ p > 1 =>
               /\ before({"head", "body", "bad"}) /\ ~switches
               /\ s[p].req >= s[p - 1].req
  BY <1>2, Zenon DEF Stream
<1>5. s[p].kind = "head" =>
        /\ p = 1 => s[p].req = 1
        /\ p > 1 => /\ s[p - 1].kind \in HB /\ s[p - 1].last
                    /\ s[p].req = s[p - 1].req + 1
                    /\ resp[s[p - 1].req].framing # "switch"
        /\ s[p].req <= Len(resp)
  BY <1>3, <1>4 DEF HB
<1>6. s[p].kind = "body" =>
        /\ p > 1 /\ s[p - 1].kind \in HB /\ ~s[p - 1].last
        /\ s[p].req = s[p - 1].req
  BY <1>4 DEF HB
<1>7. s[p].kind = "raw" =>
        /\ p > 1 /\ s[p].req = s[p - 1].req
        /\ \/ s[p - 1].kind \in {"raw", "h2"}
           \/ s[p - 1].kind \in HB /\ s[p - 1].last
  BY <1>4 DEF HB
<1>8. /\ s[p].kind = "h2" => p = 1
      /\ s[p].kind = "bad" /\ p > 1 =>
           /\ s[p - 1].kind \in {"head", "body", "bad"}
           /\ s[p - 1].kind \in HB => resp[s[p - 1].req].framing # "switch"
  BY <1>4 DEF HB
<1> QED
  BY <1>5, <1>6, <1>7, <1>8 DEF s, resp

\* Nothing but heads and bodies precedes a head or a body.
LEMMA FramedBefore ==
  ASSUME load \in Loads, NEW p \in 1..Len(Script), Script[p].kind \in HB,
         NEW q \in 1..p
  PROVE  Script[q].kind \in HB
<1> DEFINE T == {d \in Nat : d < p => Script[p - d].kind \in HB}
<1>0. Len(Script) \in Nat /\ p \in Nat /\ q \in Nat
  BY ScriptFacts
<1>1. 0 \in T
  BY <1>0
<1>2. ASSUME NEW d \in T PROVE d + 1 \in T
  <2> SUFFICES ASSUME d + 1 < p PROVE Script[p - (d + 1)].kind \in HB
    OBVIOUS
  <2>1. d \in Nat /\ p - d \in 1..Len(Script) /\ p - d > 1 /\ (p - d) - 1 = p - (d + 1)
        /\ Script[p - d].kind \in HB
    BY <1>0
  <2> DEFINE x == p - d
  <2> HIDE DEF x
  <2>2. x \in 1..Len(Script) /\ x > 1 /\ Script[x].kind \in HB
    BY <2>1 DEF x
  <2>3. Script[x - 1].kind \in HB
    BY <2>2, StreamStep DEF HB
  <2> QED
    BY <2>1, <2>3 DEF x
<1> HIDE DEF T
<1>3. T = Nat
  <2>1. T \in SUBSET Nat
    BY DEF T
  <2> QED
    BY <1>1, <1>2, <2>1, Inductive
<1>4. p - q \in Nat /\ p - q < p /\ p - (p - q) = q
  BY <1>0
<1>5. p - q \in T
  BY <1>3, <1>4
<1> QED
  BY <1>4, <1>5 DEF T

\* Requests are numbered in order.
LEMMA RequestsRise ==
  ASSUME load \in Loads, NEW p \in 1..Len(Script), Script[p].kind \in HB,
         NEW q \in 1..p
  PROVE  /\ Script[q].req <= Script[p].req
         /\ q < p /\ Script[p].kind = "head" => Script[q].req < Script[p].req
<1> DEFINE Ok(d) == LET x == q + d
                    IN  x <= Len(Script) /\ Script[x].kind \in HB =>
                          /\ Script[q].req <= Script[x].req
                          /\ d > 0 /\ Script[x].kind = "head" => Script[q].req < Script[x].req
           T == {d \in Nat : Ok(d)}
<1>0. Len(Script) \in Nat /\ p \in Nat /\ q \in Nat /\ q \in 1..Len(Script)
  BY ScriptFacts
<1>1. 0 \in T
  <2>1. Script[q].req \in Nat /\ q + 0 = q
    BY <1>0, TokenFacts
  <2> QED
    BY <2>1
<1>2. ASSUME NEW d \in T PROVE d + 1 \in T
  <2>0. d \in Nat /\ Ok(d)
    OBVIOUS
  <2>1. q + (d + 1) = (q + d) + 1 /\ d + 1 \in Nat
    BY <1>0, <2>0
  <2> DEFINE x == q + d
             y == x + 1
  <2>2. CASE y <= Len(Script) /\ Script[y].kind \in HB
    <3>1. y \in 1..Len(Script) /\ y > 1 /\ y - 1 = x /\ x \in 1..Len(Script) /\ x <= Len(Script)
      BY <1>0, <2>0, <2>2
    <3> HIDE DEF x, y
    <3>2. Script[x].kind \in HB /\ Script[y].req \in {Script[x].req, Script[x].req + 1}
          /\ (Script[y].kind = "head" => Script[y].req = Script[x].req + 1)
      BY <2>2, <3>1, StreamStep DEF HB
    <3>3. Script[q].req <= Script[x].req
      BY <2>0, <3>1, <3>2 DEF x
    <3>4. Script[q].req \in Nat /\ Script[x].req \in Nat
      BY <1>0, <3>1, TokenFacts
    <3>5. Script[q].req <= Script[y].req
          /\ (Script[y].kind = "head" => Script[q].req < Script[y].req)
      BY <3>2, <3>3, <3>4, SMTT(20)
    <3> QED
      BY <2>1, <3>5 DEF x, y
  <2>3. CASE ~(y <= Len(Script) /\ Script[y].kind \in HB)
    BY <2>1, <2>3
  <2> QED
    BY <2>2, <2>3
<1> HIDE DEF T
<1>3. T = Nat
  <2>1. T \in SUBSET Nat
    BY DEF T
  <2> QED
    BY <1>1, <1>2, <2>1, Inductive
<1>4. p - q \in Nat /\ q + (p - q) = p /\ (q < p => p - q > 0) /\ p <= Len(Script)
  BY <1>0
<1>5. p - q \in T
  BY <1>3, <1>4
<1> QED
  BY <1>4, <1>5 DEF T

\* A head or a body belongs to a request whose head came before.
LEMMA HeadBefore ==
  ASSUME load \in Loads, NEW p \in 1..Len(Script), Script[p].kind \in HB
  PROVE  \E h \in 1..p : Script[h].kind = "head" /\ Script[h].req = Script[p].req
<1> DEFINE Ok(n) == n \in 1..Len(Script) /\ Script[n].kind \in HB =>
                      \E h \in 1..n : Script[h].kind = "head" /\ Script[h].req = Script[n].req
           T == {n \in Nat : Ok(n)}
<1>0. Len(Script) \in Nat /\ p \in Nat
  BY ScriptFacts
<1>1. 0 \in T
  OBVIOUS
<1>2. ASSUME NEW n \in T PROVE n + 1 \in T
  <2>0. n \in Nat /\ Ok(n)
    OBVIOUS
  <2> DEFINE y == n + 1
  <2>1. y \in Nat /\ y - 1 = n
    BY <2>0
  <2> HIDE DEF y
  <2> SUFFICES ASSUME y \in 1..Len(Script), Script[y].kind \in HB
               PROVE  \E h \in 1..y : Script[h].kind = "head" /\ Script[h].req = Script[y].req
    BY <2>1 DEF y
  <2>2. CASE Script[y].kind = "head"
    BY <2>1, <2>2
  <2>3. CASE Script[y].kind = "body"
    <3>1. y > 1 /\ Script[n].kind \in HB /\ Script[y].req = Script[n].req
      BY <2>1, <2>3, StreamStep
    <3>2. n \in 1..Len(Script)
      BY <2>1, <3>1, <1>0
    <3>3. PICK h \in 1..n : Script[h].kind = "head" /\ Script[h].req = Script[n].req
      BY <2>0, <3>1, <3>2
    <3>4. h \in 1..y
      BY <2>0, <2>1
    <3> QED
      BY <3>1, <3>3, <3>4
  <2> QED
    BY <2>2, <2>3 DEF HB
<1> HIDE DEF T
<1>3. T = Nat
  <2>1. T \in SUBSET Nat
    BY DEF T
  <2> QED
    BY <1>1, <1>2, <2>1, Inductive
<1>4. p \in T
  BY <1>0, <1>3
<1> QED
  BY <1>4 DEF T

\* A request is preceded by the head of the one before it.
LEMMA PreviousHead ==
  ASSUME load \in Loads, NEW p \in 1..Len(Script), Script[p].kind = "head",
         Script[p].req # 1
  PROVE  \E h \in 1..(p - 1) : Script[h].kind = "head" /\ Script[h].req = Script[p].req - 1
<1>0. Len(Script) \in Nat /\ p \in Nat
  BY ScriptFacts
<1>1. p > 1 /\ Script[p - 1].kind \in HB /\ Script[p].req = Script[p - 1].req + 1
  BY <1>0, StreamStep
<1> DEFINE x == p - 1
<1>2. x \in 1..Len(Script)
  BY <1>0, <1>1
<1> HIDE DEF x
<1>3. Script[x].kind \in HB /\ Script[p].req = Script[x].req + 1 /\ Script[x].req \in Nat
  BY <1>1, <1>2, TokenFacts DEF x
<1>4. PICK h \in 1..x : Script[h].kind = "head" /\ Script[h].req = Script[x].req
  BY <1>2, <1>3, HeadBefore
<1>5. Script[x].req = Script[p].req - 1
  BY <1>3
<1> QED
  BY <1>4, <1>5 DEF x

\* What follows a request that switches the protocol is that request's: the
\* rest of its body, and the tunnel's bytes.
LEMMA AfterSwitch ==
  ASSUME load \in Loads, NEW p \in 1..Len(Script), Script[p].kind \in HB,
         load.resp[Script[p].req].framing = "switch", NEW q \in p..Len(Script)
  PROVE  /\ Script[q].req = Script[p].req
         /\ q > p => Script[q].kind \in {"body", "raw"}
         /\ q > p /\ Script[p].last => Script[q].kind = "raw"
<1> DEFINE Ok(d) == LET x == p + d
                    IN  x <= Len(Script) =>
                          /\ Script[x].req = Script[p].req
                          /\ d > 0 => Script[x].kind \in {"body", "raw"}
                          /\ d > 0 /\ Script[p].last => Script[x].kind = "raw"
           T == {d \in Nat : Ok(d)}
<1>0. Len(Script) \in Nat /\ p \in Nat /\ q \in Nat
  BY ScriptFacts
<1>1. 0 \in T
  <2>1. p + 0 = p
    BY <1>0
  <2> QED
    BY <2>1
<1>2. ASSUME NEW d \in T PROVE d + 1 \in T
  <2>0. d \in Nat /\ Ok(d)
    OBVIOUS
  <2>1. p + (d + 1) = (p + d) + 1 /\ d + 1 \in Nat /\ d + 1 > 0 /\ (d = 0 \/ d > 0)
    BY <1>0, <2>0
  <2> DEFINE x == p + d
             y == x + 1
  <2>2. CASE y <= Len(Script)
    <3>1. y \in 1..Len(Script) /\ y > 1 /\ y - 1 = x /\ x \in 1..Len(Script) /\ x <= Len(Script)
      BY <1>0, <2>0, <2>2
    <3>2. d = 0 => x = p
      BY <1>0
    <3> HIDE DEF x, y
    <3>3. /\ Script[x].req = Script[p].req
          /\ d > 0 => Script[x].kind \in {"body", "raw"}
          /\ d > 0 /\ Script[p].last => Script[x].kind = "raw"
      BY <2>0, <3>1 DEF x
    <3>4. Script[x].kind \in {"head", "body", "raw"}
      BY <2>1, <3>2, <3>3 DEF HB
    <3>5. load.resp[Script[x].req].framing = "switch"
      BY <3>3
    <3>6. Script[y].kind \in {"body", "raw"} /\ Script[y].req = Script[x].req
          /\ (Script[y].kind = "body" => Script[x].kind \in HB /\ ~Script[x].last)
      BY <3>1, <3>4, <3>5, StreamStep, TokenFacts, SMTT(20) DEF HB
    <3>7. Script[p].last => Script[y].kind = "raw"
      BY <2>1, <3>2, <3>3, <3>6 DEF HB
    <3> QED
      BY <2>1, <3>3, <3>6, <3>7 DEF x, y
  <2>3. CASE ~(y <= Len(Script))
    BY <2>1, <2>3
  <2> QED
    BY <2>2, <2>3
<1> HIDE DEF T
<1>3. T = Nat
  <2>1. T \in SUBSET Nat
    BY DEF T
  <2> QED
    BY <1>1, <1>2, <2>1, Inductive
<1>4. q - p \in Nat /\ p + (q - p) = q /\ (q > p => q - p > 0) /\ q <= Len(Script)
  BY <1>0
<1>5. q - p \in T
  BY <1>3, <1>4
<1> QED
  BY <1>4, <1>5 DEF T

-----------------------------------------------------------------------------
(* The queue of events, and the client's side of it.                       *)

EventRec == [ev : EventKind, at : Nat]

\* The events of the client's side, and where they are in its stream.
IsClient(e) == e.ev \in {"head", "body", "end"}
Order(e)    == IF e.ev = "end" THEN 2 * e.at + 1 ELSE 2 * e.at

\* e is an event of a token of the stream.
Genuine(S, e) ==
  /\ e \in EventRec /\ e.at \in 1..Len(S) /\ S[e.at].kind \in HB
  /\ \/ e.ev = "end" /\ S[e.at].last
     \/ e.ev = S[e.at].kind

\* What is queued of the stream: every event past c and up to m, in order.
Queue(S, w, c, m) ==
  /\ c \in Nat /\ m \in Nat /\ c <= m
  /\ \A i, j \in 1..Len(w) : i < j => Order(w[i]) < Order(w[j])
  /\ \A i \in 1..Len(w) : Genuine(S, w[i]) /\ c < Order(w[i]) /\ Order(w[i]) <= m
  /\ \A e \in EventRec : Genuine(S, e) /\ c < Order(e) /\ Order(e) <= m =>
       \E i \in 1..Len(w) : w[i] = e

\* No event of the stream is past m and before n.
Nothing(S, m, n) == \A e \in EventRec : Genuine(S, e) => ~(m < Order(e) /\ Order(e) < n)

\* An event is known by its place.
LEMMA OrderInjective ==
  ASSUME NEW S, NEW e, NEW f, Genuine(S, e), Genuine(S, f), Order(e) = Order(f)
  PROVE  e = f
<1>1. e \in EventRec /\ f \in EventRec
  BY DEF Genuine
<1>2. e.at \in Nat /\ f.at \in Nat
  BY <1>1 DEF EventRec
<1>3. e.ev # "end" => e.ev \in {"head", "body"} /\ e.ev = S[e.at].kind
  BY DEF Genuine, HB
<1>4. f.ev # "end" => f.ev \in {"head", "body"} /\ f.ev = S[f.at].kind
  BY DEF Genuine, HB
<1>5. (e.ev = "end" <=> f.ev = "end") /\ e.at = f.at
  BY <1>2, <1>3, <1>4 DEF Order
<1>6. e.ev = f.ev
  BY <1>3, <1>4, <1>5
<1> QED
  BY <1>1, <1>5, <1>6 DEF EventRec

\* The place of an event is a number.
LEMMA OrderNat == \A e \in EventRec : Order(e) \in Nat
BY DEF Order, EventRec

\* A sequence with one more element.
LEMMA AppendFacts ==
  ASSUME NEW A, NEW w \in Seq(A), NEW e \in A
  PROVE  /\ Append(w, e) \in Seq(A) /\ w \o <<e>> = Append(w, e)
         /\ Len(Append(w, e)) = Len(w) + 1 /\ Len(w) \in Nat
         /\ \A i \in 1..Len(w) : Append(w, e)[i] = w[i]
         /\ Append(w, e)[Len(w) + 1] = e
BY AppendProperties, AppendIsConcat

\* A sequence with one more element in front.
LEMMA ConsFacts ==
  ASSUME NEW A, NEW w \in Seq(A), NEW e \in A
  PROVE  /\ <<e>> \o w \in Seq(A) /\ Len(<<e>> \o w) = Len(w) + 1 /\ Len(w) \in Nat
         /\ (<<e>> \o w)[1] = e
         /\ \A i \in 1..Len(w) : (<<e>> \o w)[i + 1] = w[i]
<1> DEFINE o == <<e>>
<1>1. o \in Seq(A) /\ Len(o) = 1 /\ o[1] = e /\ Len(w) \in Nat
  OBVIOUS
<1> HIDE DEF o
<1>2. /\ o \o w \in Seq(A) /\ Len(o \o w) = Len(o) + Len(w)
      /\ \A i \in 1..(Len(o) + Len(w)) : (o \o w)[i] = IF i <= Len(o) THEN o[i] ELSE w[i - Len(o)]
  BY <1>1, ConcatProperties
<1>3. (o \o w)[1] = e
  BY <1>1, <1>2
<1>4. ASSUME NEW i \in 1..Len(w) PROVE (o \o w)[i + 1] = w[i]
  <2>1. i + 1 \in 1..(Len(o) + Len(w)) /\ ~(i + 1 <= Len(o)) /\ (i + 1) - Len(o) = i
    BY <1>1
  <2> QED
    BY <1>2, <2>1
<1> QED
  BY <1>1, <1>2, <1>3, <1>4 DEF o

\* The next event of the stream is queued.
LEMMA QueueAppend ==
  ASSUME NEW S, NEW w \in Seq(EventRec), NEW c, NEW m, Queue(S, w, c, m),
         NEW e, Genuine(S, e), m < Order(e), Nothing(S, m, Order(e))
  PROVE  Queue(S, Append(w, e), c, Order(e))
<1> DEFINE v == Append(w, e)
           o == Order(e)
<1>1. e \in EventRec /\ o \in Nat /\ c \in Nat /\ m \in Nat /\ c <= m /\ m < o
  BY OrderNat DEF Genuine, Queue
<1>2. /\ v \in Seq(EventRec) /\ Len(v) = Len(w) + 1 /\ Len(w) \in Nat
      /\ \A i \in 1..Len(w) : v[i] = w[i]
      /\ v[Len(w) + 1] = e
  BY <1>1, AppendFacts
<1>3. Order(e) = o
  OBVIOUS
<1> HIDE DEF v, o
<1>4. \A i \in 1..Len(w) : Order(w[i]) \in Nat /\ Order(w[i]) <= m /\ c < Order(w[i])
                             /\ Genuine(S, w[i])
  BY OrderNat DEF Queue, Genuine
<1>5. ASSUME NEW i \in 1..Len(v), NEW j \in 1..Len(v), i < j
      PROVE  Order(v[i]) < Order(v[j])
  <2>1. i \in 1..Len(w)
    BY <1>2, <1>5
  <2>2. CASE j \in 1..Len(w)
    BY <1>2, <1>5, <2>1, <2>2 DEF Queue
  <2>3. CASE j = Len(w) + 1
    BY <1>1, <1>2, <1>3, <1>4, <2>1, <2>3
  <2> QED
    BY <1>2, <2>2, <2>3
<1>6. ASSUME NEW i \in 1..Len(v)
      PROVE  Genuine(S, v[i]) /\ c < Order(v[i]) /\ Order(v[i]) <= o
  <2>1. CASE i \in 1..Len(w)
    BY <1>1, <1>2, <1>4, <2>1
  <2>2. CASE i = Len(w) + 1
    BY <1>1, <1>2, <1>3, <2>2
  <2> QED
    BY <1>2, <2>1, <2>2
<1>7. ASSUME NEW x \in EventRec, Genuine(S, x), c < Order(x), Order(x) <= o
      PROVE  \E i \in 1..Len(v) : v[i] = x
  <2>1. Order(x) \in Nat
    BY OrderNat
  <2>2. CASE Order(x) <= m
    <3>1. PICK i \in 1..Len(w) : w[i] = x
      BY <1>7, <2>2 DEF Queue
    <3> QED
      BY <1>2, <3>1
  <2>3. CASE Order(x) = o
    <3>1. x = e
      BY <1>3, <1>7, <2>3, OrderInjective
    <3> QED
      BY <1>2, <3>1
  <2>4. ~(m < Order(x) /\ Order(x) < o)
    BY <1>3, <1>7 DEF Nothing
  <2> QED
    BY <1>1, <1>7, <2>1, <2>2, <2>3, <2>4
<1>8. c <= o
  BY <1>1
<1>9. Queue(S, v, c, o)
  BY <1>1, <1>5, <1>6, <1>7, <1>8 DEF Queue
<1> QED
  BY <1>9 DEF v, o

\* Pieces that make no event leave the queue as it is.
LEMMA QueueSkip ==
  ASSUME NEW S, NEW w, NEW c, NEW m, NEW n \in Nat, Queue(S, w, c, m),
         m <= n, Nothing(S, m, n + 1)
  PROVE  Queue(S, w, c, n)
<1>1. c \in Nat /\ m \in Nat /\ c <= m /\ c <= n
  BY DEF Queue
<1>2. ASSUME NEW i \in 1..Len(w)
      PROVE  Genuine(S, w[i]) /\ c < Order(w[i]) /\ Order(w[i]) <= n
  <2>1. Order(w[i]) \in Nat
    BY OrderNat DEF Queue, Genuine
  <2> QED
    BY <1>1, <2>1 DEF Queue
<1>3. ASSUME NEW x \in EventRec, Genuine(S, x), c < Order(x), Order(x) <= n
      PROVE  \E i \in 1..Len(w) : w[i] = x
  <2>1. Order(x) \in Nat
    BY OrderNat
  <2>2. ~(m < Order(x) /\ Order(x) < n + 1)
    BY <1>3 DEF Nothing
  <2>3. Order(x) <= m
    BY <1>1, <1>3, <2>1, <2>2
  <2> QED
    BY <1>3, <2>3 DEF Queue
<1>4. \A i, j \in 1..Len(w) : i < j => Order(w[i]) < Order(w[j])
  BY DEF Queue
<1> QED
  BY <1>1, <1>2, <1>3, <1>4 DEF Queue

\* The first event of the queue is the next of the stream.
LEMMA QueuePop ==
  ASSUME NEW S, NEW w \in Seq(EventRec), NEW c, NEW m, NEW e \in EventRec,
         Queue(S, <<e>> \o w, c, m)
  PROVE  /\ Queue(S, w, Order(e), m) /\ Genuine(S, e)
         /\ c < Order(e) /\ Order(e) <= m /\ Nothing(S, c, Order(e))
<1> DEFINE v == <<e>> \o w
           o == Order(e)
<1>1. /\ v \in Seq(EventRec) /\ Len(v) = Len(w) + 1 /\ Len(w) \in Nat
      /\ v[1] = e /\ \A i \in 1..Len(w) : v[i + 1] = w[i]
  BY ConsFacts
<1>2. Queue(S, v, c, m) /\ Order(e) = o
  OBVIOUS
<1> HIDE DEF v, o
<1>3. 1 \in 1..Len(v) /\ \A i \in 1..Len(w) : i + 1 \in 1..Len(v)
  BY <1>1
<1>4. o \in Nat /\ c \in Nat /\ m \in Nat
  BY <1>2, OrderNat DEF Queue
<1>5. Genuine(S, e) /\ c < o /\ o <= m
  BY <1>1, <1>2, <1>3 DEF Queue
<1>6. ASSUME NEW i \in 1..Len(w)
      PROVE  Genuine(S, w[i]) /\ o < Order(w[i]) /\ Order(w[i]) <= m
  <2>1. i + 1 \in 1..Len(v) /\ 1 < i + 1 /\ v[i + 1] = w[i]
    BY <1>1, <1>3
  <2>2. Order(v[1]) < Order(v[i + 1])
    BY <1>2, <1>3, <2>1 DEF Queue
  <2>3. Genuine(S, v[i + 1]) /\ Order(v[i + 1]) <= m
    BY <1>2, <2>1 DEF Queue
  <2> QED
    BY <1>1, <1>2, <2>1, <2>2, <2>3
<1>7. ASSUME NEW i \in 1..Len(w), NEW j \in 1..Len(w), i < j
      PROVE  Order(w[i]) < Order(w[j])
  <2>1. i + 1 \in 1..Len(v) /\ j + 1 \in 1..Len(v) /\ i + 1 < j + 1
        /\ v[i + 1] = w[i] /\ v[j + 1] = w[j]
    BY <1>1, <1>3, <1>7
  <2>2. Order(v[i + 1]) < Order(v[j + 1])
    BY <1>2, <2>1 DEF Queue
  <2> QED
    BY <2>1, <2>2
<1>8. ASSUME NEW x \in EventRec, Genuine(S, x), o < Order(x), Order(x) <= m
      PROVE  \E i \in 1..Len(w) : w[i] = x
  <2>1. Order(x) \in Nat /\ c < Order(x)
    BY <1>4, <1>5, <1>8, OrderNat
  <2>2. PICK i \in 1..Len(v) : v[i] = x
    BY <1>2, <1>8, <2>1 DEF Queue
  <2>3. i # 1
    BY <1>1, <1>2, <1>4, <1>8, <2>2
  <2>4. i - 1 \in 1..Len(w) /\ (i - 1) + 1 = i
    BY <1>1, <2>3
  <2>5. w[i - 1] = x
    BY <1>1, <2>2, <2>4
  <2> QED
    BY <2>4, <2>5
<1>9. ASSUME NEW x \in EventRec, Genuine(S, x), c < Order(x), Order(x) < o
      PROVE  FALSE
  <2>1. Order(x) \in Nat /\ Order(x) <= m
    BY <1>4, <1>5, <1>9, OrderNat
  <2>2. PICK i \in 1..Len(v) : v[i] = x
    BY <1>2, <1>9, <2>1 DEF Queue
  <2>3. CASE i = 1
    BY <1>1, <1>2, <1>4, <1>9, <2>1, <2>2, <2>3
  <2>4. CASE i # 1
    <3>1. 1 < i
      BY <1>1, <2>4
    <3>2. Order(v[1]) < Order(v[i])
      BY <1>2, <1>3, <3>1 DEF Queue
    <3> QED
      BY <1>1, <1>2, <1>4, <1>9, <2>1, <2>2, <3>2
  <2> QED
    BY <2>3, <2>4
<1>10. Nothing(S, c, o)
  BY <1>9 DEF Nothing
<1>11. Queue(S, w, o, m)
  BY <1>4, <1>5, <1>6, <1>7, <1>8 DEF Queue
<1> QED
  BY <1>2, <1>5, <1>10, <1>11

\* The two sides of a sequence of events, and the samples it holds.
ClientG == [e \in EventRec |-> IF IsClient(e) THEN <<e>> ELSE <<>>]
ReplyG  == [e \in EventRec |-> IF IsClient(e) THEN <<>> ELSE <<e>>]
DataG   == [e \in EventRec |-> IF e.ev \in {"rhead", "rbody"} THEN <<e.at>> ELSE <<>>]

ClientOf(s) == FlatMap(s, ClientG)
ReplyOf(s)  == FlatMap(s, ReplyG)
DataOf(s)   == FlatMap(s, DataG)

\* The two sides of the queue, and the data in it, are sequences.
LEMMA SideType ==
  /\ ClientG \in [EventRec -> Seq(EventRec)]
  /\ ReplyG \in [EventRec -> Seq(EventRec)]
  /\ DataG \in [EventRec -> Seq(Nat)]
<1>1. ASSUME NEW e \in EventRec PROVE <<e>> \in Seq(EventRec) /\ <<>> \in Seq(EventRec)
  OBVIOUS
<1>2. ASSUME NEW e \in EventRec PROVE <<e.at>> \in Seq(Nat) /\ <<>> \in Seq(Nat)
  BY DEF EventRec
<1> QED
  BY <1>1, <1>2 DEF ClientG, ReplyG, DataG

\* Both sides of a concatenation, of one event and of none.
LEMMA SideConcat ==
  ASSUME NEW s \in Seq(EventRec), NEW t \in Seq(EventRec)
  PROVE  /\ ClientOf(s) \in Seq(EventRec) /\ ReplyOf(s) \in Seq(EventRec)
         /\ DataOf(s) \in Seq(Nat)
         /\ ClientOf(s \o t) = ClientOf(s) \o ClientOf(t)
         /\ ReplyOf(s \o t) = ReplyOf(s) \o ReplyOf(t)
         /\ DataOf(s \o t) = DataOf(s) \o DataOf(t)
<1>1. ClientOf(s) \in Seq(EventRec) /\ ClientOf(s \o t) = ClientOf(s) \o ClientOf(t)
  BY SideType, MapType, MapConcat, ZenonT(30) DEF ClientOf
<1>2. ReplyOf(s) \in Seq(EventRec) /\ ReplyOf(s \o t) = ReplyOf(s) \o ReplyOf(t)
  BY SideType, MapType, MapConcat, ZenonT(30) DEF ReplyOf
<1>3. DataOf(s) \in Seq(Nat) /\ DataOf(s \o t) = DataOf(s) \o DataOf(t)
  BY SideType, MapType, MapConcat, ZenonT(30) DEF DataOf
<1> QED
  BY <1>1, <1>2, <1>3

\* The sides of a queue of one event.
LEMMA SideOne ==
  ASSUME NEW e \in EventRec
  PROVE  /\ ClientOf(<<e>>) = IF IsClient(e) THEN <<e>> ELSE <<>>
         /\ ReplyOf(<<e>>) = IF IsClient(e) THEN <<>> ELSE <<e>>
         /\ DataOf(<<e>>) = IF e.ev \in {"rhead", "rbody"} THEN <<e.at>> ELSE <<>>
<1>1. ClientOf(<<e>>) = ClientG[e]
  BY SideType, MapOne DEF ClientOf
<1>2. ReplyOf(<<e>>) = ReplyG[e]
  BY SideType, MapOne DEF ReplyOf
<1>3. DataOf(<<e>>) = DataG[e]
  BY SideType, MapOne DEF DataOf
<1> QED
  BY <1>1, <1>2, <1>3 DEF ClientG, ReplyG, DataG

\* An event of the client, alone in the queue.
LEMMA ClientOne ==
  ASSUME NEW e \in EventRec, IsClient(e)
  PROVE  ClientOf(<<e>>) = <<e>> /\ ReplyOf(<<e>>) = <<>> /\ <<e>> \in Seq(EventRec)
<1>1. ClientOf(<<e>>) = <<e>>
  BY SideOne
<1>2. ReplyOf(<<e>>) = <<>>
  BY SideOne
<1>3. <<e>> \in Seq(EventRec)
  OBVIOUS
<1> QED
  BY <1>1, <1>2, <1>3

\* An event of the backend's, alone in the queue.
LEMMA ReplyOne ==
  ASSUME NEW e \in EventRec, ~IsClient(e)
  PROVE  ClientOf(<<e>>) = <<>> /\ ReplyOf(<<e>>) = <<e>> /\ <<e>> \in Seq(EventRec)
<1>1. ClientOf(<<e>>) = <<>>
  BY SideOne
<1>2. ReplyOf(<<e>>) = <<e>>
  BY SideOne
<1>3. <<e>> \in Seq(EventRec)
  OBVIOUS
<1> QED
  BY <1>1, <1>2, <1>3

\* Nothing is queued.
LEMMA SideEmpty == ClientOf(<<>>) = <<>> /\ ReplyOf(<<>>) = <<>> /\ DataOf(<<>>) = <<>>
<1>1. \A G : FlatMap(<<>>, G) = <<>>
  BY DEF FlatMap, FlattenSeq
<1> QED
  BY <1>1 DEF ClientOf, ReplyOf, DataOf

\* The first event taken off a queue.
LEMMA SideHead ==
  ASSUME NEW s \in Seq(EventRec), s # <<>>
  PROVE  /\ Head(s) \in EventRec /\ Tail(s) \in Seq(EventRec) /\ s = <<Head(s)>> \o Tail(s)
         /\ Len(Tail(s)) = Len(s) - 1 /\ Head(s) = s[1]
         /\ IsClient(Head(s)) => /\ ClientOf(s) = <<Head(s)>> \o ClientOf(Tail(s))
                                 /\ ReplyOf(s) = ReplyOf(Tail(s))
         /\ ~IsClient(Head(s)) => /\ ClientOf(s) = ClientOf(Tail(s))
                                  /\ ReplyOf(s) = <<Head(s)>> \o ReplyOf(Tail(s))
<1> DEFINE e == Head(s)
           t == Tail(s)
<1>1. e \in EventRec /\ t \in Seq(EventRec) /\ Len(t) = Len(s) - 1 /\ e = s[1]
      /\ Len(s) \in Nat /\ Len(s) # 0 /\ \A i \in 1..Len(t) : t[i] = s[i + 1]
  BY HeadTailProperties, EmptySeq
<1> HIDE DEF e, t
<1>2. /\ <<e>> \o t \in Seq(EventRec) /\ Len(<<e>> \o t) = Len(t) + 1 /\ Len(t) \in Nat
      /\ (<<e>> \o t)[1] = e
      /\ \A i \in 1..Len(t) : (<<e>> \o t)[i + 1] = t[i]
  BY <1>1, ConsFacts
<1>3. s = <<e>> \o t
  <2> DEFINE v == <<e>> \o t
  <2> HIDE DEF v
  <2>1. Len(v) = Len(s) /\ v \in Seq(EventRec)
    BY <1>1, <1>2 DEF v
  <2>2. ASSUME NEW i \in 1..Len(s) PROVE s[i] = v[i]
    <3>1. CASE i = 1
      BY <1>1, <1>2, <3>1 DEF v
    <3>2. CASE i # 1
      <4>1. i - 1 \in 1..Len(t) /\ (i - 1) + 1 = i
        BY <1>1, <3>2
      <4> QED
        BY <1>1, <1>2, <4>1 DEF v
    <3> QED
      BY <3>1, <3>2
  <2>3. s = v
    BY <2>1, <2>2, SeqEqual
  <2> QED
    BY <2>3 DEF v
<1> DEFINE o == <<e>>
<1>4. o \in Seq(EventRec)
  BY <1>1
<1>5. /\ ClientOf(o) = (IF IsClient(e) THEN <<e>> ELSE <<>>)
      /\ ReplyOf(o) = (IF IsClient(e) THEN <<>> ELSE <<e>>)
  BY <1>1, SideOne
<1> HIDE DEF o
<1>6. ClientOf(o \o t) = ClientOf(o) \o ClientOf(t) /\ ReplyOf(o \o t) = ReplyOf(o) \o ReplyOf(t)
      /\ ClientOf(t) \in Seq(EventRec) /\ ReplyOf(t) \in Seq(EventRec)
  BY <1>1, <1>4, SideConcat
<1>7. <<>> \o ClientOf(t) = ClientOf(t) /\ <<>> \o ReplyOf(t) = ReplyOf(t)
  BY <1>6, ConcatEmptySeq
<1>8. s = o \o t
  BY <1>3 DEF o
<1>9. IsClient(e) => ClientOf(s) = <<e>> \o ClientOf(t) /\ ReplyOf(s) = ReplyOf(t)
  BY <1>5, <1>6, <1>7, <1>8
<1>10. ~IsClient(e) => ClientOf(s) = ClientOf(t) /\ ReplyOf(s) = <<e>> \o ReplyOf(t)
  BY <1>5, <1>6, <1>7, <1>8
<1> QED
  BY <1>1, <1>3, <1>9, <1>10 DEF e, t

\* Nothing on the backend's side: every event is the client's.
LEMMA ReplyNone ==
  ASSUME NEW s \in Seq(EventRec)
  PROVE  ReplyOf(s) = <<>> <=> \A i \in 1..Len(s) : IsClient(s[i])
<1>1. ASSUME \A i \in 1..Len(s) : IsClient(s[i]) PROVE ReplyOf(s) = <<>>
  <2>1. ASSUME NEW i \in 1..Len(s) PROVE ReplyG[s[i]] = <<>>
    <3>1. s[i] \in EventRec
      BY ElementOfSeq
    <3> QED
      BY <1>1, <3>1 DEF ReplyG
  <2> QED
    BY <2>1, SideType, MapNothing DEF ReplyOf
<1>2. ASSUME NEW i \in 1..Len(s), ~IsClient(s[i]) PROVE ReplyOf(s) # <<>>
  <2> DEFINE e == s[i]
             a == SubSeq(s, 1, i - 1)
             b == SubSeq(s, i + 1, Len(s))
             o == <<e>>
  <2>1. Len(s) \in Nat /\ i \in Nat /\ i - 1 \in Int /\ i + 1 \in Int /\ 1 \in Int
        /\ 1 \in 1..Len(s) /\ i \in 1..Len(s) /\ 1 \in 1..(Len(s) + 1)
        /\ i \in (1 - 1)..Len(s) /\ Len(s) \in i..Len(s)
    OBVIOUS
  <2>2. e \in EventRec /\ o \in Seq(EventRec)
    BY ElementOfSeq
  <2>3. a \in Seq(EventRec) /\ b \in Seq(EventRec)
    <3>1. \A j \in 1..(i - 1) : s[j] \in EventRec
      BY <2>1, ElementOfSeq
    <3>2. \A j \in (i + 1)..Len(s) : s[j] \in EventRec
      BY <2>1, ElementOfSeq
    <3> QED
      BY <2>1, <3>1, <3>2, SubSeqProperties
  <2>4. SubSeq(s, 1, i) = a \o o
    BY <2>1, SubSeqRecursiveSecond
  <2>5. SubSeq(s, 1, i) \o b = SubSeq(s, 1, Len(s))
    BY <2>1, ConcatAdjacentSubSeq
  <2>6. SubSeq(s, 1, Len(s)) = s
    BY SubSeqFull
  <2>7. s = (a \o o) \o b
    BY <2>4, <2>5, <2>6
  <2>8. ReplyOf(o) = <<e>>
    BY <1>2, <2>2, SideOne
  <2> HIDE DEF a, b, o
  <2> DEFINE ao == a \o o
  <2>9. ao \in Seq(EventRec)
    BY <2>2, <2>3, ConcatProperties
  <2>10. ReplyOf(ao) = ReplyOf(a) \o ReplyOf(o) /\ ReplyOf(a) \in Seq(EventRec)
    BY <2>2, <2>3, SideConcat
  <2> HIDE DEF ao
  <2>11. ReplyOf(s) = ReplyOf(ao) \o ReplyOf(b)
    BY <2>3, <2>7, <2>9, SideConcat DEF ao
  <2> HIDE DEF e
  <2>12. ReplyOf(ao) # <<>>
    <3> DEFINE ra == ReplyOf(a)
               ro == ReplyOf(o)
    <3>1. ra \in Seq(EventRec) /\ ro \in Seq(EventRec) /\ Len(ro) = 1
      BY <2>2, <2>8, <2>10
    <3> HIDE DEF ra, ro
    <3>5. Len(ra) \in Nat
      BY <3>1
    <3>2. Len(ra \o ro) = Len(ra) + Len(ro)
      BY <3>1, ConcatProperties
    <3>3. Len(ra \o ro) # 0
      BY <3>1, <3>2, <3>5
    <3>4. Len(<<>>) = 0
      OBVIOUS
    <3> QED
      BY <2>10, <3>3, <3>4 DEF ra, ro
  <2> DEFINE x == ReplyOf(ao)
             z == ReplyOf(b)
  <2>13. x \in Seq(EventRec) /\ z \in Seq(EventRec) /\ x # <<>>
    BY <2>3, <2>9, <2>12, SideConcat
  <2> HIDE DEF x, z
  <2>14. x \o z # <<>>
    BY <2>13, ConcatEqualIffEmpty
  <2> QED
    BY <2>11, <2>14 DEF x, z
<1> QED
  BY <1>1, <1>2

-----------------------------------------------------------------------------
\* What the parser makes of one token.
LEMMA TokenEvents ==
  ASSUME load \in Loads, NEW p \in 1..Len(Script)
  PROVE  /\ Script[p].kind = "h2" => RequestEvents(p) = <<Event("switch", p)>>
         /\ Script[p].kind \in HB /\ ~Script[p].last =>
              RequestEvents(p) = <<Event(Script[p].kind, p)>>
         /\ Script[p].kind \in HB /\ Script[p].last =>
              RequestEvents(p) = <<Event(Script[p].kind, p)>> \o <<Event("end", p)>>
         /\ Script[p].kind \notin HB \cup {"h2"} => RequestEvents(p) = <<>>
<1>1. Script[p].kind = "h2" => Script[p].kind \notin {"head", "body"}
  OBVIOUS
<1>2. Script[p].kind = "h2" => RequestEvents(p) = <<Event("switch", p)>>
  BY <1>1, Zenon DEF RequestEvents
<1>3. Script[p].kind \in {"head", "body"} =>
        RequestEvents(p) = <<Event(Script[p].kind, p)>>
                             \o (IF Script[p].last THEN <<Event("end", p)>> ELSE <<>>)
  BY <1>1, Zenon DEF RequestEvents
<1>4. Script[p].kind # "h2" /\ Script[p].kind \notin {"head", "body"} =>
        RequestEvents(p) = <<>>
  BY Zenon DEF RequestEvents
<1>5. <<Event(Script[p].kind, p)>> \o <<>> = <<Event(Script[p].kind, p)>>
  OBVIOUS
<1> QED
  BY <1>2, <1>3, <1>4, <1>5 DEF HB

\* The events of one token of the client.
LEMMA TokenSides ==
  ASSUME load \in Loads, NEW p \in 1..Len(Script)
  PROVE  /\ RequestEvents(p) \in Seq(EventRec)
         /\ Script[p].kind # "h2" => ReplyOf(RequestEvents(p)) = <<>>
         /\ Script[p].kind \in HB => ClientOf(RequestEvents(p)) = RequestEvents(p)
         /\ Script[p].kind \notin HB => ClientOf(RequestEvents(p)) = <<>>
<1> DEFINE k == Script[p].kind
           e == Event(k, p)
           f == Event("end", p)
           g == Event("switch", p)
<1>0. p \in Nat /\ k \in {"head", "body", "raw", "bad", "h2"}
  BY ScriptFacts, TokenFacts
<1>1. f \in EventRec /\ g \in EventRec /\ IsClient(f) /\ ~IsClient(g)
  BY <1>0 DEF EventRec, EventKind, Event, IsClient
<1>2. k \in HB => e \in EventRec /\ IsClient(e)
  BY <1>0 DEF EventRec, EventKind, Event, IsClient, HB
<1>3. k = "h2" => RequestEvents(p) = <<g>>
  BY TokenEvents
<1>4. k \in HB /\ ~Script[p].last => RequestEvents(p) = <<e>>
  BY TokenEvents
<1>5. k \in HB /\ Script[p].last => RequestEvents(p) = <<e>> \o <<f>>
  BY TokenEvents
<1>6. k \notin HB \cup {"h2"} => RequestEvents(p) = <<>>
  BY TokenEvents
<1> HIDE DEF k, e, f, g
<1>7. CASE k = "h2"
  <2>1. ClientOf(<<g>>) = <<>> /\ <<g>> \in Seq(EventRec)
    BY <1>1, ReplyOne
  <2>2. k \notin HB
    BY <1>7 DEF HB
  <2> QED
    BY <1>3, <1>7, <2>1, <2>2 DEF k
<1>8. CASE k \in HB /\ ~Script[p].last
  <2>1. ClientOf(<<e>>) = <<e>> /\ ReplyOf(<<e>>) = <<>> /\ <<e>> \in Seq(EventRec)
    BY <1>2, <1>8, ClientOne
  <2> QED
    BY <1>4, <1>8, <2>1 DEF k
<1>9. CASE k \in HB /\ Script[p].last
  <2>1. ClientOf(<<e>>) = <<e>> /\ ReplyOf(<<e>>) = <<>> /\ <<e>> \in Seq(EventRec)
    BY <1>2, <1>9, ClientOne
  <2>2. ClientOf(<<f>>) = <<f>> /\ ReplyOf(<<f>>) = <<>> /\ <<f>> \in Seq(EventRec)
    BY <1>1, ClientOne
  <2> DEFINE a == <<e>>
             b == <<f>>
  <2>3. a \in Seq(EventRec) /\ b \in Seq(EventRec) /\ ClientOf(a) = a /\ ClientOf(b) = b
        /\ ReplyOf(a) = <<>> /\ ReplyOf(b) = <<>> /\ RequestEvents(p) = a \o b
    BY <1>5, <1>9, <2>1, <2>2
  <2> HIDE DEF a, b
  <2>6. ClientOf(a \o b) = ClientOf(a) \o ClientOf(b)
    BY <2>3, SideConcat
  <2>7. ReplyOf(a \o b) = ReplyOf(a) \o ReplyOf(b)
    BY <2>3, SideConcat
  <2>8. a \o b \in Seq(EventRec)
    BY <2>3, ConcatProperties
  <2>4. ClientOf(a \o b) = a \o b /\ ReplyOf(a \o b) = <<>> \o <<>> /\ a \o b \in Seq(EventRec)
    BY <2>3, <2>6, <2>7, <2>8
  <2>5. <<>> \o <<>> = <<>>
    OBVIOUS
  <2> QED
    BY <1>9, <2>3, <2>4, <2>5 DEF k
<1>10. CASE k \notin HB \cup {"h2"}
  <2>1. <<>> \in Seq(EventRec)
    OBVIOUS
  <2> QED
    BY <1>6, <1>10, <2>1, SideEmpty DEF k
<1> QED
  BY <1>7, <1>8, <1>9, <1>10

\* An event of a token is at its place.
LEMMA TokenGenuine ==
  ASSUME load \in Loads, NEW p \in 1..Len(Script), Script[p].kind \in HB
  PROVE  /\ Genuine(Script, Event(Script[p].kind, p))
         /\ Order(Event(Script[p].kind, p)) = 2 * p
         /\ Script[p].last => Genuine(Script, Event("end", p))
         /\ Order(Event("end", p)) = 2 * p + 1
<1>1. p \in Nat /\ Script[p].kind \in {"head", "body"}
  BY ScriptFacts DEF HB
<1> QED
  BY <1>1 DEF Genuine, Event, EventRec, EventKind, Order, HB

\* What is genuine past the tokens accepted so far, up to the next one.
LEMMA NextGenuine ==
  ASSUME load \in Loads, NEW n \in Nat, NEW e, Genuine(Script, e),
         2 * n + 1 < Order(e), Order(e) < 2 * (n + 1) + 2
  PROVE  /\ e.at = n + 1 /\ Script[n + 1].kind \in HB
         /\ \/ e = Event(Script[n + 1].kind, n + 1)
            \/ e = Event("end", n + 1) /\ Script[n + 1].last
<1>1. e.at \in Nat
  BY DEF Genuine, EventRec
<1>2. e.at = n + 1
  BY <1>1 DEF Order
<1>3. e \in EventRec
  BY DEF Genuine
<1> QED
  BY <1>2, <1>3 DEF Genuine, Event, EventRec

\* One more token is accepted.
LEMMA QueueToken ==
  ASSUME load \in Loads, NEW n \in Nat, n + 1 \in 1..Len(Script),
         NEW w \in Seq(EventRec), NEW c, Queue(Script, w, c, 2 * n + 1)
  PROVE  Queue(Script, w \o ClientOf(RequestEvents(n + 1)), c, 2 * (n + 1) + 1)
<1> DEFINE p == n + 1
           k == Script[p].kind
           e == Event(k, p)
           f == Event("end", p)
<1>0. p \in Nat /\ p \in 1..Len(Script) /\ 2 * p \in Nat /\ 2 * p + 1 \in Nat
      /\ 2 * n + 1 \in Nat /\ 2 * n + 1 < 2 * p /\ 2 * n + 1 <= 2 * p + 1
      /\ 2 * p < 2 * p + 1 /\ 2 * p <= 2 * p + 1 /\ (2 * p + 1) + 1 = 2 * p + 2
  OBVIOUS
<1>1. \A x \in EventRec : Genuine(Script, x) /\ 2 * n + 1 < Order(x) /\ Order(x) < 2 * p + 2 =>
        x.at = p /\ k \in HB /\ (x = e \/ (x = f /\ Script[p].last))
  BY NextGenuine
<1>2. k \in HB => /\ Genuine(Script, e) /\ Order(e) = 2 * p
                  /\ Script[p].last => Genuine(Script, f)
                  /\ Order(f) = 2 * p + 1
  BY <1>0, TokenGenuine
<1>3. RequestEvents(p) = (IF k \in HB THEN IF Script[p].last THEN <<e>> \o <<f>> ELSE <<e>>
                          ELSE RequestEvents(p))
  BY <1>0, TokenEvents
<1>4. /\ k \in HB => ClientOf(RequestEvents(p)) = RequestEvents(p)
      /\ k \notin HB => ClientOf(RequestEvents(p)) = <<>>
  BY <1>0, TokenSides
<1>5. w \o <<>> = w
  BY ConcatEmptySeq
<1>6. e \in EventRec \/ k \notin HB
  BY <1>2 DEF Genuine
<1>11. \A x \in EventRec : Order(x) \in Nat
  BY OrderNat
<1> HIDE DEF p, k, e, f
<1>7. CASE k \notin HB
  <2>1. Nothing(Script, 2 * n + 1, (2 * p + 1) + 1)
    BY <1>0, <1>1, <1>7 DEF Nothing
  <2>2. Queue(Script, w, c, 2 * p + 1)
    BY <1>0, <2>1, QueueSkip
  <2> QED
    BY <1>4, <1>5, <1>7, <2>2 DEF p
<1>8. CASE k \in HB
  <2>1. Nothing(Script, 2 * n + 1, Order(e))
    <3>1. ASSUME NEW x \in EventRec, Genuine(Script, x), 2 * n + 1 < Order(x), Order(x) < 2 * p
          PROVE  FALSE
      <4>1. Order(x) \in Nat /\ Order(x) < 2 * p + 2
        BY <1>0, <1>11, <3>1
      <4>2. x = e \/ x = f
        BY <1>1, <3>1, <4>1
      <4> QED
        BY <1>0, <1>2, <1>8, <3>1, <4>2
    <3> QED
      BY <1>2, <1>8, <3>1 DEF Nothing
  <2>2. Queue(Script, Append(w, e), c, Order(e))
    BY <1>0, <1>2, <1>8, <2>1, QueueAppend
  <2>3. Queue(Script, Append(w, e), c, 2 * p)
    BY <1>2, <1>8, <2>2
  <2>4. Append(w, e) \in Seq(EventRec) /\ w \o <<e>> = Append(w, e)
    BY <1>6, <1>8, AppendFacts
  <2>5. CASE ~Script[p].last
    <3>1. ASSUME NEW x \in EventRec, Genuine(Script, x), 2 * p < Order(x), Order(x) < (2 * p + 1) + 1
          PROVE  FALSE
      <4>1. Order(x) \in Nat /\ 2 * n + 1 < Order(x) /\ Order(x) < 2 * p + 2
        BY <1>0, <1>11, <3>1
      <4>2. x = e
        BY <1>1, <2>5, <3>1, <4>1
      <4> QED
        BY <1>0, <1>2, <1>8, <3>1, <4>2
    <3>2. Nothing(Script, 2 * p, (2 * p + 1) + 1)
      BY <3>1 DEF Nothing
    <3>3. Queue(Script, Append(w, e), c, 2 * p + 1)
      BY <1>0, <2>3, <3>2, QueueSkip
    <3> QED
      BY <1>3, <1>4, <1>8, <2>4, <2>5, <3>3 DEF p
  <2>6. CASE Script[p].last
    <3> DEFINE v == Append(w, e)
    <3>0. v \in Seq(EventRec) /\ Queue(Script, v, c, 2 * p)
      BY <2>3, <2>4
    <3> HIDE DEF v
    <3>1. ASSUME NEW x \in EventRec, Genuine(Script, x), 2 * p < Order(x), Order(x) < 2 * p + 1
          PROVE  FALSE
      BY <1>0, <1>11, <3>1
    <3>2. Nothing(Script, 2 * p, Order(f))
      BY <1>2, <1>8, <3>1 DEF Nothing
    <3>3. Genuine(Script, f) /\ 2 * p < Order(f) /\ Order(f) = 2 * p + 1
      BY <1>0, <1>2, <1>8, <2>6
    <3>4. Queue(Script, Append(v, f), c, Order(f))
      BY <3>0, <3>2, <3>3, QueueAppend
    <3>5. Append(v, f) = w \o (<<e>> \o <<f>>)
      <4>1. e \in EventRec /\ f \in EventRec /\ <<e>> \in Seq(EventRec)
        BY <1>6, <1>8, <3>3 DEF Genuine
      <4> DEFINE u == <<e>>
      <4>2. u \in Seq(EventRec) /\ v = w \o u
        BY <2>4, <4>1 DEF v
      <4> HIDE DEF u
      <4>3. w \o (u \o <<f>>) = Append(w \o u, f)
        BY <4>1, <4>2, ConcatAppend
      <4> QED
        BY <4>2, <4>3 DEF u
    <3> QED
      BY <1>3, <1>4, <1>8, <2>6, <3>3, <3>4, <3>5 DEF p
  <2> QED
    BY <2>5, <2>6
<1> QED
  BY <1>7, <1>8

\* One more token is framed.
LEMMA FramingStep ==
  ASSUME load \in Loads, NEW a \in Nat, NEW k \in Nat, a + k + 1 <= Len(Script)
  PROVE  /\ Framing(a, k + 1) = Framing(a, k) \o RequestEvents(a + k + 1)
         /\ Leftover(a, k + 1) = Leftover(a, k) \o RawUp(a + k + 1)
<1>0. Len(Script) \in Nat
  BY ScriptFacts
<1> DEFINE f == [i \in 1..(k + 1) |-> RequestEvents(a + i)]
           g == [i \in 1..(k + 1) |-> RawUp(a + i)]
<1>1. ASSUME NEW i \in 1..(k + 1)
      PROVE  RequestEvents(a + i) \in Seq(EventRec) /\ RawUp(a + i) \in Seq(Nat)
  <2>1. a + i \in 1..Len(Script) /\ a + i \in Nat
    BY <1>0
  <2>2. RequestEvents(a + i) \in Seq(EventRec)
    BY <2>1, TokenSides
  <2>3. RawUp(a + i) \in Seq(Nat)
    BY <2>1 DEF RawUp
  <2> QED
    BY <2>2, <2>3
<1>2. \A i \in 1..(k + 1) : f[i] = RequestEvents(a + i) /\ g[i] = RawUp(a + i)
  OBVIOUS
<1>3. /\ [i \in 1..(k + 1) |-> f[i]] = [i \in 1..(k + 1) |-> RequestEvents(a + i)]
      /\ [i \in 1..k |-> f[i]] = [i \in 1..k |-> RequestEvents(a + i)]
      /\ [i \in 1..(k + 1) |-> g[i]] = [i \in 1..(k + 1) |-> RawUp(a + i)]
      /\ [i \in 1..k |-> g[i]] = [i \in 1..k |-> RawUp(a + i)]
  OBVIOUS
<1> HIDE DEF f, g
<1>4. k + 1 \in 1..(k + 1) /\ a + (k + 1) = a + k + 1
  OBVIOUS
<1>5. FlattenSeq([i \in 1..(k + 1) |-> f[i]]) =
        FlattenSeq([i \in 1..k |-> f[i]]) \o f[k + 1]
  BY <1>1, <1>2, FlattenStep
<1>6. FlattenSeq([i \in 1..(k + 1) |-> g[i]]) =
        FlattenSeq([i \in 1..k |-> g[i]]) \o g[k + 1]
  BY <1>1, <1>2, FlattenStep
<1>7. f[k + 1] = RequestEvents(a + k + 1) /\ g[k + 1] = RawUp(a + k + 1)
  BY <1>2, <1>4
<1> QED
  BY <1>3, <1>5, <1>6, <1>7 DEF Framing, Leftover

\* No token, no event.
LEMMA FramingZero == \A a : Framing(a, 0) = <<>> /\ Leftover(a, 0) = <<>>
<1> TAKE a
<1>1. [i \in 1..0 |-> RequestEvents(a + i)] = <<>> /\ [i \in 1..0 |-> RawUp(a + i)] = <<>>
  OBVIOUS
<1>2. FlattenSeq(<<>>) = <<>>
  BY DEF FlattenSeq
<1> QED
  BY <1>1, <1>2 DEF Framing, Leftover

NoPreface == \A p \in 1..Len(Script) : Script[p].kind # "h2"

\* k more tokens are accepted: the queue takes their events, all of them the
\* client's unless one is an h2 preface.
LEMMA FramingQueue ==
  ASSUME load \in Loads, NEW n \in Nat, NEW k \in Nat, n + k <= Len(Script)
  PROVE  /\ Framing(n, k) \in Seq(EventRec)
         /\ NoPreface => ReplyOf(Framing(n, k)) = <<>>
         /\ \A w \in Seq(EventRec), c \in Nat : Queue(Script, w, c, 2 * n + 1) =>
              Queue(Script, w \o ClientOf(Framing(n, k)), c, 2 * (n + k) + 1)
<1> DEFINE Ok(j) ==
             /\ Framing(n, j) \in Seq(EventRec)
             /\ NoPreface => ReplyOf(Framing(n, j)) = <<>>
             /\ \A w \in Seq(EventRec), c \in Nat : Queue(Script, w, c, 2 * n + 1) =>
                  Queue(Script, w \o ClientOf(Framing(n, j)), c, 2 * (n + j) + 1)
           T == {j \in Nat : n + j <= Len(Script) => Ok(j)}
<1>0. Len(Script) \in Nat
  BY ScriptFacts
<1>1. 0 \in T
  <2>1. Framing(n, 0) = <<>> /\ ClientOf(<<>>) = <<>> /\ ReplyOf(<<>>) = <<>>
        /\ <<>> \in Seq(EventRec) /\ n + 0 = n
    BY FramingZero, SideEmpty
  <2>2. \A w \in Seq(EventRec) : w \o <<>> = w
    BY ConcatEmptySeq
  <2> QED
    BY <2>1, <2>2
<1>2. ASSUME NEW j \in T PROVE j + 1 \in T
  <2> SUFFICES ASSUME n + (j + 1) <= Len(Script) PROVE Ok(j + 1)
    OBVIOUS
  <2>1. j \in Nat /\ n + j <= Len(Script) /\ n + j + 1 <= Len(Script)
        /\ n + j \in Nat /\ (n + j) + 1 \in 1..Len(Script) /\ n + (j + 1) = (n + j) + 1
    BY <1>0
  <2>2. Ok(j)
    BY <2>1
  <2> DEFINE p == (n + j) + 1
             r == RequestEvents(p)
             f == Framing(n, j)
  <2>3. Framing(n, j + 1) = f \o r
    BY <2>1, FramingStep
  <2>4. r \in Seq(EventRec) /\ (NoPreface => ReplyOf(r) = <<>>) /\ ClientOf(r) \in Seq(EventRec)
    <3>1. r \in Seq(EventRec) /\ (Script[p].kind # "h2" => ReplyOf(r) = <<>>)
      BY <2>1, TokenSides
    <3> QED
      BY <2>1, <3>1, SideConcat DEF NoPreface
  <2>5. f \in Seq(EventRec) /\ (NoPreface => ReplyOf(f) = <<>>) /\ ClientOf(f) \in Seq(EventRec)
    BY <2>2, SideConcat
  <2>6. \A w \in Seq(EventRec), c \in Nat : Queue(Script, w, c, 2 * n + 1) =>
          Queue(Script, w \o ClientOf(f), c, 2 * (n + j) + 1)
    BY <2>2
  <2>7. \A w \in Seq(EventRec), c \in Nat : Queue(Script, w, c, 2 * (n + j) + 1) =>
          Queue(Script, w \o ClientOf(r), c, 2 * p + 1)
    BY <2>1, QueueToken
  <2> HIDE DEF p, r, f, T
  <2>8. f \o r \in Seq(EventRec) /\ ClientOf(f \o r) = ClientOf(f) \o ClientOf(r)
    BY <2>4, <2>5, SideConcat, ConcatProperties
  <2>9. ReplyOf(f \o r) = ReplyOf(f) \o ReplyOf(r)
    BY <2>4, <2>5, SideConcat
  <2>10. <<>> \o <<>> = <<>>
    OBVIOUS
  <2>11. ASSUME NEW w \in Seq(EventRec), NEW c \in Nat, Queue(Script, w, c, 2 * n + 1)
         PROVE  Queue(Script, w \o ClientOf(f \o r), c, 2 * p + 1)
    <3> DEFINE x == ClientOf(f)
               y == ClientOf(r)
    <3>1. x \in Seq(EventRec) /\ y \in Seq(EventRec)
      BY <2>4, <2>5
    <3>2. Queue(Script, w \o x, c, 2 * (n + j) + 1)
      BY <2>6, <2>11
    <3> HIDE DEF x
    <3>3. w \o x \in Seq(EventRec)
      BY <3>1, ConcatProperties
    <3>4. Queue(Script, (w \o x) \o y, c, 2 * p + 1)
      BY <2>7, <3>2, <3>3
    <3> HIDE DEF y
    <3>5. (w \o x) \o y = w \o (x \o y)
      BY <3>1, ConcatAssociative
    <3> QED
      BY <2>8, <3>4, <3>5 DEF x, y
  <2> QED
    BY <2>1, <2>3, <2>4, <2>5, <2>8, <2>9, <2>10, <2>11 DEF p
<1> HIDE DEF T
<1>3. T = Nat
  <2>1. T \in SUBSET Nat
    BY DEF T
  <2> QED
    BY <1>1, <1>2, <2>1, Inductive
<1>4. k \in T
  BY <1>3
<1> QED
  BY <1>4 DEF T

-----------------------------------------------------------------------------
(* Runs, put together.                                                     *)

\* A run that goes on where another stops.
LEMMA RunConcat ==
  ASSUME NEW a \in Nat, NEW b \in Nat, NEW c \in Nat, a <= b, b <= c
  PROVE  Run(a, b) \o Run(b, c) = Run(a, c)
<1> DEFINE r == Run(a, b)
           s == Run(b, c)
           t == Run(a, c)
<1>1. r \in Seq(Nat) /\ Len(r) = b - a /\ \A i \in 1..(b - a) : r[i] = a + i
  BY RunFacts
<1>2. s \in Seq(Nat) /\ Len(s) = c - b /\ \A i \in 1..(c - b) : s[i] = b + i
  BY RunFacts
<1>3. t \in Seq(Nat) /\ Len(t) = c - a /\ \A i \in 1..(c - a) : t[i] = a + i
  BY RunFacts
<1> HIDE DEF r, s, t
<1>4. /\ r \o s \in Seq(Nat) /\ Len(r \o s) = Len(r) + Len(s)
      /\ \A i \in 1..(Len(r) + Len(s)) : (r \o s)[i] = IF i <= Len(r) THEN r[i] ELSE s[i - Len(r)]
  BY <1>1, <1>2, ConcatProperties
<1>5. Len(r \o s) = c - a
  BY <1>1, <1>2, <1>4
<1>6. ASSUME NEW i \in 1..(c - a) PROVE (r \o s)[i] = t[i]
  <2>1. i \in 1..(Len(r) + Len(s))
    BY <1>1, <1>2
  <2>2. CASE i <= b - a
    <3>1. i \in 1..(b - a) /\ i <= Len(r)
      BY <1>1, <2>2
    <3> QED
      BY <1>1, <1>3, <1>4, <2>1, <3>1
  <2>3. CASE ~(i <= b - a)
    <3>1. i - (b - a) \in 1..(c - b) /\ ~(i <= Len(r)) /\ b + (i - (b - a)) = a + i
      BY <1>1, <2>3
    <3> QED
      BY <1>1, <1>2, <1>3, <1>4, <2>1, <3>1
  <2> QED
    BY <2>2, <2>3
<1>7. r \o s = t
  BY <1>3, <1>4, <1>5, <1>6, SeqEqual
<1> QED
  BY <1>7 DEF r, s, t

\* A run of one.
LEMMA RunOne ==
  ASSUME NEW a \in Nat
  PROVE  Run(a, a + 1) = <<a + 1>> /\ Run(a, a) = <<>>
<1>1. (a + 1) - a = 1 /\ a - a = 0
  OBVIOUS
<1>2. [i \in 1..1 |-> a + i] = <<a + 1>>
  OBVIOUS
<1>3. [i \in 1..0 |-> a + i] = <<>>
  OBVIOUS
<1> QED
  BY <1>1, <1>2, <1>3 DEF Run

\* What the parser has kept of the tunnel's bytes is the end of what it was
\* fed; raw is all that follows raw.
Kept(u, n) ==
  \E x \in 0..n : u = Run(x, n) /\ \A p \in 1..n : Script[p].kind = "raw" <=> p > x

\* One more token: raw bytes are kept for the tunnel.
LEMMA KeptToken ==
  ASSUME load \in Loads, NoPreface, NEW n \in Nat, n + 1 <= Len(Script), NEW u, Kept(u, n)
  PROVE  Kept(u \o RawUp(n + 1), n + 1)
<1> DEFINE p == n + 1
<1>0. p \in 1..Len(Script) /\ p \in Nat /\ p - 1 = n /\ Len(Script) \in Nat
  BY ScriptFacts
<1>1. PICK x \in 0..n : u = Run(x, n) /\ \A q \in 1..n : Script[q].kind = "raw" <=> q > x
  BY DEF Kept
<1>2. x \in Nat /\ x <= n /\ u \in Seq(Nat)
  BY <1>1, RunFacts
<1>3. CASE Script[p].kind = "raw"
  <2>1. RawUp(p) = <<n + 1>>
    BY <1>3 DEF RawUp
  <2>2. Run(n, n + 1) = <<n + 1>>
    BY RunOne
  <2>3. Run(x, n) \o Run(n, n + 1) = Run(x, n + 1)
    <3>1. n + 1 \in Nat /\ n <= n + 1
      OBVIOUS
    <3> QED
      BY <1>2, <3>1, RunConcat
  <2>4. u \o RawUp(p) = Run(x, n + 1)
    BY <1>1, <2>1, <2>2, <2>3
  <2>5. ASSUME NEW q \in 1..(n + 1) PROVE Script[q].kind = "raw" <=> q > x
    <3>1. CASE q = n + 1
      BY <1>2, <1>3, <3>1
    <3>2. CASE q # n + 1
      <4>1. q \in 1..n
        BY <3>2
      <4> QED
        BY <1>1, <4>1
    <3> QED
      BY <3>1, <3>2
  <2>6. x \in 0..(n + 1)
    BY <1>2
  <2> QED
    BY <2>4, <2>5, <2>6 DEF Kept
<1>4. CASE Script[p].kind # "raw"
  <2>1. RawUp(p) = <<>>
    BY <1>4 DEF RawUp
  <2>2. u \o <<>> = u
    BY <1>2, ConcatEmptySeq
  <2>3. ~(n \in 1..n /\ Script[n].kind = "raw")
    <3>1. SUFFICES ASSUME n \in 1..n, Script[n].kind = "raw" PROVE FALSE
      OBVIOUS
    <3>2. p > 1 /\ Script[p].kind \in {"head", "body", "bad"}
      BY <1>0, <1>4, <3>1, TokenFacts DEF NoPreface
    <3>3. Script[p - 1].kind \in {"head", "body", "bad"}
      BY <1>0, <3>2, StreamStep DEF HB
    <3> QED
      BY <1>0, <3>1, <3>3
  <2>4. x = n
    <3>1. CASE n = 0
      BY <1>2, <3>1
    <3>2. CASE n # 0
      <4>1. n \in 1..n
        BY <3>2
      <4>2. ~(n > x)
        BY <1>1, <2>3, <4>1
      <4> QED
        BY <1>2, <4>2
    <3> QED
      BY <3>1, <3>2
  <2>5. u = Run(n + 1, n + 1)
    BY <1>1, <2>4, RunOne
  <2>6. ASSUME NEW q \in 1..(n + 1) PROVE Script[q].kind = "raw" <=> q > n + 1
    <3>1. CASE q = n + 1
      BY <1>4, <3>1
    <3>2. CASE q # n + 1
      <4>1. q \in 1..n /\ ~(q > n) /\ ~(q > n + 1)
        BY <3>2
      <4> QED
        BY <1>1, <2>4, <4>1
    <3> QED
      BY <3>1, <3>2
  <2>7. n + 1 \in 0..(n + 1)
    OBVIOUS
  <2> QED
    BY <2>1, <2>2, <2>5, <2>6, <2>7 DEF Kept
<1> QED
  BY <1>3, <1>4

\* The same for k tokens accepted at once.
LEMMA KeptPush ==
  ASSUME load \in Loads, NoPreface, NEW n \in Nat, NEW k \in Nat, n + k <= Len(Script),
         NEW u \in Seq(Nat), Kept(u, n)
  PROVE  Kept(u \o Leftover(n, k), n + k)
<1> DEFINE T == {j \in Nat : n + j <= Len(Script) =>
                   Leftover(n, j) \in Seq(Nat) /\ Kept(u \o Leftover(n, j), n + j)}
<1>0. Len(Script) \in Nat
  BY ScriptFacts
<1>1. 0 \in T
  <2>1. Leftover(n, 0) = <<>> /\ <<>> \in Seq(Nat) /\ n + 0 = n
    BY FramingZero
  <2>2. u \o <<>> = u
    BY ConcatEmptySeq
  <2> QED
    BY <2>1, <2>2
<1>2. ASSUME NEW j \in T PROVE j + 1 \in T
  <2> SUFFICES ASSUME n + (j + 1) <= Len(Script)
      PROVE  Leftover(n, j + 1) \in Seq(Nat) /\ Kept(u \o Leftover(n, j + 1), n + (j + 1))
    OBVIOUS
  <2>1. j \in Nat /\ n + j <= Len(Script) /\ n + j + 1 <= Len(Script)
        /\ n + j \in Nat /\ (n + j) + 1 <= Len(Script) /\ n + (j + 1) = (n + j) + 1
    BY <1>0
  <2> DEFINE v == Leftover(n, j)
             r == RawUp((n + j) + 1)
  <2>2. v \in Seq(Nat) /\ Kept(u \o v, n + j)
    BY <2>1
  <2>3. r \in Seq(Nat)
    BY <2>1 DEF RawUp
  <2>4. Leftover(n, j + 1) = v \o r
    BY <2>1, FramingStep
  <2>5. Kept((u \o v) \o r, (n + j) + 1)
    <3> HIDE DEF v
    <3> QED
      BY <2>1, <2>2, KeptToken
  <2> HIDE DEF v, r, T
  <2>6. (u \o v) \o r = u \o (v \o r)
    BY <2>2, <2>3, ConcatAssociative, SMTT(20)
  <2>7. v \o r \in Seq(Nat)
    BY <2>2, <2>3, ConcatProperties
  <2> QED
    BY <2>1, <2>4, <2>5, <2>6, <2>7
<1> HIDE DEF T
<1>3. T = Nat
  <2>1. T \in SUBSET Nat
    BY DEF T
  <2> QED
    BY <1>1, <1>2, <2>1, Inductive
<1>4. k \in T
  BY <1>3
<1> QED
  BY <1>4 DEF T

\* What is kept is a sequence of numbers, whatever was pushed.
LEMMA LeftoverType ==
  ASSUME load \in Loads, NEW n \in Nat, NEW k \in Nat, n + k <= Len(Script)
  PROVE  Leftover(n, k) \in Seq(Nat)
<1> DEFINE m == [i \in 1..k |-> RawUp(n + i)]
<1>1. \A i \in 1..k : RawUp(n + i) \in Seq(Nat)
  BY DEF RawUp
<1>2. m \in Seq(Seq(Nat))
  BY <1>1
<1> HIDE DEF m
<1>3. FlattenSeq(m) \in Seq(Nat)
  BY <1>2, FlatType
<1> QED
  BY <1>3 DEF m, Leftover

-----------------------------------------------------------------------------
(* The inductive invariant: the client's side.                             *)

\* The last byte put on this request's tx key.
Reached == sent[req][Len(sent[req])]

\* The heads up to c are those of the requests up to r.
HeadsUpTo(c, r) ==
  \A p \in 1..Len(Script) : Script[p].kind = "head" => (2 * p <= c <=> Script[p].req <= r)

\* What is queued continues the stream where the handler stands in it.
At(c) ==
  /\ Queue(Script, ClientOf(carry \o events), c, 2 * fed + 1)
  /\ HeadsUpTo(c, req)
  /\ pc \in {"route", "setup"} =>
       \E h \in 1..Len(Script) :
         Script[h].kind = "head" /\ Script[h].req = req /\ c = 2 * h
  /\ pc \in Exchange =>
       /\ c = 2 * Reached + (IF request_done THEN 1 ELSE 0)
       /\ Reached \in 1..Len(Script)
       /\ Script[Reached].kind \in HB /\ Script[Reached].req = req
       /\ request_done => Script[Reached].last

CursorInv == ~Over => \E c \in Nat : At(c)

\* Only a pipelined request's events are set aside, and only for a while.
CarryInv ==
  /\ carry # <<>> => pc = "done" \/ (pc = "process" /\ request_done)
  /\ \A i \in 1..Len(carry) : IsClient(carry[i])

\* One run of the request's own bytes has been put.
Sending ==
  \E a, b \in 0..Len(Script) :
    /\ a < b /\ sent[req] = Run(a, b)
    /\ \A p \in (a + 1)..b : Script[p].req = req

SentInv ==
  /\ \A r \in Req : r > req => sent[r] = <<>>
  /\ pc \in {"route", "setup", "consume", "discard"} => req \in Req /\ sent[req] = <<>>
  /\ pc \in Exchange \cup {"teardown"} => req \in Req /\ Sending
  /\ pc = "splice" =>
       /\ Reached = inp
       /\ \E p \in 1..inp : Script[p].kind \in HB /\ Script[p].req = req
  /\ OwnBytesOnly

\* What the parser keeps of a tunnel; an h2 preface is never a request.
UpInv ==
  /\ pc \notin {"next", "finish", "done"} => NoPreface
  /\ ~Over /\ NoPreface => Kept(residue["up"], fed)

\* The switch is the last event of its exchange.
SwitchInv ==
  /\ pc \in Exchange => \A i \in 1..Len(events) : events[i].ev = "switch" =>
       i = Len(events) /\ tunnelled /\ Resp.framing = "switch"
  /\ pc \in {"switch", "splice"} => Resp.framing = "switch" /\ ReplyOf(events) = <<>>
  /\ pc = "switch" /\ ~request_done => events = <<>>

-----------------------------------------------------------------------------
(* The inductive invariant: the response's side.                           *)

Kinds == Resp.kinds

NewsG == [n \in Nat |-> IF n = 0 THEN <<>> ELSE <<n>>]
SamplesOf(s) == FlatMap(s, NewsG)

Ats(a) == [i \in 1..Len(a) |-> a[i].at]
Written(r) == Ats(Answer(r))

\* The samples of the response: those the parser has passed on, as far as the
\* client, and those still on their way to it.
Passed == (Written(req) \o DataOf(ReplyOf(events))) \o residue["down"]
Coming == resp_pending \o SamplesOf(rx)
Line   == Passed \o Coming

\* How many the backend has sent.
Out == IF bsent > Len(Kinds) THEN Len(Kinds) ELSE bsent

Ascending(s, n) ==
  /\ s \in Seq(Nat)
  /\ \A i, j \in 1..Len(s) : i < j => s[i] < s[j]
  /\ \A i \in 1..Len(s) : 1 <= s[i] /\ s[i] <= n

LineInv ==
  pc \in Exchange =>
    /\ bsent <= Len(Kinds) + 1
    /\ \A i \in 1..Len(rx) : rx[i] = 0 => i = Len(rx) /\ bsent = Len(Kinds) + 1
    /\ Ascending(Line, Out) /\ Ascending(rgot \o Coming, Out)
    /\ Len(resp_pending) <= 1
    /\ req \notin holed =>
         /\ Line = Run(0, Len(Line))
         /\ pc # "splice" => Passed = rgot
         /\ bsent <= Len(Kinds) => Len(Line) = bsent
         /\ Resp.framing = "close" /\ bsent > Len(Kinds) => Len(Line) = Len(Kinds)
    /\ \A i \in 1..Len(Answer(req)) : Answer(req)[i].kind = "sample"
    /\ Resp.framing # "switch" => residue["down"] = <<>>
    /\ \A i \in 1..Len(residue["down"]) : Kinds[residue["down"][i]] = "raw"
    /\ pc = "splice" => resp_pending = <<>> /\ residue["down"] = <<>>
    /\ end = "Ok"

\* The backend's side of the queue.
Reply == ReplyOf(events)

\* The head that announces the close is still to be written.
Announced ==
  \E i \in 1..Len(Reply) :
    /\ Reply[i].ev = "rhead" /\ Kinds[Reply[i].at] = "head"
    /\ \A j \in 1..(i - 1) : Reply[j].ev \notin {"rend", "rbody"}

EventInv ==
  pc \in Exchange \ {"splice"} =>
    /\ \A i \in 1..Len(Reply) : Reply[i].ev = "rend" =>
         /\ Headed(rgot) /\ Resp.framing # "switch"
         /\ i = Len(Reply) \/ (Resp.framing = "close" /\ req \in holed)
         /\ Resp.framing # "close" => \E k \in 1..Len(rgot) : rgot[k] = Len(Kinds)
         /\ Resp.framing = "close" => rx = <<>> /\ bsent = Len(Kinds) + 1
         /\ req \notin holed => Len(rgot) = Len(Kinds)
    /\ \A i \in 1..Len(Reply) : Reply[i].ev = "rbody" => Headed(rgot)
    /\ keep_alive /\ response_wants_close(req) =>
         Headless(req) /\ (Headed(rgot) => Announced)

-----------------------------------------------------------------------------
(* The inductive invariant: from one request to the next.                  *)

Settled(r) ==
  IF Forwarded(r)
  THEN /\ Whole(r) \/ r \in holed
       /\ Headless(r) \/ ~response_wants_close(r)
  ELSE Len(Answer(r)) = 1 /\ Answer(r)[1].kind = "refused"

BetweenInv ==
  /\ pc \in {"next", "route", "consume", "discard", "setup"} =>
       /\ NoPreface => ReplyOf(events) = <<>>
       /\ residue["down"] = <<>>
  /\ pc = "teardown" =>
       /\ end # "Ok" => ~keep_alive
       /\ end = "Ok" => response_done \/ Resp.framing = "switch"
       /\ response_done =>
            /\ Whole(req) \/ req \in holed
            /\ residue["down"] = <<>>
            /\ keep_alive => /\ Headless(req) \/ ~response_wants_close(req)
                             /\ ReplyOf(events) = <<>>

HistoryInv ==
  /\ holed \subseteq 1..req
  /\ \A r \in 1..(req - 1) : Settled(r)
  /\ pc \in {"next", "consume", "discard"} /\ req > 0 => Settled(req)
  /\ pc \in {"route", "setup"} => Answer(req) = <<>> /\ req \notin holed
  /\ pc \notin {"finish", "done"} =>
       outcome = "Completed" /\ \A i \in 1..Len(out) : out[i].req <= req
  /\ CompletedIsWhole
  /\ pc = "finish" /\ outcome = "Completed" =>
       \A r \in Req : Forwarded(r) =>
         Whole(r) \/ r \in holed \/ load.resp[r].framing = "switch"
  /\ AnswersInOrder

Inv ==
  /\ TypeOK /\ FeedInv /\ CursorInv /\ CarryInv /\ SentInv /\ UpInv /\ SwitchInv
  /\ LineInv /\ EventInv /\ BetweenInv /\ HistoryInv

-----------------------------------------------------------------------------
(* The kinds of steps.                                                     *)

Ahead == {"next", "consume", "discard"}

\* The connection is given up; the client may be told so.
Told(r) == \/ out' = out
           \/ out' = Append(out, [req |-> r, kind |-> "error", at |-> 0])

\* The client's bytes are offered to the parser.
Pushed ==
  /\ \E k \in 0..(inp' - fed) : Accepts(k, inp')
  /\ inp' \in Nat /\ inp <= inp' /\ inp' <= Len(Script)
  /\ UNCHANGED <<load, req, exch, bus, sent, holed>>
  /\ \/ /\ pc \in Ahead /\ pc' \in Ahead /\ (pc' # "next" => pc # "next")
        /\ UNCHANGED <<out, outcome>>
     \/ pc = "next" /\ pc' = "finish" /\ outcome' = "Reset" /\ Told(req + 1)
     \/ /\ pc \in {"offer", "select"} /\ pc' \in {"reoffer", "offer"}
        /\ UNCHANGED <<out, outcome>>

\* Nothing moves but the handler.
Idle ==
  /\ UNCHANGED <<load, req, inp, client_pending, fed, events, tunnelled, residue,
                 exch, bus, hist>>
  /\ \/ pc' = pc /\ outcome' = outcome
     \/ pc' = "done" /\ (outcome' = "Failed" \/ (pc = "finish" /\ outcome' = outcome))
     \/ /\ outcome' = outcome
        /\ \/ pc = "next" /\ pc' = "finish"
           \/ pc = "route" /\ pc' = "setup"
           \/ pc = "consume" /\ pc' = "discard"
           \/ pc = "discard" /\ pc' \in {"next", "consume"}
           \/ pc = "select" /\ pc' = "offer"
           \/ pc = "splice" /\ pc' = "teardown"

Quit ==
  /\ UNCHANGED <<load, req, inp, client_pending, fed, events, tunnelled, residue,
                 exch, bus, sent, holed>>
  /\ pc' = "finish" /\ outcome' = "Reset"
  /\ \/ pc = "next" /\ Told(req + 1)
     \/ pc = "route" /\ Told(req)

\* The first event is taken, what was carried going back in front or not.
Taken(kinds) ==
  /\ pc = "process" /\ events # <<>> /\ Head(events).ev \in kinds
  /\ UNCHANGED <<load, req, outcome, inp, client_pending, fed, tunnelled, residue,
                 rgot, resp_pending, bus, holed>>

\* The request's body, or its end.
TakenRequest ==
  /\ Taken({"body", "end"}) /\ ~request_done
  /\ events' = Tail(events) /\ pc' = pc
  /\ IF Head(events).ev = "body"
     THEN Put(<<Head(events).at>>) /\ UNCHANGED request_done
     ELSE request_done' = TRUE /\ UNCHANGED sent
  /\ UNCHANGED <<carry, response_done, keep_alive, end, out>>

TakenAside ==
  /\ Taken({"head", "body", "end"})
  /\ Head(events).ev \in {"body", "end"} => request_done
  /\ events' = Tail(events) /\ pc' = pc
  /\ carry' = Append(carry, Head(events))
  /\ UNCHANGED <<request_done, response_done, keep_alive, end, out, sent>>

TakenHead ==
  /\ Taken({"rhead"})
  /\ events' = Tail(events) /\ pc' = pc
  /\ Write(req, "sample", Head(events).at)
  /\ keep_alive' = (keep_alive /\ (\/ Kinds[Head(events).at] = "interim"
                                   \/ ~response_wants_close(req)))
  /\ UNCHANGED <<carry, request_done, response_done, end, sent>>

TakenBody ==
  /\ Taken({"rbody"})
  /\ events' = Tail(events) /\ pc' = pc
  /\ Write(req, "sample", Head(events).at)
  /\ UNCHANGED <<carry, request_done, response_done, keep_alive, end, sent>>

TakenEnd ==
  /\ Taken({"rend"})
  /\ events' = carry \o Tail(events) /\ carry' = <<>> /\ pc' = "teardown"
  /\ response_done' = TRUE
  /\ UNCHANGED <<request_done, keep_alive, end, out, sent>>

TakenSwitch ==
  /\ Taken({"switch"})
  /\ events' = carry \o Tail(events) /\ carry' = <<>> /\ pc' = "switch"
  /\ UNCHANGED <<request_done, response_done, keep_alive, end, out, sent>>

TakenAll ==
  /\ pc = "process" /\ events = <<>> /\ pc' = "select"
  /\ events' = carry /\ carry' = <<>>
  /\ UNCHANGED <<load, req, outcome, inp, client_pending, fed, tunnelled, residue,
                 rgot, request_done, response_done, keep_alive, end, resp_pending,
                 bus, hist>>

\* The exchange is given up.
Abandoned ==
  /\ pc \in {"process", "select"} /\ pc' = "teardown"
  /\ \/ events' \in {events, carry}
     \/ events # <<>> /\ events' = carry \o Tail(events)
  /\ carry' \in {carry, <<>>} /\ (pc = "process" => carry' = <<>>)
  /\ keep_alive' = FALSE /\ end' \in Ends \ {"Ok"}
  /\ out' = out \/ (Untold /\ Told(req))
  /\ UNCHANGED <<load, req, outcome, inp, client_pending, fed, tunnelled, residue,
                 rgot, request_done, response_done, resp_pending, bus, sent, holed>>

\* The response's bytes are offered to the parser.
Offered ==
  /\ pc = "reoffer" /\ pc' = "process" /\ PushResp(resp_pending)
  /\ UNCHANGED <<load, req, outcome, inp, client_pending, fed, carry, request_done,
                 response_done, keep_alive, end, bus, hist>>

\* The steps of the loop over the events, by what they do to the queue.
LEMMA ProcessKinds ==
  ASSUME FeedInv, Process
  PROVE  \/ Idle \/ TakenRequest \/ TakenAside \/ TakenHead \/ TakenBody \/ TakenEnd
         \/ TakenSwitch \/ TakenAll \/ Abandoned
<1> USE DEF ctl, cli, par, exch, bus, hist, Goto, Popped, Pop, Fail, Stop
<1>1. CASE ProcessRequest
  <2>1. CASE Fail("session")
    BY <1>1, <2>1 DEF ProcessRequest, Idle
  <2>2. CASE ~Fail("session")
    <3>1. TakenRequest
      BY <1>1, <2>2 DEF ProcessRequest, TakenRequest, Taken, Mine
    <3> QED
      BY <3>1
  <2> QED
    BY <2>1, <2>2
<1>2. CASE ProcessDefer
  <2>1. TakenAside
    BY <1>2 DEF ProcessDefer, TakenAside, Taken, Mine
  <2> QED
    BY <2>1
<1>3. CASE ProcessHead
  <2>1. CASE Fail("peer")
    BY <1>3, <2>1 DEF ProcessHead, Idle
  <2>2. CASE ~Fail("peer")
    <3>1. TakenHead
      BY <1>3, <2>2 DEF ProcessHead, TakenHead, Taken, Kinds
    <3> QED
      BY <3>1
  <2> QED
    BY <2>1, <2>2
<1>4. CASE ProcessBody
  <2>1. CASE Fail("peer")
    BY <1>4, <2>1 DEF ProcessBody, Idle
  <2>2. CASE WrittenSamples < MaxResp /\ ~Fail("peer")
    <3>1. TakenBody \/ Abandoned
      BY <1>4, <2>2 DEF ProcessBody, TakenBody, Taken, Abandoned, Ends
    <3> QED
      BY <3>1
  <2>3. CASE ~(WrittenSamples < MaxResp) /\ ~Fail("peer")
    <3>1. Abandoned
      BY <1>4, <2>3 DEF ProcessBody, Abandoned, Ends
    <3> QED
      BY <3>1
  <2> QED
    BY <2>1, <2>2, <2>3
<1>5. CASE ProcessEnd
  <2>1. TakenEnd
    BY <1>5 DEF ProcessEnd, TakenEnd, Taken
  <2> QED
    BY <2>1
<1>6. CASE ProcessSwitch
  <2>1. TakenSwitch
    BY <1>6 DEF ProcessSwitch, TakenSwitch, Taken
  <2> QED
    BY <2>1
<1>7. CASE ProcessDone
  <2>1. CASE poison = "none"
    <3>1. TakenAll
      BY <1>7, <2>1 DEF ProcessDone, TakenAll
    <3> QED
      BY <3>1
  <2>2. CASE poison # "none"
    <3>1. Abandoned
      BY <1>7, <2>2 DEF ProcessDone, Abandon, Abandoned, Ends, Told, Write
    <3> QED
      BY <3>1
  <2> QED
    BY <2>1, <2>2
<1> QED
  BY <1>1, <1>2, <1>3, <1>4, <1>5, <1>6, <1>7 DEF Process

\* The tunnel starts: what came in before the switch goes out first.
Switched ==
  /\ pc = "switch" /\ pc' = "splice"
  /\ Put(UpFirst) /\ out' = out \o Samples(DownFirst)
  /\ client_pending' = <<>> /\ resp_pending' = <<>>
  /\ residue' = [d \in {"up", "down"} |-> <<>>]
  /\ UNCHANGED <<load, req, outcome, inp, fed, events, tunnelled, rgot, carry,
                 request_done, response_done, keep_alive, end, bus, holed>>

\* Every step is of one of these kinds.
LEMMA Kind ==
  ASSUME FeedInv, [Next]_vars
  PROVE  \/ Pushed \/ Idle \/ Quit \/ NextPop \/ RouteUnavailable \/ DiscardPop
         \/ SetupOk \/ Offered \/ TakenRequest \/ TakenAside \/ TakenHead \/ TakenBody
         \/ TakenEnd \/ TakenSwitch \/ TakenAll \/ Abandoned \/ SelectRecv
         \/ Switched \/ SpliceUp \/ SpliceDown \/ Teardown \/ Backend
<1> USE DEF ctl, cli, par, exch, bus, hist, Goto, Over, Exchange
<1>1. CASE NextPop
  BY <1>1
<1>2. CASE NextEof
  <2>1. Idle
    BY <1>2 DEF NextEof, Idle
  <2> QED
    BY <2>1
<1>3. CASE NextTunnelled
  <2>1. Quit
    BY <1>3 DEF NextTunnelled, Refuse, Waiting, Quit, Told, Write
  <2> QED
    BY <2>1
<1>4. CASE NextOffer
  <2>1. PICK k \in 0..(inp - fed) : Accepts(k, inp)
    BY <1>4, OfferRun DEF NextOffer, Waiting
  <2>2. inp' = inp /\ inp \in Nat /\ inp <= Len(Script)
    BY <1>4 DEF NextOffer, FeedInv
  <2>3. Pushed
    BY <1>4, <2>1, <2>2 DEF NextOffer, NextPushed, Refuse, Waiting, Pushed, Told, Write,
                            Ahead
  <2> QED
    BY <2>3
<1>5. CASE NextRead
  <2>1. PICK n \in 1..(Len(Script) - inp) : inp' = inp + n /\ PushClient(Tokens(n), 1)
    BY <1>5 DEF NextRead
  <2>2. PICK k \in 0..(inp' - fed) : Accepts(k, inp')
    BY <1>5, <2>1, PushTokens DEF NextRead, Waiting
  <2>3. inp' \in Nat /\ inp <= inp' /\ inp' <= Len(Script)
    BY <1>5, <2>1, PushTokens DEF NextRead, Waiting
  <2>4. Pushed
    BY <1>5, <2>2, <2>3 DEF NextRead, NextPushed, Refuse, Waiting, Pushed, Told, Write,
                            Ahead
  <2> QED
    BY <2>4
<1>6. CASE NextReadEof
  <2>1. Idle
    BY <1>6 DEF NextReadEof, FinClient, Waiting, Idle
  <2> QED
    BY <2>1
<1>7. CASE NextTimeout
  <2>1. CASE req = 0
    <3>1. Quit
      BY <1>7, <2>1 DEF NextTimeout, Refuse, Waiting, Quit, Told, Write
    <3> QED
      BY <3>1
  <2>2. CASE req # 0
    <3>1. Idle
      BY <1>7, <2>2 DEF NextTimeout, Waiting, Idle
    <3> QED
      BY <3>1
  <2> QED
    BY <2>1, <2>2
<1>8. CASE NextDrain
  <2>1. Idle
    BY <1>8 DEF NextDrain, Waiting, Idle
  <2> QED
    BY <2>1
<1>9. CASE RouteBad
  <2>1. Quit
    BY <1>9 DEF RouteBad, Refuse, Quit, Told, Write
  <2> QED
    BY <2>1
<1>10. CASE RouteServed
  <2>1. Idle
    BY <1>10 DEF RouteServed, Idle
  <2> QED
    BY <2>1
<1>11. CASE RouteUnavailable
  BY <1>11
<1>12. CASE Consume
  <2>1. CASE client_pending = <<>>
    <3>1. Idle
      BY <1>12, <2>1 DEF Consume, Idle
    <3> QED
      BY <3>1
  <2>2. CASE client_pending # <<>>
    <3>1. PICK k \in 0..(inp - fed) : Accepts(k, inp)
      BY <1>12, <2>2, OfferRun DEF Consume
    <3>2. inp' = inp /\ inp \in Nat /\ inp <= Len(Script)
      BY <1>12, <2>2 DEF Consume, FeedInv
    <3>3. Pushed
      BY <1>12, <2>2, <3>1, <3>2 DEF Consume, ConsumePushed, Pushed, Ahead
    <3> QED
      BY <3>3
  <2> QED
    BY <2>1, <2>2
<1>13. CASE DiscardPop
  BY <1>13
<1>14. CASE DiscardAgain
  <2>1. Idle
    BY <1>14 DEF DiscardAgain, Idle
  <2> QED
    BY <2>1
<1>15. CASE DiscardEnd
  <2>1. Idle
    BY <1>15 DEF DiscardEnd, Waiting, Idle
  <2> QED
    BY <2>1
<1>16. CASE DiscardRead
  <2>1. CASE FinClient /\ Goto("consume")
             /\ UNCHANGED <<inp, client_pending, fed, events, tunnelled, residue>>
    <3>1. Idle
      BY <1>16, <2>1 DEF DiscardRead, FinClient, Waiting, Idle
    <3> QED
      BY <3>1
  <2>2. CASE /\ \E n \in 1..(Len(Script) - inp) :
                  inp' = inp + n /\ PushClient(Tokens(n), 1)
             /\ IF poison' # "none" \/ tunnelled' THEN Goto("next") ELSE Goto("consume")
             /\ UNCHANGED client_eof
    <3>1. PICK n \in 1..(Len(Script) - inp) : inp' = inp + n /\ PushClient(Tokens(n), 1)
      BY <2>2
    <3>2. PICK k \in 0..(inp' - fed) : Accepts(k, inp')
      BY <1>16, <3>1, PushTokens DEF DiscardRead, Waiting
    <3>3. inp' \in Nat /\ inp <= inp' /\ inp' <= Len(Script)
      BY <1>16, <3>1, PushTokens DEF DiscardRead, Waiting
    <3>4. Pushed
      BY <1>16, <2>2, <3>2, <3>3 DEF DiscardRead, Waiting, Pushed, Ahead
    <3> QED
      BY <3>4
  <2> QED
    BY <1>16, <2>1, <2>2 DEF DiscardRead
<1>17. CASE SetupOk
  BY <1>17
<1>18. CASE SetupFail
  <2>1. Idle
    BY <1>18 DEF SetupFail, Fail, Idle
  <2> QED
    BY <2>1
<1>19. CASE OfferClient
  <2>1. PICK k \in 0..(inp - fed) : Accepts(k, inp)
    BY <1>19, OfferRun DEF OfferClient
  <2>2. inp' = inp /\ inp \in Nat /\ inp <= Len(Script)
    BY <1>19 DEF OfferClient, FeedInv
  <2>3. Pushed
    BY <1>19, <2>1, <2>2 DEF OfferClient, Pushed, Ahead
  <2> QED
    BY <2>3
<1>20. CASE OfferResp
  <2>1. Offered
    BY <1>20 DEF OfferResp, Offered
  <2> QED
    BY <2>1
<1>21. CASE Process
  BY <1>21, ProcessKinds
<1>22. CASE Select
  <2>1. CASE SelectRecv
    BY <2>1
  <2>2. CASE SelectTimeout \/ SelectClosed \/ SelectOverflow \/ SelectDrain
    <3>1. Abandoned
      BY <2>2 DEF SelectTimeout, SelectClosed, SelectOverflow, SelectDrain, Abandon,
                  Abandoned, Ends, Told, Write
    <3> QED
      BY <3>1
  <2> QED
    BY <1>22, <2>1, <2>2 DEF Select
<1>23. CASE Switch
  <2>1. CASE pc' = "splice"
    <3>1. Switched
      BY <1>23, <2>1 DEF Switch, Fail, Switched
    <3> QED
      BY <3>1
  <2>2. CASE pc' # "splice"
    <3>1. Idle
      BY <1>23, <2>2 DEF Switch, Fail, Idle
    <3> QED
      BY <3>1
  <2> QED
    BY <2>1, <2>2
<1>24. CASE SpliceDown
  BY <1>24
<1>25. CASE SpliceCancelled
  <2>1. Idle
    BY <1>25 DEF SpliceCancelled, Idle
  <2> QED
    BY <2>1
<1>26. CASE Teardown
  BY <1>26
<1>27. CASE Finish
  <2>1. Idle
    BY <1>27 DEF Finish, Idle
  <2> QED
    BY <2>1
<1>28. CASE SelectRead
  <2>1. CASE /\ \E n \in 1..(Len(Script) - inp) :
                  inp' = inp + n /\ PushClient(Tokens(n), 0)
             /\ Goto("offer")
             /\ UNCHANGED <<ctl, client_eof, exch, bus, hist>>
    <3>1. PICK n \in 1..(Len(Script) - inp) : inp' = inp + n /\ PushClient(Tokens(n), 0)
      BY <2>1
    <3>2. PICK k \in 0..(inp' - fed) : Accepts(k, inp')
      BY <1>28, <3>1, PushTokens DEF SelectRead, MayRead
    <3>3. inp' \in Nat /\ inp <= inp' /\ inp' <= Len(Script)
      BY <1>28, <3>1, PushTokens DEF SelectRead, MayRead
    <3>4. Pushed
      BY <1>28, <2>1, <3>2, <3>3 DEF SelectRead, Pushed, Ahead
    <3> QED
      BY <3>4
  <2>2. CASE /\ Goto("offer") /\ FinClient
             /\ UNCHANGED <<ctl, inp, client_pending, fed, events, tunnelled, residue,
                            exch, bus, hist>>
    <3>1. Idle
      BY <1>28, <2>2 DEF SelectRead, FinClient, Idle
    <3> QED
      BY <3>1
  <2>3. CASE Fail("peer")
    <3>1. Idle
      BY <1>28, <2>3 DEF Fail, Idle
    <3> QED
      BY <3>1
  <2> QED
    BY <1>28, <2>1, <2>2, <2>3 DEF SelectRead
<1>29. CASE SpliceUp
  BY <1>29
<1>30. CASE SpliceEof
  <2>1. Idle
    BY <1>30 DEF SpliceEof, Idle
  <2> QED
    BY <2>1
<1>31. CASE Backend
  BY <1>31
<1>32. CASE Drain
  <2>1. Idle
    BY <1>32 DEF Drain, Idle
  <2> QED
    BY <2>1
<1>33. CASE UNCHANGED vars
  <2>1. Idle
    BY <1>33 DEF vars, Idle
  <2> QED
    BY <2>1
<1>34. CASE Done
  BY <1>33, <1>34 DEF Done
<1> QED
  BY <1>1, <1>2, <1>3, <1>4, <1>5, <1>6, <1>7, <1>8, <1>9, <1>10, <1>11, <1>12,
     <1>13, <1>14, <1>15, <1>16, <1>17, <1>18, <1>19, <1>20, <1>21, <1>22, <1>23,
     <1>24, <1>25, <1>26, <1>27, <1>28, <1>29, <1>30, <1>31, <1>32, <1>33, <1>34
  DEF Next, Handler, FromClient, NextRequest, Route, RunExchange

-----------------------------------------------------------------------------
(* A push of the backend's bytes.                                          *)

\* None of what was offered is accepted.
Held(off) ==
  /\ resp_pending' = off /\ UNCHANGED <<rgot, events, residue>>
  /\ tunnelled => tunnelled'

\* The one sample offered is accepted.
Accepted(n) ==
  /\ ~tunnelled
  /\ resp_pending' = <<>> /\ rgot' = Append(rgot, n)
  /\ residue' = [residue EXCEPT !["down"] = @ \o RawDown(n)]
  /\ \/ /\ events' = events \o ResponseEvents(n, rgot)
        /\ Kinds[n] \in {"body", "raw"} => Headed(rgot')
     \/ events' = events /\ Kinds[n] \in {"body", "raw"} /\ ~Headed(rgot')
  /\ tunnelled' = (Resp.framing = "switch" /\ Headed(rgot'))

\* Sequences of one and of two.
LEMMA SingleSub ==
  ASSUME NEW n \in Nat
  PROVE  SubSeq(<<n>>, 1, 1) = <<n>> /\ SubSeq(<<n>>, 1, 0) = <<>>
<1> DEFINE s == <<n>>
           t == SubSeq(s, 1, 1)
<1>1. s \in Seq(Nat) /\ Len(s) = 1 /\ s[1] = n
  OBVIOUS
<1> HIDE DEF s
<1>2. t \in Seq(Nat) /\ Len(t) = 1 /\ t[1] = s[1]
  BY <1>1
<1> HIDE DEF t
<1>3. t = s
  BY <1>1, <1>2, SeqEqual
<1>4. SubSeq(s, 1, 0) = <<>>
  BY <1>1
<1> QED
  BY <1>3, <1>4 DEF t, s

\* A pair is its two halves.
LEMMA PairConcat ==
  ASSUME NEW A, NEW x \in A, NEW y \in A
  PROVE  <<x, y>> = <<x>> \o <<y>>
<1> DEFINE s == <<x, y>>
           u == <<x>>
           v == <<y>>
           t == u \o v
<1>1. s \in Seq(A) /\ Len(s) = 2 /\ s[1] = x /\ s[2] = y
  OBVIOUS
<1>2. /\ u \in Seq(A) /\ Len(u) = 1 /\ u[1] = x
      /\ v \in Seq(A) /\ Len(v) = 1 /\ v[1] = y
  OBVIOUS
<1> HIDE DEF s, u, v
<1>3. t \in Seq(A) /\ Len(t) = 2 /\ t[1] = x /\ t[2] = y
  <2>1. /\ t \in Seq(A) /\ Len(t) = Len(u) + Len(v)
        /\ \A i \in 1..(Len(u) + Len(v)) :
             t[i] = IF i <= Len(u) THEN u[i] ELSE v[i - Len(u)]
    BY <1>2, ConcatProperties
  <2>2. Len(u) + Len(v) = 2 /\ 1 \in 1..2 /\ 2 \in 1..2 /\ 2 - 1 = 1
    BY <1>2
  <2> QED
    BY <1>2, <2>1, <2>2
<1> HIDE DEF t
<1>4. \A i \in 1..Len(s) : s[i] = t[i]
  BY <1>1, <1>3
<1>5. s = t
  BY <1>1, <1>3, <1>4, SeqEqual
<1> QED
  BY <1>5 DEF t, s, u, v

\* What a sample turns into is on the backend's side of the queue.
LEMMA ResponseFacts ==
  ASSUME NEW n \in Nat, NEW got
  PROVE  /\ Kinds[n] = "raw" => ResponseEvents(n, got) = <<>>
         /\ Kinds[n] = "head" /\ Resp.framing = "switch" =>
              ResponseEvents(n, got) = <<Event("rhead", n), Event("switch", n)>>
         /\ Kinds[n] # "raw" /\ ~(Kinds[n] = "head" /\ Resp.framing = "switch") =>
              ResponseEvents(n, got) =
                <<Event(IF Kinds[n] = "body" THEN "rbody" ELSE "rhead", n)>>
                  \o (IF Complete(Append(got, n)) THEN <<Event("rend", n)>> ELSE <<>>)
         /\ ResponseEvents(n, got) \in Seq(EventRec)
         /\ ClientOf(ResponseEvents(n, got)) = <<>>
<1> DEFINE R == ResponseEvents(n, got)
           k == IF Kinds[n] = "body" THEN "rbody" ELSE "rhead"
           a == Event(k, n)
           b == Event("rend", n)
           c == Event("rhead", n)
           d == Event("switch", n)
<1>1. Kinds[n] = "raw" => R = <<>>
  BY Zenon DEF ResponseEvents, Kinds
<1>2. Kinds[n] = "head" /\ Resp.framing = "switch" => R = <<c, d>>
  BY Zenon DEF ResponseEvents, Kinds
<1>3. Kinds[n] # "raw" /\ ~(Kinds[n] = "head" /\ Resp.framing = "switch") =>
        R = <<a>> \o (IF Complete(Append(got, n)) THEN <<b>> ELSE <<>>)
  BY Zenon DEF ResponseEvents, Kinds
<1>4. /\ a \in EventRec /\ b \in EventRec /\ c \in EventRec /\ d \in EventRec
      /\ ~IsClient(a) /\ ~IsClient(b) /\ ~IsClient(c) /\ ~IsClient(d)
  BY DEF Event, EventRec, EventKind, IsClient
<1> HIDE DEF a, b, c, d, R
<1>5. ASSUME NEW x \in EventRec, NEW y \in EventRec, ~IsClient(x), ~IsClient(y)
      PROVE  <<x>> \o <<y>> \in Seq(EventRec) /\ ClientOf(<<x>> \o <<y>>) = <<>>
  <2>1. <<x>> \in Seq(EventRec) /\ ClientOf(<<x>>) = <<>>
    BY <1>5, ReplyOne
  <2>2. <<y>> \in Seq(EventRec) /\ ClientOf(<<y>>) = <<>>
    BY <1>5, ReplyOne
  <2>3. <<x>> \o <<y>> \in Seq(EventRec)
    BY <2>1, <2>2
  <2>4. ClientOf(<<x>> \o <<y>>) = ClientOf(<<x>>) \o ClientOf(<<y>>)
    BY <2>1, <2>2, SideConcat
  <2> QED
    BY <2>1, <2>2, <2>3, <2>4
<1>6. <<c, d>> = <<c>> \o <<d>>
  BY <1>4, PairConcat
<1>7. <<a>> \o <<>> = <<a>> /\ <<a>> \in Seq(EventRec) /\ ClientOf(<<a>>) = <<>>
  BY <1>4, ReplyOne
<1>8. R \in Seq(EventRec) /\ ClientOf(R) = <<>>
  <2>1. CASE Kinds[n] = "raw"
    BY <1>1, <2>1, SideEmpty
  <2>2. CASE Kinds[n] = "head" /\ Resp.framing = "switch"
    BY <1>2, <1>4, <1>5, <1>6, <2>2
  <2>3. CASE Kinds[n] # "raw" /\ ~(Kinds[n] = "head" /\ Resp.framing = "switch")
    <3>1. CASE Complete(Append(got, n))
      <4>1. R = <<a>> \o <<b>>
        BY <1>3, <2>3, <3>1
      <4> QED
        BY <1>4, <1>5, <4>1
    <3>2. CASE ~Complete(Append(got, n))
      <4>1. R = <<a>>
        BY <1>3, <1>7, <2>3, <3>2
      <4> QED
        BY <1>7, <4>1
    <3> QED
      BY <3>1, <3>2
  <2> QED
    BY <2>1, <2>2, <2>3
<1> QED
  BY <1>1, <1>2, <1>3, <1>8 DEF a, b, c, d, R

\* At most one sample is ever offered.
LEMMA PushOne ==
  ASSUME rgot \in Seq(Nat), events \in Seq(EventRec),
         residue \in [{"up", "down"} -> Seq(Nat)],
         NEW off \in Seq(Nat), Len(off) <= 1, PushResp(off)
  PROVE  Held(off) \/ (Len(off) = 1 /\ off[1] \in Nat /\ Accepted(off[1]))
<1>0. Len(off) \in Nat
  OBVIOUS
<1>7. Len(off) = 0 \/ Len(off) = 1
  <2> DEFINE n == Len(off)
  <2>1. n \in Nat /\ n <= 1
    BY <1>0
  <2> HIDE DEF n
  <2>2. n = 0 \/ n = 1
    BY <2>1
  <2> QED
    BY <2>2 DEF n
<1>1. PICK k : k \in 0..Len(off) /\
        LET s      == SubSeq(off, 1, k)
            got(i) == rgot \o SubSeq(s, 1, i)
            junk   == \E i \in 1..k : Resp.kinds[s[i]] \in {"body", "raw"}
                                        /\ ~Headed(got(i))
        IN  /\ k = 0 \/ ~tunnelled
            /\ resp_pending' = SubSeq(off, k + 1, Len(off))
            /\ rgot' = rgot \o s
            /\ events' = IF junk THEN events
                         ELSE events \o FlattenSeq(
                                [i \in 1..k |-> ResponseEvents(s[i], got(i - 1))])
            /\ residue' = [residue EXCEPT !["down"] =
                             @ \o FlattenSeq([i \in 1..k |-> RawDown(s[i])])]
            /\ tunnelled' = (tunnelled \/ (Resp.framing = "switch"
                                             /\ Headed(rgot \o s)))
  <2> DEFINE Ks == IF tunnelled THEN {0}
                   ELSE IF "refuse" \in Faults THEN 0..Len(off) ELSE {Len(off)}
  <2>1. \A x \in Ks : x \in 0..Len(off) /\ (x = 0 \/ ~tunnelled)
    BY <1>0
  <2> HIDE DEF Ks
  <2> QED
    BY <2>1, Zenon DEF PushResp, Ks
<1>4. k \in Nat /\ k <= Len(off)
  BY <1>0, <1>1
<1>5. k = 0 \/ (k = 1 /\ Len(off) = 1)
  BY <1>4, <1>7
<1>6. Len(off) = 1 => off = <<off[1]>> /\ off[1] \in Nat
  <2> SUFFICES ASSUME Len(off) = 1 PROVE off = <<off[1]>> /\ off[1] \in Nat
    OBVIOUS
  <2>1. off[1] \in Nat
    <3>1. 1 \in 1..Len(off)
      OBVIOUS
    <3> QED
      BY <3>1, ElementOfSeq
  <2>2. <<off[1]>> \in Seq(Nat) /\ Len(<<off[1]>>) = 1 /\ <<off[1]>>[1] = off[1]
    BY <2>1
  <2>3. \A i \in 1..Len(off) : off[i] = <<off[1]>>[i]
    BY <2>2
  <2> QED
    BY <2>1, <2>2, <2>3, SeqEqual
<1> DEFINE s == SubSeq(off, 1, k)
<1>2. CASE k = 0
  <2>1. s = <<>>
    BY <1>2
  <2>2. SubSeq(off, k + 1, Len(off)) = off
    BY <1>2
  <2>3. rgot \o s = rgot
    <3>1. rgot \o <<>> = rgot
      OBVIOUS
    <3> QED
      BY <2>1, <3>1
  <2>4. /\ FlattenSeq([i \in 1..0 |-> ResponseEvents(s[i], rgot \o SubSeq(s, 1, i - 1))]) = <<>>
        /\ FlattenSeq([i \in 1..0 |-> RawDown(s[i])]) = <<>>
    <3>1. /\ [i \in 1..0 |-> ResponseEvents(s[i], rgot \o SubSeq(s, 1, i - 1))] = <<>>
          /\ [i \in 1..0 |-> RawDown(s[i])] = <<>>
      OBVIOUS
    <3>2. FlattenSeq(<<>>) = <<>>
      BY FlatOne
    <3> QED
      BY <3>1, <3>2
  <2>5. events' = events
    <3>1. events \o <<>> = events
      OBVIOUS
    <3> QED
      BY <1>1, <1>2, <2>4, <3>1
  <2>6. residue' = residue
    <3>1. residue["down"] \o <<>> = residue["down"]
      OBVIOUS
    <3>2. residue' = [residue EXCEPT !["down"] = residue["down"] \o <<>>]
      BY <1>1, <1>2, <2>4
    <3> QED
      BY <3>1, <3>2
  <2> QED
    BY <1>1, <2>2, <2>3, <2>5, <2>6 DEF Held
<1>3. CASE k # 0
  <2>1. k = 1 /\ Len(off) = 1 /\ ~tunnelled
    <3>1. k = 1 /\ Len(off) = 1
      BY <1>3, <1>5
    <3> QED
      BY <1>1, <1>3, <3>1
  <2> DEFINE n == off[1]
  <2>2. n \in Nat /\ s = <<n>> /\ SubSeq(off, k + 1, Len(off)) = <<>> /\ s[1] = n
    <3>1. n \in Nat /\ off = <<n>>
      BY <1>6, <2>1
    <3>2. SubSeq(off, 1, 1) = <<n>>
      <4> HIDE DEF n
      <4> QED
        BY <3>1, SingleSub
    <3>3. SubSeq(off, 2, 1) = <<>>
      OBVIOUS
    <3>4. k + 1 = 2
      BY <2>1
    <3> QED
      BY <2>1, <3>1, <3>2, <3>3, <3>4
  <2> HIDE DEF n, s
  <2>3. rgot \o s = Append(rgot, n) /\ SubSeq(s, 1, 0) = <<>> /\ SubSeq(s, 1, 1) = s
        /\ rgot \o <<>> = rgot
    <3>1. rgot \o <<n>> = Append(rgot, n)
      BY <2>2
    <3>2. SubSeq(<<n>>, 1, 0) = <<>> /\ SubSeq(<<n>>, 1, 1) = <<n>>
      BY <2>2, SingleSub
    <3>3. rgot \o <<>> = rgot
      OBVIOUS
    <3> QED
      BY <2>2, <3>1, <3>2, <3>3
  <2> HIDE DEF n, s
  <2>4. FlattenSeq([i \in 1..k |-> ResponseEvents(s[i], rgot \o SubSeq(s, 1, i - 1))])
          = ResponseEvents(n, rgot)
    <3> DEFINE R == ResponseEvents(n, rgot)
    <3>1. [i \in 1..k |-> ResponseEvents(s[i], rgot \o SubSeq(s, 1, i - 1))] = <<R>>
      <4>1. s[1] = n /\ rgot \o SubSeq(s, 1, 1 - 1) = rgot
        BY <2>2, <2>3
      <4> HIDE DEF R
      <4>2. ResponseEvents(s[1], rgot \o SubSeq(s, 1, 1 - 1)) = R
        BY <4>1 DEF R
      <4> QED
        BY <2>1, <4>2
    <3>2. R \in Seq(EventRec)
      BY <2>2, ResponseFacts
    <3> HIDE DEF R
    <3> QED
      BY <3>1, <3>2, FlatOne DEF R
  <2>5. FlattenSeq([i \in 1..k |-> RawDown(s[i])]) = RawDown(n)
    <3> DEFINE R == RawDown(n)
    <3>1. [i \in 1..k |-> RawDown(s[i])] = <<R>>
      BY <2>1, <2>2
    <3>2. R \in Seq(Nat)
      BY <2>2 DEF RawDown
    <3> HIDE DEF R
    <3> QED
      BY <3>1, <3>2, FlatOne DEF R
  <2>6. (\E i \in 1..k : Resp.kinds[s[i]] \in {"body", "raw"}
                           /\ ~Headed(rgot \o SubSeq(s, 1, i)))
          <=> Kinds[n] \in {"body", "raw"} /\ ~Headed(rgot \o s)
    <3>1. 1..k = {1}
      BY <2>1
    <3> QED
      BY <2>2, <2>3, <3>1 DEF Kinds
  <2>7. rgot' = rgot \o s /\ resp_pending' = <<>>
    BY <1>1, <2>2 DEF s
  <2>8. events' = IF Kinds[n] \in {"body", "raw"} /\ ~Headed(rgot')
                  THEN events ELSE events \o ResponseEvents(n, rgot)
    BY <1>1, <2>4, <2>6, <2>7 DEF s
  <2>9. residue' = [residue EXCEPT !["down"] = @ \o RawDown(n)]
    BY <1>1, <2>5 DEF s
  <2>10. tunnelled' = (tunnelled \/ (Resp.framing = "switch" /\ Headed(rgot \o s)))
    BY <1>1 DEF s
  <2>11. Accepted(n)
    BY <2>1, <2>3, <2>7, <2>8, <2>9, <2>10 DEF Accepted
  <2> QED
    BY <2>1, <2>2, <2>11 DEF n
<1> QED
  BY <1>2, <1>3

-----------------------------------------------------------------------------
(* Types.                                                                  *)

Flags == /\ shutdown \in BOOLEAN /\ client_eof \in BOOLEAN /\ tunnelled \in BOOLEAN
         /\ poison \in {"none", "client", "server"}

\* A push may poison the parser, or see the protocol switch.
LEMMA PushPoison ==
  ASSUME NEW o, NEW least
  PROVE  /\ PushClient(o, least) => poison' \in {poison, "client"} /\ tunnelled' \in BOOLEAN
         /\ PushResp(o) => poison' \in {poison, "server"} /\ tunnelled' \in BOOLEAN
<1>1. PushClient(o, least) => poison' \in {poison, "client"} /\ tunnelled' \in BOOLEAN
  BY DEF PushClient
<1>2. PushResp(o) => poison' \in {poison, "server"} /\ tunnelled' \in BOOLEAN
  BY DEF PushResp
<1> QED
  BY <1>1, <1>2

\* The flags that no other part of the invariant looks at.
LEMMA FlagTypes == Flags /\ [Next]_vars => Flags'
<1> SUFFICES ASSUME Flags, [Next]_vars PROVE Flags'
  OBVIOUS
<1> USE DEF ctl, cli, par, exch, bus, hist, Goto, Flags
<1>1. CASE NextRequest
  <2>1. CASE NextPop
    BY <2>1 DEF NextPop
  <2>2. CASE NextEof
    BY <2>2 DEF NextEof
  <2>3. CASE NextTunnelled
    BY <2>3 DEF NextTunnelled, Refuse
  <2>4. CASE NextOffer
    BY <2>4, PushPoison DEF NextOffer, NextPushed, Refuse
  <2>5. CASE NextTimeout
    BY <2>5 DEF NextTimeout, Refuse
  <2>6. CASE NextDrain
    BY <2>6 DEF NextDrain
  <2> QED
    BY <1>1, <2>1, <2>2, <2>3, <2>4, <2>5, <2>6 DEF NextRequest
<1>2. CASE Route
  <2>1. CASE RouteBad
    BY <2>1 DEF RouteBad, Refuse
  <2>2. CASE RouteServed
    BY <2>2 DEF RouteServed
  <2>3. CASE RouteUnavailable
    BY <2>3 DEF RouteUnavailable
  <2>4. CASE Consume
    BY <2>4, PushPoison DEF Consume
  <2>5. CASE DiscardPop
    BY <2>5 DEF DiscardPop
  <2>6. CASE DiscardAgain \/ DiscardEnd
    BY <2>6 DEF DiscardAgain, DiscardEnd
  <2> QED
    BY <1>2, <2>1, <2>2, <2>3, <2>4, <2>5, <2>6 DEF Route
<1>3. CASE FromClient
  <2>1. CASE NextRead
    BY <2>1, PushPoison DEF NextRead, NextPushed, Refuse
  <2>2. CASE NextReadEof
    BY <2>2 DEF NextReadEof, FinClient
  <2>3. CASE DiscardRead
    BY <2>3, PushPoison DEF DiscardRead, FinClient
  <2>4. CASE SelectRead
    BY <2>4, PushPoison DEF SelectRead, FinClient, Fail
  <2>5. CASE SpliceUp \/ SpliceEof
    BY <2>5 DEF SpliceUp, SpliceEof
  <2> QED
    BY <1>3, <2>1, <2>2, <2>3, <2>4, <2>5 DEF FromClient
<1>4. CASE Process
  <2>1. CASE ProcessRequest
    BY <2>1 DEF ProcessRequest, Pop, Fail
  <2>2. CASE ProcessDefer
    BY <2>2 DEF ProcessDefer, Pop
  <2>3. CASE ProcessHead
    BY <2>3 DEF ProcessHead, Pop, Fail
  <2>4. CASE ProcessBody
    BY <2>4 DEF ProcessBody, Pop, Fail, Stop
  <2>5. CASE ProcessEnd
    BY <2>5 DEF ProcessEnd, Stop
  <2>6. CASE ProcessSwitch
    BY <2>6 DEF ProcessSwitch, Stop
  <2>7. CASE ProcessDone
    BY <2>7 DEF ProcessDone, Abandon
  <2> QED
    BY <1>4, <2>1, <2>2, <2>3, <2>4, <2>5, <2>6, <2>7 DEF Process
<1>5. CASE Select
  <2>1. CASE SelectRecv
    BY <2>1, PushPoison DEF SelectRecv, FinResp
  <2>2. CASE SelectTimeout \/ SelectClosed \/ SelectOverflow \/ SelectDrain
    BY <2>2 DEF SelectTimeout, SelectClosed, SelectOverflow, SelectDrain, Abandon
  <2> QED
    BY <1>5, <2>1, <2>2 DEF Select
<1>6. CASE SetupOk \/ SetupFail
  BY <1>6 DEF SetupOk, SetupFail, Fail
<1>7. CASE OfferClient
  BY <1>7, PushPoison DEF OfferClient
<1>8. CASE OfferResp
  BY <1>8, PushPoison DEF OfferResp
<1>9. CASE Switch
  BY <1>9 DEF Switch, Fail
<1>10. CASE SpliceDown \/ SpliceCancelled
  BY <1>10 DEF SpliceDown, SpliceCancelled
<1>11. CASE Teardown \/ Finish
  BY <1>11 DEF Teardown, Finish
<1>12. CASE Backend \/ Drain
  BY <1>12 DEF Backend, Drain
<1>13. CASE UNCHANGED vars
  BY <1>13 DEF vars
<1>14. CASE Done
  BY <1>13, <1>14 DEF Done
<1> QED
  BY <1>1, <1>2, <1>3, <1>4, <1>5, <1>6, <1>7, <1>8, <1>9, <1>10, <1>11, <1>12,
     <1>13, <1>14 DEF Next, Handler, RunExchange

\* What the proofs take from TypeOK.
LEMMA Typed ==
  ASSUME TypeOK
  PROVE  /\ load \in Loads /\ req \in Nat /\ req <= Len(load.resp) /\ Flags
         /\ events \in Seq(EventRec) /\ carry \in Seq(EventRec)
         /\ carry \o events \in Seq(EventRec)
         /\ residue \in [{"up", "down"} -> Seq(Nat)]
         /\ residue["up"] \in Seq(Nat) /\ residue["down"] \in Seq(Nat)
         /\ rgot \in Seq(Nat) /\ resp_pending \in Seq(Nat) /\ rx \in Seq(Nat)
         /\ Len(Script) \in Nat /\ Len(load.resp) \in Nat
         /\ fed \in Nat /\ inp \in Nat /\ fed <= Len(Script) /\ inp <= Len(Script)
<1>1. load \in Loads
  BY DEF TypeOK
<1>2. Len(Script) \in Nat /\ Len(load.resp) \in Nat
  BY <1>1, ScriptFacts
<1>3. events \in Seq(EventRec) /\ carry \in Seq(EventRec)
  BY DEF TypeOK, EventRec
<1>4. carry \o events \in Seq(EventRec)
  BY <1>3
<1>5. residue \in [{"up", "down"} -> Seq(Nat)]
  BY DEF TypeOK
<1>6. residue["up"] \in Seq(Nat) /\ residue["down"] \in Seq(Nat)
  BY <1>5
<1>7. req \in Nat /\ req <= Len(load.resp)
  BY <1>2 DEF TypeOK
<1>8. fed \in Nat /\ inp \in Nat /\ fed <= Len(Script) /\ inp <= Len(Script)
  BY <1>2 DEF TypeOK
<1> QED
  BY <1>1, <1>2, <1>3, <1>4, <1>5, <1>6, <1>7, <1>8 DEF TypeOK, Flags

-----------------------------------------------------------------------------
(* The next event of the client's stream.                                  *)

\* e is the next event of the stream past c.
Follows(e, c) ==
  Genuine(Script, e) /\ c \in Nat /\ c < Order(e) /\ Nothing(Script, c, Order(e))

\* The first event of the queue, when nothing is carried.
LEMMA QueueHead ==
  ASSUME TypeOK, carry = <<>>, events # <<>>, IsClient(Head(events)),
         NEW c \in Nat, NEW m \in Nat, Queue(Script, ClientOf(carry \o events), c, m)
  PROVE  /\ Follows(Head(events), c)
         /\ Order(Head(events)) \in Nat /\ Order(Head(events)) <= m
         /\ Queue(Script, ClientOf(carry \o Tail(events)), Order(Head(events)), m)
<1> DEFINE e == Head(events)
           w == ClientOf(Tail(events))
<1>1. events \in Seq(EventRec)
  BY Typed
<1>2. e \in EventRec /\ Tail(events) \in Seq(EventRec)
  BY <1>1, SideHead
<1>3. ClientOf(events) = <<e>> \o w
  BY <1>1, SideHead
<1>4. w \in Seq(EventRec)
  BY <1>2, SideConcat
<1>5. carry \o events = events
  BY <1>1
<1>6. carry \o Tail(events) = Tail(events)
  BY <1>2
<1> HIDE DEF e, w
<1>7. Queue(Script, <<e>> \o w, c, m)
  BY <1>3, <1>5
<1>8. /\ Queue(Script, w, Order(e), m) /\ Genuine(Script, e)
      /\ c < Order(e) /\ Order(e) <= m /\ Nothing(Script, c, Order(e))
  BY <1>2, <1>4, <1>7, QueuePop
<1>9. Order(e) \in Nat
  BY <1>2, OrderNat
<1> QED
  BY <1>6, <1>8, <1>9 DEF e, w, Follows

\* Nothing the parser frames lies between c and the next event.
LEMMA NoneBetween ==
  ASSUME load \in Loads, NEW e, NEW c, Follows(e, c), NEW p \in 1..Len(Script),
         Script[p].kind \in HB
  PROVE  /\ ~(c < 2 * p /\ 2 * p < Order(e))
         /\ Script[p].last => ~(c < 2 * p + 1 /\ 2 * p + 1 < Order(e))
<1>1. /\ Genuine(Script, Event(Script[p].kind, p))
      /\ Order(Event(Script[p].kind, p)) = 2 * p
      /\ Script[p].last => Genuine(Script, Event("end", p))
      /\ Order(Event("end", p)) = 2 * p + 1
  BY TokenGenuine
<1>2. /\ Event(Script[p].kind, p) \in EventRec
      /\ Script[p].last => Event("end", p) \in EventRec
  BY <1>1 DEF Genuine
<1> QED
  BY <1>1, <1>2 DEF Follows, Nothing

\* Its place, and what it is an event of.
LEMMA FollowsFacts ==
  ASSUME load \in Loads, NEW e, NEW c, Follows(e, c)
  PROVE  /\ e \in EventRec /\ e.at \in 1..Len(Script) /\ e.at \in Nat /\ c \in Nat
         /\ Script[e.at].kind \in HB /\ c < Order(e) /\ Order(e) \in Nat
         /\ e.ev = "head" => Script[e.at].kind = "head" /\ Order(e) = 2 * e.at
         /\ e.ev = "body" => Script[e.at].kind = "body" /\ Order(e) = 2 * e.at
         /\ e.ev = "end" => Script[e.at].last /\ Order(e) = 2 * e.at + 1
<1>1. Genuine(Script, e) /\ c \in Nat /\ c < Order(e)
  BY DEF Follows
<1>2. e \in EventRec /\ e.at \in 1..Len(Script) /\ Script[e.at].kind \in HB
  BY <1>1 DEF Genuine
<1>3. Len(Script) \in Nat
  BY ScriptFacts
<1>4. e.at \in Nat
  BY <1>2, <1>3
<1> QED
  BY <1>1, <1>2, <1>4, OrderNat DEF Genuine, Order, HB

\* An event that is not a head leaves them as they are.
LEMMA HeadsSame ==
  ASSUME load \in Loads, NEW e, NEW c, Follows(e, c), e.ev # "head",
         NEW r, HeadsUpTo(c, r)
  PROVE  HeadsUpTo(Order(e), r)
<1> SUFFICES ASSUME NEW p \in 1..Len(Script), Script[p].kind = "head"
             PROVE  2 * p <= Order(e) <=> Script[p].req <= r
  BY DEF HeadsUpTo
<1>1. 2 * p <= c <=> Script[p].req <= r
  BY DEF HeadsUpTo
<1>2. c \in Nat /\ Order(e) \in Nat /\ c < Order(e) /\ Len(Script) \in Nat /\ p \in Nat
  BY FollowsFacts, ScriptFacts
<1>3. ~(c < 2 * p /\ 2 * p < Order(e))
  BY NoneBetween DEF HB
<1>4. 2 * p # Order(e)
  <2> SUFFICES ASSUME 2 * p = Order(e) PROVE FALSE
    OBVIOUS
  <2>1. Genuine(Script, Event(Script[p].kind, p)) /\ Order(Event(Script[p].kind, p)) = 2 * p
    BY TokenGenuine DEF HB
  <2>2. Genuine(Script, e)
    BY DEF Follows
  <2>3. e = Event(Script[p].kind, p)
    BY <2>1, <2>2, OrderInjective
  <2> QED
    BY <2>3 DEF Event
<1> QED
  BY <1>1, <1>2, <1>3, <1>4

\* A head is that of the next request.
LEMMA NextHead ==
  ASSUME load \in Loads, NEW e, NEW c, Follows(e, c), e.ev = "head",
         NEW r \in Nat, HeadsUpTo(c, r)
  PROVE  /\ Script[e.at].req = r + 1 /\ r + 1 <= Len(load.resp)
         /\ HeadsUpTo(Order(e), r + 1)
<1> DEFINE p == e.at
<1>1. /\ p \in 1..Len(Script) /\ Script[p].kind = "head" /\ Order(e) = 2 * p
      /\ c \in Nat /\ c < 2 * p
  BY FollowsFacts
<1> HIDE DEF p
<1>2. Script[p].req \in Nat \ {0} /\ p \in Nat /\ Len(Script) \in Nat
  BY <1>1, TokenFacts, ScriptFacts
<1>3. ~(Script[p].req <= r)
  BY <1>1, <1>2 DEF HeadsUpTo
<1>4. Script[p].req - 1 <= r
  <2>1. CASE Script[p].req = 1
    BY <2>1
  <2>2. CASE Script[p].req # 1
    <3>1. PICK h \in 1..(p - 1) :
            Script[h].kind = "head" /\ Script[h].req = Script[p].req - 1
      BY <1>1, <2>2, PreviousHead
    <3>2. h \in 1..Len(Script) /\ 2 * h < 2 * p /\ h \in Nat
      BY <1>1, <1>2
    <3>3. ~(c < 2 * h /\ 2 * h < Order(e))
      BY <3>1, <3>2, NoneBetween DEF HB
    <3>4. 2 * h <= c
      BY <1>1, <3>2, <3>3
    <3> QED
      BY <3>1, <3>2, <3>4 DEF HeadsUpTo
  <2> QED
    BY <2>1, <2>2
<1>5. Script[p].req = r + 1
  BY <1>2, <1>3, <1>4
<1>6. Script[p].req <= Len(load.resp)
  BY <1>1, StreamStep
<1>7. ASSUME NEW q \in 1..Len(Script), Script[q].kind = "head"
      PROVE  2 * q <= 2 * p <=> Script[q].req <= r + 1
  <2>1. q \in Nat /\ Script[q].req \in Nat
    BY <1>2, TokenFacts
  <2>2. CASE q <= p
    <3>1. q \in 1..p
      BY <1>2, <2>1, <2>2
    <3>2. Script[q].req <= Script[p].req
      BY <1>1, <3>1, RequestsRise DEF HB
    <3> QED
      BY <1>2, <1>5, <2>1, <2>2, <3>2
  <2>3. CASE ~(q <= p)
    <3>1. p \in 1..q /\ p < q
      BY <1>1, <1>2, <2>1, <2>3
    <3>2. Script[p].req < Script[q].req
      BY <1>7, <3>1, RequestsRise DEF HB
    <3> QED
      BY <1>2, <1>5, <2>1, <2>3, <3>2
  <2> QED
    BY <2>2, <2>3
<1>8. HeadsUpTo(Order(e), r + 1)
  BY <1>1, <1>7 DEF HeadsUpTo
<1> QED
  BY <1>5, <1>6, <1>8 DEF p

\* Inside a request, past its piece x: a body is the piece after x, an end is
\* that of x, and no head comes before the end.
LEMMA WithinRequest ==
  ASSUME load \in Loads, NEW x \in 1..Len(Script), Script[x].kind \in HB,
         NEW e, Follows(e, 2 * x)
  PROVE  /\ e.ev = "body" => e.at = x + 1 /\ Script[x + 1].req = Script[x].req
         /\ e.ev = "end" => e.at = x
         /\ e.ev # "head"
<1> DEFINE p == e.at
<1>1. /\ p \in 1..Len(Script) /\ Script[p].kind \in HB /\ p \in Nat
      /\ 2 * x < Order(e) /\ Order(e) \in Nat
      /\ e.ev = "head" => Script[p].kind = "head" /\ Order(e) = 2 * p
      /\ e.ev = "body" => Script[p].kind = "body" /\ Order(e) = 2 * p
      /\ e.ev = "end" => Script[p].last /\ Order(e) = 2 * p + 1
  BY FollowsFacts
<1> HIDE DEF p
<1>2. x \in Nat /\ Len(Script) \in Nat
  BY ScriptFacts
<1>3. ASSUME e.ev = "body" PROVE p = x + 1 /\ Script[p].req = Script[x].req
  <2>1. p > 1 /\ Script[p - 1].kind \in HB /\ Script[p].req = Script[p - 1].req
    BY <1>1, <1>3, StreamStep
  <2>2. p - 1 \in 1..Len(Script)
    BY <1>1, <1>2, <2>1
  <2>3. ~(2 * x < 2 * (p - 1) /\ 2 * (p - 1) < Order(e))
    BY <2>1, <2>2, NoneBetween
  <2>4. p = x + 1
    BY <1>1, <1>2, <1>3, <2>3
  <2> QED
    BY <1>2, <2>1, <2>4
<1>4. ASSUME e.ev = "end" PROVE p = x
  <2>1. ~(2 * x < 2 * p /\ 2 * p < Order(e))
    BY <1>1, NoneBetween
  <2> QED
    BY <1>1, <1>2, <1>4, <2>1
<1>5. ASSUME e.ev = "head" PROVE FALSE
  <2>1. p > 1
    BY <1>1, <1>2, <1>5
  <2>2. Script[p - 1].kind \in HB /\ Script[p - 1].last
    BY <1>1, <1>5, <2>1, StreamStep
  <2>3. p - 1 \in 1..Len(Script)
    BY <1>1, <1>2, <2>1
  <2>4. ~(2 * x < 2 * (p - 1) + 1 /\ 2 * (p - 1) + 1 < Order(e))
    BY <2>2, <2>3, NoneBetween
  <2> QED
    BY <1>1, <1>2, <1>5, <2>4
<1> QED
  BY <1>3, <1>4, <1>5 DEF p

\* TypeOK, in parts.
ControlType ==
  /\ load \in Loads /\ pc \in Stage /\ req \in 0..Len(load.resp)
  /\ outcome \in {"none", "Completed", "Reset", "Failed"} /\ Flags
ClientType ==
  /\ inp \in 0..Len(Script) /\ client_pending \in Seq(1..Len(Script))
  /\ fed \in 0..Len(Script) /\ events \in Seq(EventRec) /\ tunnelled \in BOOLEAN
  /\ residue \in [{"up", "down"} -> Seq(Nat)]
ExchangeType ==
  /\ rgot \in Seq(Nat) /\ carry \in Seq(EventRec) /\ request_done \in BOOLEAN
  /\ response_done \in BOOLEAN /\ keep_alive \in BOOLEAN /\ end \in Ends
  /\ resp_pending \in Seq(Nat)
BusType ==
  bsent \in Nat /\ rx \in Seq(Nat) /\ Len(rx) <= Capacity /\ rx_cancel \in BOOLEAN
OutRec == [req : 1..(Len(load.resp) + 1), kind : {"sample", "refused", "error"}, at : Nat]
HistoryType ==
  /\ sent \in [Req -> Seq(0..Len(Script))] /\ out \in Seq(OutRec) /\ holed \subseteq Req

\* TypeOK is its parts.
LEMMA TypeParts ==
  TypeOK <=> ControlType /\ ClientType /\ ExchangeType /\ BusType /\ HistoryType
BY DEF TypeOK, ControlType, ClientType, ExchangeType, BusType, HistoryType, OutRec,
       EventRec, Flags

\* A put keeps the history's type.
LEMMA PutType ==
  ASSUME TypeOK, req \in Req, NEW t \in Seq(0..Len(Script)), Put(t)
  PROVE  sent' \in [Req -> Seq(0..Len(Script))]
<1>1. sent \in [Req -> Seq(0..Len(Script))]
  BY DEF TypeOK
<1> DEFINE A == 0..Len(Script)
           R == Req
<1>2. sent \in [R -> Seq(A)] /\ req \in R /\ t \in Seq(A)
  BY <1>1
<1> HIDE DEF A, R
<1>3. sent[req] \in Seq(A)
  BY <1>2
<1>4. sent[req] \o t \in Seq(A)
  BY <1>2, <1>3
<1>5. sent' = [sent EXCEPT ![req] = sent[req] \o t]
  BY DEF Put
<1> QED
  BY <1>2, <1>4, <1>5 DEF A, R

\* So does something written to the client.
LEMMA OutType ==
  ASSUME TypeOK, NEW r \in 1..(Len(load.resp) + 1), NEW k \in {"sample", "refused", "error"},
         NEW n \in Nat
  PROVE  Append(out, [req |-> r, kind |-> k, at |-> n]) \in Seq(OutRec)
<1>1. out \in Seq(OutRec)
  BY DEF TypeOK, OutRec
<1>2. [req |-> r, kind |-> k, at |-> n] \in OutRec
  BY DEF OutRec
<1> HIDE DEF OutRec
<1> QED
  BY <1>1, <1>2, AppendFacts

\* A run of the stream.
LEMMA RunType ==
  ASSUME NEW a \in Nat, NEW b \in Nat, NEW m \in Nat, a <= b, b <= m
  PROVE  Run(a, b) \in Seq(1..m) /\ Run(a, b) \in Seq(0..m)
<1>1. Run(a, b) \in Seq((a + 1)..b)
  BY RunFacts
<1>2. (a + 1)..b \subseteq 1..m /\ (a + 1)..b \subseteq 0..m
  OBVIOUS
<1> QED
  BY <1>1, <1>2, SeqMonotonic

\* The request an exchange is about.
LEMMA ReqFacts ==
  ASSUME TypeOK, SentInv, pc \in {"route", "setup", "consume", "discard", "teardown"} \cup Exchange
  PROVE  req \in Req /\ req \in 1..(Len(load.resp) + 1) /\ req \in Nat /\ req >= 1
<1>1. req \in Req
  BY DEF SentInv
<1>2. Len(load.resp) \in Nat
  BY Typed
<1> QED
  BY <1>1, <1>2 DEF Req

\* When the protocol switches, what the parser kept and what it refused is all
\* that was read past the request.
LEMMA SwitchRun ==
  ASSUME TypeOK, FeedInv, CursorInv, CarryInv, UpInv, SwitchInv, pc = "switch"
  PROVE  /\ UpFirst = Run(Reached, inp) /\ Reached <= inp /\ Reached \in 1..Len(Script)
         /\ Script[Reached].kind \in HB /\ Script[Reached].req = req
         /\ load.resp[Script[Reached].req].framing = "switch"
<1> DEFINE y == Reached
<1>1. ~Over /\ pc \in Exchange
  BY DEF Over, Exchange
<1>2. PICK c \in Nat : At(c)
  BY <1>1 DEF CursorInv
<1>3. /\ c = 2 * y + (IF request_done THEN 1 ELSE 0) /\ y \in 1..Len(Script)
      /\ Script[y].kind \in HB /\ Script[y].req = req
      /\ request_done => Script[y].last
      /\ Queue(Script, ClientOf(carry \o events), c, 2 * fed + 1)
  BY <1>1, <1>2 DEF At
<1> HIDE DEF y
<1>4. /\ load \in Loads /\ fed \in Nat /\ inp \in Nat /\ fed <= inp /\ inp <= Len(Script)
      /\ Len(Script) \in Nat /\ client_pending = Run(fed, inp) /\ y \in Nat
  BY <1>1, <1>3, Typed DEF FeedInv
<1>5. load.resp[Script[y].req].framing = "switch"
  BY <1>3 DEF SwitchInv, Resp
<1>6. PICK x \in 0..fed : /\ residue["up"] = Run(x, fed)
                          /\ \A p \in 1..fed : Script[p].kind = "raw" <=> p > x
  BY <1>1 DEF UpInv, Kept
<1>7. c <= 2 * fed + 1
  BY <1>3 DEF Queue
<1>8. y <= fed
  BY <1>2, <1>3, <1>4, <1>7
<1>9. y <= x
  <2>1. Script[y].kind # "raw"
    BY <1>3 DEF HB
  <2> QED
    BY <1>3, <1>4, <1>6, <1>8, <2>1
<1>10. ~(y < x)
  <2> SUFFICES ASSUME y < x PROVE FALSE
    OBVIOUS
  <2> DEFINE q == y + 1
  <2>1. q \in 1..fed /\ q \in y..Len(Script) /\ q > y /\ ~(q > x) /\ q \in 1..Len(Script)
    BY <1>3, <1>4, <1>6
  <2> HIDE DEF q
  <2>2. Script[q].kind # "raw"
    BY <1>6, <2>1
  <2>3. /\ Script[q].kind \in {"body", "raw"}
        /\ Script[y].last => Script[q].kind = "raw"
    BY <1>3, <1>4, <1>5, <2>1, AfterSwitch
  <2>4. ~request_done /\ Script[q].kind = "body" /\ Script[q].kind \in HB
    BY <1>3, <2>2, <2>3 DEF HB
  <2>5. carry = <<>> /\ events = <<>>
    BY <2>4 DEF CarryInv, SwitchInv
  <2>6. ClientOf(carry \o events) = <<>>
    <3>1. <<>> \o <<>> = <<>>
      OBVIOUS
    <3> QED
      BY <2>5, <3>1, SideEmpty
  <2>7. /\ Genuine(Script, Event(Script[q].kind, q))
        /\ Order(Event(Script[q].kind, q)) = 2 * q
    BY <1>4, <2>1, <2>4, TokenGenuine
  <2>8. c < 2 * q /\ 2 * q <= 2 * fed + 1
    BY <1>3, <1>4, <2>1, <2>4
  <2>9. Event(Script[q].kind, q) \in EventRec
    BY <2>7 DEF Genuine
  <2>10. \E i \in 1..Len(<<>>) : <<>>[i] = Event(Script[q].kind, q)
    BY <1>3, <2>6, <2>7, <2>8, <2>9 DEF Queue
  <2> QED
    BY <2>10
<1>11. x = y
  BY <1>4, <1>6, <1>9, <1>10
<1>12. Run(x, fed) \o Run(fed, inp) = Run(x, inp)
  <2>1. x \in Nat /\ x <= fed
    BY <1>4
  <2> QED
    BY <1>4, <2>1, RunConcat
<1>13. UpFirst = Run(y, inp)
  BY <1>4, <1>6, <1>11, <1>12 DEF UpFirst
<1>14. y <= inp
  BY <1>4, <1>8
<1> QED
  BY <1>3, <1>5, <1>13, <1>14 DEF y

\* The head the client's side has framed is one of its tokens.
LEMMA HeadType ==
  ASSUME TypeOK, FeedInv, CursorInv, CarryInv, ~Over, carry = <<>>, events # <<>>,
         IsClient(Head(events))
  PROVE  /\ Head(events).at \in 1..Len(Script)
         /\ Head(events).ev = "head" =>
              /\ Script[Head(events).at].req = req + 1 /\ req + 1 <= Len(load.resp)
              /\ Script[Head(events).at].kind = "head"
<1>1. PICK c \in Nat : At(c)
  BY DEF CursorInv
<1>2. fed \in Nat /\ load \in Loads /\ req \in Nat
  BY Typed
<1>3. 2 * fed + 1 \in Nat
  BY <1>2
<1>4. Queue(Script, ClientOf(carry \o events), c, 2 * fed + 1) /\ HeadsUpTo(c, req)
  BY <1>1 DEF At
<1>5. Follows(Head(events), c)
  BY <1>3, <1>4, QueueHead
<1>6. Head(events).at \in 1..Len(Script)
      /\ (Head(events).ev = "head" => Script[Head(events).at].kind = "head")
  BY <1>2, <1>5, FollowsFacts
<1>7. Head(events).ev = "head" =>
        Script[Head(events).at].req = req + 1 /\ req + 1 <= Len(load.resp)
  BY <1>2, <1>4, <1>5, NextHead
<1> QED
  BY <1>6, <1>7

\* The loads never change.
LEMMA LoadKept ==
  ASSUME FeedInv, [Next]_vars
  PROVE  load' = load
BY Kind DEF Pushed, Idle, Quit, NextPop, RouteUnavailable, DiscardPop, SetupOk,
   Offered, TakenRequest, TakenAside, TakenHead, TakenBody, TakenEnd, TakenSwitch,
   Taken, TakenAll, Abandoned, SelectRecv, Switched, SpliceUp, SpliceDown, Teardown,
   Backend, ctl

\* Nothing of the events is carried outside the loop over them.
LEMMA NoCarry ==
  ASSUME CarryInv, pc # "done", pc # "process" \/ ~request_done
  PROVE  carry = <<>>
BY DEF CarryInv

\* Every step keeps the types of the handler's own state.
LEMMA ControlNext ==
  ASSUME Inv, [Next]_vars
  PROVE  ControlType'
<1> USE DEF ctl, cli, par, exch, bus, hist, Goto
<1>1. /\ load \in Loads /\ req \in Nat /\ req <= Len(load.resp) /\ Len(load.resp) \in Nat
      /\ FeedInv /\ TypeOK /\ Flags
  BY Typed DEF Inv
<1>2. load' = load /\ load' \in Loads
  BY <1>1, LoadKept
<1>3. Flags'
  BY <1>1, FlagTypes
<1>4. pc \in Stage /\ outcome \in {"none", "Completed", "Reset", "Failed"}
  BY <1>1 DEF TypeOK
<1>5. CASE NextPop
  <2>1. carry = <<>> /\ ~Over /\ events # <<>>
    BY <1>5, NoCarry DEF NextPop, Inv, Over
  <2>2. Head(events).ev = "head" => req + 1 <= Len(load.resp)
    BY <1>1, <2>1, HeadType DEF Inv, IsClient
  <2>3. req' \in 0..Len(load.resp)
    BY <1>1, <1>5, <2>2 DEF NextPop
  <2> QED
    BY <1>2, <1>3, <1>4, <1>5, <2>3 DEF NextPop, ControlType, Stage
<1>6. CASE ~NextPop
  <2>1. req' = req
    BY <1>1, <1>6, Kind DEF Pushed, Idle, Quit, RouteUnavailable, DiscardPop, SetupOk,
       Offered, TakenRequest, TakenAside, TakenHead, TakenBody, TakenEnd, TakenSwitch,
       Taken, TakenAll, Abandoned, SelectRecv, Switched, SpliceUp, SpliceDown, Teardown,
       Backend
  <2>2. pc' \in Stage
    BY <1>1, <1>4, <1>6, Kind DEF Pushed, Idle, Quit, RouteUnavailable, DiscardPop,
       SetupOk, Offered, TakenRequest, TakenAside, TakenHead, TakenBody, TakenEnd,
       TakenSwitch, Taken, TakenAll, Abandoned, SelectRecv, Switched, SpliceUp,
       SpliceDown, Teardown, Backend, Stage, Ahead
  <2>3. Closing \in {outcome, "Failed", "Reset"}
    BY Zenon DEF Closing
  <2>4. outcome' \in {"none", "Completed", "Reset", "Failed"}
    BY <1>1, <1>4, <1>6, <2>3, Kind DEF Pushed, Idle, Quit, RouteUnavailable, DiscardPop,
       SetupOk, Offered, TakenRequest, TakenAside, TakenHead, TakenBody, TakenEnd,
       TakenSwitch, Taken, TakenAll, Abandoned, SelectRecv, Switched, SpliceUp,
       SpliceDown, Teardown, Backend
  <2> QED
    BY <1>1, <1>2, <1>3, <2>1, <2>2, <2>4 DEF ControlType
<1> QED
  BY <1>5, <1>6

\* Every step keeps the types of the client's side.
LEMMA ClientNext ==
  ASSUME Inv, [Next]_vars
  PROVE  ClientType' /\ rgot' \in Seq(Nat) /\ carry' \in Seq(EventRec) /\ resp_pending' \in Seq(Nat)
<1> USE DEF ctl, cli, par, exch, bus, hist, Goto
<1>1. /\ load \in Loads /\ events \in Seq(EventRec) /\ carry \in Seq(EventRec)
      /\ residue \in [{"up", "down"} -> Seq(Nat)] /\ rgot \in Seq(Nat)
      /\ resp_pending \in Seq(Nat) /\ rx \in Seq(Nat) /\ FeedInv /\ TypeOK
      /\ Len(Script) \in Nat /\ Flags
  BY Typed DEF Inv
<1>2. client_pending \in Seq(1..Len(Script))
  BY <1>1 DEF TypeOK
<1>3. FeedInv' /\ Script' = Script /\ Flags'
  BY <1>1, FeedNext, LoadKept, FlagTypes DEF Script
<1>4. /\ inp' \in Nat /\ fed' \in Nat /\ fed' <= inp' /\ inp' <= Len(Script)
      /\ inp' \in 0..Len(Script') /\ fed' \in 0..Len(Script') /\ tunnelled' \in BOOLEAN
  BY <1>1, <1>3 DEF FeedInv, Flags
<1> SUFFICES /\ client_pending' \in Seq(1..Len(Script)) /\ events' \in Seq(EventRec)
             /\ residue' \in [{"up", "down"} -> Seq(Nat)]
             /\ rgot' \in Seq(Nat) /\ carry' \in Seq(EventRec) /\ resp_pending' \in Seq(Nat)
  BY <1>3, <1>4 DEF ClientType, EventRec, EventKind
<1>5. CASE Pushed
  <2>1. PICK k : k \in 0..(inp' - fed) /\ Accepts(k, inp')
    BY <1>5 DEF Pushed
  <2>2. fed \in Nat /\ k \in Nat /\ fed + k <= Len(Script) /\ fed + k <= inp'
        /\ fed + k \in Nat
    <3>1. fed \in Nat /\ k \in 0..(inp' - fed)
      BY <1>1, <2>1 DEF FeedInv
    <3> DEFINE m == inp'
    <3>2. m \in Nat /\ k \in 0..(m - fed) /\ m <= Len(Script) /\ Len(Script) \in Nat
      BY <1>1, <1>4, <3>1
    <3> HIDE DEF m
    <3>3. k \in Nat /\ fed + k <= m /\ fed + k \in Nat
      BY <3>1, <3>2
    <3>4. fed + k <= Len(Script)
      BY <3>1, <3>2, <3>3
    <3> QED
      BY <3>1, <3>3, <3>4 DEF m
  <2>3. Framing(fed, k) \in Seq(EventRec)
    BY <1>1, <2>2, FramingQueue
  <2>4. Leftover(fed, k) \in Seq(Nat)
    BY <1>1, <2>2, LeftoverType
  <2>5. events' \in Seq(EventRec)
    BY <1>1, <2>1, <2>3, ConcatProperties DEF Accepts
  <2>6. residue' \in [{"up", "down"} -> Seq(Nat)]
    <3>1. residue["up"] \o Leftover(fed, k) \in Seq(Nat)
      BY <1>1, <2>4
    <3>2. residue' = [residue EXCEPT !["up"] = residue["up"] \o Leftover(fed, k)]
      BY <2>1 DEF Accepts
    <3> QED
      BY <1>1, <3>1, <3>2
  <2>7. client_pending' \in Seq(1..Len(Script))
    BY <1>1, <1>4, <2>1, <2>2, RunType DEF Accepts
  <2> QED
    BY <1>1, <1>5, <2>5, <2>6, <2>7 DEF Pushed
<1>6. CASE Idle \/ Quit \/ RouteUnavailable \/ SpliceUp \/ SpliceDown \/ Teardown \/ Backend
  BY <1>1, <1>2, <1>6 DEF Idle, Quit, RouteUnavailable, SpliceUp, SpliceDown, Teardown, Backend
<1>7. CASE SetupOk
  BY <1>1, <1>2, <1>7 DEF SetupOk
<1>8. CASE NextPop \/ DiscardPop
  <2>1. events # <<>>
    BY <1>8 DEF NextPop, DiscardPop
  <2>2. Tail(events) \in Seq(EventRec)
    BY <1>1, <2>1, SideHead
  <2> QED
    BY <1>1, <1>2, <1>8, <2>2 DEF NextPop, DiscardPop
<1>9. CASE TakenRequest \/ TakenAside \/ TakenHead \/ TakenBody \/ TakenEnd \/ TakenSwitch
  <2>1. events # <<>> /\ UNCHANGED <<client_pending, residue, rgot, resp_pending>>
    BY <1>9 DEF TakenRequest, TakenAside, TakenHead, TakenBody, TakenEnd, TakenSwitch, Taken
  <2>2. Tail(events) \in Seq(EventRec) /\ Head(events) \in EventRec
    BY <1>1, <2>1, SideHead
  <2>3. Append(carry, Head(events)) \in Seq(EventRec)
    BY <1>1, <2>2, AppendFacts
  <2>4. carry \o Tail(events) \in Seq(EventRec)
    BY <1>1, <2>2, ConcatProperties
  <2>5. events' \in {Tail(events), carry \o Tail(events)}
        /\ carry' \in {carry, <<>>, Append(carry, Head(events))}
    BY <1>9 DEF TakenRequest, TakenAside, TakenHead, TakenBody, TakenEnd, TakenSwitch
  <2>6. <<>> \in Seq(EventRec)
    OBVIOUS
  <2> QED
    BY <1>1, <1>2, <2>1, <2>2, <2>3, <2>4, <2>5, <2>6
<1>10. CASE TakenAll
  <2>1. <<>> \in Seq(EventRec)
    OBVIOUS
  <2> QED
    BY <1>1, <1>2, <1>10, <2>1 DEF TakenAll
<1>11. CASE Abandoned
  <2>1. events # <<>> => carry \o Tail(events) \in Seq(EventRec)
    <3> SUFFICES ASSUME events # <<>> PROVE carry \o Tail(events) \in Seq(EventRec)
      OBVIOUS
    <3>1. Tail(events) \in Seq(EventRec)
      BY <1>1, SideHead
    <3> QED
      BY <1>1, <3>1, ConcatProperties
  <2>2. <<>> \in Seq(EventRec)
    OBVIOUS
  <2> QED
    BY <1>1, <1>2, <1>11, <2>1, <2>2 DEF Abandoned
<1>12. CASE Switched
  <2>1. <<>> \in Seq(1..Len(Script)) /\ <<>> \in Seq(Nat)
    OBVIOUS
  <2>2. residue' \in [{"up", "down"} -> Seq(Nat)]
    BY <1>12, <2>1 DEF Switched
  <2> QED
    BY <1>1, <1>12, <2>1, <2>2 DEF Switched
<1>13. ASSUME NEW off \in Seq(Nat), Len(off) <= 1, PushResp(off)
       PROVE  /\ events' \in Seq(EventRec) /\ rgot' \in Seq(Nat) /\ resp_pending' \in Seq(Nat)
              /\ residue' \in [{"up", "down"} -> Seq(Nat)]
  <2>1. Held(off) \/ (Len(off) = 1 /\ off[1] \in Nat /\ Accepted(off[1]))
    BY <1>1, <1>13, PushOne
  <2>2. CASE Held(off)
    BY <1>1, <2>2 DEF Held
  <2>3. ASSUME NEW n \in Nat, Accepted(n)
        PROVE  /\ events' \in Seq(EventRec) /\ rgot' \in Seq(Nat) /\ resp_pending' \in Seq(Nat)
               /\ residue' \in [{"up", "down"} -> Seq(Nat)]
    <3>1. ResponseEvents(n, rgot) \in Seq(EventRec)
      BY ResponseFacts
    <3>2. events \o ResponseEvents(n, rgot) \in Seq(EventRec)
      BY <1>1, <3>1, ConcatProperties
    <3>3. Append(rgot, n) \in Seq(Nat) /\ <<>> \in Seq(Nat)
      BY <1>1, AppendFacts
    <3>4. RawDown(n) \in Seq(Nat)
      BY DEF RawDown
    <3>5. residue["down"] \o RawDown(n) \in Seq(Nat)
      BY <1>1, <3>4
    <3>6. residue' = [residue EXCEPT !["down"] = residue["down"] \o RawDown(n)]
      BY <2>3 DEF Accepted
    <3>7. residue' \in [{"up", "down"} -> Seq(Nat)]
      BY <1>1, <3>5, <3>6
    <3> QED
      BY <1>1, <2>3, <3>2, <3>3, <3>7 DEF Accepted
  <2> QED
    BY <2>1, <2>2, <2>3
<1>14. CASE Offered
  <2>1. Len(resp_pending) <= 1
    BY <1>14 DEF Offered, Inv, LineInv, Exchange
  <2> QED
    BY <1>1, <1>2, <1>13, <1>14, <2>1 DEF Offered
<1>15. CASE SelectRecv
  <2>1. Head(rx) \in Nat
    BY <1>1, <1>15, SMTT(20) DEF SelectRecv
  <2>2. <<Head(rx)>> \in Seq(Nat) /\ Len(<<Head(rx)>>) <= 1
    BY <2>1
  <2>3. CASE Head(rx) # 0
    BY <1>1, <1>2, <1>13, <1>15, <2>2, <2>3 DEF SelectRecv
  <2>4. CASE Head(rx) = 0
    <3> DEFINE e == Event("rend", 0)
    <3>1. e \in EventRec
      BY DEF Event, EventRec, EventKind
    <3> HIDE DEF e
    <3>2. Append(events, e) \in Seq(EventRec)
      BY <1>1, <3>1, AppendFacts
    <3> QED
      BY <1>1, <1>2, <1>15, <2>4, <3>2 DEF SelectRecv, FinResp, e
  <2> QED
    BY <2>3, <2>4
<1> QED
  BY <1>1, <1>5, <1>6, <1>7, <1>8, <1>9, <1>10, <1>11, <1>12, <1>14, <1>15, Kind

\* Every step keeps the types of the exchange and of its channel.
LEMMA ExchangeNext ==
  ASSUME Inv, [Next]_vars
  PROVE  ExchangeType' /\ BusType'
<1> USE DEF ctl, cli, par, exch, bus, hist, Goto
<1>1. /\ TypeOK /\ FeedInv /\ rx \in Seq(Nat) /\ Len(rx) \in Nat /\ Capacity \in Nat \ {0}
      /\ rgot' \in Seq(Nat) /\ carry' \in Seq(EventRec) /\ resp_pending' \in Seq(Nat)
  BY Typed, ClientNext, MultirouteAssumption DEF Inv
<1>2. ExchangeType /\ BusType
  BY <1>1, TypeParts
<1>3. request_done' \in BOOLEAN /\ response_done' \in BOOLEAN
  BY <1>1, <1>2, Kind DEF ExchangeType, Pushed, Idle, Quit, NextPop, RouteUnavailable,
     DiscardPop, SetupOk, Offered, TakenRequest, TakenAside, TakenHead, TakenBody,
     TakenEnd, TakenSwitch, Taken, TakenAll, Abandoned, SelectRecv, Switched, SpliceUp,
     SpliceDown, Teardown, Backend
<1>4. keep_alive' \in BOOLEAN /\ end' \in Ends
  <2>1. TakenHead => keep_alive' \in BOOLEAN /\ end' = end
    BY DEF TakenHead
  <2> QED
    BY <1>1, <1>2, <2>1, Kind DEF ExchangeType, Pushed, Idle, Quit, NextPop,
       RouteUnavailable, DiscardPop, SetupOk, Offered, TakenRequest, TakenAside,
       TakenBody, TakenEnd, TakenSwitch, Taken, TakenAll, Abandoned, SelectRecv, Switched,
       SpliceUp, SpliceDown, Teardown, Backend, Ends
<1>5. BusType'
  <2>1. CASE SetupOk
    <3>1. <<>> \in Seq(Nat) /\ Len(<<>>) = 0
      OBVIOUS
    <3>2. 0 <= Capacity /\ 0 \in Nat
      BY <1>1
    <3> QED
      BY <2>1, <3>1, <3>2 DEF SetupOk, BusType
  <2>2. CASE SelectRecv \/ SpliceDown
    <3>1. rx # <<>> /\ rx' = Tail(rx) /\ UNCHANGED <<bsent, rx_cancel>>
      BY <2>2 DEF SelectRecv, SpliceDown
    <3>2. Tail(rx) \in Seq(Nat) /\ Len(Tail(rx)) = Len(rx) - 1
      BY <1>1, <3>1
    <3> QED
      BY <1>1, <1>2, <3>1, <3>2 DEF BusType
  <2>3. CASE Backend
    <3>1. bsent \in Nat /\ Len(Kinds) \in Nat
      <4>1. req \in Req /\ load \in Loads
        BY <1>1, <2>3, ReqFacts, Typed DEF Backend, Inv
      <4>2. load.resp \in Seq(Response)
        BY <4>1, ScriptFacts
      <4>3. load.resp[req] \in Response
        BY <4>1, <4>2 DEF Req
      <4>4. Kinds \in Seq({"interim", "head", "body", "raw"})
        BY <4>3 DEF Kinds, Resp, Response
      <4> QED
        BY <1>2, <4>4, LenProperties DEF BusType
    <3>2. bsent' \in Nat
      BY <2>3, <3>1 DEF Backend, Kinds
    <3>3. PICK n \in Nat : Arrives(n)
      BY <2>3, <3>1 DEF Backend
    <3>4. /\ Append(rx, n) \in Seq(Nat) /\ Len(Append(rx, n)) = Len(rx) + 1
      BY <1>1, AppendFacts
    <3>5. Len(rx) < Capacity => Len(rx) + 1 <= Capacity
      BY <1>1
    <3>6. CASE rx' = Append(rx, n) /\ Len(rx) < Capacity /\ rx_cancel' = rx_cancel
      BY <1>2, <3>2, <3>4, <3>5, <3>6 DEF BusType
    <3>7. CASE rx' = rx /\ rx_cancel' \in {TRUE, rx_cancel}
      BY <1>2, <3>2, <3>7 DEF BusType
    <3> QED
      BY <3>3, <3>6, <3>7 DEF Arrives
  <2>4. CASE UNCHANGED bus
    BY <1>2, <2>4 DEF BusType
  <2> QED
    BY <1>1, <2>1, <2>2, <2>3, <2>4, Kind DEF Pushed, Idle, Quit, NextPop,
       RouteUnavailable, DiscardPop, Offered, TakenRequest, TakenAside, TakenHead,
       TakenBody, TakenEnd, TakenSwitch, Taken, TakenAll, Abandoned, Switched, SpliceUp,
       Teardown
<1> QED
  BY <1>1, <1>3, <1>4, <1>5 DEF ExchangeType

\* The head of the request that is set up.
Heading == CHOOSE p \in 1..Len(Script) : Script[p].req = req /\ Script[p].kind = "head"

\* SetupOk finds the head of its request in the stream.
LEMMA HeadingFacts ==
  ASSUME TypeOK, CursorInv, pc = "setup"
  PROVE  /\ Heading \in 1..Len(Script) /\ Script[Heading].req = req
         /\ Script[Heading].kind = "head" /\ At(2 * Heading)
<1>1. ~Over
  BY DEF Over
<1>2. PICK c \in Nat : At(c)
  BY <1>1 DEF CursorInv
<1>3. PICK h \in 1..Len(Script) : Script[h].kind = "head" /\ Script[h].req = req /\ c = 2 * h
  BY <1>2 DEF At
<1> DEFINE g == Heading
<1>4. g \in 1..Len(Script) /\ Script[g].req = req /\ Script[g].kind = "head"
  BY <1>3 DEF Heading
<1> HIDE DEF g
<1>5. load \in Loads /\ Len(Script) \in Nat /\ h \in Nat /\ g \in Nat /\ req \in Nat
  BY <1>3, <1>4, Typed
<1>6. ~(g < h)
  <2> SUFFICES ASSUME g < h PROVE FALSE
    OBVIOUS
  <2>1. g \in 1..h
    BY <1>4, <1>5
  <2>2. Script[g].req < Script[h].req
    BY <1>3, <1>5, <2>1, RequestsRise DEF HB
  <2> QED
    BY <1>3, <1>4, <1>5, <2>2
<1>7. ~(h < g)
  <2> SUFFICES ASSUME h < g PROVE FALSE
    OBVIOUS
  <2>1. h \in 1..g
    BY <1>3, <1>5
  <2>2. Script[h].req < Script[g].req
    BY <1>4, <1>5, <2>1, RequestsRise DEF HB
  <2> QED
    BY <1>3, <1>4, <1>5, <2>2
<1>8. g = h
  BY <1>5, <1>6, <1>7
<1> QED
  BY <1>2, <1>3, <1>4, <1>8 DEF g

\* Every step keeps the types of what was put and written.
LEMMA HistoryNext ==
  ASSUME Inv, [Next]_vars
  PROVE  HistoryType'
<1> USE DEF ctl, cli, par, exch, bus, hist, Goto
<1>1. /\ TypeOK /\ FeedInv /\ rx \in Seq(Nat) /\ req \in Nat /\ req <= Len(load.resp)
      /\ Len(load.resp) \in Nat /\ Len(Script) \in Nat /\ inp \in Nat /\ load \in Loads
      /\ residue["down"] \in Seq(Nat) /\ resp_pending \in Seq(Nat)
      /\ events \in Seq(EventRec) /\ inp <= Len(Script)
  BY Typed DEF Inv
<1>2. HistoryType
  BY <1>1, TypeParts
<1>3. load' = load /\ Req' = Req /\ Script' = Script /\ OutRec' = OutRec
  BY <1>1, LoadKept DEF Req, Script, OutRec
<1>4. req + 1 \in 1..(Len(load.resp) + 1)
  BY <1>1
<1>5. pc \in {"route", "setup", "consume", "discard", "teardown"} \cup Exchange =>
        req \in Req /\ req \in 1..(Len(load.resp) + 1)
  BY <1>1, ReqFacts DEF Inv
<1>6. sent' \in [Req -> Seq(0..Len(Script))]
  <2>1. sent \in [Req -> Seq(0..Len(Script))]
    BY <1>2 DEF HistoryType
  <2>2. CASE sent' = sent
    BY <2>1, <2>2
  <2>3. CASE SetupOk
    <3>1. Heading \in 1..Len(Script) /\ req \in Req
      BY <1>1, <1>5, <2>3, HeadingFacts DEF SetupOk, Inv
    <3>2. sent' = [sent EXCEPT ![req] = <<Heading>>]
      BY <2>3 DEF SetupOk, Heading
    <3> DEFINE A == 0..Len(Script)
    <3>3. Heading \in A
      BY <1>1, <3>1
    <3> HIDE DEF A
    <3>4. <<Heading>> \in Seq(A)
      BY <3>3
    <3> QED
      BY <2>1, <3>1, <3>2, <3>4 DEF A
  <2>4. ASSUME NEW n \in 0..Len(Script), req \in Req, Put(<<n>>)
        PROVE  sent' \in [Req -> Seq(0..Len(Script))]
    <3>1. <<n>> \in Seq(0..Len(Script))
      OBVIOUS
    <3> QED
      BY <1>1, <2>4, <3>1, PutType
  <2>5. CASE TakenRequest
    <3>1. CASE Head(events).ev = "body"
      <4>1. carry = <<>> /\ ~Over /\ events # <<>> /\ req \in Req
        BY <1>5, <2>5, NoCarry DEF TakenRequest, Taken, Inv, Over, Exchange
      <4>2. Head(events).at \in 1..Len(Script)
        BY <1>1, <3>1, <4>1, HeadType DEF Inv, IsClient
      <4>3. Head(events).at \in 0..Len(Script)
        BY <1>1, <4>2
      <4>4. Put(<<Head(events).at>>)
        BY <2>5, <3>1 DEF TakenRequest
      <4> QED
        BY <2>4, <4>1, <4>3, <4>4
    <3>2. CASE Head(events).ev # "body"
      BY <2>2, <2>5, <3>2 DEF TakenRequest
    <3> QED
      BY <3>1, <3>2
  <2>6. CASE Switched
    <3>1. UpFirst = Run(Reached, inp) /\ Reached <= inp /\ Reached \in 1..Len(Script)
      BY <2>6, SwitchRun DEF Switched, Inv
    <3>2. Reached \in Nat
      BY <1>1, <3>1
    <3>3. UpFirst \in Seq(0..Len(Script))
      BY <1>1, <3>1, <3>2, RunType
    <3>4. req \in Req /\ Put(UpFirst)
      BY <1>5, <2>6 DEF Switched, Exchange
    <3> QED
      BY <1>1, <3>3, <3>4, PutType
  <2>7. CASE SpliceUp
    <3>1. inp + 1 \in 0..Len(Script) /\ req \in Req
      BY <1>1, <1>5, <2>7 DEF SpliceUp, Exchange
    <3> QED
      BY <2>2, <2>4, <2>7, <3>1 DEF SpliceUp
  <2>8. CASE Teardown
    <3>1. 0 \in 0..Len(Script) /\ req \in Req
      BY <1>1, <1>5, <2>8 DEF Teardown
    <3> QED
      BY <2>4, <2>8, <3>1 DEF Teardown
  <2> QED
    BY <1>1, <2>2, <2>3, <2>5, <2>6, <2>7, <2>8, Kind DEF Pushed, Idle, Quit, NextPop,
       RouteUnavailable, DiscardPop, Offered, TakenAside, TakenHead, TakenBody, TakenEnd,
       TakenSwitch, TakenAll, Abandoned, SelectRecv, SpliceDown, Backend
<1>7. out' \in Seq(OutRec)
  <2>1. out \in Seq(OutRec)
    BY <1>2 DEF HistoryType
  <2>2. CASE out' = out
    BY <2>1, <2>2
  <2>3. ASSUME NEW r \in 1..(Len(load.resp) + 1), Told(r)
        PROVE  out' \in Seq(OutRec)
    <3>1. Append(out, [req |-> r, kind |-> "error", at |-> 0]) \in Seq(OutRec)
      BY <1>1, OutType
    <3> QED
      BY <2>1, <2>3, <3>1 DEF Told
  <2>4. ASSUME NEW n \in Nat, req \in 1..(Len(load.resp) + 1), Write(req, "sample", n)
        PROVE  out' \in Seq(OutRec)
    BY <1>1, <2>4, OutType DEF Write
  <2>5. CASE RouteUnavailable
    BY <1>1, <1>5, <2>5, OutType DEF RouteUnavailable, Write
  <2>6. CASE TakenHead \/ TakenBody
    <3>1. Head(events) \in EventRec /\ req \in 1..(Len(load.resp) + 1)
      BY <1>1, <1>5, <2>6, SideHead DEF TakenHead, TakenBody, Taken, Exchange
    <3>2. Head(events).at \in Nat
      BY <3>1 DEF EventRec
    <3> QED
      BY <2>4, <2>6, <3>1, <3>2 DEF TakenHead, TakenBody
  <2>7. CASE Switched
    <3> DEFINE s == DownFirst
               t == Samples(s)
               R == OutRec
    <3>1. s \in Seq(Nat)
      BY <1>1 DEF DownFirst
    <3>2. req \in 1..(Len(load.resp) + 1)
      BY <1>5, <2>7 DEF Switched, Exchange
    <3> HIDE DEF s
    <3>3. Len(s) \in Nat /\ \A i \in 1..Len(s) : s[i] \in Nat
      BY <3>1
    <3>4. \A i \in 1..Len(s) : [req |-> req, kind |-> "sample", at |-> s[i]] \in R
      BY <3>2, <3>3 DEF OutRec
    <3> HIDE DEF R
    <3>5. t \in Seq(R)
      BY <3>3, <3>4 DEF Samples
    <3>6. out \in Seq(R)
      BY <2>1 DEF R
    <3> HIDE DEF t
    <3>7. out \o t \in Seq(R)
      BY <3>5, <3>6
    <3> QED
      BY <2>7, <3>7 DEF Switched, t, s, R
  <2>8. CASE SpliceDown
    <3>1. Head(rx) \in Nat /\ req \in 1..(Len(load.resp) + 1)
      BY <1>1, <1>5, <2>8 DEF SpliceDown, Exchange
    <3> QED
      BY <2>2, <2>4, <2>8, <3>1 DEF SpliceDown
  <2>9. CASE Pushed \/ Quit \/ Abandoned
    <3>1. pc \in {"route", "process", "select"} => req \in 1..(Len(load.resp) + 1)
      BY <1>5 DEF Exchange
    <3>2. out' = out \/ Told(req + 1) \/ (Told(req) /\ pc \in {"route", "process", "select"})
      BY <2>9 DEF Pushed, Quit, Abandoned
    <3> QED
      BY <1>4, <2>2, <2>3, <3>1, <3>2
  <2> QED
    BY <1>1, <2>2, <2>5, <2>6, <2>7, <2>8, <2>9, Kind DEF Idle, NextPop, DiscardPop,
       SetupOk, Offered, TakenRequest, TakenAside, TakenEnd, TakenSwitch, TakenAll,
       SelectRecv, SpliceUp, Teardown, Backend
<1>8. holed' \subseteq Req
  <2>1. holed \subseteq Req
    BY <1>2 DEF HistoryType
  <2>2. CASE SelectRecv \/ Backend
    <3>1. req \in Req
      BY <1>5, <2>2 DEF SelectRecv, Backend, Exchange
    <3> QED
      BY <2>1, <2>2, <3>1 DEF SelectRecv, Backend, Arrives
  <2>3. CASE holed' = holed
    BY <2>1, <2>3
  <2> QED
    BY <1>1, <2>2, <2>3, Kind DEF Pushed, Idle, Quit, NextPop, RouteUnavailable,
       DiscardPop, SetupOk, Offered, TakenRequest, TakenAside, TakenHead, TakenBody,
       TakenEnd, TakenSwitch, Taken, TakenAll, Abandoned, Switched, SpliceUp, SpliceDown,
       Teardown
<1> QED
  BY <1>3, <1>6, <1>7, <1>8 DEF HistoryType

\* Every variable keeps its type.
LEMMA TypeNext == Inv /\ [Next]_vars => TypeOK'
<1> SUFFICES ASSUME Inv, [Next]_vars PROVE TypeOK'
  OBVIOUS
<1>1. ControlType' /\ ClientType' /\ ExchangeType' /\ BusType' /\ HistoryType'
  BY ControlNext, ClientNext, ExchangeNext, HistoryNext
<1>2. (ControlType /\ ClientType /\ ExchangeType /\ BusType /\ HistoryType)' => TypeOK'
  BY TypeParts, PTL
<1> QED
  BY <1>1, <1>2

-----------------------------------------------------------------------------
(* The client's side is kept.                                              *)

\* A step that takes nothing from the client's side of the queue.
LEMMA CursorFrame ==
  ASSUME CursorInv, UNCHANGED <<load, req, fed>>,
         ClientOf(carry' \o events') = ClientOf(carry \o events),
         ~Over' => ~Over,
         pc' \in {"route", "setup"} => pc \in {"route", "setup"},
         pc' \in Exchange => pc \in Exchange /\ UNCHANGED <<sent, request_done>>
  PROVE  CursorInv'
<1> SUFFICES ASSUME ~Over' PROVE \E c \in Nat : At(c)'
  BY DEF CursorInv
<1>1. PICK c \in Nat : At(c)
  BY DEF CursorInv
<1>2. Script' = Script
  BY DEF Script
<1>3. Queue(Script', ClientOf(carry' \o events'), c, 2 * fed' + 1)
  BY <1>1, <1>2 DEF At
<1>4. HeadsUpTo(c, req)'
  BY <1>1, <1>2 DEF At, HeadsUpTo
<1>5. pc' \in {"route", "setup"} =>
        \E h \in 1..Len(Script') :
          Script'[h].kind = "head" /\ Script'[h].req = req' /\ c = 2 * h
  BY <1>1, <1>2 DEF At
<1>6. pc' \in Exchange =>
        /\ c = 2 * Reached' + (IF request_done' THEN 1 ELSE 0)
        /\ Reached' \in 1..Len(Script')
        /\ Script'[Reached'].kind \in HB /\ Script'[Reached'].req = req'
        /\ request_done' => Script'[Reached'].last
  BY <1>1, <1>2 DEF At, Reached
<1>7. At(c)'
  BY <1>3, <1>4, <1>5, <1>6 DEF At, Exchange
<1> QED
  BY <1>7

\* An event of the client's side is taken between requests.
LEMMA CursorTake ==
  ASSUME TypeOK, CursorInv, UNCHANGED <<load, fed>>, ~Over, carry = <<>>, carry' = <<>>,
         events # <<>>, IsClient(Head(events)), events' = Tail(events),
         req' = (IF Head(events).ev = "head" THEN req + 1 ELSE req),
         pc' = "route" => Head(events).ev = "head",
         pc' \notin {"setup"} \cup Exchange
  PROVE  CursorInv'
<1> DEFINE e == Head(events)
           c == Order(e)
<1>1. PICK b \in Nat : At(b)
  BY DEF CursorInv
<1>2. load \in Loads /\ fed \in Nat /\ req \in Nat /\ Script' = Script
  BY Typed DEF Script
<1>3. 2 * fed + 1 \in Nat
  BY <1>2
<1>4. Queue(Script, ClientOf(carry \o events), b, 2 * fed + 1) /\ HeadsUpTo(b, req)
  BY <1>1 DEF At
<1>5. Follows(e, b) /\ c \in Nat /\ Queue(Script, ClientOf(carry \o Tail(events)), c, 2 * fed + 1)
  BY <1>3, <1>4, QueueHead
<1> HIDE DEF e, c
<1>6. HeadsUpTo(c, req')
  <2>1. CASE e.ev = "head"
    BY <1>2, <1>4, <1>5, <2>1, NextHead DEF e, c
  <2>2. CASE e.ev # "head"
    BY <1>2, <1>4, <1>5, <2>2, HeadsSame DEF e, c
  <2> QED
    BY <2>1, <2>2
<1>7. pc' = "route" =>
        \E h \in 1..Len(Script) : Script[h].kind = "head" /\ Script[h].req = req' /\ c = 2 * h
  <2> SUFFICES ASSUME pc' = "route"
               PROVE  \E h \in 1..Len(Script) :
                        Script[h].kind = "head" /\ Script[h].req = req' /\ c = 2 * h
    OBVIOUS
  <2>1. e.ev = "head" /\ req' = req + 1
    BY DEF e
  <2>2. e.at \in 1..Len(Script) /\ Script[e.at].kind = "head" /\ Order(e) = 2 * e.at
    BY <1>2, <1>5, <2>1, FollowsFacts
  <2>3. Script[e.at].req = req + 1
    BY <1>2, <1>4, <1>5, <2>1, NextHead
  <2> QED
    BY <2>1, <2>2, <2>3 DEF c
<1>11. PICK d \in Nat : d = c
  BY <1>5
<1>8. Queue(Script', ClientOf(carry' \o events'), d, 2 * fed' + 1)
  BY <1>2, <1>5, <1>11
<1>9. HeadsUpTo(d, req)'
  BY <1>2, <1>6, <1>11 DEF HeadsUpTo
<1>10. At(d)'
  BY <1>2, <1>7, <1>8, <1>9, <1>11 DEF At, Exchange
<1> QED
  BY <1>10 DEF CursorInv

\* An event of the request's own is taken: x is the last of its bytes put.
LEMMA CursorRequest ==
  ASSUME TypeOK, FeedInv, CursorInv, CarryInv, SentInv, TakenRequest
  PROVE  CursorInv'
<1> DEFINE e == Head(events)
           c == Order(e)
           x == Reached
<1>1. /\ ~Over /\ pc \in Exchange /\ pc' = pc /\ carry = <<>> /\ carry' = carry
      /\ events # <<>> /\ e.ev \in {"body", "end"} /\ events' = Tail(events)
      /\ UNCHANGED <<load, fed, req>> /\ ~request_done /\ pc = "process"
  BY NoCarry DEF TakenRequest, Taken, Over, Exchange
<1>2. PICK b \in Nat : At(b)
  BY <1>1 DEF CursorInv
<1>3. /\ load \in Loads /\ fed \in Nat /\ req \in Nat /\ Script' = Script
      /\ Len(Script) \in Nat /\ Script \in Seq(Token)
  BY <1>1, Typed, ScriptFacts DEF Script
<1>4. 2 * fed + 1 \in Nat
  BY <1>3
<1>5. /\ Queue(Script, ClientOf(carry \o events), b, 2 * fed + 1) /\ HeadsUpTo(b, req)
      /\ b = 2 * x /\ x \in 1..Len(Script) /\ Script[x].kind \in HB /\ Script[x].req = req
  BY <1>1, <1>2 DEF At
<1>6. IsClient(e)
  BY <1>1 DEF IsClient
<1>7. Follows(e, b) /\ c \in Nat /\ Queue(Script, ClientOf(carry \o Tail(events)), c, 2 * fed + 1)
  BY <1>1, <1>4, <1>5, <1>6, QueueHead
<1>8. HeadsUpTo(c, req)
  BY <1>1, <1>3, <1>5, <1>7, HeadsSame
<1> HIDE DEF e, c, x
<1>9. Follows(e, 2 * x)
  BY <1>5, <1>7
<1>10. /\ e.ev = "body" => e.at = x + 1 /\ Script[x + 1].req = Script[x].req
       /\ e.ev = "end" => e.at = x
  BY <1>3, <1>5, <1>9, WithinRequest
<1>11. /\ e.at \in 1..Len(Script) /\ Script[e.at].kind \in HB
       /\ e.ev = "body" => c = 2 * e.at
       /\ e.ev = "end" => Script[e.at].last /\ c = 2 * e.at + 1
  BY <1>3, <1>7, FollowsFacts DEF c
<1>12. /\ c = 2 * Reached' + (IF request_done' THEN 1 ELSE 0)
       /\ Reached' \in 1..Len(Script)
       /\ Script[Reached'].kind \in HB /\ Script[Reached'].req = req
       /\ request_done' => Script[Reached'].last
  <2>1. CASE e.ev = "body"
    <3>1. sent' = [sent EXCEPT ![req] = sent[req] \o <<e.at>>] /\ request_done' = request_done
      BY <2>1 DEF TakenRequest, Put, e
    <3>2. req \in Req /\ sent \in [Req -> Seq(0..Len(Script))]
      BY <1>1 DEF TypeOK, SentInv
    <3>3. e.at \in 0..Len(Script)
      BY <1>3, <1>11
    <3> DEFINE A == 0..Len(Script)
               s == sent[req]
    <3>4. s \in Seq(A) /\ e.at \in A
      BY <3>2, <3>3
    <3>5. sent'[req] = s \o <<e.at>>
      BY <3>1, <3>2
    <3> HIDE DEF A, s
    <3>6. /\ s \o <<e.at>> = Append(s, e.at) /\ Len(Append(s, e.at)) = Len(s) + 1
          /\ Append(s, e.at)[Len(s) + 1] = e.at
      BY <3>4, AppendFacts
    <3>7. Reached' = e.at
      BY <1>1, <3>5, <3>6 DEF Reached
    <3> QED
      BY <1>1, <1>5, <1>10, <1>11, <2>1, <3>1, <3>7
  <2>2. CASE e.ev = "end"
    <3>1. sent' = sent /\ request_done' = TRUE
      BY <2>2 DEF TakenRequest, e
    <3>2. Reached' = x
      BY <1>1, <3>1 DEF Reached, x
    <3> QED
      BY <1>5, <1>10, <1>11, <2>2, <3>1, <3>2
  <2> QED
    BY <1>1, <2>1, <2>2 DEF e
<1>16. PICK d \in Nat : d = c
  BY <1>7
<1>13. HeadsUpTo(d, req)'
  BY <1>1, <1>3, <1>8, <1>16 DEF HeadsUpTo
<1>14. Queue(Script', ClientOf(carry' \o events'), d, 2 * fed' + 1)
  BY <1>1, <1>3, <1>7, <1>16
<1>15. At(d)'
  BY <1>1, <1>3, <1>12, <1>13, <1>14, <1>16 DEF At, Exchange
<1> QED
  BY <1>15 DEF CursorInv

\* What happens to the client's side of the queue when an event is taken.
LEMMA TakeSides ==
  ASSUME TypeOK, events # <<>>
  PROVE  /\ ~IsClient(Head(events)) =>
              /\ ClientOf(carry \o Tail(events)) = ClientOf(carry \o events)
              /\ ClientOf(<<>> \o (carry \o Tail(events))) = ClientOf(carry \o events)
         /\ Append(carry, Head(events)) \o Tail(events) = carry \o events
<1> DEFINE e == Head(events)
           t == Tail(events)
<1>1. events \in Seq(EventRec) /\ carry \in Seq(EventRec)
  BY Typed
<1>2. /\ e \in EventRec /\ t \in Seq(EventRec) /\ events = <<e>> \o t
      /\ ~IsClient(e) => ClientOf(events) = ClientOf(t)
  BY <1>1, SideHead
<1> HIDE DEF e, t
<1>3. carry \o t \in Seq(EventRec)
  BY <1>1, <1>2, ConcatProperties
<1>4. <<>> \o (carry \o t) = carry \o t
  BY <1>3
<1>5. ~IsClient(e) => ClientOf(carry \o t) = ClientOf(carry \o events)
  <2>1. ClientOf(carry \o t) = ClientOf(carry) \o ClientOf(t)
    BY <1>1, <1>2, SideConcat
  <2>2. ClientOf(carry \o events) = ClientOf(carry) \o ClientOf(events)
    BY <1>1, SideConcat
  <2> QED
    BY <1>2, <2>1, <2>2
<1>6. Append(carry, e) \o t = carry \o events
  <2> DEFINE u == <<e>>
  <2>1. u \in Seq(EventRec) /\ Append(carry, e) = carry \o u
    BY <1>1, <1>2, AppendFacts
  <2>2. events = u \o t
    BY <1>2
  <2> HIDE DEF u
  <2>3. (carry \o u) \o t = carry \o (u \o t)
    BY <1>1, <1>2, <2>1, ConcatAssociative
  <2> QED
    BY <2>1, <2>2, <2>3
<1> QED
  BY <1>4, <1>5, <1>6 DEF e, t

\* What a push of the backend's bytes adds is on the other side.
LEMMA RespSides ==
  ASSUME TypeOK, NEW off \in Seq(Nat), Len(off) <= 1, PushResp(off)
  PROVE  ClientOf(carry \o events') = ClientOf(carry \o events)
<1>1. /\ events \in Seq(EventRec) /\ carry \in Seq(EventRec) /\ rgot \in Seq(Nat)
      /\ residue \in [{"up", "down"} -> Seq(Nat)]
  BY Typed
<1>2. Held(off) \/ (Len(off) = 1 /\ off[1] \in Nat /\ Accepted(off[1]))
  BY <1>1, PushOne
<1>3. ASSUME NEW x \in Seq(EventRec), ClientOf(x) = <<>>
      PROVE  ClientOf(carry \o (events \o x)) = ClientOf(carry \o events)
  <2>1. events \o x \in Seq(EventRec)
    BY <1>1, ConcatProperties
  <2>2. ClientOf(carry \o (events \o x)) = ClientOf(carry) \o ClientOf(events \o x)
    BY <1>1, <2>1, SideConcat
  <2>3. ClientOf(events \o x) = ClientOf(events) \o ClientOf(x)
    BY <1>1, SideConcat
  <2>4. ClientOf(carry \o events) = ClientOf(carry) \o ClientOf(events)
    BY <1>1, SideConcat
  <2>5. ClientOf(events) \in Seq(EventRec)
    BY <1>1, SideConcat
  <2>6. ClientOf(events) \o <<>> = ClientOf(events)
    BY <2>5
  <2> QED
    BY <1>3, <2>2, <2>3, <2>4, <2>6
<1>4. CASE events' = events
  BY <1>4
<1>5. ASSUME NEW n \in Nat, events' = events \o ResponseEvents(n, rgot)
      PROVE  ClientOf(carry \o events') = ClientOf(carry \o events)
  <2>1. ResponseEvents(n, rgot) \in Seq(EventRec) /\ ClientOf(ResponseEvents(n, rgot)) = <<>>
    BY ResponseFacts
  <2> QED
    BY <1>3, <1>5, <2>1
<1> QED
  BY <1>2, <1>4, <1>5 DEF Held, Accepted

\* So is what the end of the backend's bytes adds.
LEMMA FinSides ==
  ASSUME TypeOK, FinResp
  PROVE  ClientOf(carry \o events') = ClientOf(carry \o events)
<1> DEFINE e == Event("rend", 0)
<1>1. events \in Seq(EventRec) /\ carry \in Seq(EventRec)
  BY Typed
<1>2. e \in EventRec /\ ~IsClient(e)
  BY DEF Event, EventRec, EventKind, IsClient
<1>3. events' = events \/ events' = Append(events, e)
  BY DEF FinResp
<1> HIDE DEF e
<1>4. ClientOf(<<e>>) = <<>> /\ <<e>> \in Seq(EventRec)
  BY <1>2, ReplyOne
<1>5. Append(events, e) = events \o <<e>> /\ Append(events, e) \in Seq(EventRec)
  BY <1>1, <1>2, AppendFacts
<1>6. ClientOf(Append(events, e)) = ClientOf(events)
  <2>1. ClientOf(events \o <<e>>) = ClientOf(events) \o ClientOf(<<e>>)
    BY <1>1, <1>4, SideConcat
  <2>2. ClientOf(events) \in Seq(EventRec)
    BY <1>1, SideConcat
  <2>3. ClientOf(events) \o <<>> = ClientOf(events)
    BY <2>2
  <2> QED
    BY <1>4, <1>5, <2>1, <2>3
<1>7. ClientOf(carry \o Append(events, e)) = ClientOf(carry) \o ClientOf(Append(events, e))
  BY <1>1, <1>5, SideConcat
<1>8. ClientOf(carry \o events) = ClientOf(carry) \o ClientOf(events)
  BY <1>1, SideConcat
<1> QED
  BY <1>3, <1>6, <1>7, <1>8

\* How far a push goes.
LEMMA PushedRun ==
  ASSUME FeedInv, Pushed
  PROVE  \E k \in Nat : /\ Accepts(k, inp') /\ fed \in Nat /\ fed + k \in Nat
                        /\ fed + k <= inp' /\ fed + k <= Len(Script)
<1>1. PICK k : k \in 0..(inp' - fed) /\ Accepts(k, inp')
  BY DEF Pushed
<1> DEFINE m == inp'
<1>2. /\ m \in Nat /\ k \in 0..(m - fed) /\ m <= Len(Script) /\ Len(Script) \in Nat
      /\ fed \in Nat
  BY <1>1, ScriptFacts DEF Pushed, FeedInv
<1> HIDE DEF m
<1>3. k \in Nat /\ fed + k <= m /\ fed + k \in Nat
  BY <1>2
<1>4. fed + k <= Len(Script)
  BY <1>2, <1>3
<1> QED
  BY <1>1, <1>2, <1>3, <1>4 DEF m

\* More of the stream is framed.
LEMMA CursorPush ==
  ASSUME TypeOK, FeedInv, CursorInv, Pushed
  PROVE  CursorInv'
<1> SUFFICES ASSUME ~Over' PROVE \E c \in Nat : At(c)'
  BY DEF CursorInv
<1>1. /\ UNCHANGED <<load, req, carry, sent, request_done>> /\ ~Over
      /\ pc' \notin {"route", "setup"} /\ (pc' \in Exchange => pc \in Exchange)
  BY DEF Pushed, exch, Over, Ahead, Exchange
<1>2. PICK k \in Nat : /\ Accepts(k, inp') /\ fed \in Nat /\ fed + k \in Nat
                       /\ fed + k <= Len(Script)
  BY PushedRun
<1>3. PICK c \in Nat : At(c)
  BY <1>1 DEF CursorInv
<1>4. Script' = Script /\ load \in Loads /\ events \in Seq(EventRec)
      /\ carry \in Seq(EventRec)
  BY <1>1, Typed DEF Script
<1>5. fed' = fed + k /\ events' = events \o Framing(fed, k)
  BY <1>2 DEF Accepts
<1> DEFINE f == Framing(fed, k)
           w == ClientOf(carry \o events)
<1>6. /\ f \in Seq(EventRec)
      /\ \A v \in Seq(EventRec), d \in Nat : Queue(Script, v, d, 2 * fed + 1) =>
           Queue(Script, v \o ClientOf(f), d, 2 * (fed + k) + 1)
  BY <1>2, <1>4, FramingQueue
<1>7. Queue(Script, w, c, 2 * fed + 1)
  BY <1>3 DEF At
<1> HIDE DEF f
<1>8. carry \o events \in Seq(EventRec)
  BY <1>4, ConcatProperties
<1>9. w \in Seq(EventRec) /\ ClientOf((carry \o events) \o f) = w \o ClientOf(f)
  BY <1>6, <1>8, SideConcat
<1>10. (carry \o events) \o f = carry \o (events \o f)
  BY <1>4, <1>6, ConcatAssociative
<1> HIDE DEF w
<1>11. Queue(Script, w \o ClientOf(f), c, 2 * (fed + k) + 1)
  BY <1>6, <1>7, <1>9
<1>12. Queue(Script', ClientOf(carry' \o events'), c, 2 * fed' + 1)
  BY <1>1, <1>4, <1>5, <1>9, <1>10, <1>11 DEF f
<1>13. HeadsUpTo(c, req)'
  BY <1>1, <1>3, <1>4 DEF At, HeadsUpTo
<1>14. pc' \in Exchange =>
        /\ c = 2 * Reached' + (IF request_done' THEN 1 ELSE 0)
        /\ Reached' \in 1..Len(Script')
        /\ Script'[Reached'].kind \in HB /\ Script'[Reached'].req = req'
        /\ request_done' => Script'[Reached'].last
  BY <1>1, <1>3, <1>4 DEF At, Reached
<1>15. At(c)'
  BY <1>1, <1>12, <1>13, <1>14 DEF At, Exchange
<1> QED
  BY <1>15

\* The head is put.
LEMMA CursorSetup ==
  ASSUME TypeOK, CursorInv, SentInv, SetupOk
  PROVE  CursorInv'
<1>1. /\ pc = "setup" /\ pc' = "offer" /\ UNCHANGED <<load, req, fed, events, carry>>
      /\ request_done' = FALSE /\ sent' = [sent EXCEPT ![req] = <<Heading>>]
  BY DEF SetupOk, Goto, ctl, par, Heading
<1>2. /\ Heading \in 1..Len(Script) /\ Script[Heading].req = req
      /\ Script[Heading].kind = "head" /\ At(2 * Heading)
  BY <1>1, HeadingFacts
<1>3. Len(Script) \in Nat /\ req \in Req /\ Script' = Script
      /\ sent \in [Req -> Seq(0..Len(Script))]
  BY <1>1, Typed DEF SentInv, Script, TypeOK
<1>4. PICK h \in Nat : h = Heading
  BY <1>2, <1>3
<1>5. Reached' = h
  <2>1. sent'[req] = <<h>>
    BY <1>1, <1>3, <1>4
  <2>2. Len(<<h>>) = 1 /\ <<h>>[1] = h
    OBVIOUS
  <2> QED
    BY <1>1, <2>1, <2>2 DEF Reached
<1>6. At(2 * h)
  BY <1>2, <1>4
<1>7. PICK c \in Nat : c = 2 * h
  BY <1>4
<1>8. At(c)
  BY <1>6, <1>7
<1>9. Queue(Script', ClientOf(carry' \o events'), c, 2 * fed' + 1)
  BY <1>1, <1>3, <1>8 DEF At
<1>10. HeadsUpTo(c, req)'
  BY <1>1, <1>3, <1>8 DEF At, HeadsUpTo
<1>11. At(c)'
  BY <1>1, <1>2, <1>3, <1>4, <1>5, <1>7, <1>9, <1>10 DEF At, HB, Exchange
<1> QED
  BY <1>11 DEF CursorInv

\* The queue always continues the stream where the handler stands in it.
LEMMA CursorNext == Inv /\ [Next]_vars => CursorInv'
<1> SUFFICES ASSUME Inv, [Next]_vars PROVE CursorInv'
  OBVIOUS
<1> USE DEF ctl, cli, par, exch, bus, hist, Goto
<1>1. TypeOK /\ FeedInv /\ CursorInv /\ CarryInv /\ SentInv
  BY DEF Inv
<1>2. carry \in Seq(EventRec) /\ events \in Seq(EventRec) /\ rx \in Seq(Nat)
      /\ resp_pending \in Seq(Nat)
  BY <1>1, Typed
<1>3. pc \in Exchange => ~response_done
  BY <1>1 DEF FeedInv
<1>4. CASE Pushed
  BY <1>1, <1>4, CursorPush
<1>5. CASE Idle
  BY <1>1, <1>3, <1>5, CursorFrame DEF Idle, Over, Exchange
<1>6. CASE Quit
  BY <1>6 DEF Quit, CursorInv, Over
<1>7. CASE NextPop
  <2>1. /\ ~Over /\ carry = <<>> /\ carry' = <<>> /\ events # <<>>
        /\ events' = Tail(events) /\ UNCHANGED <<load, fed>>
    BY <1>1, <1>7, NoCarry DEF NextPop, Over
  <2>2. CASE IsClient(Head(events))
    BY <1>1, <1>7, <2>1, <2>2, CursorTake DEF NextPop, Exchange
  <2>3. CASE ~IsClient(Head(events))
    <3>1. Head(events).ev # "head"
      BY <2>3 DEF IsClient
    <3>2. ClientOf(carry' \o events') = ClientOf(carry \o events)
      BY <1>1, <2>1, <2>3, TakeSides
    <3> QED
      BY <1>1, <1>7, <2>1, <3>1, <3>2, CursorFrame DEF NextPop, Exchange
  <2> QED
    BY <2>2, <2>3
<1>8. CASE RouteUnavailable
  BY <1>1, <1>8, CursorFrame DEF RouteUnavailable, Over, Exchange
<1>9. CASE DiscardPop
  <2>1. /\ ~Over /\ carry = <<>> /\ carry' = <<>> /\ events # <<>>
        /\ UNCHANGED <<load, fed, req>> /\ pc' \in {"next", "discard"}
    BY <1>1, <1>9, NoCarry DEF DiscardPop, Over
  <2>2. CASE Head(events).ev = "head"
    BY <1>1, <1>9, <2>1, <2>2, CursorFrame DEF DiscardPop, Exchange
  <2>3. CASE Head(events).ev # "head"
    <3>1. events' = Tail(events)
      BY <1>9, <2>3 DEF DiscardPop
    <3>2. CASE IsClient(Head(events))
      BY <1>1, <2>1, <2>3, <3>1, <3>2, CursorTake DEF Exchange
    <3>3. CASE ~IsClient(Head(events))
      <4>1. ClientOf(carry' \o events') = ClientOf(carry \o events)
        BY <1>1, <2>1, <3>1, <3>3, TakeSides
      <4> QED
        BY <1>1, <2>1, <4>1, CursorFrame DEF Exchange
    <3> QED
      BY <3>2, <3>3
  <2> QED
    BY <2>2, <2>3
<1>10. CASE SetupOk
  BY <1>1, <1>10, CursorSetup
<1>11. CASE Offered
  <2>1. Len(resp_pending) <= 1
    BY <1>11 DEF Offered, Inv, LineInv, Exchange
  <2>2. ClientOf(carry \o events') = ClientOf(carry \o events)
    BY <1>1, <1>2, <1>11, <2>1, RespSides DEF Offered
  <2> QED
    BY <1>1, <1>11, <2>2, CursorFrame DEF Offered, Over, Exchange
<1>12. CASE SelectRecv
  <2>1. ClientOf(carry \o events') = ClientOf(carry \o events)
    <3>1. CASE Head(rx) = 0
      BY <1>1, <1>12, <3>1, FinSides DEF SelectRecv
    <3>2. CASE Head(rx) # 0
      <4>1. Head(rx) \in Nat
        BY <1>2, <1>12 DEF SelectRecv
      <4>2. <<Head(rx)>> \in Seq(Nat) /\ Len(<<Head(rx)>>) <= 1
        BY <4>1
      <4> QED
        BY <1>1, <1>12, <3>2, <4>2, RespSides DEF SelectRecv
    <3> QED
      BY <3>1, <3>2
  <2>2. /\ UNCHANGED <<load, req, fed, carry, sent, request_done>>
        /\ pc = "select" /\ pc' = "offer"
    BY <1>12 DEF SelectRecv, FinResp
  <2> QED
    BY <1>1, <2>1, <2>2, CursorFrame DEF Over, Exchange
<1>13. CASE TakenRequest
  BY <1>1, <1>13, CursorRequest
<1>14. CASE TakenAside
  <2>1. events # <<>>
    BY <1>14 DEF TakenAside, Taken
  <2>2. carry' \o events' = carry \o events
    BY <1>1, <1>14, <2>1, TakeSides DEF TakenAside
  <2> QED
    BY <1>1, <1>14, <2>2, CursorFrame DEF TakenAside, Taken, Over, Exchange
<1>15. CASE TakenHead \/ TakenBody
  <2>1. events # <<>> /\ ~IsClient(Head(events))
    BY <1>15 DEF TakenHead, TakenBody, Taken, IsClient
  <2>2. ClientOf(carry' \o events') = ClientOf(carry \o events)
    BY <1>1, <1>15, <2>1, TakeSides DEF TakenHead, TakenBody
  <2> QED
    BY <1>1, <1>15, <2>2, CursorFrame DEF TakenHead, TakenBody, Taken, Over, Exchange
<1>16. CASE TakenEnd \/ TakenSwitch
  <2>1. events # <<>> /\ ~IsClient(Head(events))
    BY <1>16 DEF TakenEnd, TakenSwitch, Taken, IsClient
  <2>2. ClientOf(carry' \o events') = ClientOf(carry \o events)
    BY <1>1, <1>16, <2>1, TakeSides DEF TakenEnd, TakenSwitch
  <2> QED
    BY <1>1, <1>16, <2>2, CursorFrame DEF TakenEnd, TakenSwitch, Taken, Over, Exchange
<1>17. CASE TakenAll
  <2>1. <<>> \o carry = carry /\ carry \o <<>> = carry
    BY <1>2
  <2>2. carry' \o events' = carry \o events
    BY <1>17, <2>1 DEF TakenAll
  <2> QED
    BY <1>1, <1>17, <2>2, CursorFrame DEF TakenAll, Over, Exchange
<1>18. CASE Abandoned
  BY <1>3, <1>18 DEF Abandoned, CursorInv, Over, Exchange
<1>19. CASE Switched \/ SpliceUp \/ SpliceDown
  BY <1>3, <1>19 DEF Switched, SpliceUp, SpliceDown, CursorInv, Over, Exchange
<1>20. CASE Teardown
  BY <1>1, <1>20, CursorFrame DEF Teardown, Reusable, Over, Exchange
<1>21. CASE Backend
  BY <1>1, <1>21, CursorFrame DEF Backend, Over, Exchange
<1> QED
  BY <1>1, <1>4, <1>5, <1>6, <1>7, <1>8, <1>9, <1>10, <1>11, <1>12, <1>13, <1>14,
     <1>15, <1>16, <1>17, <1>18, <1>19, <1>20, <1>21, Kind

\* The head of another request is not met before this one's end.
LEMMA AsideDone ==
  ASSUME TypeOK, CursorInv, CarryInv, TakenAside
  PROVE  request_done
<1> SUFFICES ASSUME ~request_done PROVE FALSE
  OBVIOUS
<1>1. carry = <<>> /\ ~Over /\ events # <<>> /\ IsClient(Head(events)) /\ pc \in Exchange
      /\ Head(events).ev = "head"
  BY NoCarry DEF TakenAside, Taken, Over, Exchange, IsClient
<1>2. PICK c \in Nat : At(c)
  BY <1>1 DEF CursorInv
<1>3. /\ Queue(Script, ClientOf(carry \o events), c, 2 * fed + 1)
      /\ c = 2 * Reached /\ Reached \in 1..Len(Script) /\ Script[Reached].kind \in HB
  BY <1>1, <1>2 DEF At
<1>4. load \in Loads /\ fed \in Nat /\ 2 * fed + 1 \in Nat
  BY Typed
<1>5. Follows(Head(events), c)
  BY <1>1, <1>3, <1>4, QueueHead
<1>6. Follows(Head(events), 2 * Reached)
  BY <1>3, <1>5
<1>7. Head(events).ev # "head"
  BY <1>3, <1>4, <1>6, WithinRequest
<1> QED
  BY <1>1, <1>7

\* Only a pipelined request's events are ever set aside.
LEMMA CarryNext == Inv /\ [Next]_vars => CarryInv'
<1> SUFFICES ASSUME Inv, [Next]_vars PROVE CarryInv'
  OBVIOUS
<1>1. TypeOK /\ FeedInv /\ CursorInv /\ CarryInv
  BY DEF Inv
<1>2. carry \in Seq(EventRec) /\ events \in Seq(EventRec)
  BY <1>1, Typed
<1>3. CASE carry' = <<>>
  BY <1>3 DEF CarryInv
<1>4. CASE carry' = carry /\ ((pc # "process" /\ pc # "done") \/ pc' = "done"
                             \/ (pc = "process" /\ pc' = pc /\ (request_done => request_done')))
  BY <1>1, <1>4 DEF CarryInv
<1>5. CASE TakenAside
  <2>1. request_done /\ request_done' /\ pc' = "process" /\ events # <<>>
    BY <1>1, <1>5, AsideDone DEF TakenAside, Taken
  <2>2. IsClient(Head(events)) /\ carry' = Append(carry, Head(events))
    BY <1>5 DEF TakenAside, Taken, IsClient
  <2>3. Head(events) \in EventRec
    BY <1>2, <2>1, SideHead
  <2>4. \A i \in 1..Len(carry') : IsClient(carry'[i])
    <3>1. /\ Len(Append(carry, Head(events))) = Len(carry) + 1 /\ Len(carry) \in Nat
          /\ \A i \in 1..Len(carry) : Append(carry, Head(events))[i] = carry[i]
          /\ Append(carry, Head(events))[Len(carry) + 1] = Head(events)
      BY <1>2, <2>3, AppendFacts
    <3>2. \A i \in 1..Len(carry) : IsClient(carry[i])
      BY <1>1 DEF CarryInv
    <3> HIDE DEF IsClient
    <3> QED
      BY <2>2, <3>1, <3>2
  <2> QED
    BY <2>1, <2>4 DEF CarryInv
<1>6. CASE TakenRequest
  BY <1>4, <1>6 DEF TakenRequest, Taken
<1>7. CASE TakenHead \/ TakenBody
  BY <1>4, <1>7 DEF TakenHead, TakenBody, Taken
<1>8. CASE TakenEnd \/ TakenSwitch \/ TakenAll
  BY <1>3, <1>8 DEF TakenEnd, TakenSwitch, TakenAll
<1>9. CASE Abandoned
  BY <1>3, <1>4, <1>9 DEF Abandoned
<1>10. CASE Pushed
  BY <1>4, <1>10 DEF Pushed, Ahead, exch
<1>11. CASE Idle
  BY <1>4, <1>11, <1>1 DEF Idle, CarryInv, exch
<1>12. CASE Quit
  BY <1>4, <1>12 DEF Quit, exch
<1>13. CASE NextPop \/ RouteUnavailable \/ DiscardPop
  BY <1>4, <1>13 DEF NextPop, RouteUnavailable, DiscardPop, exch
<1>14. CASE SetupOk \/ Offered \/ SelectRecv
  BY <1>4, <1>14 DEF SetupOk, Offered, SelectRecv, FinResp, exch
<1>15. CASE Switched \/ SpliceUp \/ SpliceDown \/ Teardown
  BY <1>4, <1>15 DEF Switched, SpliceUp, SpliceDown, Teardown, exch
<1>16. CASE Backend
  <2>1. carry' = carry /\ pc' = pc /\ request_done' = request_done
    BY <1>16 DEF Backend, exch
  <2> QED
    BY <1>1, <2>1 DEF CarryInv
<1> QED
  BY <1>1, <1>5, <1>6, <1>7, <1>8, <1>9, <1>10, <1>11, <1>12, <1>13, <1>14, <1>15, <1>16, Kind

-----------------------------------------------------------------------------
(* What is put on the request keys is kept.                                *)

Before == {"route", "setup", "consume", "discard"}
During == Exchange \cup {"teardown"}

\* A step that puts nothing.
LEMMA SentFrame ==
  ASSUME SentInv, UNCHANGED <<load, req, sent>>,
         pc' \in Before => pc \in Before, pc' \in During => pc \in During,
         pc' = "splice" => pc = "splice" /\ inp' = inp
  PROVE  SentInv'
<1>1. Req' = Req /\ Script' = Script /\ Reached' = Reached
  BY DEF Req, Script, Reached
<1>2. OwnBytesOnly' /\ (Sending => Sending')
  <2>1. OwnBytesOnly'
    BY DEF OwnBytesOnly, SentInv, Req, Script
  <2>2. Sending => Sending'
    BY DEF Sending, Script
  <2> QED
    BY <2>1, <2>2
<1>3. (\A r \in Req : r > req => sent[r] = <<>>)'
  BY <1>1 DEF SentInv
<1>4. (pc \in {"route", "setup", "consume", "discard"} => req \in Req /\ sent[req] = <<>>)'
  BY <1>1 DEF SentInv, Before
<1>5. (pc \in Exchange \cup {"teardown"} => req \in Req /\ Sending)'
  BY <1>1, <1>2 DEF SentInv, During, Exchange
<1>6. (pc = "splice" =>
         /\ Reached = inp
         /\ \E p \in 1..inp : Script[p].kind \in HB /\ Script[p].req = req)'
  BY <1>1 DEF SentInv
<1> QED
  BY <1>2, <1>3, <1>4, <1>5, <1>6 DEF SentInv

\* Where the run of this request's bytes ends.
LEMMA SendingFacts ==
  ASSUME load \in Loads, NEW a \in 0..Len(Script), NEW b \in 0..Len(Script), a < b,
         sent[req] = Run(a, b)
  PROVE  Reached = b /\ a \in Nat /\ b \in Nat /\ Len(sent[req]) = b - a
<1>1. Len(Script) \in Nat
  BY ScriptFacts
<1>2. a \in Nat /\ b \in Nat /\ a <= b
  BY <1>1
<1>3. Len(Run(a, b)) = b - a /\ \A i \in 1..(b - a) : Run(a, b)[i] = a + i
  BY <1>2, RunFacts
<1>4. b - a \in 1..(b - a) /\ a + (b - a) = b
  BY <1>2
<1>5. Run(a, b)[b - a] = b
  BY <1>3, <1>4
<1> QED
  BY <1>2, <1>3, <1>5 DEF Reached

\* A run of a request's own bytes is what OwnBytesOnly asks for.
LEMMA OwnRun ==
  ASSUME load \in Loads, NEW r, NEW a \in 0..Len(Script), NEW b \in 0..Len(Script), a < b,
         \A p \in (a + 1)..b : Script[p].req = r
  PROVE  \A i \in DOMAIN Run(a, b) :
           /\ Run(a, b)[i] # 0 /\ Script[Run(a, b)[i]].req = r
           /\ (i > 1 => Run(a, b)[i] = Run(a, b)[i - 1] + 1)
<1>1. Len(Script) \in Nat
  BY ScriptFacts
<1>2. a \in Nat /\ b \in Nat /\ a <= b
  BY <1>1
<1>3. \A i \in 1..(b - a) : Run(a, b)[i] = a + i
  BY <1>2, RunFacts
<1>4. DOMAIN Run(a, b) = 1..(b - a)
  BY DEF Run
<1>5. ASSUME NEW i \in 1..(b - a)
      PROVE  /\ Run(a, b)[i] # 0 /\ Script[Run(a, b)[i]].req = r
             /\ (i > 1 => Run(a, b)[i] = Run(a, b)[i - 1] + 1)
  <2>1. a + i \in (a + 1)..b /\ a + i # 0
    BY <1>2
  <2>2. Run(a, b)[i] = a + i
    BY <1>3
  <2>3. i > 1 => Run(a, b)[i - 1] = a + (i - 1)
    BY <1>2, <1>3
  <2> QED
    BY <1>2, <2>1, <2>2, <2>3
<1> QED
  BY <1>4, <1>5

\* Other requests' keys are left alone.
LEMMA OwnOthers ==
  ASSUME TypeOK, OwnBytesOnly, UNCHANGED load, req \in Req,
         NEW t, sent' = [sent EXCEPT ![req] = t],
         \A i \in DOMAIN t :
           \/ t[i] = 0 /\ i = Len(t)
           \/ t[i] # 0 /\ Script[t[i]].req = req /\ (i > 1 => t[i] = t[i - 1] + 1)
  PROVE  OwnBytesOnly' /\ sent'[req] = t /\ \A r \in Req : r # req => sent'[r] = sent[r]
<1>1. sent \in [Req -> Seq(0..Len(Script))]
  BY DEF TypeOK
<1>2. sent'[req] = t /\ \A r \in Req : r # req => sent'[r] = sent[r]
  BY <1>1
<1>3. Req' = Req /\ Script' = Script
  BY DEF Req, Script
<1>4. ASSUME NEW r \in Req, NEW i \in DOMAIN sent'[r]
      PROVE  \/ sent'[r][i] = 0 /\ i = Len(sent'[r])
             \/ sent'[r][i] # 0 /\ Script[sent'[r][i]].req = r
                  /\ (i > 1 => sent'[r][i] = sent'[r][i - 1] + 1)
  <2>1. CASE r = req
    BY <1>2, <1>4, <2>1
  <2>2. CASE r # req
    BY <1>2, <1>4, <2>2 DEF OwnBytesOnly
  <2> QED
    BY <2>1, <2>2
<1> QED
  BY <1>2, <1>3, <1>4 DEF OwnBytesOnly

\* More of the request's own bytes are put, right after the last.
LEMMA SentPut ==
  ASSUME TypeOK, SentInv, pc \in Exchange, UNCHANGED <<load, req>>, pc' \in During,
         NEW d \in 0..Len(Script), Reached <= d, Put(Run(Reached, d)),
         \A p \in (Reached + 1)..d : Script[p].req = req,
         pc' = "splice" => /\ inp' = d
                           /\ \E p \in 1..d : Script[p].kind \in HB /\ Script[p].req = req
  PROVE  SentInv'
<1>1. load \in Loads /\ Len(Script) \in Nat /\ req \in Req /\ Sending
  BY Typed DEF SentInv
<1>2. PICK a \in 0..Len(Script), b \in 0..Len(Script) :
        a < b /\ sent[req] = Run(a, b) /\ \A p \in (a + 1)..b : Script[p].req = req
  BY <1>1 DEF Sending
<1>3. Reached = b /\ a \in Nat /\ b \in Nat /\ d \in Nat
  BY <1>1, <1>2, SendingFacts
<1>4. sent[req] \o Run(Reached, d) = Run(a, d)
  <2>1. a <= b /\ b <= d
    BY <1>2, <1>3
  <2> QED
    BY <1>2, <1>3, <2>1, RunConcat, ZenonT(30)
<1>5. sent' = [sent EXCEPT ![req] = Run(a, d)]
  BY <1>1, <1>4 DEF Put, TypeOK
<1>6. a < d /\ \A p \in (a + 1)..d : Script[p].req = req
  BY <1>2, <1>3
<1>7. \A i \in DOMAIN Run(a, d) :
           /\ Run(a, d)[i] # 0 /\ Script[Run(a, d)[i]].req = req
           /\ (i > 1 => Run(a, d)[i] = Run(a, d)[i - 1] + 1)
  <2>1. a < d
    BY <1>6
  <2>2. \A p \in (a + 1)..d : Script[p].req = req
    BY <1>6
  <2>3. load \in Loads
    BY <1>1
  <2>4. a \in 0..Len(Script) /\ d \in 0..Len(Script)
    BY <1>2
  <2> QED
    BY <2>1, <2>2, <2>3, <2>4, OwnRun, ZenonT(60)
<1>8. OwnBytesOnly' /\ sent'[req] = Run(a, d) /\ \A r \in Req : r # req => sent'[r] = sent[r]
  BY <1>1, <1>5, <1>7, OwnOthers DEF SentInv
<1>9. Req' = Req /\ Script' = Script /\ req' = req
  BY DEF Req, Script
<1>10. Sending'
  BY <1>6, <1>8, <1>9 DEF Sending, Run
<1>11. Reached' = d
  <2>1. Len(Run(a, d)) = d - a /\ \A i \in 1..(d - a) : Run(a, d)[i] = a + i
    BY <1>3, <1>6, RunFacts
  <2>2. d - a \in 1..(d - a) /\ a + (d - a) = d
    BY <1>3, <1>6
  <2>3. Run(a, d)[d - a] = d
    BY <2>1, <2>2
  <2> QED
    BY <1>8, <1>9, <2>1, <2>3 DEF Reached
<1>12. \A r \in Req : r > req => sent'[r] = <<>>
  <2>1. \A r \in Req : r > req => r # req
    BY Typed DEF Req
  <2> QED
    BY <1>8, <2>1 DEF SentInv
<1>13. pc' \notin {"route", "setup", "consume", "discard"}
  BY DEF During, Exchange
<1> QED
  BY <1>1, <1>8, <1>9, <1>10, <1>11, <1>12, <1>13 DEF SentInv

\* The head is put on a fresh key.
LEMMA SentSetup ==
  ASSUME TypeOK, CursorInv, SentInv, SetupOk
  PROVE  SentInv'
<1>1. /\ load \in Loads /\ Len(Script) \in Nat /\ pc = "setup" /\ req \in Req
      /\ UNCHANGED <<load, req>> /\ pc' = "offer"
  BY Typed DEF SentInv, SetupOk, Goto, ctl
<1>2. Heading \in 1..Len(Script) /\ Script[Heading].req = req
  BY <1>1, HeadingFacts
<1>3. PICK h \in 1..Len(Script) : h = Heading
  BY <1>2
<1>4. h \in Nat /\ h - 1 \in Nat /\ h - 1 \in 0..Len(Script) /\ h \in 0..Len(Script)
      /\ h - 1 < h
  BY <1>1
<1>5. Run(h - 1, h) = <<h>>
  <2>1. Run(h - 1, (h - 1) + 1) = <<(h - 1) + 1>>
    BY <1>4, RunOne
  <2>2. (h - 1) + 1 = h
    BY <1>4
  <2> QED
    BY <2>1, <2>2
<1>6. sent' = [sent EXCEPT ![req] = Run(h - 1, h)]
  BY <1>3, <1>5 DEF SetupOk, Heading
<1>7. \A p \in ((h - 1) + 1)..h : Script[p].req = req
  <2>1. \A p \in ((h - 1) + 1)..h : p = h
    BY <1>4
  <2> QED
    BY <1>2, <1>3, <2>1
<1>8. \A i \in DOMAIN Run(h - 1, h) :
           /\ Run(h - 1, h)[i] # 0 /\ Script[Run(h - 1, h)[i]].req = req
           /\ (i > 1 => Run(h - 1, h)[i] = Run(h - 1, h)[i - 1] + 1)
  BY <1>1, <1>4, <1>7, OwnRun
<1>9. /\ OwnBytesOnly' /\ sent'[req] = Run(h - 1, h)
      /\ \A r \in Req : r # req => sent'[r] = sent[r]
  BY <1>1, <1>6, <1>8, OwnOthers DEF SentInv
<1>10. Req' = Req /\ Script' = Script /\ req' = req
  BY <1>1 DEF Req, Script
<1>11. Sending'
  BY <1>4, <1>7, <1>9, <1>10 DEF Sending
<1>12. \A r \in Req : r > req => sent'[r] = <<>>
  <2>1. \A r \in Req : r > req => r # req
    BY Typed DEF Req
  <2> QED
    BY <1>9, <2>1 DEF SentInv
<1> QED
  BY <1>1, <1>9, <1>10, <1>11, <1>12 DEF SentInv

\* The end marker is put last.
LEMMA SentTeardown ==
  ASSUME TypeOK, SentInv, Teardown
  PROVE  SentInv'
<1>1. /\ load \in Loads /\ Len(Script) \in Nat /\ pc = "teardown" /\ req \in Req
      /\ UNCHANGED <<load, req>> /\ pc' \in {"next", "finish"} /\ Sending
  BY Typed DEF SentInv, Teardown, Goto, ctl
<1>2. PICK a \in 0..Len(Script), b \in 0..Len(Script) :
        a < b /\ sent[req] = Run(a, b) /\ \A p \in (a + 1)..b : Script[p].req = req
  BY <1>1 DEF Sending
<1>3. a \in Nat /\ b \in Nat /\ a <= b /\ 0 \in Nat
  BY <1>1, <1>2
<1> DEFINE t == Append(Run(a, b), 0)
<1>4. Run(a, b) \in Seq(Nat) /\ Len(Run(a, b)) = b - a
  BY <1>3, RunFacts
<1>5. sent' = [sent EXCEPT ![req] = t]
  <2>1. Run(a, b) \o <<0>> = t
    BY <1>3, <1>4, AppendFacts
  <2> QED
    BY <1>1, <1>2, <2>1 DEF Teardown, Put, TypeOK
<1>6. \A i \in DOMAIN Run(a, b) :
           /\ Run(a, b)[i] # 0 /\ Script[Run(a, b)[i]].req = req
           /\ (i > 1 => Run(a, b)[i] = Run(a, b)[i - 1] + 1)
  BY <1>1, <1>2, OwnRun, ZenonT(30)
<1>7. /\ Len(t) = (b - a) + 1 /\ DOMAIN t = 1..((b - a) + 1)
      /\ \A i \in 1..(b - a) : t[i] = Run(a, b)[i]
      /\ t[(b - a) + 1] = 0
  <2>1. /\ t \in Seq(Nat) /\ Len(t) = Len(Run(a, b)) + 1
        /\ \A i \in 1..Len(Run(a, b)) : t[i] = Run(a, b)[i]
        /\ t[Len(Run(a, b)) + 1] = 0
    BY <1>3, <1>4, AppendFacts
  <2>2. DOMAIN t = 1..Len(t)
    BY <2>1
  <2> QED
    BY <1>4, <2>1, <2>2
<1> HIDE DEF t
<1>8. ASSUME NEW i \in DOMAIN t
      PROVE  \/ t[i] = 0 /\ i = Len(t)
             \/ t[i] # 0 /\ Script[t[i]].req = req /\ (i > 1 => t[i] = t[i - 1] + 1)
  <2>1. CASE i = (b - a) + 1
    BY <1>7, <2>1
  <2>2. CASE i # (b - a) + 1
    <3>1. i \in 1..(b - a) /\ (i > 1 => i - 1 \in 1..(b - a))
      BY <1>3, <1>7, <2>2
    <3>2. DOMAIN Run(a, b) = 1..(b - a)
      BY DEF Run
    <3>3. t[i] = Run(a, b)[i] /\ (i > 1 => t[i - 1] = Run(a, b)[i - 1])
      BY <1>7, <3>1
    <3> QED
      BY <1>6, <3>1, <3>2, <3>3
  <2> QED
    BY <2>1, <2>2
<1>9. /\ OwnBytesOnly' /\ \A r \in Req : r # req => sent'[r] = sent[r]
  BY <1>1, <1>5, <1>8, OwnOthers DEF SentInv
<1>10. Req' = Req /\ Script' = Script /\ req' = req
  BY <1>1 DEF Req, Script
<1>12. \A r \in Req : r > req => sent'[r] = <<>>
  <2>1. \A r \in Req : r > req => r # req
    BY Typed DEF Req
  <2> QED
    BY <1>9, <2>1 DEF SentInv
<1> QED
  BY <1>1, <1>9, <1>10, <1>12 DEF SentInv, Exchange

\* The body is put after what was put before it.
LEMMA SentRequest ==
  ASSUME TypeOK, FeedInv, CursorInv, CarryInv, SentInv, TakenRequest
  PROVE  SentInv'
<1>1. carry = <<>> /\ ~Over /\ events # <<>> /\ IsClient(Head(events)) /\ pc \in Exchange
      /\ ~request_done /\ pc' = pc /\ pc = "process" /\ UNCHANGED <<load, req>>
  BY NoCarry DEF TakenRequest, Taken, Over, Exchange, IsClient
<1>2. PICK c \in Nat : At(c)
  BY <1>1 DEF CursorInv
<1>3. /\ Queue(Script, ClientOf(carry \o events), c, 2 * fed + 1)
      /\ c = 2 * Reached /\ Reached \in 1..Len(Script) /\ Script[Reached].kind \in HB
      /\ Script[Reached].req = req
  BY <1>1, <1>2 DEF At
<1>4. load \in Loads /\ fed \in Nat /\ 2 * fed + 1 \in Nat /\ Len(Script) \in Nat
  BY Typed
<1>5. Follows(Head(events), 2 * Reached)
  BY <1>1, <1>3, <1>4, QueueHead
<1>6. CASE Head(events).ev = "body"
  <2>1. Head(events).at = Reached + 1 /\ Script[Reached + 1].req = req
    BY <1>3, <1>4, <1>5, <1>6, WithinRequest
  <2>2. Head(events).at \in 1..Len(Script)
    BY <1>4, <1>5, FollowsFacts
  <2>3. PICK x \in Nat : x = Reached /\ x + 1 \in 0..Len(Script)
    BY <1>3, <1>4, <2>1, <2>2
  <2>4. Run(x, x + 1) = <<x + 1>>
    BY <2>3, RunOne
  <2>5. Put(<<x + 1>>)
    BY <1>6, <2>1, <2>3 DEF TakenRequest
  <2>6. \A p \in (x + 1)..(x + 1) : Script[p].req = req
    <3>1. \A p \in (x + 1)..(x + 1) : p = x + 1
      BY <2>3
    <3> QED
      BY <2>1, <2>3, <3>1
  <2>7. Reached <= x + 1 /\ pc' \in During /\ pc' # "splice"
    BY <1>1, <2>3 DEF During
  <2>8. Put(Run(Reached, x + 1)) /\ \A p \in (Reached + 1)..(x + 1) : Script[p].req = req
    BY <2>3, <2>4, <2>5, <2>6
  <2> QED
    BY <1>1, <2>3, <2>7, <2>8, SentPut
<1>7. CASE Head(events).ev # "body"
  <2>1. sent' = sent
    BY <1>7 DEF TakenRequest
  <2> QED
    BY <1>1, <2>1, SentFrame DEF Before, During
<1> QED
  BY <1>6, <1>7

\* The tunnel's bytes follow the request's.
LEMMA SentTunnel ==
  ASSUME Inv, Switched \/ SpliceUp
  PROVE  SentInv'
<1>1. /\ TypeOK /\ FeedInv /\ CursorInv /\ CarryInv /\ SentInv /\ UpInv /\ SwitchInv
  BY DEF Inv
<1>2. load \in Loads /\ Len(Script) \in Nat /\ inp \in Nat /\ inp <= Len(Script)
  BY <1>1, Typed
<1>3. CASE Switched
  <2>1. /\ pc = "switch" /\ pc' = "splice" /\ Put(UpFirst)
        /\ UNCHANGED <<load, req, inp>>
    BY <1>3 DEF Switched
  <2>2. /\ UpFirst = Run(Reached, inp) /\ Reached <= inp /\ Reached \in 1..Len(Script)
        /\ Script[Reached].kind \in HB /\ Script[Reached].req = req
        /\ load.resp[Script[Reached].req].framing = "switch"
    BY <1>1, <2>1, SwitchRun
  <2>3. PICK x \in 1..Len(Script) : x = Reached
    BY <2>2
  <2>4. \A p \in (x + 1)..inp : Script[p].req = req
    <3>1. \A p \in (x + 1)..inp : p \in x..Len(Script)
      BY <1>2, <2>3
    <3> QED
      BY <1>2, <2>2, <2>3, <3>1, AfterSwitch
  <2>5. inp \in 0..Len(Script) /\ x \in 1..inp
    BY <1>2, <2>2, <2>3
  <2>6. pc \in Exchange /\ pc' \in During
    BY <2>1 DEF Exchange, During
  <2>7. Put(Run(Reached, inp)) /\ \A p \in (Reached + 1)..inp : Script[p].req = req
    BY <2>1, <2>2, <2>3, <2>4
  <2>8. \E p \in 1..inp : Script[p].kind \in HB /\ Script[p].req = req
    BY <2>2, <2>3, <2>5
  <2> QED
    BY <1>1, <2>1, <2>2, <2>5, <2>6, <2>7, <2>8, SentPut
<1>4. CASE SpliceUp
  <2>1. /\ pc = "splice" /\ inp < Len(Script) /\ UNCHANGED <<load, req>> /\ inp' = inp + 1
        /\ Resp.framing = "switch" /\ Reached = inp
        /\ \/ Put(<<inp + 1>>) /\ pc' = pc
           \/ pc' = "teardown" /\ sent' = sent
    BY <1>1, <1>4 DEF SpliceUp, ctl, SwitchInv, SentInv, Goto
  <2>2. PICK x \in 1..inp : Script[x].kind \in HB /\ Script[x].req = req
    BY <1>1, <2>1 DEF SentInv
  <2>3. CASE Put(<<inp + 1>>) /\ pc' = pc
    <3>1. Run(Reached, inp + 1) = <<inp + 1>>
      BY <1>2, <2>1, RunOne
    <3>2. inp + 1 \in 0..Len(Script) /\ Reached <= inp + 1 /\ x \in 1..(inp + 1)
      BY <1>2, <2>1
    <3>3. x \in 1..Len(Script) /\ \A p \in (inp + 1)..(inp + 1) : p \in x..Len(Script)
      BY <1>2, <2>1
    <3>4. load.resp[Script[x].req].framing = "switch"
      BY <2>1, <2>2 DEF Resp
    <3>5. \A p \in (Reached + 1)..(inp + 1) : Script[p].req = req
      BY <1>2, <2>1, <2>2, <3>3, <3>4, AfterSwitch
    <3>6. pc \in Exchange /\ pc' \in During
      BY <2>1, <2>3 DEF Exchange, During
    <3>7. \E p \in 1..(inp + 1) : Script[p].kind \in HB /\ Script[p].req = req
      BY <2>2, <3>2
    <3> QED
      BY <1>1, <2>1, <2>3, <3>1, <3>2, <3>5, <3>6, <3>7, SentPut
  <2>4. CASE pc' = "teardown" /\ sent' = sent
    BY <1>1, <2>1, <2>4, SentFrame DEF Before, During, Exchange
  <2> QED
    BY <2>1, <2>3, <2>4
<1> QED
  BY <1>3, <1>4

\* A request is met: nothing was put for it yet.
LEMMA SentPop ==
  ASSUME Inv, NextPop
  PROVE  SentInv'
<1>1. /\ TypeOK /\ FeedInv /\ CursorInv /\ CarryInv /\ SentInv
  BY DEF Inv
<1>2. /\ pc = "next" /\ events # <<>> /\ UNCHANGED <<load, sent>>
      /\ Head(events).ev = "head" => pc' = "route" /\ req' = req + 1
      /\ Head(events).ev # "head" => UNCHANGED <<pc, req>>
  BY DEF NextPop, Goto, hist
<1>3. CASE Head(events).ev # "head"
  BY <1>1, <1>2, <1>3, SentFrame DEF Before, During, Exchange
<1>4. CASE Head(events).ev = "head"
  <2>1. req + 1 <= Len(load.resp) /\ req \in Nat /\ Len(load.resp) \in Nat
    BY <1>1, <1>2, <1>4, HeadType, NoCarry, Typed DEF Over, IsClient
  <2>2. Req' = Req /\ Script' = Script /\ req + 1 \in Req
    BY <1>2, <2>1 DEF Req, Script
  <2>3. \A r \in Req : r > req + 1 => r > req
    BY <2>1 DEF Req
  <2>4. \A r \in Req : r > req => sent[r] = <<>>
    BY <1>1 DEF SentInv
  <2>5. sent[req + 1] = <<>>
    <3>1. req + 1 > req
      BY <2>1
    <3> QED
      BY <2>2, <2>4, <3>1
  <2>6. OwnBytesOnly'
    BY <1>1, <1>2, <2>2 DEF SentInv, OwnBytesOnly
  <2>7. \A r \in Req' : r > req' => sent'[r] = <<>>
    BY <1>2, <1>4, <2>2, <2>3, <2>4
  <2> QED
    BY <1>2, <1>4, <2>2, <2>5, <2>6, <2>7 DEF SentInv, Exchange
<1> QED
  BY <1>3, <1>4

\* What is put for a request is one run of its own bytes.
LEMMA SentNext == Inv /\ [Next]_vars => SentInv'
<1> SUFFICES ASSUME Inv, [Next]_vars PROVE SentInv'
  OBVIOUS
<1>1. /\ TypeOK /\ FeedInv /\ CursorInv /\ CarryInv /\ SentInv
  BY DEF Inv
<1> USE DEF Before, During, Exchange
<1>2. CASE Pushed
  BY <1>1, <1>2, SentFrame DEF Pushed, Ahead
<1>3. CASE Idle
  BY <1>1, <1>3, SentFrame DEF Idle, hist
<1>4. CASE Quit
  BY <1>1, <1>4, SentFrame DEF Quit
<1>5. CASE NextPop
  BY <1>5, SentPop
<1>6. CASE RouteUnavailable \/ DiscardPop
  BY <1>1, <1>6, SentFrame DEF RouteUnavailable, DiscardPop, Goto, ctl, cli, hist
<1>7. CASE SetupOk
  BY <1>1, <1>7, SentSetup
<1>8. CASE Offered
  BY <1>1, <1>8, SentFrame DEF Offered, hist
<1>9. CASE TakenRequest
  BY <1>1, <1>9, SentRequest
<1>10. CASE TakenAside \/ TakenHead \/ TakenBody
  BY <1>1, <1>10, SentFrame DEF TakenAside, TakenHead, TakenBody, Taken
<1>11. CASE TakenEnd \/ TakenSwitch
  BY <1>1, <1>11, SentFrame DEF TakenEnd, TakenSwitch, Taken
<1>12. CASE TakenAll \/ Abandoned
  BY <1>1, <1>12, SentFrame DEF TakenAll, Abandoned, hist
<1>13. CASE SelectRecv
  BY <1>1, <1>13, SentFrame DEF SelectRecv, Goto, ctl, cli
<1>14. CASE Switched \/ SpliceUp
  BY <1>14, SentTunnel
<1>15. CASE SpliceDown \/ Backend
  BY <1>1, <1>15, SentFrame DEF SpliceDown, Backend, Goto, ctl, cli
<1>16. CASE Teardown
  BY <1>1, <1>16, SentTeardown
<1> QED
  BY <1>1, <1>2, <1>3, <1>4, <1>5, <1>6, <1>7, <1>8, <1>9, <1>10, <1>11, <1>12, <1>13,
     <1>14, <1>15, <1>16, Kind

-----------------------------------------------------------------------------
(* The tunnel's side of the parser is kept.                                *)

\* Once the client's bytes are no longer the parser's, they never are again.
LEMMA OverStays ==
  ASSUME FeedInv, [Next]_vars, Over
  PROVE  Over'
<1>1. pc \in Exchange => ~response_done
  BY DEF FeedInv
<1> USE DEF Over, Exchange
<1>2. CASE Idle
  BY <1>1, <1>2 DEF Idle, exch
<1>3. CASE SpliceUp \/ SpliceDown \/ Backend
  BY <1>1, <1>3 DEF SpliceUp, SpliceDown, Backend, exch, Goto
<1>4. CASE Teardown
  BY <1>4 DEF Teardown, Reusable, Goto
<1> QED
  BY <1>2, <1>3, <1>4, Kind DEF Pushed, Ahead, Quit, NextPop, RouteUnavailable, DiscardPop,
     SetupOk, Offered, TakenRequest, TakenAside, TakenHead, TakenBody, TakenEnd,
     TakenSwitch, Taken, TakenAll, Abandoned, SelectRecv, Switched

\* A connection whose parser framed a head did not open with an h2 preface.
LEMMA FramedNoPreface ==
  ASSUME load \in Loads, NEW p \in 1..Len(Script), Script[p].kind \in HB
  PROVE  NoPreface
<1> SUFFICES ASSUME NEW q \in 1..Len(Script), Script[q].kind = "h2" PROVE FALSE
  BY DEF NoPreface
<1>1. q = 1 /\ Len(Script) \in Nat
  BY StreamStep, ScriptFacts
<1>2. q \in 1..p
  BY <1>1
<1> QED
  BY <1>2, FramedBefore DEF HB

\* What the parser keeps of the tunnel's bytes.
LEMMA UpNext == Inv /\ [Next]_vars => UpInv'
<1> SUFFICES ASSUME Inv, [Next]_vars PROVE UpInv'
  OBVIOUS
<1>1. /\ TypeOK /\ FeedInv /\ CursorInv /\ CarryInv /\ SentInv /\ UpInv /\ LineInv
  BY DEF Inv
<1>2. /\ load \in Loads /\ load' = load /\ residue \in [{"up", "down"} -> Seq(Nat)]
      /\ rgot \in Seq(Nat) /\ events \in Seq(EventRec) /\ rx \in Seq(Nat)
      /\ resp_pending \in Seq(Nat)
  BY <1>1, Typed, LoadKept
<1>3. NoPreface' <=> NoPreface
  BY <1>2 DEF NoPreface, Script
<1>4. pc' \notin {"next", "finish", "done"} => NoPreface
  <2>1. CASE NextPop /\ pc' # pc
    <3>1. /\ pc = "next" /\ events # <<>> /\ Head(events).ev = "head" /\ carry = <<>>
          /\ ~Over /\ IsClient(Head(events))
      BY <1>1, <2>1, NoCarry DEF NextPop, Over, IsClient
    <3>2. /\ Head(events).at \in 1..Len(Script)
          /\ Script[Head(events).at].kind = "head"
      BY <1>1, <3>1, HeadType
    <3> QED
      BY <1>2, <3>2, FramedNoPreface DEF HB
  <2>2. CASE pc \notin {"next", "finish", "done"}
    BY <1>1, <2>2 DEF UpInv
  <2>3. CASE ~(NextPop /\ pc' # pc) /\ pc \in {"next", "finish", "done"}
    <3>1. pc' \in {"next", "finish", "done"}
      BY <1>1, <2>3, Kind DEF Pushed, Ahead, Idle, Quit, NextPop, RouteUnavailable,
         DiscardPop, SetupOk, Offered, TakenRequest, TakenAside, TakenHead, TakenBody,
         TakenEnd, TakenSwitch, Taken, TakenAll, Abandoned, SelectRecv, Switched, SpliceUp,
         SpliceDown, Teardown, Backend, Exchange
    <3> QED
      BY <3>1
  <2> QED
    BY <2>1, <2>2, <2>3
<1>5. ~Over' /\ NoPreface => Kept(residue["up"], fed)'
  <2> SUFFICES ASSUME ~Over', NoPreface PROVE Kept(residue["up"], fed)'
    OBVIOUS
  <2>1. ~Over /\ Kept(residue["up"], fed)
    BY <1>1, OverStays DEF UpInv
  <2>2. CASE residue'["up"] = residue["up"] /\ fed' = fed
    BY <1>2, <2>1, <2>2 DEF Kept, Script
  <2>3. CASE Pushed
    <3>1. PICK k \in Nat : /\ Accepts(k, inp') /\ fed \in Nat /\ fed + k \in Nat
                           /\ fed + k <= inp' /\ fed + k <= Len(Script)
      BY <1>1, <2>3, PushedRun
    <3>2. residue'["up"] = residue["up"] \o Leftover(fed, k) /\ fed' = fed + k
      BY <1>2, <3>1 DEF Accepts
    <3>3. residue["up"] \in Seq(Nat)
      BY <1>2
    <3>4. Kept(residue["up"] \o Leftover(fed, k), fed + k)
      BY <1>2, <2>1, <3>1, <3>3, KeptPush
    <3> QED
      BY <1>2, <3>2, <3>4 DEF Kept, Script
  <2>4. ASSUME NEW off \in Seq(Nat), Len(off) <= 1, PushResp(off), fed' = fed
        PROVE  Kept(residue["up"], fed)'
    <3>1. Held(off) \/ (Len(off) = 1 /\ off[1] \in Nat /\ Accepted(off[1]))
      BY <1>2, <2>4, PushOne
    <3>2. residue'["up"] = residue["up"]
      BY <1>2, <3>1 DEF Held, Accepted
    <3> QED
      BY <2>2, <2>4, <3>2
  <2>5. CASE Offered
    <3>1. Len(resp_pending) <= 1
      BY <1>1, <2>5 DEF Offered, LineInv, Exchange
    <3> QED
      BY <1>2, <2>4, <2>5, <3>1 DEF Offered
  <2>6. CASE SelectRecv
    <3>1. CASE Head(rx) = 0
      BY <2>2, <2>6, <3>1 DEF SelectRecv, FinResp
    <3>2. CASE Head(rx) # 0
      <4>1. Head(rx) \in Nat
        BY <1>2, <2>6 DEF SelectRecv
      <4>2. <<Head(rx)>> \in Seq(Nat) /\ Len(<<Head(rx)>>) <= 1
        BY <4>1
      <4> QED
        BY <2>4, <2>6, <3>2, <4>2 DEF SelectRecv
    <3> QED
      BY <3>1, <3>2
  <2>7. CASE Switched
    BY <2>7 DEF Switched, Over
  <2> QED
    BY <1>1, <2>2, <2>3, <2>5, <2>6, <2>7, Kind DEF Idle, Quit, NextPop, RouteUnavailable,
       DiscardPop, SetupOk, TakenRequest, TakenAside, TakenHead, TakenBody, TakenEnd,
       TakenSwitch, Taken, TakenAll, Abandoned, SpliceUp, SpliceDown, Teardown, Backend,
       par
<1> QED
  BY <1>3, <1>4, <1>5 DEF UpInv

\* No protocol switch is queued.
Unswitched(s) == \A i \in 1..Len(s) : s[i].ev # "switch"

\* No event of the client is a switch.
LEMMA ClientUnswitched ==
  ASSUME NEW s, \A i \in 1..Len(s) : IsClient(s[i])
  PROVE  Unswitched(s)
BY DEF IsClient, Unswitched

\* Nor in two queues after each other.
LEMMA UnswitchedConcat ==
  ASSUME NEW s \in Seq(EventRec), NEW t \in Seq(EventRec), Unswitched(s), Unswitched(t)
  PROVE  Unswitched(s \o t)
<1>1. /\ Len(s \o t) = Len(s) + Len(t) /\ Len(s) \in Nat /\ Len(t) \in Nat
      /\ \A i \in 1..(Len(s) + Len(t)) :
           (s \o t)[i] = IF i <= Len(s) THEN s[i] ELSE t[i - Len(s)]
  BY ConcatProperties
<1>2. ASSUME NEW i \in 1..(Len(s) + Len(t)) PROVE (s \o t)[i].ev # "switch"
  <2>1. CASE i <= Len(s)
    BY <1>1, <2>1 DEF Unswitched
  <2>2. CASE ~(i <= Len(s))
    <3>1. i - Len(s) \in 1..Len(t)
      BY <1>1, <2>2
    <3> QED
      BY <1>1, <2>2, <3>1 DEF Unswitched
  <2> QED
    BY <2>1, <2>2
<1> QED
  BY <1>1, <1>2 DEF Unswitched

\* A step after which no switch is queued.
LEMMA SwitchNone ==
  ASSUME Unswitched(events'), pc' \notin {"switch", "splice"}
  PROVE  SwitchInv'
BY DEF SwitchInv, Unswitched

\* A step that leaves the queue alone.
LEMMA SwitchFrame ==
  ASSUME SwitchInv, UNCHANGED <<load, req, events>>, tunnelled => tunnelled',
         pc' \in Exchange => pc \in Exchange,
         pc' \in {"switch", "splice"} => pc \in {"switch", "splice"},
         pc' = "switch" => pc = "switch" /\ request_done' = request_done
  PROVE  SwitchInv'
<1>1. Resp' = Resp /\ ReplyOf(events)' = ReplyOf(events)
  BY DEF Resp
<1> QED
  BY <1>1 DEF SwitchInv

\* A step that takes the first event.
LEMMA SwitchTake ==
  ASSUME SwitchInv, events \in Seq(EventRec), events # <<>>, events' = Tail(events),
         UNCHANGED <<load, req, tunnelled, pc>>, pc = "process"
  PROVE  SwitchInv'
<1>1. Resp' = Resp
  BY DEF Resp
<1>2. Len(events') = Len(events) - 1 /\ Len(events) \in Nat
      /\ \A i \in 1..(Len(events) - 1) : events'[i] = events[i + 1] /\ i + 1 \in 1..Len(events)
  OBVIOUS
<1>3. \A i \in 1..Len(events) : events[i].ev = "switch" =>
       i = Len(events) /\ tunnelled /\ Resp.framing = "switch"
  BY DEF SwitchInv, Exchange
<1>4. ASSUME NEW i \in 1..Len(events'), events'[i].ev = "switch"
      PROVE  i = Len(events') /\ tunnelled' /\ Resp'.framing = "switch"
  <2>1. i \in 1..(Len(events) - 1) /\ i \in Nat
    BY <1>2
  <2>2. i + 1 = Len(events) /\ tunnelled /\ Resp.framing = "switch"
    BY <1>2, <1>3, <1>4, <2>1
  <2>3. i = Len(events) - 1
    <3> DEFINE n == Len(events)
    <3>1. n \in Nat /\ i + 1 = n
      BY <1>2, <2>2
    <3> HIDE DEF n
    <3>2. i = n - 1
      BY <2>1, <3>1
    <3> QED
      BY <3>2 DEF n
  <2>4. i = Len(events')
    BY <1>2, <2>3
  <2> QED
    BY <1>1, <2>2, <2>4
<1> QED
  BY <1>4 DEF SwitchInv

\* A push of the backend's bytes: the switch comes last.
LEMMA SwitchResp ==
  ASSUME Inv, NEW off \in Seq(Nat), Len(off) <= 1, PushResp(off), UNCHANGED <<load, req>>,
         pc \in Exchange, pc' \in {"process", "offer"}
  PROVE  SwitchInv'
<1>1. /\ SwitchInv /\ rgot \in Seq(Nat) /\ events \in Seq(EventRec)
      /\ residue \in [{"up", "down"} -> Seq(Nat)]
  BY Typed DEF Inv
<1>2. Held(off) \/ (Len(off) = 1 /\ off[1] \in Nat /\ Accepted(off[1]))
  BY <1>1, PushOne
<1>3. CASE Held(off)
  BY <1>1, <1>3, SwitchFrame DEF Held
<1>4. ASSUME NEW n \in Nat, Accepted(n) PROVE SwitchInv'
  <2>1. Unswitched(events) /\ Resp' = Resp
    BY <1>1, <1>4 DEF Accepted, SwitchInv, Unswitched, Resp
  <2>2. CASE events' = events
    BY <2>1, <2>2, SwitchNone
  <2>3. CASE events' = events \o ResponseEvents(n, rgot)
    <3> DEFINE t == ResponseEvents(n, rgot)
    <3>1. t \in Seq(EventRec)
      BY ResponseFacts
    <3>2. CASE Kinds[n] = "head" /\ Resp.framing = "switch"
      <4>1. t = <<Event("rhead", n), Event("switch", n)>>
        BY <3>2, ResponseFacts
      <4>2. Len(t) = 2 /\ t[1].ev = "rhead" /\ t[2].ev = "switch"
        BY <4>1 DEF Event
      <4>3. /\ Len(events \o t) = Len(events) + Len(t) /\ Len(events) \in Nat
            /\ \A i \in 1..(Len(events) + Len(t)) :
                 (events \o t)[i] = IF i <= Len(events) THEN events[i] ELSE t[i - Len(events)]
        BY <1>1, <3>1, ConcatProperties
      <4> HIDE DEF t
      <4>4. tunnelled'
        <5>1. rgot' = Append(rgot, n) /\ tunnelled' = (Resp.framing = "switch" /\ Headed(rgot'))
          BY <1>4 DEF Accepted
        <5>2. n \in ToSet(Append(rgot, n))
          <6>1. Append(rgot, n)[Len(rgot) + 1] = n /\ Len(Append(rgot, n)) = Len(rgot) + 1
                /\ Len(rgot) \in Nat /\ Append(rgot, n) \in Seq(Nat)
            BY <1>1, AppendFacts
          <6>2. Len(rgot) + 1 \in DOMAIN Append(rgot, n)
            BY <6>1
          <6> QED
            BY <6>1, <6>2 DEF ToSet
        <5>3. Headed(rgot')
          BY <3>2, <5>1, <5>2 DEF Headed, Kinds
        <5> QED
          BY <3>2, <5>1, <5>3
      <4>5. ASSUME NEW i \in 1..Len(events'), events'[i].ev = "switch"
            PROVE  i = Len(events')
        <5>1. i \in Nat /\ Len(events') = Len(events) + 2
          BY <2>3, <4>2, <4>3 DEF t
        <5>2. CASE i <= Len(events)
          BY <2>1, <2>3, <4>2, <4>3, <4>5, <5>1, <5>2 DEF Unswitched, t
        <5>3. CASE i = Len(events) + 1
          <6>1. i - Len(events) = 1
            BY <4>3, <5>3
          <6> QED
            BY <2>3, <4>2, <4>3, <4>5, <5>1, <5>3, <6>1 DEF t
        <5> QED
          BY <4>3, <5>1, <5>2, <5>3
      <4> QED
        BY <2>1, <3>2, <4>4, <4>5 DEF SwitchInv
    <3>3. CASE ~(Kinds[n] = "head" /\ Resp.framing = "switch")
      <4>1. Unswitched(t)
        <5>1. CASE Kinds[n] = "raw"
          <6>1. t = <<>>
            BY <5>1, ResponseFacts
          <6>2. Len(<<>>) = 0
            OBVIOUS
          <6> QED
            BY <6>1, <6>2 DEF Unswitched
        <5>2. CASE Kinds[n] # "raw"
          <6> DEFINE k == IF Kinds[n] = "body" THEN "rbody" ELSE "rhead"
                     u == IF Complete(Append(rgot, n)) THEN <<Event("rend", n)>> ELSE <<>>
          <6>1. t = <<Event(k, n)>> \o u
            BY <3>3, <5>2, ResponseFacts
          <6>2. k # "switch" /\ k \in EventKind
            BY DEF EventKind
          <6>3. Unswitched(<<Event(k, n)>>) /\ <<Event(k, n)>> \in Seq(EventRec)
            BY <6>2 DEF Unswitched, Event, EventRec
          <6>4. Unswitched(u) /\ u \in Seq(EventRec)
            <7>1. Unswitched(<<Event("rend", n)>>) /\ <<Event("rend", n)>> \in Seq(EventRec)
              BY DEF Unswitched, Event, EventRec, EventKind
            <7>2. Unswitched(<<>>) /\ <<>> \in Seq(EventRec)
              BY DEF Unswitched
            <7> QED
              BY <7>1, <7>2
          <6> HIDE DEF k, u
          <6> QED
            BY <6>1, <6>3, <6>4, UnswitchedConcat
        <5> QED
          BY <5>1, <5>2
      <4> HIDE DEF t
      <4>2. Unswitched(events \o t)
        BY <1>1, <2>1, <3>1, <4>1, UnswitchedConcat
      <4> QED
        BY <2>3, <4>2, SwitchNone DEF t
    <3> QED
      BY <3>2, <3>3
  <2> QED
    BY <1>4, <2>2, <2>3 DEF Accepted
<1> QED
  BY <1>2, <1>3, <1>4

\* A switch is the last event of its exchange, and the tunnel starts clean.
LEMMA SwitchNext == Inv /\ [Next]_vars => SwitchInv'
<1> SUFFICES ASSUME Inv, [Next]_vars PROVE SwitchInv'
  OBVIOUS
<1>1. /\ TypeOK /\ FeedInv /\ CarryInv /\ UpInv /\ SwitchInv /\ LineInv /\ BetweenInv
  BY DEF Inv
<1>2. /\ load \in Loads /\ residue \in [{"up", "down"} -> Seq(Nat)]
      /\ rgot \in Seq(Nat) /\ events \in Seq(EventRec) /\ rx \in Seq(Nat)
      /\ resp_pending \in Seq(Nat) /\ carry \in Seq(EventRec)
  BY <1>1, Typed
<1>3. CASE Pushed
  <2>1. PICK k \in Nat : /\ Accepts(k, inp') /\ fed \in Nat /\ fed + k \in Nat
                         /\ fed + k <= inp' /\ fed + k <= Len(Script)
    BY <1>1, <1>3, PushedRun
  <2>2. CASE tunnelled
    <3>1. k = 0 /\ events' = events \o Framing(fed, k)
      BY <2>1, <2>2 DEF Accepts
    <3>2. events' = events
      BY <1>2, <3>1, FramingZero
    <3>3. UNCHANGED <<load, req>> /\ tunnelled'
          /\ (pc' \in Exchange => pc \in Exchange) /\ pc' \notin {"switch", "splice"}
      BY <1>3, <2>1, <2>2 DEF Pushed, Accepts, Exchange, Ahead
    <3> QED
      BY <1>1, <3>2, <3>3, SwitchFrame
  <2>3. CASE ~tunnelled
    <3>1. CASE pc \in {"offer", "select"}
      <4>1. NoPreface /\ Unswitched(events)
        BY <1>1, <2>3, <3>1 DEF UpInv, SwitchInv, Exchange, Unswitched
      <4>2. Framing(fed, k) \in Seq(EventRec) /\ ReplyOf(Framing(fed, k)) = <<>>
        BY <1>2, <2>1, <4>1, FramingQueue
      <4>3. Unswitched(Framing(fed, k))
        BY <4>2, ReplyNone, ClientUnswitched
      <4>4. Unswitched(events \o Framing(fed, k))
        BY <1>2, <4>1, <4>2, <4>3, UnswitchedConcat
      <4>5. pc' \notin {"switch", "splice"} /\ events' = events \o Framing(fed, k)
        BY <1>3, <2>1, <3>1 DEF Pushed, Ahead, Accepts
      <4> QED
        BY <4>4, <4>5, SwitchNone
    <3>2. CASE pc \notin {"offer", "select"}
      <4>1. pc' \notin Exchange
        BY <1>3, <3>2 DEF Pushed, Ahead, Exchange
      <4> QED
        BY <4>1 DEF SwitchInv, Exchange
    <3> QED
      BY <3>1, <3>2
  <2> QED
    BY <2>2, <2>3
<1>4. CASE Idle
  BY <1>1, <1>4, SwitchFrame DEF Idle, exch, Exchange
<1>5. CASE pc' \notin Exchange
  BY <1>5 DEF SwitchInv, Exchange
<1>6. CASE SetupOk
  <2>1. pc = "setup" /\ events' = events /\ pc' = "offer"
    BY <1>6 DEF SetupOk, par, Goto
  <2>2. NoPreface /\ ReplyOf(events) = <<>>
    BY <1>1, <2>1 DEF UpInv, BetweenInv
  <2>3. Unswitched(events)
    BY <1>2, <2>2, ReplyNone, ClientUnswitched
  <2> QED
    BY <2>1, <2>3, SwitchNone
<1>7. CASE Offered
  <2>1. Len(resp_pending) <= 1 /\ pc \in Exchange
    BY <1>1, <1>7 DEF Offered, LineInv, Exchange
  <2> QED
    BY <1>2, <1>7, <2>1, SwitchResp DEF Offered
<1>8. CASE SelectRecv
  <2>1. /\ UNCHANGED <<load, req>> /\ pc \in Exchange /\ pc = "select" /\ pc' = "offer"
    BY <1>8 DEF SelectRecv, Exchange, Goto, ctl
  <2>2. CASE Head(rx) = 0
    <3>1. FinResp
      BY <1>8, <2>2 DEF SelectRecv
    <3>2. CASE events' = events
      BY <1>1, <2>1, <3>1, <3>2, SwitchFrame DEF FinResp
    <3>3. CASE events' # events
      <4>1. Resp.framing = "close" /\ events' = Append(events, Event("rend", 0))
        BY <3>1, <3>3 DEF FinResp
      <4>2. Unswitched(events)
        BY <1>1, <2>1, <4>1 DEF SwitchInv, Unswitched
      <4>3. Event("rend", 0) \in EventRec
        BY DEF Event, EventRec, EventKind
      <4>4. Unswitched(<<Event("rend", 0)>>) /\ <<Event("rend", 0)>> \in Seq(EventRec)
        BY <4>3 DEF Unswitched, Event
      <4>5. Append(events, Event("rend", 0)) = events \o <<Event("rend", 0)>>
        BY <1>2, <4>3, AppendFacts
      <4>6. Unswitched(events')
        BY <1>2, <4>1, <4>2, <4>4, <4>5, UnswitchedConcat
      <4> QED
        BY <2>1, <4>6, SwitchNone
    <3> QED
      BY <3>2, <3>3
  <2>3. CASE Head(rx) # 0
    <3>1. Head(rx) \in Nat
      BY <1>2, <1>8 DEF SelectRecv
    <3>2. <<Head(rx)>> \in Seq(Nat) /\ Len(<<Head(rx)>>) <= 1
      BY <3>1
    <3>3. PushResp(<<Head(rx)>>)
      BY <1>8, <2>3 DEF SelectRecv
    <3> QED
      BY <2>1, <3>2, <3>3, SwitchResp
  <2> QED
    BY <2>2, <2>3
<1>9. CASE TakenRequest \/ TakenAside
  BY <1>1, <1>2, <1>9, SwitchTake DEF TakenRequest, TakenAside, Taken
<1>10. CASE TakenHead \/ TakenBody
  BY <1>1, <1>2, <1>10, SwitchTake DEF TakenHead, TakenBody, Taken
<1>11. CASE TakenSwitch
  <2>1. /\ pc = "process" /\ events # <<>> /\ Head(events).ev = "switch" /\ pc' = "switch"
        /\ events' = carry \o Tail(events) /\ UNCHANGED <<load, req, request_done>>
    BY <1>11 DEF TakenSwitch, Taken
  <2>2. events[1].ev = "switch" /\ 1 \in 1..Len(events)
    BY <1>2, <2>1
  <2>3. 1 = Len(events) /\ Resp.framing = "switch"
    BY <1>1, <2>1, <2>2 DEF SwitchInv, Exchange
  <2>4. Tail(events) = <<>>
    <3>1. Tail(events) \in Seq(EventRec) /\ Len(Tail(events)) = Len(events) - 1
      BY <1>2, <2>1, SideHead
    <3>2. Len(Tail(events)) = 0
      BY <2>3, <3>1
    <3> QED
      BY <3>1, <3>2, EmptySeq
  <2>5. events' = carry
    <3>1. carry \o <<>> = carry
      BY <1>2
    <3> QED
      BY <2>1, <2>4, <3>1
  <2>6. \A i \in 1..Len(carry) : IsClient(carry[i])
    BY <1>1 DEF CarryInv
  <2>7. ReplyOf(carry) = <<>> /\ Unswitched(carry)
    BY <1>2, <2>6, ReplyNone, ClientUnswitched
  <2>8. ~request_done => carry = <<>>
    BY <1>1, <2>1 DEF CarryInv
  <2>9. Resp' = Resp
    BY <2>1 DEF Resp
  <2>10. ReplyOf(events') = <<>> /\ Unswitched(events')
    BY <2>5, <2>7
  <2> QED
    BY <2>1, <2>3, <2>5, <2>8, <2>9, <2>10 DEF SwitchInv, Unswitched
<1>12. CASE TakenAll
  <2>1. \A i \in 1..Len(carry) : IsClient(carry[i])
    BY <1>1 DEF CarryInv
  <2>2. Unswitched(carry)
    BY <2>1, ClientUnswitched
  <2> QED
    BY <1>12, <2>2, SwitchNone DEF TakenAll
<1>13. CASE Switched
  BY <1>1, <1>13, SwitchFrame DEF Switched, Exchange
<1>14. CASE SpliceUp \/ SpliceDown
  BY <1>1, <1>14, SwitchFrame DEF SpliceUp, SpliceDown, ctl, par, Exchange, Goto
<1>15. CASE Backend
  BY <1>1, <1>15, SwitchFrame DEF Backend, ctl, par, exch
<1>16. CASE Quit \/ NextPop \/ RouteUnavailable \/ DiscardPop \/ TakenEnd \/ Abandoned \/ Teardown
  <2>1. pc' \notin Exchange
    BY <1>16 DEF Quit, NextPop, RouteUnavailable, DiscardPop, TakenEnd, Abandoned, Teardown,
       Goto, Exchange
  <2> QED
    BY <1>5, <2>1
<1> QED
  BY <1>1, <1>3, <1>4, <1>6, <1>7, <1>8, <1>9, <1>10, <1>11, <1>12, <1>13, <1>14, <1>15,
     <1>16, Kind

-----------------------------------------------------------------------------
(* What was written of an answer.                                          *)

\* Everything where every element stands for itself.
LEMMA MapSelf ==
  ASSUME NEW A, NEW G \in [A -> Seq(A)], NEW s \in Seq(A),
         \A i \in 1..Len(s) : G[s[i]] = <<s[i]>>
  PROVE  FlatMap(s, G) = s
<1> DEFINE pre(n) == SubSeq(s, 1, n)
           T == {n \in Nat : n <= Len(s) => FlatMap(pre(n), G) = pre(n)}
<1>0. Len(s) \in Nat
  OBVIOUS
<1>1. 0 \in T
  <2>1. pre(0) = <<>>
    BY SubSeqEmpty
  <2>2. FlatMap(<<>>, G) = <<>>
    BY DEF FlatMap, FlattenSeq
  <2> QED
    BY <2>1, <2>2
<1>2. ASSUME NEW n \in T PROVE n + 1 \in T
  <2> SUFFICES ASSUME n + 1 <= Len(s) PROVE FlatMap(pre(n + 1), G) = pre(n + 1)
    OBVIOUS
  <2>1. n \in Nat /\ n <= Len(s) /\ n + 1 \in 1..Len(s) /\ (n + 1) - 1 = n
        /\ 1 \in 1..Len(s) /\ n + 1 \in 1..Len(s) /\ 1 \in Int /\ n \in Int
    BY <1>0
  <2> DEFINE x == s[n + 1]
             u == pre(n)
  <2>2. x \in A /\ G[x] = <<x>> /\ FlatMap(u, G) = u
    BY <2>1
  <2>3. u \in Seq(A)
    <3>1. \A i \in 1..n : s[i] \in A
      BY <2>1
    <3> QED
      BY <2>1, <3>1, SubSeqProperties
  <2>4. pre(n + 1) = u \o <<x>>
    <3>1. pre(n + 1) = SubSeq(s, 1, (n + 1) - 1) \o <<s[n + 1]>>
      BY <2>1, SubSeqRecursiveSecond
    <3> QED
      BY <2>1, <3>1
  <2> HIDE DEF pre, u, x
  <2>5. <<x>> \in Seq(A)
    BY <2>2
  <2>6. FlatMap(u \o <<x>>, G) = FlatMap(u, G) \o FlatMap(<<x>>, G)
    BY <2>3, <2>5, MapConcat
  <2>7. FlatMap(<<x>>, G) = G[x]
    BY <2>2, MapOne
  <2> QED
    BY <2>2, <2>4, <2>6, <2>7
<1> HIDE DEF T
<1>3. T = Nat
  <2>1. T \in SUBSET Nat
    BY DEF T
  <2> QED
    BY <1>1, <1>2, <2>1, Inductive
<1>4. FlatMap(pre(Len(s)), G) = pre(Len(s))
  BY <1>0, <1>3 DEF T
<1>5. pre(Len(s)) = s
  BY SubSeqFull
<1> QED
  BY <1>4, <1>5

\* What each written record is to the answer to request r.
AnswerG(r) == [e \in OutRec |-> IF e.req = r THEN <<e>> ELSE <<>>]

\* Answer is a replacement, element by element.
LEMMA AnswerMap ==
  ASSUME out \in Seq(OutRec), NEW r
  PROVE  /\ AnswerG(r) \in [OutRec -> Seq(OutRec)]
         /\ Answer(r) = FlatMap(out, AnswerG(r)) /\ Answer(r) \in Seq(OutRec)
<1>1. AnswerG(r) \in [OutRec -> Seq(OutRec)]
  <2>1. \A e \in OutRec : <<e>> \in Seq(OutRec) /\ <<>> \in Seq(OutRec)
    OBVIOUS
  <2> QED
    BY <2>1 DEF AnswerG
<1>2. DOMAIN out = 1..Len(out) /\ \A i \in 1..Len(out) : out[i] \in OutRec
  OBVIOUS
<1>3. \A i \in 1..Len(out) : AnswerG(r)[out[i]] = IF out[i].req = r THEN <<out[i]>> ELSE <<>>
  BY <1>2 DEF AnswerG
<1>4. [i \in DOMAIN out |-> IF out[i].req = r THEN <<out[i]>> ELSE <<>>]
        = [i \in 1..Len(out) |-> AnswerG(r)[out[i]]]
  BY <1>2, <1>3
<1>5. Answer(r) = FlatMap(out, AnswerG(r))
  BY <1>4 DEF Answer, FlatMap
<1> QED
  BY <1>1, <1>5, MapType

\* One more record is written.
LEMMA AnswerWrite ==
  ASSUME out \in Seq(OutRec), UNCHANGED load, NEW e \in OutRec, out' = Append(out, e), NEW r
  PROVE  /\ e.req = r => Answer(r)' = Append(Answer(r), e)
         /\ e.req # r => Answer(r)' = Answer(r)
         /\ out' \in Seq(OutRec)
<1>1. OutRec' = OutRec /\ AnswerG(r)' = AnswerG(r)
  BY DEF OutRec, AnswerG
<1>2. out' \in Seq(OutRec) /\ out' = out \o <<e>>
  BY AppendFacts
<1>3. Answer(r)' = FlatMap(out', AnswerG(r))
  <2>1. (out \in Seq(OutRec) => Answer(r) = FlatMap(out, AnswerG(r)))'
    BY AnswerMap, PTL
  <2> QED
    BY <1>1, <1>2, <2>1
<1>4. /\ Answer(r) = FlatMap(out, AnswerG(r)) /\ Answer(r) \in Seq(OutRec)
      /\ AnswerG(r) \in [OutRec -> Seq(OutRec)]
  BY AnswerMap
<1>5. FlatMap(<<e>>, AnswerG(r)) = AnswerG(r)[e] /\ <<e>> \in Seq(OutRec)
  <2>1. FlatMap(<<e>>, AnswerG(r)) = AnswerG(r)[e]
    BY <1>4, MapOne
  <2>2. <<e>> \in Seq(OutRec)
    OBVIOUS
  <2> QED
    BY <2>1, <2>2
<1>6. FlatMap(out \o <<e>>, AnswerG(r)) = FlatMap(out, AnswerG(r)) \o FlatMap(<<e>>, AnswerG(r))
  BY <1>4, <1>5, MapConcat
<1>7. AnswerG(r)[e] = IF e.req = r THEN <<e>> ELSE <<>>
  BY DEF AnswerG
<1> DEFINE a == Answer(r)
<1>8. Answer(r)' = a \o (IF e.req = r THEN <<e>> ELSE <<>>) /\ a \in Seq(OutRec)
  BY <1>2, <1>3, <1>4, <1>5, <1>6, <1>7
<1> HIDE DEF a
<1>9. a \o <<e>> = Append(a, e) /\ a \o <<>> = a
  BY <1>8, AppendFacts, ConcatEmptySeq
<1> QED
  BY <1>2, <1>8, <1>9 DEF a

\* Nothing was written of an answer nobody wrote.
LEMMA AnswerNone ==
  ASSUME out \in Seq(OutRec), NEW r, \A i \in 1..Len(out) : out[i].req # r
  PROVE  Answer(r) = <<>>
<1>1. /\ Answer(r) = FlatMap(out, AnswerG(r))
      /\ AnswerG(r) \in [OutRec -> Seq(OutRec)]
  BY AnswerMap
<1>2. \A i \in 1..Len(out) : out[i] \in OutRec
  OBVIOUS
<1>3. \A i \in 1..Len(out) : AnswerG(r)[out[i]] = <<>>
  BY <1>2 DEF AnswerG
<1> QED
  BY <1>1, <1>3, MapNothing

\* A tunnel's first bytes are written.
LEMMA AnswerSamples ==
  ASSUME out \in Seq(OutRec), Len(load.resp) \in Nat, UNCHANGED load,
         req \in 1..(Len(load.resp) + 1),
         NEW s \in Seq(Nat), out' = out \o Samples(s), NEW r
  PROVE  /\ Samples(s) \in Seq(OutRec) /\ Len(Samples(s)) = Len(s)
         /\ r = req => Answer(r)' = Answer(r) \o Samples(s)
         /\ r # req => Answer(r)' = Answer(r)
<1> DEFINE t == Samples(s)
<1>1. Len(s) \in Nat /\ \A i \in 1..Len(s) : s[i] \in Nat
  OBVIOUS
<1>2. \A i \in 1..Len(s) : [req |-> req, kind |-> "sample", at |-> s[i]] \in OutRec
  BY <1>1 DEF OutRec
<1>3. t \in Seq(OutRec) /\ Len(t) = Len(s) /\ \A i \in 1..Len(t) : t[i].req = req /\ t[i] \in OutRec
  BY <1>1, <1>2 DEF Samples
<1> HIDE DEF t
<1>4. /\ Answer(r) = FlatMap(out, AnswerG(r)) /\ Answer(r) \in Seq(OutRec)
      /\ AnswerG(r) \in [OutRec -> Seq(OutRec)]
  BY AnswerMap
<1>5. OutRec' = OutRec /\ AnswerG(r)' = AnswerG(r)
  BY DEF OutRec, AnswerG
<1>6. out \o t \in Seq(OutRec)
  BY <1>3
<1>7. Answer(r)' = FlatMap(out \o t, AnswerG(r))
  <2>1. (out \in Seq(OutRec) => Answer(r) = FlatMap(out, AnswerG(r)))'
    BY AnswerMap, PTL
  <2> QED
    BY <1>5, <1>6, <2>1 DEF t
<1>8. FlatMap(out \o t, AnswerG(r)) = FlatMap(out, AnswerG(r)) \o FlatMap(t, AnswerG(r))
  BY <1>3, <1>4, MapConcat
<1>9. CASE r = req
  <2>1. \A i \in 1..Len(t) : AnswerG(r)[t[i]] = <<t[i]>>
    BY <1>3, <1>9 DEF AnswerG
  <2>2. FlatMap(t, AnswerG(r)) = t
    BY <1>3, <1>4, <2>1, MapSelf
  <2> QED
    BY <1>3, <1>4, <1>7, <1>8, <1>9, <2>2 DEF t
<1>10. CASE r # req
  <2>1. \A i \in 1..Len(t) : AnswerG(r)[t[i]] = <<>>
    BY <1>3, <1>10 DEF AnswerG
  <2>2. FlatMap(t, AnswerG(r)) = <<>>
    BY <1>3, <1>4, <2>1, MapNothing
  <2>3. Answer(r) \o <<>> = Answer(r)
    BY <1>4, ConcatEmptySeq
  <2> QED
    BY <1>3, <1>4, <1>7, <1>8, <1>10, <2>2, <2>3 DEF t
<1> QED
  BY <1>9, <1>10

\* The samples of a sequence of records.
LEMMA AtsFacts ==
  ASSUME NEW a \in Seq(OutRec)
  PROVE  /\ Ats(a) \in Seq(Nat) /\ Len(Ats(a)) = Len(a) /\ Len(a) \in Nat
         /\ \A i \in 1..Len(a) : Ats(a)[i] = a[i].at
<1>1. Len(a) \in Nat /\ \A i \in 1..Len(a) : a[i] \in OutRec
  OBVIOUS
<1>2. \A i \in 1..Len(a) : a[i].at \in Nat
  BY <1>1 DEF OutRec
<1> QED
  BY <1>1, <1>2 DEF Ats

\* A record more.
LEMMA AtsAppend ==
  ASSUME NEW a \in Seq(OutRec), NEW e \in OutRec
  PROVE  Ats(Append(a, e)) = Append(Ats(a), e.at)
<1> DEFINE b == Append(a, e)
           s == Ats(a)
           t == Ats(b)
           x == e.at
<1>1. /\ b \in Seq(OutRec) /\ Len(b) = Len(a) + 1 /\ Len(a) \in Nat
      /\ \A i \in 1..Len(a) : b[i] = a[i] /\ b[Len(a) + 1] = e
  BY AppendFacts
<1>2. /\ s \in Seq(Nat) /\ Len(s) = Len(a) /\ \A i \in 1..Len(a) : s[i] = a[i].at
  BY AtsFacts
<1>6. b[Len(a) + 1] = e
  BY AppendFacts
<1> HIDE DEF b
<1>3. /\ t \in Seq(Nat) /\ Len(t) = Len(b) /\ \A i \in 1..Len(b) : t[i] = b[i].at
  BY <1>1, AtsFacts
<1>4. x \in Nat
  BY DEF OutRec
<1> HIDE DEF s, t, x
<1>5. /\ Append(s, x) \in Seq(Nat) /\ Len(Append(s, x)) = Len(s) + 1
      /\ \A i \in 1..Len(s) : Append(s, x)[i] = s[i]
      /\ Append(s, x)[Len(s) + 1] = x
  BY <1>2, <1>4, AppendFacts
<1>7. ASSUME NEW i \in 1..Len(t) PROVE t[i] = Append(s, x)[i]
  <2>1. CASE i \in 1..Len(a)
    BY <1>1, <1>2, <1>3, <1>5, <2>1
  <2>2. CASE i = Len(a) + 1
    BY <1>1, <1>2, <1>3, <1>5, <1>6, <2>2 DEF x
  <2>3. i \in 1..(Len(a) + 1)
    BY <1>1, <1>3
  <2>4. i \in 1..Len(a) \/ i = Len(a) + 1
    BY <1>1, <2>3
  <2> QED
    BY <2>1, <2>2, <2>4
<1>8. Len(t) = Len(Append(s, x))
  BY <1>1, <1>2, <1>3, <1>5
<1>9. t = Append(s, x)
  BY <1>3, <1>5, <1>7, <1>8, SeqEqual
<1> QED
  BY <1>9 DEF t, s, x, b

\* A tunnel's samples more.
LEMMA AtsSamples ==
  ASSUME NEW a \in Seq(OutRec), NEW s \in Seq(Nat), Samples(s) \in Seq(OutRec),
         Len(Samples(s)) = Len(s)
  PROVE  Ats(a \o Samples(s)) = Ats(a) \o s
<1> DEFINE c == Samples(s)
           b == a \o c
           u == Ats(a)
           t == Ats(b)
<1>0. \A i \in 1..Len(s) : c[i].at = s[i]
  BY DEF Samples
<1> HIDE DEF c
<1>1. /\ b \in Seq(OutRec) /\ Len(b) = Len(a) + Len(c) /\ Len(a) \in Nat /\ Len(c) \in Nat
      /\ \A i \in 1..(Len(a) + Len(c)) : b[i] = IF i <= Len(a) THEN a[i] ELSE c[i - Len(a)]
  <2>1. c \in Seq(OutRec)
    BY DEF c
  <2>2. Len(a) \in Nat /\ Len(c) \in Nat
    BY <2>1
  <2> QED
    BY <2>1, <2>2, ConcatProperties
<1>2. /\ u \in Seq(Nat) /\ Len(u) = Len(a) /\ \A i \in 1..Len(a) : u[i] = a[i].at
  BY AtsFacts
<1> HIDE DEF b
<1>3. /\ t \in Seq(Nat) /\ Len(t) = Len(b) /\ \A i \in 1..Len(b) : t[i] = b[i].at
  BY <1>1, AtsFacts
<1> HIDE DEF u, t
<1>4. /\ u \o s \in Seq(Nat) /\ Len(u \o s) = Len(u) + Len(s) /\ Len(s) \in Nat
      /\ \A i \in 1..(Len(u) + Len(s)) : (u \o s)[i] = IF i <= Len(u) THEN u[i] ELSE s[i - Len(u)]
  <2>1. Len(s) \in Nat
    OBVIOUS
  <2> QED
    BY <1>2, <2>1, ConcatProperties
<1>5. Len(c) = Len(s)
  BY DEF c
<1>6. ASSUME NEW i \in 1..Len(t) PROVE t[i] = (u \o s)[i]
  <2>0. i \in Nat /\ i \in 1..(Len(a) + Len(c)) /\ i \in 1..(Len(u) + Len(s))
    BY <1>1, <1>2, <1>3, <1>4, <1>5
  <2>1. CASE i <= Len(a)
    <3>1. i \in 1..Len(a)
      BY <1>1, <2>0, <2>1
    <3> QED
      BY <1>1, <1>2, <1>3, <1>4, <2>0, <2>1, <3>1
  <2>2. CASE ~(i <= Len(a))
    <3>1. i - Len(a) \in 1..Len(s)
      BY <1>1, <1>5, <2>0, <2>2
    <3>2. t[i] = c[i - Len(a)].at /\ (u \o s)[i] = s[i - Len(a)]
      BY <1>1, <1>2, <1>3, <1>4, <2>0, <2>2
    <3> QED
      BY <1>0, <3>1, <3>2
  <2> QED
    BY <2>1, <2>2
<1>7. Len(t) = Len(u \o s)
  BY <1>1, <1>2, <1>3, <1>4, <1>5
<1>8. t = u \o s
  BY <1>3, <1>4, <1>6, <1>7, SeqEqual
<1> QED
  BY <1>8 DEF t, u, b, c

-----------------------------------------------------------------------------
(* The samples of a response, in order.                                    *)

\* The samples among what the channel holds.
LEMMA SamplesFacts ==
  ASSUME NEW s \in Seq(Nat), NEW t \in Seq(Nat), NEW n \in Nat
  PROVE  /\ SamplesOf(s) \in Seq(Nat) /\ SamplesOf(<<>>) = <<>>
         /\ SamplesOf(s \o t) = SamplesOf(s) \o SamplesOf(t)
         /\ n = 0 => SamplesOf(<<n>>) = <<>>
         /\ n # 0 => SamplesOf(<<n>>) = <<n>>
<1>1. NewsG \in [Nat -> Seq(Nat)]
  <2>1. \A m \in Nat : <<m>> \in Seq(Nat) /\ <<>> \in Seq(Nat)
    OBVIOUS
  <2> QED
    BY <2>1 DEF NewsG
<1>2. SamplesOf(s) \in Seq(Nat)
  BY <1>1, MapType DEF SamplesOf
<1>3. SamplesOf(s \o t) = SamplesOf(s) \o SamplesOf(t)
  BY <1>1, MapConcat DEF SamplesOf
<1>4. SamplesOf(<<n>>) = NewsG[n] /\ SamplesOf(<<>>) = <<>>
  BY <1>1, MapOne DEF SamplesOf
<1>5. NewsG[n] = IF n = 0 THEN <<>> ELSE <<n>>
  BY DEF NewsG
<1> QED
  BY <1>2, <1>3, <1>4, <1>5

\* One is received.
LEMMA SamplesHead ==
  ASSUME NEW s \in Seq(Nat), s # <<>>
  PROVE  /\ Head(s) \in Nat /\ Tail(s) \in Seq(Nat) /\ Head(s) = s[1]
         /\ Len(Tail(s)) = Len(s) - 1 /\ Len(s) \in Nat \ {0}
         /\ \A i \in 1..Len(Tail(s)) : Tail(s)[i] = s[i + 1]
         /\ Head(s) = 0 => SamplesOf(s) = SamplesOf(Tail(s))
         /\ Head(s) # 0 => SamplesOf(s) = <<Head(s)>> \o SamplesOf(Tail(s))
<1>1. /\ Head(s) \in Nat /\ Tail(s) \in Seq(Nat) /\ Head(s) = s[1]
      /\ Len(Tail(s)) = Len(s) - 1 /\ Len(s) \in Nat \ {0}
      /\ \A i \in 1..Len(Tail(s)) : Tail(s)[i] = s[i + 1]
  OBVIOUS
<1>2. s = <<Head(s)>> \o Tail(s)
  OBVIOUS
<1> DEFINE h == Head(s)
           u == Tail(s)
<1>3. s = <<h>> \o u /\ h \in Nat /\ u \in Seq(Nat)
  BY <1>1, <1>2
<1> HIDE DEF h, u
<1>4. <<h>> \in Seq(Nat)
  BY <1>3
<1>5. SamplesOf(<<h>> \o u) = SamplesOf(<<h>>) \o SamplesOf(u) /\ SamplesOf(u) \in Seq(Nat)
  BY <1>3, <1>4, SamplesFacts
<1>6. (h = 0 => SamplesOf(<<h>>) = <<>>) /\ (h # 0 => SamplesOf(<<h>>) = <<h>>)
  BY <1>3, SamplesFacts
<1>7. <<>> \o SamplesOf(u) = SamplesOf(u)
  BY <1>5, ConcatEmptySeq
<1> QED
  BY <1>1, <1>3, <1>5, <1>6, <1>7 DEF h, u

\* One arrives.
LEMMA SamplesAppend ==
  ASSUME NEW s \in Seq(Nat), NEW n \in Nat
  PROVE  /\ n = 0 => SamplesOf(Append(s, n)) = SamplesOf(s)
         /\ n # 0 => SamplesOf(Append(s, n)) = SamplesOf(s) \o <<n>>
<1>1. Append(s, n) = s \o <<n>> /\ <<n>> \in Seq(Nat)
  BY AppendFacts
<1>2. SamplesOf(s \o <<n>>) = SamplesOf(s) \o SamplesOf(<<n>>) /\ SamplesOf(s) \in Seq(Nat)
  BY <1>1, SamplesFacts
<1>3. (n = 0 => SamplesOf(<<n>>) = <<>>) /\ (n # 0 => SamplesOf(<<n>>) = <<n>>)
  BY SamplesFacts
<1>4. SamplesOf(s) \o <<>> = SamplesOf(s)
  BY <1>2, ConcatEmptySeq
<1> QED
  BY <1>1, <1>2, <1>3, <1>4

-----------------------------------------------------------------------------
\* A piece is dropped.
LEMMA AscDrop ==
  ASSUME NEW a \in Seq(Nat), NEW b \in Seq(Nat), NEW c \in Seq(Nat), NEW n \in Nat,
         Ascending(a \o (b \o c), n)
  PROVE  Ascending(a \o c, n)
<1> DEFINE k == Len(a)
           l == Len(b)
           m == Len(c)
           s == a \o c
           t == a \o (b \o c)
<1>1. k \in Nat /\ l \in Nat /\ m \in Nat
  OBVIOUS
<1>2. /\ b \o c \in Seq(Nat) /\ Len(b \o c) = l + m
      /\ \A i \in 1..(l + m) : (b \o c)[i] = IF i <= l THEN b[i] ELSE c[i - l]
  BY ConcatProperties
<1>3. /\ s \in Seq(Nat) /\ Len(s) = k + m
      /\ \A i \in 1..(k + m) : s[i] = IF i <= k THEN a[i] ELSE c[i - k]
  BY ConcatProperties
<1> DEFINE d == b \o c
<1>4. d \in Seq(Nat) /\ Len(d) = l + m
  BY <1>2
<1> HIDE DEF d
<1>5. /\ a \o d \in Seq(Nat) /\ Len(a \o d) = k + (l + m)
      /\ \A i \in 1..(k + (l + m)) : (a \o d)[i] = IF i <= k THEN a[i] ELSE d[i - k]
  <2>1. /\ a \o d \in Seq(Nat) /\ Len(a \o d) = Len(a) + Len(d)
        /\ \A i \in 1..(Len(a) + Len(d)) : (a \o d)[i] = IF i <= Len(a) THEN a[i] ELSE d[i - Len(a)]
    <3>1. d \in Seq(Nat)
      BY <1>4
    <3> QED
      BY <3>1, ConcatProperties
  <2> QED
    BY <1>4, <2>1
<1> DEFINE f(i) == IF i <= k THEN i ELSE i + l
<1>6. /\ t \in Seq(Nat) /\ Len(t) = k + (l + m)
      /\ \A i \in 1..(k + (l + m)) : t[i] = IF i <= k THEN a[i] ELSE (b \o c)[i - k]
  BY <1>5 DEF d
<1>7. Ascending(t, n)
  OBVIOUS
<1> HIDE DEF k, l, m, s, t
<1>8. ASSUME NEW i \in 1..(k + m)
      PROVE  f(i) \in 1..(k + (l + m)) /\ s[i] = t[f(i)]
  <2>1. CASE i <= k
    <3>1. i \in 1..(k + (l + m)) /\ f(i) = i
      BY <1>1, <2>1
    <3>2. s[i] = a[i] /\ t[i] = a[i]
      BY <1>3, <1>6, <2>1, <3>1
    <3> QED
      BY <3>1, <3>2
  <2>2. CASE ~(i <= k)
    <3>1. /\ i + l \in 1..(k + (l + m)) /\ ~(i + l <= k) /\ (i + l) - k \in 1..(l + m)
          /\ ~((i + l) - k <= l) /\ ((i + l) - k) - l = i - k
      BY <1>1, <2>2
    <3>2. t[i + l] = (b \o c)[(i + l) - k]
      BY <1>6, <3>1
    <3>3. (b \o c)[(i + l) - k] = c[i - k]
      BY <1>2, <3>1
    <3>4. s[i] = c[i - k]
      BY <1>3, <2>2
    <3> QED
      BY <2>2, <3>1, <3>2, <3>3, <3>4
  <2> QED
    BY <2>1, <2>2
<1>9. \A i, j \in 1..Len(t) : i < j => t[i] < t[j]
  BY <1>7 DEF Ascending
<1>10. \A i \in 1..Len(t) : 1 <= t[i] /\ t[i] <= n
  BY <1>7 DEF Ascending
<1>11. ASSUME NEW i \in 1..(k + m), NEW j \in 1..(k + m), i < j PROVE s[i] < s[j]
  <2>1. f(i) < f(j)
    BY <1>1, <1>11
  <2>2. /\ f(i) \in 1..Len(t) /\ f(j) \in 1..Len(t) /\ s[i] = t[f(i)] /\ s[j] = t[f(j)]
    BY <1>6, <1>8
  <2> QED
    BY <1>9, <2>1, <2>2
<1>12. \A i \in 1..(k + m) : 1 <= s[i] /\ s[i] <= n
  BY <1>6, <1>8, <1>10
<1>13. Ascending(s, n)
  BY <1>3, <1>11, <1>12 DEF Ascending
<1> QED
  BY <1>13 DEF s

\* The bound rises.
LEMMA AscMono ==
  ASSUME NEW s, NEW n \in Nat, NEW m \in Nat, n <= m, Ascending(s, n)
  PROVE  Ascending(s, m)
<1>1. s \in Seq(Nat) /\ \A i \in 1..Len(s) : s[i] \in Nat
  BY DEF Ascending
<1> QED
  BY <1>1 DEF Ascending

\* A later sample is added.
LEMMA AscAppend ==
  ASSUME NEW s, NEW n \in Nat, Ascending(s, n), NEW x \in Nat, n < x
  PROVE  Ascending(s \o <<x>>, x)
<1> DEFINE t == s \o <<x>>
           k == Len(s)
<1>1. s \in Seq(Nat) /\ k \in Nat /\ \A i \in 1..k : s[i] \in Nat /\ 1 <= s[i] /\ s[i] <= n
  BY DEF Ascending
<1>2. /\ t \in Seq(Nat) /\ Len(t) = k + 1 /\ \A i \in 1..k : t[i] = s[i]
      /\ t[k + 1] = x
  BY <1>1, AppendFacts
<1>3. \A i, j \in 1..k : i < j => s[i] < s[j]
  BY DEF Ascending
<1> HIDE DEF t, k
<1>4. \A i \in 1..(k + 1) : i \in 1..k \/ i = k + 1
  BY <1>1
<1>5. ASSUME NEW i \in 1..(k + 1) PROVE 1 <= t[i] /\ t[i] <= x
  BY <1>1, <1>2, <1>4
<1>6. ASSUME NEW i \in 1..(k + 1), NEW j \in 1..(k + 1), i < j PROVE t[i] < t[j]
  <2>1. i \in 1..k
    BY <1>1, <1>6
  <2>2. CASE j \in 1..k
    BY <1>2, <1>3, <1>6, <2>1, <2>2
  <2>3. CASE j = k + 1
    BY <1>1, <1>2, <2>1, <2>3
  <2> QED
    BY <1>4, <2>2, <2>3
<1>7. Ascending(t, x)
  BY <1>2, <1>5, <1>6 DEF Ascending
<1> QED
  BY <1>7 DEF t

\* Samples are at least as far as their place.
LEMMA AscBound ==
  ASSUME NEW s, NEW n \in Nat, Ascending(s, n)
  PROVE  /\ \A i \in 1..Len(s) : i <= s[i]
         /\ Len(s) \in Nat /\ Len(s) <= n
<1>1. Len(s) \in Nat /\ \A i \in 1..Len(s) : s[i] \in Nat /\ 1 <= s[i] /\ s[i] <= n
  BY DEF Ascending
<1>2. \A i, j \in 1..Len(s) : i < j => s[i] < s[j]
  BY DEF Ascending
<1> DEFINE k == Len(s)
           T == {i \in Nat : i \in 1..k => i <= s[i]}
<1>3. k \in Nat /\ (\A i \in 1..k : s[i] \in Nat /\ 1 <= s[i] /\ s[i] <= n)
      /\ \A i, j \in 1..k : i < j => s[i] < s[j]
  BY <1>1, <1>2
<1> HIDE DEF k
<1>4. 0 \in T
  OBVIOUS
<1>5. ASSUME NEW i \in T PROVE i + 1 \in T
  <2> SUFFICES ASSUME i + 1 \in 1..k PROVE i + 1 <= s[i + 1]
    OBVIOUS
  <2>1. CASE i = 0
    BY <1>3, <2>1
  <2>2. CASE i # 0
    <3>1. i \in 1..k /\ i <= s[i] /\ i < i + 1 /\ i \in Nat
      BY <1>3, <2>2
    <3>2. s[i] < s[i + 1] /\ s[i] \in Nat /\ s[i + 1] \in Nat
      BY <1>3, <3>1
    <3> QED
      BY <3>1, <3>2
  <2> QED
    BY <2>1, <2>2
<1>6. T = Nat
  <2>1. T \in SUBSET Nat
    OBVIOUS
  <2> HIDE DEF T
  <2> QED
    BY <1>4, <1>5, <2>1, Inductive
<1>7. \A i \in 1..k : i <= s[i]
  <2>1. \A i \in 1..k : i \in Nat
    BY <1>3
  <2> QED
    BY <1>6, <2>1
<1>8. k <= n
  <2>1. CASE k = 0
    BY <2>1
  <2>2. CASE k # 0
    <3>1. k \in 1..k
      BY <1>3, <2>2
    <3> QED
      BY <1>3, <1>7, <3>1
  <2> QED
    BY <2>1, <2>2
<1> QED
  BY <1>3, <1>7, <1>8 DEF k

\* The numbers up to m, in two parts.
Splits(u, v, m) == u \o v = Run(0, m)

\* The first part of a run is one.
LEMMA RunPrefix ==
  ASSUME NEW u \in Seq(Nat), NEW v \in Seq(Nat), NEW m \in Nat, Splits(u, v, m)
  PROVE  /\ u = Run(0, Len(u)) /\ Len(u) \in Nat /\ Len(v) \in Nat /\ Len(u) + Len(v) = m
         /\ \A i \in 1..Len(u) : u[i] = i
         /\ \A i \in 1..Len(v) : v[i] = Len(u) + i
<1> DEFINE k == Len(u)
           l == Len(v)
<1>1. k \in Nat /\ l \in Nat /\ Len(u \o v) = k + l
      /\ \A i \in 1..(k + l) : (u \o v)[i] = IF i <= k THEN u[i] ELSE v[i - k]
  <2>1. k \in Nat /\ l \in Nat
    OBVIOUS
  <2> QED
    BY <2>1, ConcatProperties
<1>2. Len(Run(0, m)) = m /\ \A i \in 1..m : Run(0, m)[i] = i
  <2>1. 0 \in Nat /\ 0 <= m
    OBVIOUS
  <2>2. Len(Run(0, m)) = m - 0 /\ \A i \in 1..(m - 0) : Run(0, m)[i] = 0 + i
    BY <2>1, RunFacts
  <2>3. m - 0 = m /\ \A i \in 1..m : 0 + i = i
    OBVIOUS
  <2> QED
    BY <2>2, <2>3
<1>8. u \o v = Run(0, m)
  BY DEF Splits
<1>3. k + l = m
  BY <1>1, <1>2, <1>8
<1>7. Run(0, k) \in Seq(Nat) /\ Len(Run(0, k)) = k /\ \A i \in 1..k : Run(0, k)[i] = i
  <2>1. 0 \in Nat /\ 0 <= k /\ k \in Nat
    BY <1>1
  <2> HIDE DEF k
  <2>2. Run(0, k) \in Seq(Nat) /\ Len(Run(0, k)) = k - 0 /\ \A i \in 1..(k - 0) : Run(0, k)[i] = 0 + i
    BY <2>1, RunFacts
  <2>3. k - 0 = k /\ \A i \in 1..k : 0 + i = i
    BY <2>1
  <2> QED
    BY <2>2, <2>3
<1> HIDE DEF k, l
<1>4. \A i \in 1..k : u[i] = i
  <2>1. \A i \in 1..k : i <= k /\ i \in 1..m /\ i \in 1..(k + l)
    BY <1>1, <1>3
  <2> QED
    BY <1>1, <1>2, <1>8, <2>1
<1>5. \A i \in 1..l : v[i] = k + i
  <2>1. \A i \in 1..l : ~(k + i <= k) /\ k + i \in 1..m /\ (k + i) - k = i
    BY <1>1, <1>3
  <2>2. \A i \in 1..l : Run(0, m)[k + i] = k + i
    BY <1>2, <2>1
  <2>3. \A i \in 1..l : (u \o v)[k + i] = v[(k + i) - k]
    BY <1>1, <1>3, <2>1
  <2> QED
    BY <1>8, <2>1, <2>2, <2>3
<1>6. u = Run(0, k)
  BY <1>4, <1>7, SeqEqual DEF k
<1> QED
  BY <1>1, <1>3, <1>4, <1>5, <1>6 DEF k, l

-----------------------------------------------------------------------------
(* The response's side is kept.                                            *)

\* What the parts of the line are.
LEMMA LineTypes ==
  ASSUME TypeOK
  PROVE  /\ out \in Seq(OutRec) /\ Answer(req) \in Seq(OutRec) /\ Written(req) \in Seq(Nat)
         /\ Len(Written(req)) = Len(Answer(req)) /\ Len(Answer(req)) \in Nat
         /\ \A i \in 1..Len(Answer(req)) : Written(req)[i] = Answer(req)[i].at
         /\ ReplyOf(events) \in Seq(EventRec) /\ DataOf(ReplyOf(events)) \in Seq(Nat)
         /\ residue["down"] \in Seq(Nat) /\ Passed \in Seq(Nat)
         /\ resp_pending \in Seq(Nat) /\ SamplesOf(rx) \in Seq(Nat) /\ Coming \in Seq(Nat)
         /\ rgot \in Seq(Nat) /\ Line \in Seq(Nat)
<1>1. out \in Seq(OutRec)
  BY TypeParts DEF HistoryType
<1>2. Answer(req) \in Seq(OutRec)
  BY <1>1, AnswerMap
<1>3. /\ Written(req) \in Seq(Nat) /\ Len(Written(req)) = Len(Answer(req)) /\ Len(Answer(req)) \in Nat
      /\ \A i \in 1..Len(Answer(req)) : Written(req)[i] = Answer(req)[i].at
  BY <1>2, AtsFacts DEF Written
<1>4. /\ residue["down"] \in Seq(Nat) /\ resp_pending \in Seq(Nat) /\ rgot \in Seq(Nat)
      /\ rx \in Seq(Nat) /\ events \in Seq(EventRec)
  BY Typed
<1>5. ReplyOf(events) \in Seq(EventRec)
  BY <1>4, SideConcat
<1>6. DataOf(ReplyOf(events)) \in Seq(Nat)
  BY <1>5, SideConcat
<1>7. SamplesOf(rx) \in Seq(Nat)
  <2>1. 0 \in Nat
    OBVIOUS
  <2> QED
    BY <1>4, <2>1, SamplesFacts
<1>8. Passed \in Seq(Nat)
  BY <1>3, <1>4, <1>6 DEF Passed
<1>9. Coming \in Seq(Nat)
  BY <1>4, <1>7 DEF Coming
<1>10. Line \in Seq(Nat)
  BY <1>8, <1>9 DEF Line
<1> QED
  BY <1>1, <1>2, <1>3, <1>4, <1>5, <1>6, <1>7, <1>8, <1>9, <1>10

\* A step that moves nothing along the line.
LEMMA LineSame ==
  ASSUME LineInv,
         UNCHANGED <<load, req, resp_pending, rgot, rx, bsent, holed, end, out>>,
         residue'["down"] = residue["down"],
         DataOf(ReplyOf(events')) = DataOf(ReplyOf(events)),
         pc' \in Exchange => pc \in Exchange /\ (pc = "splice" <=> pc' = "splice")
  PROVE  LineInv'
<1> SUFFICES ASSUME pc' \in Exchange PROVE LineInv'
  BY DEF LineInv
<1>1. pc \in Exchange /\ (pc = "splice" <=> pc' = "splice")
  OBVIOUS
<1>2. Resp' = Resp /\ Kinds' = Kinds /\ Answer(req)' = Answer(req)
  BY DEF Resp, Kinds, Answer
<1>3. Written(req)' = Written(req) /\ Coming' = Coming
  BY <1>2 DEF Written, Coming
<1>4. Passed' = Passed
  BY <1>3 DEF Passed
<1>5. Line' = Line /\ Out' = Out
  BY <1>2, <1>3, <1>4 DEF Line, Out
<1>6. (\A i \in 1..Len(Answer(req)) : Answer(req)[i].kind = "sample")'
  BY <1>1, <1>2 DEF LineInv
<1>7. Ascending(Line, Out)' /\ Ascending(rgot \o Coming, Out)'
  BY <1>1, <1>3, <1>5 DEF LineInv
<1>8. (req \notin holed =>
         /\ Line = Run(0, Len(Line))
         /\ pc # "splice" => Passed = rgot
         /\ bsent <= Len(Kinds) => Len(Line) = bsent
         /\ Resp.framing = "close" /\ bsent > Len(Kinds) => Len(Line) = Len(Kinds))'
  BY <1>1, <1>2, <1>4, <1>5 DEF LineInv
<1> QED
  BY <1>1, <1>2, <1>6, <1>7, <1>8 DEF LineInv

\* A new exchange starts with nothing on the line.
LEMMA LineSetup ==
  ASSUME Inv, SetupOk
  PROVE  LineInv'
<1>1. /\ TypeOK /\ UpInv /\ BetweenInv /\ HistoryInv /\ pc = "setup"
  BY DEF Inv, SetupOk
<1>2. /\ NoPreface /\ ReplyOf(events) = <<>> /\ residue["down"] = <<>>
      /\ Answer(req) = <<>> /\ req \notin holed
  BY <1>1 DEF UpInv, BetweenInv, HistoryInv
<1>3. /\ resp_pending' = <<>> /\ rgot' = <<>> /\ bsent' = 0 /\ rx' = <<>> /\ end' = "Ok"
      /\ UNCHANGED <<load, req, residue, events, out, holed>> /\ pc' = "offer"
  BY DEF SetupOk, ctl, par, Goto
<1>4. Answer(req)' = <<>>
  BY <1>2, <1>3 DEF Answer
<1>5. Written(req)' = <<>> /\ DataOf(ReplyOf(events'))  = <<>> /\ SamplesOf(rx') = <<>>
  <2>1. Ats(<<>>) = <<>>
    BY DEF Ats
  <2>2. 0 \in Nat /\ <<>> \in Seq(Nat)
    OBVIOUS
  <2> QED
    BY <1>2, <1>3, <1>4, <2>1, <2>2, SideEmpty, SamplesFacts DEF Written
<1>6. <<>> \o <<>> = <<>>
  OBVIOUS
<1>7. Passed' = <<>> /\ Coming' = <<>> /\ rgot' \o Coming' = <<>>
  BY <1>2, <1>3, <1>5, <1>6 DEF Passed, Coming
<1>8. Line' = <<>>
  BY <1>6, <1>7 DEF Line
<1>9. Len(Kinds') \in Nat
  <2>1. req \in Req
    BY <1>1, ReqFacts DEF Inv
  <2>2. load.resp[req] \in Response
    BY <1>1, <2>1, Typed, ScriptFacts DEF Req
  <2> QED
    BY <1>3, <2>2 DEF Kinds, Resp, Response
<1>10. Out' = 0
  BY <1>3, <1>9 DEF Out
<1>11. Ascending(<<>>, 0)
  BY DEF Ascending
<1>12. Len(<<>>) = 0 /\ Run(0, 0) = <<>>
  BY RunOne
<1>13. Ascending(Line, Out)' /\ Ascending(rgot \o Coming, Out)'
  BY <1>7, <1>8, <1>10, <1>11
<1>14. (req \notin holed =>
         /\ Line = Run(0, Len(Line))
         /\ pc # "splice" => Passed = rgot
         /\ bsent <= Len(Kinds) => Len(Line) = bsent
         /\ Resp.framing = "close" /\ bsent > Len(Kinds) => Len(Line) = Len(Kinds))'
  BY <1>3, <1>7, <1>8, <1>9, <1>12
<1>15. (/\ bsent <= Len(Kinds) + 1
        /\ \A i \in 1..Len(rx) : rx[i] = 0 => i = Len(rx) /\ bsent = Len(Kinds) + 1
        /\ Len(resp_pending) <= 1
        /\ \A i \in 1..Len(Answer(req)) : Answer(req)[i].kind = "sample"
        /\ Resp.framing # "switch" => residue["down"] = <<>>
        /\ \A i \in 1..Len(residue["down"]) : Kinds[residue["down"][i]] = "raw"
        /\ pc # "splice" /\ end = "Ok")'
  BY <1>2, <1>3, <1>4, <1>9, <1>12
<1> QED
  BY <1>13, <1>14, <1>15 DEF LineInv

\* What a sample turns into carries it, and is all on the backend's side.
LEMMA ResponseData ==
  ASSUME NEW n \in Nat, NEW got
  PROVE  /\ ReplyOf(ResponseEvents(n, got)) = ResponseEvents(n, got)
         /\ Kinds[n] # "raw" => DataOf(ResponseEvents(n, got)) = <<n>>
<1> DEFINE R == ResponseEvents(n, got)
           k == IF Kinds[n] = "body" THEN "rbody" ELSE "rhead"
           a == Event(k, n)
           b == Event("rend", n)
           c == Event("rhead", n)
           d == Event("switch", n)
<1>1. /\ Kinds[n] = "raw" => R = <<>>
      /\ Kinds[n] = "head" /\ Resp.framing = "switch" => R = <<c, d>>
      /\ Kinds[n] # "raw" /\ ~(Kinds[n] = "head" /\ Resp.framing = "switch") =>
        R = <<a>> \o (IF Complete(Append(got, n)) THEN <<b>> ELSE <<>>)
  BY ResponseFacts
<1>2. /\ a \in EventRec /\ b \in EventRec /\ c \in EventRec /\ d \in EventRec
      /\ ~IsClient(a) /\ ~IsClient(b) /\ ~IsClient(c) /\ ~IsClient(d)
      /\ a.ev \in {"rhead", "rbody"} /\ b.ev \notin {"rhead", "rbody"}
      /\ c.ev \in {"rhead", "rbody"} /\ d.ev \notin {"rhead", "rbody"}
      /\ a.at = n /\ c.at = n
  BY DEF Event, EventRec, EventKind, IsClient
<1> HIDE DEF a, b, c, d, R
<1>3. ASSUME NEW x \in EventRec, NEW y \in EventRec, ~IsClient(x), ~IsClient(y),
             x.ev \in {"rhead", "rbody"}, y.ev \notin {"rhead", "rbody"}, x.at = n
      PROVE  ReplyOf(<<x>> \o <<y>>) = <<x>> \o <<y>> /\ DataOf(<<x>> \o <<y>>) = <<n>>
  <2>1. <<x>> \in Seq(EventRec) /\ ReplyOf(<<x>>) = <<x>>
    BY <1>3, ReplyOne
  <2>2. <<y>> \in Seq(EventRec) /\ ReplyOf(<<y>>) = <<y>>
    BY <1>3, ReplyOne
  <2>3. DataOf(<<x>>) = <<n>> /\ DataOf(<<y>>) = <<>>
    BY <1>3, SideOne
  <2>4. ReplyOf(<<x>> \o <<y>>) = ReplyOf(<<x>>) \o ReplyOf(<<y>>)
        /\ DataOf(<<x>> \o <<y>>) = DataOf(<<x>>) \o DataOf(<<y>>)
    BY <2>1, <2>2, SideConcat
  <2>5. <<n>> \o <<>> = <<n>>
    OBVIOUS
  <2> QED
    BY <2>1, <2>2, <2>3, <2>4, <2>5
<1>4. <<c, d>> = <<c>> \o <<d>>
  BY <1>2, PairConcat
<1>5. <<a>> \o <<>> = <<a>> /\ ReplyOf(<<a>>) = <<a>> /\ DataOf(<<a>>) = <<n>>
  <2>1. <<a>> \o <<>> = <<a>> /\ ReplyOf(<<a>>) = <<a>>
    BY <1>2, ReplyOne
  <2>2. DataOf(<<a>>) = <<n>>
    BY <1>2, SideOne
  <2> QED
    BY <2>1, <2>2
<1>6. CASE Kinds[n] = "raw"
  BY <1>1, <1>6, SideEmpty DEF R
<1>7. CASE Kinds[n] = "head" /\ Resp.framing = "switch"
  <2>1. R = <<c>> \o <<d>>
    BY <1>1, <1>4, <1>7
  <2>2. ReplyOf(R) = R /\ DataOf(R) = <<n>>
    BY <1>2, <1>3, <2>1
  <2> QED
    BY <2>2 DEF R
<1>8. CASE Kinds[n] # "raw" /\ ~(Kinds[n] = "head" /\ Resp.framing = "switch")
  <2>1. CASE Complete(Append(got, n))
    <3>1. R = <<a>> \o <<b>>
      BY <1>1, <1>8, <2>1
    <3>2. ReplyOf(R) = R /\ DataOf(R) = <<n>>
      BY <1>2, <1>3, <3>1
    <3> QED
      BY <3>2 DEF R
  <2>2. CASE ~Complete(Append(got, n))
    <3>1. R = <<a>>
      BY <1>1, <1>5, <1>8, <2>2
    <3>2. ReplyOf(R) = R /\ DataOf(R) = <<n>>
      BY <1>5, <3>1
    <3> QED
      BY <3>2 DEF R
  <2> QED
    BY <2>1, <2>2
<1> QED
  BY <1>6, <1>7, <1>8

\* What a response is made of.
LEMMA KindsFacts ==
  ASSUME TypeOK, req \in Req
  PROVE  /\ Len(Kinds) \in Nat /\ Len(Kinds) >= 1
         /\ Resp.framing \in {"length", "chunked", "close", "switch"}
         /\ \E h \in 1..Len(Kinds) : \A i \in 1..Len(Kinds) :
              /\ i < h => Kinds[i] = "interim"
              /\ i = h => Kinds[i] = "head"
              /\ i > h => Kinds[i] = (IF Resp.framing = "switch" THEN "raw" ELSE "body")
<1>1. load.resp[req] \in Response /\ Framed(load.resp[req])
  BY Typed, ScriptFacts DEF Req
<1>2. Kinds \in Seq({"interim", "head", "body", "raw"})
      /\ Resp.framing \in {"length", "chunked", "close", "switch"}
  BY <1>1 DEF Kinds, Resp, Response
<1>3. Len(Kinds) \in Nat /\ DOMAIN Kinds = 1..Len(Kinds)
  BY <1>2
<1>4. PICK h \in DOMAIN Kinds : \A i \in DOMAIN Kinds :
        Kinds[i] = IF i < h THEN "interim" ELSE IF i = h THEN "head"
                 ELSE IF Resp.framing = "switch" THEN "raw" ELSE "body"
  BY <1>1 DEF Framed, Kinds, Resp
<1>5. h \in 1..Len(Kinds) /\ Len(Kinds) >= 1
  BY <1>3
<1>6. \A i \in 1..Len(Kinds) :
              /\ i < h => Kinds[i] = "interim"
              /\ i = h => Kinds[i] = "head"
              /\ i > h => Kinds[i] = (IF Resp.framing = "switch" THEN "raw" ELSE "body")
  BY <1>3, <1>4, <1>5
<1> QED
  BY <1>2, <1>3, <1>5, <1>6

\* A sample in the middle of an ascending line.
LEMMA AscMember ==
  ASSUME NEW a \in Seq(Nat), NEW c \in Seq(Nat), NEW n \in Nat, NEW m \in Nat,
         Ascending(a \o (<<n>> \o c), m)
  PROVE  1 <= n /\ n <= m /\ \A i \in 1..Len(a) : a[i] < n /\ 1 <= a[i] /\ a[i] \in Nat
<1> DEFINE t == <<n>> \o c
           k == Len(a)
           s == a \o t
<1>1. t \in Seq(Nat) /\ Len(t) = Len(c) + 1 /\ Len(c) \in Nat /\ t[1] = n
  BY ConsFacts
<1> HIDE DEF t
<1>2. k \in Nat
  OBVIOUS
<1>3. /\ s \in Seq(Nat) /\ Len(s) = Len(a) + Len(t)
      /\ \A i \in 1..(Len(a) + Len(t)) : s[i] = IF i <= Len(a) THEN a[i] ELSE t[i - Len(a)]
  <2>1. t \in Seq(Nat)
    BY <1>1
  <2> QED
    BY <2>1, ConcatProperties
<1>4. Ascending(s, m)
  BY DEF t
<1> DEFINE l == Len(t)
<1>5. /\ l \in Nat /\ l >= 1 /\ Len(s) = k + l
      /\ \A i \in 1..(k + l) : s[i] = IF i <= k THEN a[i] ELSE t[i - k]
  BY <1>1, <1>3
<1> HIDE DEF s, k, l
<1>6. k + 1 \in 1..(k + l) /\ ~(k + 1 <= k) /\ (k + 1) - k = 1
  BY <1>2, <1>5
<1>7. s[k + 1] = n
  BY <1>1, <1>5, <1>6
<1>8. /\ \A i, j \in 1..(k + l) : i < j => s[i] < s[j]
      /\ \A i \in 1..(k + l) : 1 <= s[i] /\ s[i] <= m
  BY <1>4, <1>5 DEF Ascending
<1>9. ASSUME NEW i \in 1..k PROVE a[i] < n /\ 1 <= a[i] /\ a[i] \in Nat
  <2>1. i \in 1..(k + l) /\ i <= k /\ i < k + 1
    BY <1>2, <1>5
  <2>2. s[i] = a[i] /\ a[i] \in Nat
    BY <1>5, <2>1 DEF k
  <2> QED
    BY <1>6, <1>7, <1>8, <2>1, <2>2
<1>10. 1 <= n /\ n <= m
  BY <1>6, <1>7, <1>8
<1> QED
  BY <1>9, <1>10 DEF k

\* Concatenation is associative.
LEMMA NatAssoc ==
  ASSUME NEW a \in Seq(Nat), NEW b \in Seq(Nat), NEW c \in Seq(Nat)
  PROVE  (a \o b) \o c = a \o (b \o c)
BY ConcatAssociative

\* The same, with one sample among the sequences.
LEMMA OneAssoc ==
  ASSUME NEW a \in Seq(Nat), NEW b \in Seq(Nat), NEW n \in Nat
  PROVE  /\ (a \o b) \o <<n>> = a \o (b \o <<n>>)
         /\ (a \o <<n>>) \o b = a \o (<<n>> \o b)
<1> DEFINE c == <<n>>
<1>1. c \in Seq(Nat)
  OBVIOUS
<1> HIDE DEF c
<1>2. (a \o b) \o c = a \o (b \o c)
  BY <1>1, NatAssoc
<1>3. (a \o c) \o b = a \o (c \o b)
  BY <1>1, NatAssoc
<1> QED
  BY <1>2, <1>3 DEF c

\* How far the backend is.
LEMMA OutFacts ==
  ASSUME TypeOK, req \in Req
  PROVE  Out \in Nat /\ Out <= Len(Kinds)
<1>1. bsent \in Nat
  BY DEF TypeOK
<1> QED
  BY <1>1, KindsFacts DEF Out

\* Where an accepted sample goes: on along the line, unless it is a body with
\* no head before it.
LEMMA PassedPush ==
  ASSUME TypeOK, req \in Req, LineInv, pc \in Exchange, UNCHANGED <<load, req, out>>,
         NEW n \in Nat, NEW T \in Seq(Nat), Ascending(Passed \o (<<n>> \o T), Out),
         Accepted(n)
  PROVE  /\ n \in 1..Len(Kinds)
         /\ \/ Passed' = Passed \o <<n>>
            \/ Passed' = Passed /\ Kinds[n] = "body" /\ ~Headed(rgot')
         /\ Resp.framing # "switch" => residue'["down"] = <<>>
         /\ \A i \in 1..Len(residue'["down"]) : Kinds[residue'["down"][i]] = "raw"
<1> DEFINE W == Written(req)
           D == DataOf(ReplyOf(events))
           R == residue["down"]
           X == ResponseEvents(n, rgot)
<1>1. /\ W \in Seq(Nat) /\ D \in Seq(Nat) /\ R \in Seq(Nat) /\ Passed \in Seq(Nat)
      /\ events \in Seq(EventRec) /\ residue \in [{"up", "down"} -> Seq(Nat)]
  BY LineTypes, Typed
<1>2. Out \in Nat /\ Out <= Len(Kinds) /\ Len(Kinds) \in Nat
  BY OutFacts, KindsFacts
<1>3. 1 <= n /\ n <= Out /\ \A i \in 1..Len(Passed) : Passed[i] < n /\ 1 <= Passed[i] /\ Passed[i] \in Nat
  BY <1>1, <1>2, AscMember
<1>4. n \in 1..Len(Kinds)
  BY <1>2, <1>3
<1>5. PICK h \in 1..Len(Kinds) : \A i \in 1..Len(Kinds) :
              /\ i < h => Kinds[i] = "interim"
              /\ i = h => Kinds[i] = "head"
              /\ i > h => Kinds[i] = (IF Resp.framing = "switch" THEN "raw" ELSE "body")
  BY KindsFacts
<1>6. Written(req)' = W
  <2>1. Answer(req)' = Answer(req)
    BY DEF Answer
  <2> QED
    BY <2>1 DEF Written
<1>7. residue'["down"] = R \o RawDown(n)
  BY <1>1 DEF Accepted
<1>8. /\ Resp.framing # "switch" => R = <<>>
      /\ \A i \in 1..Len(R) : Kinds[R[i]] = "raw"
  BY DEF LineInv
<1>12. Passed = (W \o D) \o R
  BY DEF Passed
<1>13. Passed' = (W \o DataOf(ReplyOf(events'))) \o residue'["down"]
  BY <1>6 DEF Passed
<1>14. DataOf(ReplyOf(events)) = D
  OBVIOUS
<1> HIDE DEF W, D, R
<1>9. R \o <<>> = R /\ (W \o D) \in Seq(Nat) /\ <<n>> \in Seq(Nat)
  BY <1>1
<1>10. CASE Kinds[n] = "raw"
  <2>1. RawDown(n) = <<n>>
    BY <1>10 DEF RawDown, Kinds
  <2>2. events' = events
    <3>1. X = <<>>
      BY <1>10, ResponseFacts
    <3>2. events \o <<>> = events
      BY <1>1
    <3> QED
      BY <3>1, <3>2 DEF Accepted
  <2>3. Passed' = (W \o D) \o (R \o <<n>>)
    BY <1>7, <1>13, <1>14, <2>1, <2>2
  <2>4. ((W \o D) \o R) \o <<n>> = (W \o D) \o (R \o <<n>>)
    <3> DEFINE V == W \o D
    <3>1. V \in Seq(Nat)
      BY <1>9
    <3> HIDE DEF V
    <3>2. (V \o R) \o <<n>> = V \o (R \o <<n>>)
      BY <1>1, <3>1, OneAssoc
    <3> QED
      BY <3>2 DEF V
  <2>5. Passed' = Passed \o <<n>>
    BY <1>12, <2>3, <2>4
  <2>6. Resp.framing = "switch"
    <3>1. CASE Resp.framing # "switch"
      BY <1>4, <1>5, <1>10, <3>1
    <3> QED
      BY <3>1
  <2>7. \A i \in 1..Len(residue'["down"]) : Kinds[residue'["down"][i]] = "raw"
    <3>1. R \o <<n>> = Append(R, n) /\ Len(Append(R, n)) = Len(R) + 1 /\ Len(R) \in Nat
      BY <1>1, AppendFacts
    <3>2. /\ \A i \in 1..Len(R) : Append(R, n)[i] = R[i]
          /\ Append(R, n)[Len(R) + 1] = n
      BY <1>1, AppendFacts
    <3>3. \A i \in 1..(Len(R) + 1) : i \in 1..Len(R) \/ i = Len(R) + 1
      BY <3>1
    <3> QED
      BY <1>7, <1>8, <1>10, <2>1, <3>1, <3>2, <3>3
  <2> QED
    BY <1>4, <2>5, <2>6, <2>7
<1>11. CASE Kinds[n] # "raw"
  <2>1. RawDown(n) = <<>>
    BY <1>11 DEF RawDown, Kinds
  <2>2. residue'["down"] = R
    BY <1>7, <1>9, <2>1
  <2>3. CASE events' = events
    <3>1. Passed' = Passed
      BY <1>12, <1>13, <1>14, <2>2, <2>3
    <3>2. Kinds[n] = "body" /\ ~Headed(rgot')
      <4>1. CASE events' = events \o X
        <5>1. X \in Seq(EventRec)
          BY ResponseFacts
        <5>2. X = <<>>
          BY <1>1, <2>3, <4>1, <5>1, ConcatEqualIffEmpty
        <5>3. DataOf(X) = <<n>> /\ DataOf(<<>>) = <<>>
          BY <1>11, ResponseData, SideEmpty
        <5> QED
          <6>1. <<n>> # <<>>
            OBVIOUS
          <6> QED
            BY <5>2, <5>3, <6>1
      <4>2. CASE events' # events \o X
        BY <1>11, <4>2 DEF Accepted
      <4> QED
        BY <4>1, <4>2
    <3> QED
      BY <1>4, <1>8, <2>2, <3>1, <3>2
  <2>4. CASE events' = events \o X
    <3>1. X \in Seq(EventRec) /\ ReplyOf(X) = X /\ DataOf(X) = <<n>>
      BY <1>11, ResponseFacts, ResponseData
    <3> HIDE DEF X
    <3>2. ReplyOf(events \o X) = ReplyOf(events) \o X /\ ReplyOf(events) \in Seq(EventRec)
      <4>1. ReplyOf(events \o X) = ReplyOf(events) \o ReplyOf(X) /\ ReplyOf(events) \in Seq(EventRec)
        BY <1>1, <3>1, SideConcat
      <4> QED
        BY <3>1, <4>1
    <3>3. DataOf(ReplyOf(events) \o X) = D \o <<n>>
      <4>1. DataOf(ReplyOf(events) \o X) = DataOf(ReplyOf(events)) \o DataOf(X)
        BY <3>1, <3>2, SideConcat
      <4> QED
        BY <1>14, <3>1, <4>1
    <3>4. R = <<>>
      <4> SUFFICES ASSUME R # <<>> PROVE FALSE
        OBVIOUS
      <4> DEFINE V == W \o D
                 k == Len(V)
                 l == Len(R)
      <4>1. V \in Seq(Nat) /\ k \in Nat /\ l \in Nat /\ l >= 1
        BY <1>1, <1>9
      <4> HIDE DEF V
      <4>2. /\ Len(V \o R) = Len(V) + Len(R)
            /\ \A i \in 1..(Len(V) + Len(R)) : (V \o R)[i] = IF i <= Len(V) THEN V[i] ELSE R[i - Len(V)]
        BY <1>1, <4>1, ConcatProperties
      <4>3. Passed = V \o R
        BY <1>12 DEF V
      <4>4. Len(Passed) = k + l /\ \A i \in 1..(k + l) : Passed[i] = IF i <= k THEN V[i] ELSE R[i - k]
        BY <4>2, <4>3
      <4> HIDE DEF k, l
      <4>5. k + 1 \in 1..(k + l) /\ ~(k + 1 <= k) /\ (k + 1) - k = 1 /\ 1 \in 1..l
        BY <4>1
      <4>6. Passed[k + 1] = R[1]
        BY <4>4, <4>5
      <4>7. R[1] < n /\ 1 <= R[1] /\ R[1] \in Nat
        BY <1>3, <4>4, <4>5, <4>6
      <4>8. Kinds[R[1]] = "raw"
        BY <1>8, <4>5 DEF l
      <4>9. PICK x \in Nat : x = R[1]
        BY <4>7
      <4>10. x < n /\ x \in 1..Len(Kinds) /\ Kinds[x] = "raw"
        BY <1>2, <1>4, <4>7, <4>8, <4>9
      <4>11. x > h /\ Resp.framing = "switch"
        <5>1. ~(x < h) /\ x # h
          BY <1>5, <4>10
        <5>2. x > h
          BY <4>9, <5>1
        <5> QED
          BY <1>5, <4>10, <5>2
      <4>12. n > h
        BY <1>2, <4>9, <4>10, <4>11
      <4> QED
        BY <1>4, <1>5, <1>11, <4>11, <4>12
    <3>5. Passed' = (W \o (D \o <<n>>)) \o R
      BY <1>13, <2>2, <2>4, <3>2, <3>3 DEF X
    <3>6. W \o (D \o <<n>>) = (W \o D) \o <<n>> /\ (W \o (D \o <<n>>)) \o <<>> = W \o (D \o <<n>>)
      <4>1. W \o (D \o <<n>>) = (W \o D) \o <<n>>
        BY <1>1, OneAssoc
      <4>2. W \o (D \o <<n>>) \in Seq(Nat)
        BY <1>1, <1>9
      <4> QED
        BY <4>1, <4>2, ConcatEmptySeq
    <3>7. Passed = W \o D
      <4>1. (W \o D) \o <<>> = W \o D
        BY <1>9, ConcatEmptySeq
      <4> QED
        BY <1>12, <3>4, <4>1
    <3>8. Passed' = Passed \o <<n>>
      BY <3>4, <3>5, <3>6, <3>7
    <3> QED
      BY <1>4, <1>8, <2>2, <3>8
  <2> QED
    BY <2>3, <2>4 DEF Accepted
<1> QED
  BY <1>10, <1>11

\* What is not about samples.
LineRest ==
  /\ bsent <= Len(Kinds) + 1
  /\ \A i \in 1..Len(rx) : rx[i] = 0 => i = Len(rx) /\ bsent = Len(Kinds) + 1
  /\ Len(resp_pending) <= 1
  /\ \A i \in 1..Len(Answer(req)) : Answer(req)[i].kind = "sample"
  /\ Resp.framing # "switch" => residue["down"] = <<>>
  /\ \A i \in 1..Len(residue["down"]) : Kinds[residue["down"][i]] = "raw"
  /\ pc = "splice" => resp_pending = <<>> /\ residue["down"] = <<>>
  /\ end = "Ok"

Whole0 ==
  /\ Line = Run(0, Len(Line))
  /\ pc # "splice" => Passed = rgot
  /\ bsent <= Len(Kinds) => Len(Line) = bsent
  /\ Resp.framing = "close" /\ bsent > Len(Kinds) => Len(Line) = Len(Kinds)

\* LineInv in parts.
LEMMA LineParts ==
  LineInv <=> (pc \in Exchange =>
    LineRest /\ Ascending(Line, Out) /\ Ascending(rgot \o Coming, Out)
      /\ (req \notin holed => Whole0))
BY DEF LineInv, LineRest, Whole0

\* LineInv of the next state, from its parts.
LEMMA LineGoal ==
  ASSUME LineRest', Ascending(Line', Out'), Ascending(rgot' \o Coming', Out'),
         req' \notin holed' => Whole0'
  PROVE  LineInv'
<1>1. (LineInv <=> (pc \in Exchange =>
    LineRest /\ Ascending(Line, Out) /\ Ascending(rgot \o Coming, Out)
      /\ (req \notin holed => Whole0)))'
  BY LineParts, PTL
<1> QED
  BY <1>1

\* The next of a run.
LEMMA RunNext ==
  ASSUME NEW u \in Seq(Nat), NEW T \in Seq(Nat), NEW n \in Nat, NEW m \in Nat,
         u \o (<<n>> \o T) = Run(0, m)
  PROVE  /\ Len(u) \in Nat /\ n = Len(u) + 1 /\ n <= m
         /\ \A i \in 1..Len(u) : u[i] = i
<1> DEFINE v == <<n>> \o T
<1>1. v \in Seq(Nat) /\ v[1] = n /\ Len(v) = Len(T) + 1 /\ Len(T) \in Nat
  BY ConsFacts
<1>2. Splits(u, v, m)
  BY DEF Splits
<1> HIDE DEF v
<1>3. /\ Len(u) \in Nat /\ Len(v) \in Nat /\ Len(u) + Len(v) = m
      /\ \A i \in 1..Len(u) : u[i] = i
      /\ \A i \in 1..Len(v) : v[i] = Len(u) + i
  BY <1>1, <1>2, RunPrefix, ZenonT(30)
<1>4. 1 \in 1..Len(v)
  BY <1>1
<1> QED
  BY <1>1, <1>3, <1>4

\* A push of the backend's bytes: off is what it is offered, T what is still
\* in the channel.
LEMMA LinePush ==
  ASSUME TypeOK, req \in Req, LineInv, pc \in Exchange \ {"splice"}, pc' \in Exchange \ {"splice"},
         UNCHANGED <<load, req, out, bsent, end>>,
         NEW off \in Seq(Nat), Len(off) <= 1, PushResp(off),
         NEW T \in Seq(Nat), SamplesOf(rx') = T,
         Ascending(Passed \o (off \o T), Out), Ascending(rgot \o (off \o T), Out),
         req \notin holed' => req \notin holed /\ off \o T = Coming,
         \A i \in 1..Len(rx') : rx'[i] = 0 => i = Len(rx') /\ bsent = Len(Kinds) + 1
  PROVE  LineInv'
<1>1. /\ Passed \in Seq(Nat) /\ rgot \in Seq(Nat) /\ events \in Seq(EventRec)
      /\ residue \in [{"up", "down"} -> Seq(Nat)] /\ Coming \in Seq(Nat)
      /\ Out \in Nat /\ Out <= Len(Kinds) /\ Len(Kinds) \in Nat
  BY LineTypes, Typed, OutFacts, KindsFacts
<1>2. Resp' = Resp /\ Kinds' = Kinds /\ Answer(req)' = Answer(req)
  BY DEF Resp, Kinds, Answer
<1>3. Out' = Out /\ Written(req)' = Written(req)
  BY <1>2 DEF Out, Written
<1>4. /\ LineRest /\ (req \notin holed => Whole0)
  BY LineParts
<1>5. Held(off) \/ (Len(off) = 1 /\ off[1] \in Nat /\ Accepted(off[1]))
  BY <1>1, PushOne
<1>6. CASE Held(off)
  <2>1. resp_pending' = off /\ UNCHANGED <<rgot, events, residue>>
    BY <1>6 DEF Held
  <2>2. Coming' = off \o T
    BY <2>1 DEF Coming
  <2>3. Passed' = Passed
    BY <1>3, <2>1 DEF Passed
  <2>4. Line' = Passed \o (off \o T)
    BY <2>2, <2>3 DEF Line
  <2>5. LineRest'
    BY <1>2, <1>4, <2>1 DEF LineRest
  <2>6. req' \notin holed' => Whole0'
    <3> SUFFICES ASSUME req \notin holed' PROVE Whole0'
      OBVIOUS
    <3>1. Line' = Line /\ Whole0
      BY <1>4, <2>4 DEF Line
    <3> QED
      BY <1>2, <2>1, <2>3, <3>1 DEF Whole0
  <2> QED
    BY <1>3, <2>1, <2>2, <2>4, <2>5, <2>6, LineGoal
<1>7. CASE Len(off) = 1 /\ off[1] \in Nat /\ Accepted(off[1])
  <2>1. PICK n \in Nat : n = off[1]
    BY <1>7
  <2>2. off = <<n>> /\ Accepted(n)
    BY <1>7, <2>1
  <2>3. resp_pending' = <<>> /\ rgot' = Append(rgot, n)
    BY <2>2 DEF Accepted
  <2>4. rgot' = rgot \o <<n>>
    BY <1>1, <2>3, AppendFacts
  <2>5. Coming' = T
    <3>1. <<>> \o T = T
      BY ConcatEmptySeq
    <3> QED
      BY <2>3, <3>1 DEF Coming
  <2>6. rgot' \o Coming' = rgot \o (off \o T)
    <3>0. rgot \in Seq(Nat)
      BY <1>1
    <3>1. (rgot \o <<n>>) \o T = rgot \o (<<n>> \o T)
      BY <3>0, OneAssoc
    <3> QED
      BY <2>2, <2>4, <2>5, <3>1
  <2>7. /\ n \in 1..Len(Kinds)
        /\ \/ Passed' = Passed \o <<n>>
           \/ Passed' = Passed /\ Kinds[n] = "body" /\ ~Headed(rgot')
        /\ Resp.framing # "switch" => residue'["down"] = <<>>
        /\ \A i \in 1..Len(residue'["down"]) : Kinds[residue'["down"][i]] = "raw"
    <3>1. Ascending(Passed \o (<<n>> \o T), Out)
      BY <2>2
    <3> QED
      BY <2>2, <3>1, PassedPush
  <2>8. LineRest'
    <3>1. Len(<<>>) <= 1
      OBVIOUS
    <3> QED
      BY <1>2, <1>4, <2>3, <2>7, <3>1 DEF LineRest
  <2>9. CASE Passed' = Passed \o <<n>>
    <3>0. Passed \in Seq(Nat)
      BY <1>1
    <3>1. (Passed \o <<n>>) \o T = Passed \o (<<n>> \o T)
      BY <3>0, OneAssoc
    <3>2. Line' = Passed \o (off \o T)
      BY <2>2, <2>5, <2>9, <3>1 DEF Line
    <3>3. req' \notin holed' => Whole0'
      <4> SUFFICES ASSUME req \notin holed' PROVE Whole0'
        OBVIOUS
      <4>1. Line' = Line /\ Whole0
        BY <1>4, <3>2 DEF Line
      <4>2. Passed = rgot
        BY <4>1 DEF Whole0
      <4>3. Passed' = rgot'
        BY <2>4, <2>9, <4>2
      <4> QED
        BY <1>2, <4>1, <4>3 DEF Whole0
    <3> QED
      BY <1>3, <2>6, <2>8, <3>2, <3>3, LineGoal
  <2>10. CASE Passed' = Passed /\ Kinds[n] = "body" /\ ~Headed(rgot')
    <3>1. <<n>> \in Seq(Nat)
      OBVIOUS
    <3>2. Ascending(Passed \o T, Out)
      BY <1>1, <2>2, <3>1, AscDrop
    <3>3. Line' = Passed \o T
      BY <2>5, <2>10 DEF Line
    <3>4. req' \in holed'
      <4> SUFFICES ASSUME req \notin holed' PROVE FALSE
        OBVIOUS
      <4>1. Whole0 /\ off \o T = Coming
        BY <1>4
      <4>2. Passed = rgot /\ Line = Run(0, Len(Line))
        BY <4>1 DEF Whole0
      <4>3. Len(Line) \in Nat
        BY LineTypes
      <4>4. rgot \o (<<n>> \o T) = Run(0, Len(Line))
        BY <2>2, <4>1, <4>2 DEF Line
      <4>6. Len(rgot) \in Nat /\ \A i \in 1..Len(rgot) : rgot[i] = i
        BY <1>1, <4>3, <4>4, RunNext
      <4>7. n = Len(rgot) + 1
        BY <1>1, <4>3, <4>4, RunNext
      <4>8. PICK h \in 1..Len(Kinds) : \A i \in 1..Len(Kinds) :
              /\ i < h => Kinds[i] = "interim"
              /\ i = h => Kinds[i] = "head"
              /\ i > h => Kinds[i] = (IF Resp.framing = "switch" THEN "raw" ELSE "body")
        BY KindsFacts
      <4>9. ~(n < h) /\ n # h
        BY <2>7, <2>10, <4>8
      <4>10. h \in 1..Len(rgot) /\ h \in Nat
        BY <1>1, <4>6, <4>7, <4>9
      <4>11. rgot[h] = h /\ Kinds[h] = "head"
        BY <4>6, <4>8, <4>10
      <4>12. rgot'[h] = h /\ h \in DOMAIN rgot'
        BY <1>1, <2>3, <4>10, <4>11
      <4>13. h \in ToSet(rgot')
        BY <4>12 DEF ToSet
      <4>14. Headed(rgot')
        BY <4>11, <4>13 DEF Headed, Kinds
      <4> QED
        BY <2>10, <4>14
    <3> QED
      BY <1>3, <2>6, <2>8, <3>2, <3>3, <3>4, LineGoal
  <2> QED
    BY <2>7, <2>9, <2>10
<1> QED
  BY <1>5, <1>6, <1>7

\* A sample goes from the queue to the client.
LEMMA LineWrite ==
  ASSUME TypeOK, SentInv, LineInv, TakenHead \/ TakenBody
  PROVE  LineInv'
<1> DEFINE e == Head(events)
           n == e.at
           rec == [req |-> req, kind |-> "sample", at |-> n]
           A == Answer(req)
           W == Written(req)
           D == DataOf(ReplyOf(Tail(events)))
           R == residue["down"]
<1>1. /\ pc = "process" /\ pc' = "process" /\ events # <<>> /\ e.ev \in {"rhead", "rbody"}
      /\ events' = Tail(events) /\ out' = Append(out, rec)
      /\ UNCHANGED <<load, req, residue, rgot, resp_pending, rx, bsent, holed, end>>
  BY DEF TakenHead, TakenBody, Taken, Write, bus
<1>2. /\ events \in Seq(EventRec) /\ W \in Seq(Nat) /\ R \in Seq(Nat) /\ A \in Seq(OutRec)
      /\ out \in Seq(OutRec)
  BY LineTypes, Typed
<1>3. req \in Req /\ req \in 1..(Len(load.resp) + 1)
  BY <1>1, ReqFacts DEF Exchange
<1>4. /\ e \in EventRec /\ Tail(events) \in Seq(EventRec)
      /\ (~IsClient(e) => ReplyOf(events) = <<e>> \o ReplyOf(Tail(events)))
  BY <1>1, <1>2, SideHead
<1>5. ~IsClient(e) /\ n \in Nat
  BY <1>1, <1>4 DEF IsClient, EventRec
<1>6. rec \in OutRec /\ rec.req = req /\ rec.at = n /\ rec.kind = "sample"
  BY <1>3, <1>5 DEF OutRec
<1>7. Answer(req)' = Append(A, rec)
  <2> HIDE DEF rec
  <2>1. (Answer(req))' = Answer(req)'
    OBVIOUS
  <2>2. PICK r \in Nat : r = req
    BY Typed
  <2>3. Answer(r)' = Append(Answer(r), rec)
    BY <1>1, <1>2, <1>6, <2>2, AnswerWrite
  <2> QED
    BY <1>1, <2>2, <2>3 DEF Answer
<1>8. Written(req)' = W \o <<n>>
  <2> HIDE DEF rec
  <2>1. Ats(Append(A, rec)) = Append(Ats(A), rec.at)
    BY <1>2, <1>6, AtsAppend
  <2>2. Written(req)' = Append(W, n)
    BY <1>6, <1>7, <2>1 DEF Written
  <2> QED
    BY <1>2, <1>5, <2>2, AppendFacts
<1>9. DataOf(ReplyOf(events)) = <<n>> \o D /\ D \in Seq(Nat)
  <2>1. <<e>> \in Seq(EventRec) /\ DataOf(<<e>>) = <<n>>
    BY <1>1, <1>4, <1>5, SideOne, ReplyOne
  <2>2. ReplyOf(Tail(events)) \in Seq(EventRec)
    BY <1>4, SideConcat
  <2>3. DataOf(<<e>> \o ReplyOf(Tail(events))) = DataOf(<<e>>) \o DataOf(ReplyOf(Tail(events)))
        /\ DataOf(ReplyOf(Tail(events))) \in Seq(Nat)
    BY <2>1, <2>2, SideConcat
  <2> QED
    BY <1>4, <1>5, <2>1, <2>3
<1>10. Passed = (W \o (<<n>> \o D)) \o R
  BY <1>9 DEF Passed
<1>11. Passed' = ((W \o <<n>>) \o D) \o R
  BY <1>1, <1>8 DEF Passed
<1> HIDE DEF W, D, R
<1>12. (W \o <<n>>) \o D = W \o (<<n>> \o D)
  BY <1>2, <1>5, <1>9, OneAssoc
<1>13. Passed' = Passed
  BY <1>10, <1>11, <1>12
<1>14. Resp' = Resp /\ Kinds' = Kinds /\ Out' = Out /\ Coming' = Coming
  BY <1>1 DEF Resp, Kinds, Out, Coming
<1>15. Line' = Line
  BY <1>13, <1>14 DEF Line
<1>16. /\ LineRest /\ (req \notin holed => Whole0)
       /\ Ascending(Line, Out) /\ Ascending(rgot \o Coming, Out)
  BY <1>1, LineParts DEF Exchange
<1>17. \A i \in 1..Len(Answer(req)') : Answer(req)'[i].kind = "sample"
  <2> HIDE DEF A, rec
  <2>1. /\ Len(Append(A, rec)) = Len(A) + 1 /\ Len(A) \in Nat
        /\ \A i \in 1..Len(A) : Append(A, rec)[i] = A[i]
        /\ Append(A, rec)[Len(A) + 1] = rec
    BY <1>2, <1>6, AppendFacts
  <2>2. \A i \in 1..(Len(A) + 1) : i \in 1..Len(A) \/ i = Len(A) + 1
    BY <2>1
  <2>3. \A i \in 1..Len(A) : A[i].kind = "sample"
    BY <1>16 DEF LineRest, A
  <2> QED
    BY <1>6, <1>7, <2>1, <2>2, <2>3
<1>18. LineRest'
  BY <1>1, <1>14, <1>16, <1>17 DEF LineRest
<1>19. req' \notin holed' => Whole0'
  BY <1>1, <1>13, <1>14, <1>15, <1>16 DEF Whole0
<1> QED
  BY <1>1, <1>14, <1>15, <1>16, <1>18, <1>19, LineGoal

\* The next of the channel is taken: what that leaves.
LEMMA RxTail ==
  ASSUME NEW s \in Seq(Nat), s # <<>>, NEW P,
         \A i \in 1..Len(s) : s[i] = 0 => i = Len(s) /\ P
  PROVE  /\ \A i \in 1..Len(Tail(s)) : Tail(s)[i] = 0 => i = Len(Tail(s)) /\ P
         /\ Head(s) = 0 => Tail(s) = <<>> /\ P
<1>1. /\ Tail(s) \in Seq(Nat) /\ Head(s) = s[1] /\ Len(Tail(s)) = Len(s) - 1
      /\ Len(s) \in Nat \ {0} /\ \A i \in 1..Len(Tail(s)) : Tail(s)[i] = s[i + 1]
  BY SamplesHead
<1> DEFINE k == Len(s)
<1>2. k \in Nat \ {0} /\ Len(Tail(s)) = k - 1 /\ \A i \in 1..k : s[i] = 0 => i = k /\ P
  BY <1>1
<1> HIDE DEF k
<1>3. ASSUME NEW i \in 1..(k - 1), Tail(s)[i] = 0 PROVE i = k - 1 /\ P
  <2>1. i + 1 \in 1..k /\ i \in Nat
    BY <1>2
  <2>2. s[i + 1] = 0
    BY <1>1, <1>2, <1>3
  <2>3. i + 1 = k /\ P
    BY <1>2, <2>1, <2>2
  <2> QED
    BY <1>2, <2>1, <2>3
<1>4. ASSUME Head(s) = 0 PROVE Tail(s) = <<>> /\ P
  <2>0. s[1] = 0
    BY <1>1, <1>4
  <2>1. 1 \in 1..k /\ s[1] = 0
    BY <1>2, <2>0
  <2>2. 1 = k /\ P
    BY <1>2, <2>1
  <2>3. Len(Tail(s)) = 0
    BY <1>2, <2>2
  <2> QED
    BY <1>1, <2>2, <2>3, EmptySeq
<1> QED
  BY <1>2, <1>3, <1>4

\* The end of the backend's side adds no sample to the queue.
LEMMA FinReply ==
  ASSUME TypeOK, FinResp
  PROVE  /\ events' = events \/ events' = events \o <<Event("rend", 0)>>
         /\ Event("rend", 0) \in EventRec
         /\ ReplyOf(events) \in Seq(EventRec)
         /\ \/ ReplyOf(events') = ReplyOf(events)
            \/ /\ ReplyOf(events') = Append(ReplyOf(events), Event("rend", 0))
               /\ Resp.framing = "close" /\ Headed(rgot)
         /\ DataOf(ReplyOf(events')) = DataOf(ReplyOf(events))
<1> DEFINE e == Event("rend", 0)
<1>1. events \in Seq(EventRec) /\ ReplyOf(events) \in Seq(EventRec)
  BY Typed, LineTypes
<1>2. e \in EventRec /\ ~IsClient(e) /\ e.ev \notin {"rhead", "rbody"}
  BY DEF Event, EventRec, EventKind, IsClient
<1>3. events' = events \/ (events' = Append(events, e) /\ Resp.framing = "close" /\ Headed(rgot))
  BY DEF FinResp
<1> HIDE DEF e
<1>4. ReplyOf(<<e>>) = <<e>> /\ <<e>> \in Seq(EventRec) /\ DataOf(<<e>>) = <<>>
  BY <1>2, ReplyOne, SideOne
<1>5. Append(events, e) = events \o <<e>>
  BY <1>1, <1>2, AppendFacts
<1>6. ReplyOf(events \o <<e>>) = ReplyOf(events) \o <<e>>
  <2>1. ReplyOf(events \o <<e>>) = ReplyOf(events) \o ReplyOf(<<e>>)
    BY <1>1, <1>4, SideConcat
  <2> QED
    BY <1>4, <2>1
<1>7. ReplyOf(events) \o <<e>> = Append(ReplyOf(events), e)
  BY <1>1, <1>2, AppendFacts
<1>8. /\ DataOf(ReplyOf(events) \o <<e>>) = DataOf(ReplyOf(events)) \o DataOf(<<e>>)
      /\ DataOf(ReplyOf(events)) \in Seq(Nat)
  BY <1>1, <1>4, SideConcat
<1>9. DataOf(ReplyOf(events) \o <<e>>) = DataOf(ReplyOf(events))
  BY <1>4, <1>8, ConcatEmptySeq
<1> QED
  BY <1>1, <1>2, <1>3, <1>5, <1>6, <1>7, <1>9 DEF e

\* The EOF marker is received.
LEMMA LineFin ==
  ASSUME TypeOK, SentInv, LineInv, SelectRecv, Head(rx) = 0
  PROVE  LineInv'
<1>1. /\ pc = "select" /\ pc' = "offer" /\ rx # <<>> /\ rx' = Tail(rx) /\ FinResp
      /\ holed' = (IF resp_pending = <<>> THEN holed ELSE holed \cup {req})
      /\ UNCHANGED <<load, req, out, bsent, end>>
      /\ UNCHANGED <<residue, resp_pending, rgot>>
  BY DEF SelectRecv, Goto, ctl, FinResp
<1>2. DataOf(ReplyOf(events')) = DataOf(ReplyOf(events))
  BY <1>1, FinReply
<1>3. rx \in Seq(Nat)
  BY Typed
<1>4. SamplesOf(rx') = SamplesOf(rx)
  BY <1>1, <1>3, SamplesHead
<1>5. /\ LineRest /\ (req \notin holed => Whole0)
      /\ Ascending(Line, Out) /\ Ascending(rgot \o Coming, Out)
  BY <1>1, LineParts DEF Exchange
<1>6. /\ Resp' = Resp /\ Kinds' = Kinds /\ Out' = Out /\ Written(req)' = Written(req)
      /\ Answer(req)' = Answer(req)
  BY <1>1 DEF Resp, Kinds, Out, Written, Answer
<1>7. Passed' = Passed /\ Coming' = Coming
  BY <1>1, <1>2, <1>4, <1>6 DEF Passed, Coming
<1>8. Line' = Line
  BY <1>7 DEF Line
<1>9. \A i \in 1..Len(rx) : rx[i] = 0 => i = Len(rx) /\ bsent = Len(Kinds) + 1
  BY <1>5 DEF LineRest
<1>10. \A i \in 1..Len(rx') : rx'[i] = 0 => i = Len(rx') /\ bsent = Len(Kinds) + 1
  BY <1>1, <1>3, <1>9, RxTail
<1>11. LineRest'
  BY <1>1, <1>5, <1>6, <1>10 DEF LineRest
<1>12. req' \notin holed' => Whole0'
  BY <1>1, <1>5, <1>6, <1>7, <1>8 DEF Whole0
<1> QED
  BY <1>1, <1>5, <1>6, <1>7, <1>8, <1>11, <1>12, LineGoal

\* A sample is received, over what was still refused.
LEMMA LineRecv ==
  ASSUME TypeOK, SentInv, LineInv, SelectRecv, Head(rx) # 0
  PROVE  LineInv'
<1> DEFINE n == Head(rx)
           off == <<n>>
           T == SamplesOf(Tail(rx))
<1>1. /\ pc = "select" /\ pc' = "offer" /\ rx # <<>> /\ rx' = Tail(rx) /\ PushResp(off)
      /\ holed' = (IF resp_pending = <<>> THEN holed ELSE holed \cup {req})
      /\ UNCHANGED <<load, req, out, bsent, end>>
  BY DEF SelectRecv, Goto, ctl
<1>2. rx \in Seq(Nat) /\ resp_pending \in Seq(Nat) /\ rgot \in Seq(Nat) /\ Passed \in Seq(Nat)
  BY Typed, LineTypes
<1>3. n \in Nat /\ Tail(rx) \in Seq(Nat) /\ SamplesOf(rx) = off \o T
  BY <1>1, <1>2, SamplesHead
<1>4. T \in Seq(Nat)
  BY <1>3, SamplesFacts
<1>5. /\ LineRest /\ Ascending(Line, Out) /\ Ascending(rgot \o Coming, Out)
  BY <1>1, LineParts DEF Exchange
<1>6. \A i \in 1..Len(rx) : rx[i] = 0 => i = Len(rx) /\ bsent = Len(Kinds) + 1
  BY <1>5 DEF LineRest
<1>7. \A i \in 1..Len(rx') : rx'[i] = 0 => i = Len(rx') /\ bsent = Len(Kinds) + 1
  BY <1>1, <1>2, <1>6, RxTail
<1>8. off \in Seq(Nat) /\ Len(off) <= 1
  BY <1>3
<1>9. req \in Req
  BY <1>1, ReqFacts DEF Exchange
<1>10. Out \in Nat
  BY <1>9, OutFacts
<1>11. Coming = resp_pending \o (off \o T)
  BY <1>3 DEF Coming
<1>12. SamplesOf(rx') = T
  BY <1>1
<1> HIDE DEF off, T
<1>13. off \o T \in Seq(Nat)
  BY <1>4, <1>8
<1>14. Ascending(Passed \o (resp_pending \o (off \o T)), Out)
  BY <1>5, <1>11 DEF Line
<1>15. Ascending(Passed \o (off \o T), Out)
  BY <1>2, <1>10, <1>13, <1>14, AscDrop
<1>16. Ascending(rgot \o (resp_pending \o (off \o T)), Out)
  BY <1>5, <1>11
<1>17. Ascending(rgot \o (off \o T), Out)
  BY <1>2, <1>10, <1>13, <1>16, AscDrop
<1>18. req \notin holed' => req \notin holed /\ off \o T = Coming
  <2> SUFFICES ASSUME req \notin holed' PROVE req \notin holed /\ off \o T = Coming
    OBVIOUS
  <2>1. req \notin holed /\ resp_pending = <<>>
    BY <1>1
  <2>2. <<>> \o (off \o T) = off \o T
    BY <1>13, ConcatEmptySeq
  <2> QED
    BY <1>11, <2>1, <2>2
<1>19. pc \in Exchange \ {"splice"} /\ pc' \in Exchange \ {"splice"}
  BY <1>1 DEF Exchange
<1> QED
  BY <1>1, <1>4, <1>7, <1>8, <1>9, <1>12, <1>15, <1>17, <1>18, <1>19, LinePush

\* What was refused is offered again.
LEMMA LineOffer ==
  ASSUME TypeOK, SentInv, LineInv, Offered
  PROVE  LineInv'
<1>1. /\ pc = "reoffer" /\ pc' = "process" /\ PushResp(resp_pending)
      /\ UNCHANGED <<load, req, out, bsent, end, rx, holed>>
  BY DEF Offered, bus, hist
<1>2. /\ resp_pending \in Seq(Nat) /\ SamplesOf(rx) \in Seq(Nat)
  BY Typed, LineTypes
<1>3. /\ LineRest /\ Ascending(Line, Out) /\ Ascending(rgot \o Coming, Out)
  BY <1>1, LineParts DEF Exchange
<1>4. /\ Len(resp_pending) <= 1
      /\ \A i \in 1..Len(rx) : rx[i] = 0 => i = Len(rx) /\ bsent = Len(Kinds) + 1
  BY <1>3 DEF LineRest
<1>5. req \in Req
  BY <1>1, ReqFacts DEF Exchange
<1>6. resp_pending \o SamplesOf(rx) = Coming
  BY DEF Coming
<1>7. /\ Ascending(Passed \o (resp_pending \o SamplesOf(rx)), Out)
      /\ Ascending(rgot \o (resp_pending \o SamplesOf(rx)), Out)
  BY <1>3, <1>6 DEF Line
<1>8. pc \in Exchange \ {"splice"} /\ pc' \in Exchange \ {"splice"}
  BY <1>1 DEF Exchange
<1>9. req \notin holed' => req \notin holed
  BY <1>1
<1>10. SamplesOf(rx') = SamplesOf(rx)
  BY <1>1
<1> QED
  BY <1>1, <1>2, <1>4, <1>5, <1>6, <1>7, <1>8, <1>9, <1>10, LinePush

\* The switch: the residue and what was refused go to the client.
LEMMA LineSwitched ==
  ASSUME TypeOK, SentInv, SwitchInv, LineInv, Switched
  PROVE  LineInv'
<1> DEFINE W == Written(req)
           R == residue["down"]
           p == resp_pending
           S == SamplesOf(rx)
           A == Answer(req)
<1>1. /\ pc = "switch" /\ pc' = "splice" /\ out' = out \o Samples(R \o p)
      /\ resp_pending' = <<>> /\ residue' = [d \in {"up", "down"} |-> <<>>]
      /\ UNCHANGED <<load, req, events, rgot, rx, bsent, holed, end>>
  BY DEF Switched, DownFirst, bus
<1>2. /\ W \in Seq(Nat) /\ R \in Seq(Nat) /\ p \in Seq(Nat) /\ S \in Seq(Nat)
      /\ A \in Seq(OutRec) /\ out \in Seq(OutRec) /\ rgot \in Seq(Nat)
      /\ Len(load.resp) \in Nat /\ req \in Nat
  BY LineTypes, Typed
<1>3. req \in Req /\ req \in 1..(Len(load.resp) + 1)
  BY <1>1, ReqFacts DEF Exchange
<1>4. residue'["down"] = <<>>
  BY <1>1
<1>5. ReplyOf(events) = <<>> /\ ReplyOf(events') = <<>>
  BY <1>1 DEF SwitchInv
<1>6. DataOf(ReplyOf(events)) = <<>> /\ DataOf(ReplyOf(events')) = <<>>
  BY <1>5, SideEmpty
<1>7. Passed = (W \o <<>>) \o R
  BY <1>6 DEF Passed
<1>8. Coming = p \o S /\ Coming' = <<>> \o S
  BY <1>1 DEF Coming
<1>9. R \o p \in Seq(Nat)
  BY <1>2
<1>10. /\ Samples(R \o p) \in Seq(OutRec) /\ Len(Samples(R \o p)) = Len(R \o p)
       /\ Answer(req)' = A \o Samples(R \o p)
  <2>1. PICK r : r = req
    OBVIOUS
  <2>2. /\ Samples(R \o p) \in Seq(OutRec) /\ Len(Samples(R \o p)) = Len(R \o p)
        /\ Answer(r)' = Answer(r) \o Samples(R \o p)
    BY <1>1, <1>2, <1>3, <1>9, <2>1, AnswerSamples
  <2> QED
    BY <1>1, <2>1, <2>2 DEF Answer
<1>11. Written(req)' = W \o (R \o p)
  <2>1. Ats(A \o Samples(R \o p)) = Ats(A) \o (R \o p)
    BY <1>2, <1>9, <1>10, AtsSamples
  <2> QED
    BY <1>10, <2>1 DEF Written
<1>12. Passed' = (Written(req)' \o <<>>) \o <<>>
  BY <1>4, <1>6 DEF Passed
<1>13. /\ LineRest /\ (req \notin holed => Whole0)
       /\ Ascending(Line, Out) /\ Ascending(rgot \o Coming, Out)
  BY <1>1, LineParts DEF Exchange
<1>14. Line = (W \o R) \o (p \o S)
  <2>1. W \o <<>> = W
    BY <1>2, ConcatEmptySeq
  <2> QED
    BY <1>7, <1>8, <2>1 DEF Line
<1>15. Coming' = S
  BY <1>2, <1>8, ConcatEmptySeq
<1>16. Passed' = W \o (R \o p)
  <2>1. W \o (R \o p) \in Seq(Nat)
    BY <1>2, <1>9
  <2>2. (W \o (R \o p)) \o <<>> = W \o (R \o p)
    BY <2>1, ConcatEmptySeq
  <2> QED
    BY <1>11, <1>12, <2>2
<1>17. Line' = (W \o (R \o p)) \o S
  BY <1>15, <1>16 DEF Line
<1> HIDE DEF W, R, p, S
<1>18. (W \o R) \o (p \o S) = (W \o (R \o p)) \o S
  <2>1. W \o R \in Seq(Nat)
    BY <1>2
  <2>2. ((W \o R) \o p) \o S = (W \o R) \o (p \o S)
    BY <1>2, <2>1, NatAssoc
  <2>3. (W \o R) \o p = W \o (R \o p)
    BY <1>2, NatAssoc, ZenonT(30)
  <2> QED
    BY <2>2, <2>3
<1>19. Line' = Line
  BY <1>14, <1>17, <1>18
<1>20. Resp' = Resp /\ Kinds' = Kinds /\ Out' = Out
  BY <1>1 DEF Resp, Kinds, Out
<1>21. Out \in Nat
  BY <1>3, OutFacts
<1>22. Ascending(rgot' \o Coming', Out')
  <2>1. Ascending(rgot \o (p \o S), Out)
    BY <1>8, <1>13
  <2>2. Ascending(rgot \o S, Out)
    BY <1>2, <1>21, <2>1, AscDrop
  <2> QED
    BY <1>1, <1>15, <1>20, <2>2
<1>23. \A i \in 1..Len(Answer(req)') : Answer(req)'[i].kind = "sample"
  <2> DEFINE B == Samples(R \o p)
             q == R \o p
  <2>1. \A i \in 1..Len(q) : B[i].kind = "sample"
    BY <1>9 DEF Samples
  <2>2. \A i \in 1..Len(A) : A[i].kind = "sample"
    BY <1>13 DEF LineRest
  <2>5. A \in Seq(OutRec)
    BY <1>2
  <2>6. B \in Seq(OutRec)
    BY <1>10
  <2>3. B \in Seq(OutRec) /\ Len(B) = Len(q) /\ Answer(req)' = A \o B
    BY <1>10
  <2> HIDE DEF A, B, q
  <2>4. \A i \in 1..Len(A \o B) : (A \o B)[i].kind = "sample"
    <3>1. /\ Len(A) \in Nat /\ Len(B) \in Nat /\ Len(A \o B) = Len(A) + Len(B)
          /\ \A i \in 1..(Len(A) + Len(B)) : (A \o B)[i] = IF i <= Len(A) THEN A[i] ELSE B[i - Len(A)]
      BY <2>5, <2>6, ConcatProperties
    <3> DEFINE a == Len(A)
               b == Len(B)
    <3>2. /\ a \in Nat /\ b \in Nat /\ Len(A \o B) = a + b
          /\ \A i \in 1..(a + b) : (A \o B)[i] = IF i <= a THEN A[i] ELSE B[i - a]
          /\ \A i \in 1..a : A[i].kind = "sample"
          /\ \A i \in 1..b : B[i].kind = "sample"
      BY <2>1, <2>2, <2>3, <3>1
    <3> HIDE DEF a, b
    <3> SUFFICES ASSUME NEW i \in 1..(a + b) PROVE (A \o B)[i].kind = "sample"
      BY <3>2
    <3>3. CASE i <= a
      <4>1. i \in 1..a
        BY <3>2, <3>3
      <4> QED
        BY <3>2, <3>3, <4>1
    <3>4. CASE ~(i <= a)
      <4>1. i - a \in 1..b
        BY <3>2, <3>4
      <4> QED
        BY <3>2, <3>4, <4>1
    <3> QED
      BY <3>3, <3>4
  <2> QED
    BY <2>3, <2>4
<1>24. LineRest'
  <2>1. Len(<<>>) <= 1 /\ Len(<<>>) = 0
    OBVIOUS
  <2>2. \A i \in 1..0 : FALSE
    OBVIOUS
  <2> QED
    BY <1>1, <1>4, <1>13, <1>20, <1>23, <2>1, <2>2 DEF LineRest
<1>25. req' \notin holed' => Whole0'
  BY <1>1, <1>13, <1>19, <1>20 DEF Whole0
<1> QED
  BY <1>13, <1>19, <1>20, <1>22, <1>24, <1>25, LineGoal

\* The splice passes a sample on.
LEMMA LineSplice ==
  ASSUME TypeOK, SentInv, SwitchInv, LineInv, SpliceDown
  PROVE  LineInv'
<1>0. CASE pc' # pc
  <2>1. pc' = "teardown"
    BY <1>0 DEF SpliceDown, Goto
  <2> QED
    BY <2>1 DEF LineInv, Exchange
<1> SUFFICES ASSUME pc' = pc PROVE LineInv'
  BY <1>0
<1> DEFINE n == Head(rx)
           rec == [req |-> req, kind |-> "sample", at |-> n]
           A == Answer(req)
           W == Written(req)
           T == SamplesOf(Tail(rx))
<1>1. /\ pc = "splice" /\ pc' = "splice" /\ rx # <<>> /\ rx' = Tail(rx)
      /\ n # 0 /\ out' = Append(out, rec)
      /\ UNCHANGED <<load, req, events, residue, rgot, resp_pending, bsent, holed, end>>
  <2>1. pc = "splice" /\ "splice" # "teardown"
    BY DEF SpliceDown
  <2> QED
    BY <2>1 DEF SpliceDown, Goto, Write, ctl, par, exch
<1>2. /\ W \in Seq(Nat) /\ A \in Seq(OutRec) /\ out \in Seq(OutRec) /\ rgot \in Seq(Nat)
      /\ rx \in Seq(Nat)
  BY LineTypes, Typed
<1>3. req \in Req /\ req \in 1..(Len(load.resp) + 1)
  BY <1>1, ReqFacts DEF Exchange
<1>4. n \in Nat /\ Tail(rx) \in Seq(Nat) /\ SamplesOf(rx) = <<n>> \o T
  BY <1>1, <1>2, SamplesHead
<1>5. T \in Seq(Nat)
  BY <1>4, SamplesFacts
<1>6. rec \in OutRec /\ rec.req = req /\ rec.at = n /\ rec.kind = "sample"
  BY <1>3, <1>4 DEF OutRec
<1>7. Answer(req)' = Append(A, rec)
  <2> HIDE DEF rec
  <2>2. PICK r \in Nat : r = req
    BY Typed
  <2>3. Answer(r)' = Append(Answer(r), rec)
    BY <1>1, <1>2, <1>6, <2>2, AnswerWrite
  <2> QED
    BY <1>1, <2>2, <2>3 DEF Answer
<1>8. Written(req)' = W \o <<n>>
  <2> HIDE DEF rec
  <2>1. Ats(Append(A, rec)) = Append(Ats(A), rec.at)
    BY <1>2, <1>6, AtsAppend
  <2>2. Written(req)' = Append(W, n)
    BY <1>6, <1>7, <2>1 DEF Written
  <2> QED
    BY <1>2, <1>4, <2>2, AppendFacts
<1>9. /\ LineRest /\ (req \notin holed => Whole0)
      /\ Ascending(Line, Out) /\ Ascending(rgot \o Coming, Out)
  BY <1>1, LineParts DEF Exchange
<1>10. residue["down"] = <<>> /\ resp_pending = <<>>
  BY <1>1, <1>9 DEF LineRest
<1>11. DataOf(ReplyOf(events)) = <<>>
  <2>1. ReplyOf(events) = <<>>
    BY <1>1 DEF SwitchInv
  <2> QED
    BY <2>1, SideEmpty
<1>12. Passed = W
  <2>1. (W \o <<>>) \o <<>> = W
    BY <1>2, ConcatEmptySeq
  <2> QED
    BY <1>10, <1>11, <2>1 DEF Passed
<1>13. Passed' = W \o <<n>>
  <2>1. W \o <<n>> \in Seq(Nat)
    BY <1>2, <1>4
  <2>2. ((W \o <<n>>) \o <<>>) \o <<>> = W \o <<n>>
    BY <2>1, ConcatEmptySeq
  <2> QED
    BY <1>1, <1>8, <1>10, <1>11, <2>2 DEF Passed
<1>14. Coming = <<n>> \o T
  <2>1. <<n>> \in Seq(Nat)
    BY <1>4
  <2>2. <<n>> \o T \in Seq(Nat)
    BY <1>5, <2>1
  <2>3. <<>> \o (<<n>> \o T) = <<n>> \o T
    BY <2>2, ConcatEmptySeq
  <2> QED
    BY <1>4, <1>10, <2>3 DEF Coming
<1>15. Coming' = T
  <2>1. <<>> \o T = T
    BY <1>5, ConcatEmptySeq
  <2> QED
    BY <1>1, <1>10, <2>1 DEF Coming
<1> HIDE DEF W, T
<1>16. Line' = Line
  <2>1. (W \o <<n>>) \o T = W \o (<<n>> \o T)
    BY <1>2, <1>4, <1>5, OneAssoc
  <2> QED
    BY <1>12, <1>13, <1>14, <1>15, <2>1 DEF Line
<1>17. Resp' = Resp /\ Kinds' = Kinds /\ Out' = Out
  BY <1>1 DEF Resp, Kinds, Out
<1>18. Out \in Nat
  BY <1>3, OutFacts
<1>19. Ascending(rgot' \o Coming', Out')
  <2>1. Ascending(rgot \o (<<n>> \o T), Out)
    BY <1>9, <1>14
  <2>2. <<n>> \in Seq(Nat)
    BY <1>4
  <2>3. Ascending(rgot \o T, Out)
    BY <1>2, <1>5, <1>18, <2>1, <2>2, AscDrop
  <2> QED
    BY <1>1, <1>15, <1>17, <2>3
<1>20. \A i \in 1..Len(rx') : rx'[i] = 0 => i = Len(rx') /\ bsent = Len(Kinds) + 1
  <2>1. \A i \in 1..Len(rx) : rx[i] = 0 => i = Len(rx) /\ bsent = Len(Kinds) + 1
    BY <1>9 DEF LineRest
  <2> QED
    BY <1>1, <1>2, <2>1, RxTail
<1>21. \A i \in 1..Len(Answer(req)') : Answer(req)'[i].kind = "sample"
  <2> HIDE DEF A, rec
  <2>1. /\ Len(Append(A, rec)) = Len(A) + 1 /\ Len(A) \in Nat
        /\ \A i \in 1..Len(A) : Append(A, rec)[i] = A[i]
        /\ Append(A, rec)[Len(A) + 1] = rec
    BY <1>2, <1>6, AppendFacts
  <2>2. \A i \in 1..(Len(A) + 1) : i \in 1..Len(A) \/ i = Len(A) + 1
    BY <2>1
  <2>3. \A i \in 1..Len(A) : A[i].kind = "sample"
    BY <1>9 DEF LineRest, A
  <2> QED
    BY <1>6, <1>7, <2>1, <2>2, <2>3
<1>22. LineRest'
  BY <1>1, <1>9, <1>17, <1>20, <1>21 DEF LineRest
<1>23. req' \notin holed' => Whole0'
  BY <1>1, <1>9, <1>16, <1>17 DEF Whole0
<1> QED
  BY <1>9, <1>16, <1>17, <1>19, <1>22, <1>23, LineGoal

\* What a step of the backend's leaves alone.
LEMMA BackendFrame ==
  ASSUME Backend
  PROVE  /\ pc \in Exchange /\ pc' = pc
         /\ UNCHANGED <<load, req, events, residue, rgot, resp_pending, out, end,
                        keep_alive, request_done, response_done, carry, sent, outcome>>
         /\ Resp' = Resp /\ Kinds' = Kinds /\ Passed' = Passed /\ Answer(req)' = Answer(req)
<1>1. /\ pc \in Exchange /\ pc' = pc
      /\ UNCHANGED <<load, req, events, residue, rgot, resp_pending, out, end,
                     keep_alive, request_done, response_done, carry, sent, outcome>>
  BY DEF Backend, ctl, par, exch
<1>2. Resp' = Resp /\ Answer(req)' = Answer(req)
  BY <1>1 DEF Resp, Answer
<1>3. Kinds' = Kinds /\ Written(req)' = Written(req)
  BY <1>2 DEF Kinds, Written
<1> QED
  BY <1>1, <1>2, <1>3 DEF Passed

\* The next sample arrives.
LEMMA LineArrival ==
  ASSUME TypeOK, SentInv, LineInv, Backend, bsent < Len(Kinds), bsent' = bsent + 1,
         rx' = Append(rx, bsent + 1), holed' = holed
  PROVE  LineInv'
<1> DEFINE x == bsent + 1
           K == Len(Kinds)
<1>1. /\ pc \in Exchange /\ pc' = pc
      /\ UNCHANGED <<load, req, events, residue, rgot, resp_pending, out, end>>
      /\ Resp' = Resp /\ Kinds' = Kinds /\ Passed' = Passed /\ Answer(req)' = Answer(req)
  BY BackendFrame
<1>2. /\ rx \in Seq(Nat) /\ bsent \in Nat /\ rgot \in Seq(Nat) /\ resp_pending \in Seq(Nat)
      /\ Passed \in Seq(Nat) /\ Coming \in Seq(Nat) /\ SamplesOf(rx) \in Seq(Nat)
      /\ Line \in Seq(Nat)
  BY Typed, LineTypes DEF TypeOK
<1>3. req \in Req
  BY <1>1, ReqFacts
<1>4. K \in Nat
  BY <1>3, KindsFacts
<1>5. Out = bsent
  BY <1>2, <1>4 DEF Out
<1>6. Out' = x /\ x \in Nat /\ x # 0 /\ bsent < x
  BY <1>1, <1>2, <1>4 DEF Out
<1>7. /\ LineRest /\ (req \notin holed => Whole0)
      /\ Ascending(Line, Out) /\ Ascending(rgot \o Coming, Out)
  BY <1>1, LineParts
<1>8. SamplesOf(rx') = SamplesOf(rx) \o <<x>>
  BY <1>2, <1>6, SamplesAppend
<1> HIDE DEF x
<1>9. Coming' = Coming \o <<x>>
  <2>1. Coming' = resp_pending \o (SamplesOf(rx) \o <<x>>)
    BY <1>1, <1>8 DEF Coming
  <2>2. (resp_pending \o SamplesOf(rx)) \o <<x>> = resp_pending \o (SamplesOf(rx) \o <<x>>)
    BY <1>2, <1>6, OneAssoc, ZenonT(30)
  <2> QED
    BY <2>1, <2>2 DEF Coming
<1>10. Line' = Line \o <<x>>
  <2>1. Line' = Passed \o (Coming \o <<x>>)
    BY <1>1, <1>9 DEF Line
  <2>2. (Passed \o Coming) \o <<x>> = Passed \o (Coming \o <<x>>)
    BY <1>2, <1>6, OneAssoc, ZenonT(30)
  <2> QED
    BY <2>1, <2>2 DEF Line
<1>11. rgot' \o Coming' = (rgot \o Coming) \o <<x>>
  <2>1. (rgot \o Coming) \o <<x>> = rgot \o (Coming \o <<x>>)
    BY <1>2, <1>6, OneAssoc, ZenonT(30)
  <2> QED
    BY <1>1, <1>9, <2>1
<1>12. Ascending(Line', Out')
  <2>1. Ascending(Line \o <<x>>, x)
    BY <1>2, <1>5, <1>6, <1>7, AscAppend
  <2> QED
    BY <1>6, <1>10, <2>1
<1>13. Ascending(rgot' \o Coming', Out')
  <2>1. Ascending((rgot \o Coming) \o <<x>>, x)
    BY <1>2, <1>5, <1>6, <1>7, AscAppend
  <2> QED
    BY <1>6, <1>11, <2>1
<1>14. \A i \in 1..Len(rx') : rx'[i] = 0 => FALSE
  <2>1. \A i \in 1..Len(rx) : rx[i] # 0
    <3>1. \A i \in 1..Len(rx) : rx[i] = 0 => bsent = K + 1
      BY <1>7 DEF LineRest
    <3>2. bsent # K + 1
      BY <1>2, <1>4
    <3> QED
      BY <3>1, <3>2
  <2>2. /\ Len(rx') = Len(rx) + 1 /\ Len(rx) \in Nat /\ rx'[Len(rx) + 1] = x
        /\ \A i \in 1..Len(rx) : rx'[i] = rx[i]
    BY <1>2, <1>6, AppendFacts DEF x
  <2>3. \A i \in 1..(Len(rx) + 1) : i \in 1..Len(rx) \/ i = Len(rx) + 1
    BY <2>2
  <2> QED
    BY <1>6, <2>1, <2>2, <2>3
<1>15. LineRest'
  <2>1. bsent' <= K + 1
    BY <1>2, <1>4
  <2> QED
    BY <1>1, <1>7, <1>14, <2>1 DEF LineRest
<1>16. req' \notin holed' => Whole0'
  <2> SUFFICES ASSUME req \notin holed PROVE Whole0'
    BY <1>1
  <2>1. Whole0
    BY <1>7
  <2>2. Len(Line) = bsent /\ Line = Run(0, bsent)
    BY <1>2, <1>4, <2>1 DEF Whole0
  <2>3. Run(bsent, bsent + 1) = <<x>>
    BY <1>2, RunOne DEF x
  <2>4. Run(0, bsent) \o Run(bsent, bsent + 1) = Run(0, bsent + 1)
    <3>1. bsent + 1 \in Nat /\ 0 <= bsent /\ bsent <= bsent + 1
      BY <1>2
    <3> QED
      BY <1>2, <3>1, RunConcat
  <2>5. Line' = Run(0, bsent + 1)
    BY <1>10, <2>2, <2>3, <2>4
  <2>6. Len(Line') = bsent + 1
    <3>1. bsent + 1 \in Nat /\ 0 <= bsent + 1
      BY <1>2
    <3>2. Len(Run(0, bsent + 1)) = (bsent + 1) - 0
      BY <3>1, RunFacts
    <3> QED
      BY <2>5, <3>1, <3>2
  <2>7. pc # "splice" => Passed = rgot
    BY <2>1 DEF Whole0
  <2>8. ~(bsent' > K)
    BY <1>2, <1>4
  <2> QED
    BY <1>1, <2>5, <2>6, <2>7, <2>8 DEF Whole0
<1> QED
  BY <1>12, <1>13, <1>15, <1>16, LineGoal

\* The EOF marker arrives, or something is lost.
LEMMA LineLoss ==
  ASSUME TypeOK, SentInv, LineInv, Backend, bsent <= Len(Kinds),
         bsent' \in Nat, bsent < bsent', bsent' <= Len(Kinds) + 1,
         \/ /\ rx' = Append(rx, 0) /\ bsent' = Len(Kinds) + 1 /\ holed' = holed
            /\ Resp.framing = "close" => bsent = Len(Kinds)
         \/ rx' = rx /\ holed' = holed \cup {req}
  PROVE  LineInv'
<1> DEFINE K == Len(Kinds)
<1>1. /\ pc \in Exchange /\ pc' = pc
      /\ UNCHANGED <<load, req, events, residue, rgot, resp_pending, out, end>>
      /\ Resp' = Resp /\ Kinds' = Kinds /\ Passed' = Passed /\ Answer(req)' = Answer(req)
  BY BackendFrame
<1>2. /\ rx \in Seq(Nat) /\ bsent \in Nat
  BY Typed DEF TypeOK
<1>3. req \in Req
  BY <1>1, ReqFacts
<1>4. K \in Nat
  BY <1>3, KindsFacts
<1>5. Out = bsent /\ Out' \in Nat /\ Out <= Out'
  BY <1>1, <1>2, <1>4 DEF Out
<1>7. /\ LineRest /\ (req \notin holed => Whole0)
      /\ Ascending(Line, Out) /\ Ascending(rgot \o Coming, Out)
  BY <1>1, LineParts
<1>8. SamplesOf(rx') = SamplesOf(rx)
  BY <1>2, SamplesAppend
<1>9. Coming' = Coming
  BY <1>1, <1>8 DEF Coming
<1>10. Line' = Line
  BY <1>1, <1>9 DEF Line
<1>11. Ascending(Line', Out') /\ Ascending(rgot' \o Coming', Out')
  <2>1. Out \in Nat /\ Out' \in Nat /\ Out <= Out'
    BY <1>2, <1>5
  <2>2. Ascending(Line, Out')
    BY <1>7, <2>1, AscMono
  <2>3. Ascending(rgot \o Coming, Out')
    BY <1>7, <2>1, AscMono
  <2> QED
    BY <1>1, <1>9, <1>10, <2>2, <2>3
<1>12. \A i \in 1..Len(rx) : rx[i] # 0
  <2>1. \A i \in 1..Len(rx) : rx[i] = 0 => bsent = K + 1
    BY <1>7 DEF LineRest
  <2>2. bsent # K + 1
    BY <1>2, <1>4
  <2> QED
    BY <2>1, <2>2
<1>13. \A i \in 1..Len(rx') : rx'[i] = 0 => i = Len(rx') /\ bsent' = K + 1
  <2>1. CASE rx' = rx
    BY <1>12, <2>1
  <2>2. CASE rx' = Append(rx, 0) /\ bsent' = K + 1
    <3>1. /\ Len(rx') = Len(rx) + 1 /\ Len(rx) \in Nat
          /\ \A i \in 1..Len(rx) : rx'[i] = rx[i]
      BY <1>2, <2>2, AppendFacts
    <3>2. \A i \in 1..(Len(rx) + 1) : i \in 1..Len(rx) \/ i = Len(rx) + 1
      BY <3>1
    <3> QED
      BY <1>12, <2>2, <3>1, <3>2
  <2> QED
    BY <2>1, <2>2
<1>14. LineRest'
  BY <1>1, <1>7, <1>13 DEF LineRest
<1>15. req' \notin holed' => Whole0'
  <2> SUFFICES ASSUME req \notin holed' PROVE Whole0'
    BY <1>1
  <2>1. Whole0 /\ bsent' = K + 1 /\ (Resp.framing = "close" => bsent = K)
    BY <1>7
  <2>2. Line = Run(0, Len(Line)) /\ (pc # "splice" => Passed = rgot) /\ Len(Line) = bsent
    BY <1>2, <1>4, <2>1 DEF Whole0
  <2>3. ~(bsent' <= K)
    BY <1>4, <2>1
  <2> QED
    BY <1>1, <1>10, <2>1, <2>2, <2>3 DEF Whole0
<1> QED
  BY <1>11, <1>14, <1>15, LineGoal

\* The backend sends a sample, or its end.
LEMMA LineBackend ==
  ASSUME TypeOK, SentInv, LineInv, Backend
  PROVE  LineInv'
<1>1. pc \in Exchange
  BY BackendFrame
<1>2. req \in Req
  BY <1>1, ReqFacts
<1>3. Len(Kinds) \in Nat /\ bsent \in Nat
  BY <1>2, KindsFacts DEF TypeOK
<1>4. CASE bsent < Len(Kinds) /\ bsent' = bsent + 1 /\ Arrives(bsent + 1)
  <2>1. \/ rx' = Append(rx, bsent + 1) /\ holed' = holed
        \/ rx' = rx /\ holed' = holed \cup {req}
    BY <1>4 DEF Arrives
  <2>2. bsent <= Len(Kinds) /\ bsent' \in Nat /\ bsent < bsent' /\ bsent' <= Len(Kinds) + 1
    BY <1>3, <1>4
  <2> QED
    BY <1>4, <2>1, <2>2, LineArrival, LineLoss
<1>5. CASE /\ \/ bsent = Len(Kinds)
              \/ bsent < Len(Kinds) /\ Resp.framing # "close"
           /\ bsent' = Len(Kinds) + 1 /\ Arrives(0)
  <2>1. \/ rx' = Append(rx, 0) /\ holed' = holed
        \/ rx' = rx /\ holed' = holed \cup {req}
    BY <1>5 DEF Arrives
  <2>2. bsent <= Len(Kinds) /\ bsent' \in Nat /\ bsent < bsent' /\ bsent' <= Len(Kinds) + 1
    BY <1>3, <1>5
  <2>3. Resp.framing = "close" => bsent = Len(Kinds)
    BY <1>5
  <2> QED
    BY <1>5, <2>1, <2>2, <2>3, LineLoss
<1> QED
  BY <1>4, <1>5 DEF Backend, Kinds

\* The client's bytes add nothing to the backend's side of the queue.
LEMMA ReplyPushed ==
  ASSUME TypeOK, FeedInv, NoPreface, Pushed
  PROVE  ReplyOf(events') = ReplyOf(events) /\ residue'["down"] = residue["down"]
<1>1. /\ load \in Loads /\ events \in Seq(EventRec) /\ ReplyOf(events) \in Seq(EventRec)
      /\ residue \in [{"up", "down"} -> Seq(Nat)]
  BY Typed, LineTypes
<1>2. PICK k \in Nat : /\ Accepts(k, inp') /\ fed \in Nat /\ fed + k \in Nat
                       /\ fed + k <= inp' /\ fed + k <= Len(Script)
  BY PushedRun
<1>3. Framing(fed, k) \in Seq(EventRec) /\ ReplyOf(Framing(fed, k)) = <<>>
  BY <1>1, <1>2, FramingQueue
<1>4. events' = events \o Framing(fed, k)
  BY <1>2 DEF Accepts
<1>5. ReplyOf(events \o Framing(fed, k)) = ReplyOf(events) \o ReplyOf(Framing(fed, k))
  BY <1>1, <1>3, SideConcat
<1>6. ReplyOf(events) \o <<>> = ReplyOf(events)
  BY <1>1, ConcatEmptySeq
<1>7. residue'["down"] = residue["down"]
  BY <1>1, <1>2 DEF Accepts
<1> QED
  BY <1>3, <1>4, <1>5, <1>6, <1>7

\* Neither does what was carried aside.
LEMMA ReplyCarried ==
  ASSUME TypeOK, CarryInv
  PROVE  /\ ReplyOf(carry) = <<>>
         /\ events # <<>> => ReplyOf(carry \o Tail(events)) = ReplyOf(Tail(events))
<1>1. carry \in Seq(EventRec) /\ events \in Seq(EventRec)
  BY Typed
<1>2. ReplyOf(carry) = <<>>
  BY <1>1, ReplyNone DEF CarryInv
<1>3. ASSUME events # <<>> PROVE ReplyOf(carry \o Tail(events)) = ReplyOf(Tail(events))
  <2>1. Tail(events) \in Seq(EventRec)
    BY <1>1, <1>3, SideHead
  <2>2. ReplyOf(carry \o Tail(events)) = ReplyOf(carry) \o ReplyOf(Tail(events))
    BY <1>1, <2>1, SideConcat
  <2>3. ReplyOf(Tail(events)) \in Seq(EventRec)
    BY <2>1, SideConcat
  <2>4. <<>> \o ReplyOf(Tail(events)) = ReplyOf(Tail(events))
    BY <2>3, ConcatEmptySeq
  <2> QED
    BY <1>2, <2>2, <2>4
<1> QED
  BY <1>2, <1>3

\* What the taking of an event leaves on the backend's side.
LEMMA ReplyTaken ==
  ASSUME TypeOK, events # <<>>
  PROVE  /\ IsClient(Head(events)) => ReplyOf(Tail(events)) = ReplyOf(events)
         /\ ~IsClient(Head(events)) =>
              /\ ReplyOf(events) # <<>> /\ Head(ReplyOf(events)) = Head(events)
              /\ ReplyOf(Tail(events)) = Tail(ReplyOf(events))
              /\ ReplyOf(events) = <<Head(events)>> \o ReplyOf(Tail(events))
              /\ ReplyOf(Tail(events)) \in Seq(EventRec) /\ Head(events) \in EventRec
<1>1. events \in Seq(EventRec)
  BY Typed
<1>2. /\ Head(events) \in EventRec /\ Tail(events) \in Seq(EventRec)
      /\ IsClient(Head(events)) => ReplyOf(events) = ReplyOf(Tail(events))
      /\ ~IsClient(Head(events)) => ReplyOf(events) = <<Head(events)>> \o ReplyOf(Tail(events))
  BY <1>1, SideHead
<1>3. ReplyOf(Tail(events)) \in Seq(EventRec)
  BY <1>2, SideConcat
<1>4. ASSUME NEW w \in Seq(EventRec), NEW e \in EventRec
      PROVE  <<e>> \o w # <<>> /\ Head(<<e>> \o w) = e /\ Tail(<<e>> \o w) = w
  <2> DEFINE s == <<e>> \o w
  <2>1. /\ s \in Seq(EventRec) /\ Len(s) = Len(w) + 1 /\ Len(w) \in Nat /\ s[1] = e
        /\ \A i \in 1..Len(w) : s[i + 1] = w[i]
    BY ConsFacts
  <2> HIDE DEF s
  <2>2. s # <<>>
    BY <2>1
  <2>3. /\ Tail(s) \in Seq(EventRec) /\ Len(Tail(s)) = Len(s) - 1 /\ Head(s) = s[1]
        /\ \A i \in 1..Len(Tail(s)) : Tail(s)[i] = s[i + 1]
    BY <2>1, <2>2
  <2>4. Len(Tail(s)) = Len(w) /\ \A i \in 1..Len(w) : Tail(s)[i] = w[i]
    BY <2>1, <2>3
  <2>5. Tail(s) = w
    BY <2>3, <2>4
  <2> QED
    BY <2>1, <2>2, <2>3, <2>5 DEF s
<1> QED
  BY <1>2, <1>3, <1>4

\* Every step keeps the response's line.
LEMMA LineNext == Inv /\ [Next]_vars => LineInv'
<1> SUFFICES ASSUME Inv, [Next]_vars PROVE LineInv'
  OBVIOUS
<1>1. /\ TypeOK /\ FeedInv /\ CursorInv /\ CarryInv /\ SentInv /\ UpInv /\ SwitchInv /\ LineInv
      /\ BetweenInv
  BY DEF Inv
<1>2. CASE pc' \notin Exchange
  BY <1>2 DEF LineInv
<1>3. CASE Pushed /\ pc' \in Exchange
  <2>1. /\ pc \in {"offer", "select"} /\ pc' \in {"reoffer", "offer"}
        /\ UNCHANGED <<load, req, resp_pending, rgot, rx, bsent, holed, end, out>>
    BY <1>3 DEF Pushed, exch, bus, Exchange, Ahead
  <2>2. NoPreface
    BY <1>1, <2>1 DEF UpInv
  <2>3. ReplyOf(events') = ReplyOf(events) /\ residue'["down"] = residue["down"]
    BY <1>1, <1>3, <2>2, ReplyPushed
  <2>4. pc \in Exchange /\ pc # "splice" /\ pc' # "splice"
    BY <2>1 DEF Exchange
  <2> QED
    BY <1>1, <2>1, <2>3, <2>4, LineSame
<1>4. CASE Idle /\ pc' \in Exchange
  <2>1. /\ UNCHANGED <<load, req, resp_pending, rgot, rx, bsent, holed, end, out>>
        /\ UNCHANGED <<events, residue>>
        /\ pc \in Exchange /\ (pc = "splice" <=> pc' = "splice")
    BY <1>4 DEF Idle, exch, bus, hist, Exchange
  <2> QED
    BY <1>1, <2>1, LineSame
<1>5. CASE TakenRequest \/ TakenAside
  <2>1. /\ UNCHANGED <<load, req, resp_pending, rgot, rx, bsent, holed, end, out>>
        /\ UNCHANGED residue /\ pc = "process" /\ pc' = "process" /\ events # <<>>
        /\ Head(events).ev \in {"head", "body", "end"} /\ events' = Tail(events)
    BY <1>5 DEF TakenRequest, TakenAside, Taken, bus
  <2>2. ReplyOf(events') = ReplyOf(events)
    BY <1>1, <2>1, ReplyTaken DEF IsClient
  <2> QED
    BY <1>1, <2>1, <2>2, LineSame DEF Exchange
<1>6. CASE TakenSwitch
  <2>1. /\ UNCHANGED <<load, req, resp_pending, rgot, rx, bsent, holed, end, out>>
        /\ UNCHANGED residue /\ pc = "process" /\ pc' = "switch" /\ events # <<>>
        /\ Head(events).ev = "switch" /\ events' = carry \o Tail(events)
    BY <1>6 DEF TakenSwitch, Taken, bus
  <2>2. ~IsClient(Head(events)) /\ Head(events).ev \notin {"rhead", "rbody"}
    BY <2>1 DEF IsClient
  <2>3. /\ ReplyOf(events') = ReplyOf(Tail(events))
        /\ ReplyOf(events) = <<Head(events)>> \o ReplyOf(Tail(events))
        /\ ReplyOf(Tail(events)) \in Seq(EventRec) /\ Head(events) \in EventRec
    BY <1>1, <2>1, <2>2, ReplyTaken, ReplyCarried
  <2>4. DataOf(ReplyOf(events')) = DataOf(ReplyOf(events))
    <3> DEFINE e == Head(events)
               w == ReplyOf(Tail(events))
    <3>1. <<e>> \in Seq(EventRec) /\ DataOf(<<e>>) = <<>>
      BY <2>2, <2>3, ReplyOne, SideOne
    <3>2. e \in EventRec /\ w \in Seq(EventRec) /\ ReplyOf(events) = <<e>> \o w /\ ReplyOf(events') = w
      BY <2>3
    <3> HIDE DEF e, w
    <3>3. DataOf(<<e>> \o w) = DataOf(<<e>>) \o DataOf(w) /\ DataOf(w) \in Seq(Nat)
      BY <3>1, <3>2, SideConcat
    <3>4. <<>> \o DataOf(w) = DataOf(w)
      BY <3>3, ConcatEmptySeq
    <3> QED
      BY <3>1, <3>2, <3>3, <3>4
  <2> QED
    BY <1>1, <2>1, <2>4, LineSame DEF Exchange
<1>7. CASE TakenAll
  <2>1. /\ UNCHANGED <<load, req, resp_pending, rgot, rx, bsent, holed, end, out>>
        /\ UNCHANGED residue /\ pc = "process" /\ pc' = "select" /\ events = <<>> /\ events' = carry
    BY <1>7 DEF TakenAll, bus, hist
  <2>2. ReplyOf(events') = ReplyOf(events)
    BY <1>1, <2>1, ReplyCarried, SideEmpty
  <2> QED
    BY <1>1, <2>1, <2>2, LineSame DEF Exchange
<1>8. CASE SpliceUp /\ pc' \in Exchange
  <2>1. /\ UNCHANGED <<load, req, resp_pending, rgot, rx, bsent, holed, end, out>>
        /\ UNCHANGED <<events, residue>> /\ pc = "splice"
    BY <1>8 DEF SpliceUp, ctl, par, exch, bus
  <2>2. pc' = "splice"
    BY <1>8 DEF SpliceUp, Goto, Exchange
  <2> QED
    BY <1>1, <2>1, <2>2, LineSame
<1>9. CASE SetupOk
  BY <1>9, LineSetup
<1>10. CASE Offered
  BY <1>1, <1>10, LineOffer
<1>11. CASE SelectRecv
  BY <1>1, <1>11, LineFin, LineRecv
<1>12. CASE TakenHead \/ TakenBody
  BY <1>1, <1>12, LineWrite
<1>13. CASE Switched
  BY <1>1, <1>13, LineSwitched
<1>14. CASE SpliceDown
  BY <1>1, <1>14, LineSplice
<1>15. CASE Backend
  BY <1>1, <1>15, LineBackend
<1>16. CASE Quit \/ NextPop \/ RouteUnavailable \/ DiscardPop \/ TakenEnd \/ Abandoned \/ Teardown
  <2>1. pc' \notin Exchange
    BY <1>16 DEF Quit, NextPop, RouteUnavailable, DiscardPop, TakenEnd, Abandoned, Teardown,
       Goto, Exchange
  <2> QED
    BY <1>2, <2>1
<1> QED
  BY <1>1, <1>2, <1>3, <1>4, <1>5, <1>6, <1>7, <1>8, <1>9, <1>10, <1>11, <1>12, <1>13, <1>14,
     <1>15, <1>16, Kind

\* What the end of a response says of it.
EndFacts ==
  /\ Headed(rgot) /\ Resp.framing # "switch"
  /\ Resp.framing # "close" => \E k \in 1..Len(rgot) : rgot[k] = Len(Kinds)
  /\ Resp.framing = "close" => rx = <<>> /\ bsent = Len(Kinds) + 1
  /\ req \notin holed => Len(rgot) = Len(Kinds)

\* Only a response cut by a loss has something after its end.
Loose == Resp.framing = "close" /\ req \in holed

EndInv ==
  \A i \in 1..Len(Reply) : Reply[i].ev = "rend" => EndFacts /\ (i = Len(Reply) \/ Loose)
BodyInv == \A i \in 1..Len(Reply) : Reply[i].ev = "rbody" => Headed(rgot)
CloseInv ==
  keep_alive /\ response_wants_close(req) => Headless(req) /\ (Headed(rgot) => Announced)

\* EventInv in parts.
LEMMA EventParts ==
  EventInv <=> (pc \in Exchange \ {"splice"} => EndInv /\ BodyInv /\ CloseInv)
BY DEF EventInv, EndInv, BodyInv, CloseInv, EndFacts, Loose

\* EventInv of the next state, from its parts.
LEMMA EventGoal ==
  ASSUME EndInv', BodyInv', CloseInv'
  PROVE  EventInv'
<1>1. (EventInv <=> (pc \in Exchange \ {"splice"} => EndInv /\ BodyInv /\ CloseInv))'
  BY EventParts, PTL
<1> QED
  BY <1>1

\* Nothing of the backend's side moves.
LEMMA EventSame ==
  ASSUME EventInv, UNCHANGED <<load, req, rgot, rx, bsent, holed, out, keep_alive>>,
         ReplyOf(events') = ReplyOf(events),
         pc' \in Exchange \ {"splice"} => pc \in Exchange \ {"splice"}
  PROVE  EventInv'
<1> SUFFICES ASSUME pc' \in Exchange \ {"splice"} PROVE EventInv'
  BY DEF EventInv
<1>1. EndInv /\ BodyInv /\ CloseInv
  BY EventParts
<1>2. Resp' = Resp /\ Kinds' = Kinds /\ Answer(req)' = Answer(req) /\ Reply' = Reply
  BY DEF Resp, Kinds, Answer, Reply
<1>3. /\ Headed(rgot)' = Headed(rgot) /\ Headless(req)' = Headless(req)
      /\ response_wants_close(req)' = response_wants_close(req) /\ Announced' = Announced
  BY <1>2 DEF Headed, Headless, response_wants_close, Announced
<1>4. EndInv' /\ BodyInv'
  BY <1>1, <1>2, <1>3 DEF EndInv, BodyInv, EndFacts, Loose
<1>5. keep_alive' = keep_alive
  OBVIOUS
<1>6. CloseInv'
  BY <1>1, <1>3, <1>5 DEF CloseInv
<1> QED
  BY <1>4, <1>6, EventGoal

\* A response has its head from the sample on that is one.
LEMMA HeadedAppend ==
  ASSUME NEW s \in Seq(Nat), NEW n \in Nat
  PROVE  Headed(Append(s, n)) <=> (Headed(s) \/ Kinds[n] = "head")
<1>1. ToSet(Append(s, n)) = ToSet(s) \cup {n}
  <2>1. /\ Append(s, n) \in Seq(Nat) /\ Len(Append(s, n)) = Len(s) + 1 /\ Len(s) \in Nat
        /\ \A i \in 1..Len(s) : Append(s, n)[i] = s[i]
        /\ Append(s, n)[Len(s) + 1] = n
    BY AppendFacts
  <2>2. DOMAIN s = 1..Len(s) /\ DOMAIN Append(s, n) = 1..(Len(s) + 1)
    BY <2>1
  <2>3. \A i \in 1..(Len(s) + 1) : i \in 1..Len(s) \/ i = Len(s) + 1
    BY <2>1
  <2>4. \A i \in 1..Len(s) : i \in 1..(Len(s) + 1)
    BY <2>1
  <2>5. Len(s) + 1 \in 1..(Len(s) + 1)
    BY <2>1
  <2>6. ASSUME NEW x PROVE x \in ToSet(Append(s, n)) <=> x \in ToSet(s) \/ x = n
    BY <2>1, <2>2, <2>3, <2>4, <2>5 DEF ToSet
  <2> QED
    BY <2>6
<1> QED
  BY <1>1 DEF Headed, Kinds

\* The exchange starts.
LEMMA EventSetup ==
  ASSUME Inv, SetupOk
  PROVE  EventInv'
<1>1. /\ pc = "setup" /\ pc' = "offer" /\ rgot' = <<>> /\ keep_alive' = TRUE
      /\ UNCHANGED <<load, req, out, events>>
  BY DEF SetupOk, Goto, ctl, par
<1>2. NoPreface
  BY <1>1 DEF Inv, UpInv
<1>3. ReplyOf(events) = <<>> /\ Answer(req) = <<>>
  BY <1>1, <1>2 DEF Inv, BetweenInv, HistoryInv
<1>4. Reply' = <<>> /\ Answer(req)' = <<>>
  BY <1>1, <1>3 DEF Reply, Answer
<1>5. Len(<<>>) = 0 /\ 1..0 = {} /\ DOMAIN <<>> = {}
  OBVIOUS
<1>6. EndInv' /\ BodyInv'
  BY <1>4, <1>5 DEF EndInv, BodyInv
<1>7. Headless(req)'
  BY <1>4, <1>5 DEF Headless
<1>8. ~Headed(rgot)'
  BY <1>1, <1>5 DEF Headed, ToSet
<1>9. CloseInv'
  BY <1>7, <1>8 DEF CloseInv
<1> QED
  BY <1>6, <1>9, EventGoal

\* An event of the backend's side is taken.
LEMMA EventTake ==
  ASSUME TypeOK, EventInv, pc = "process", events # <<>>, ~IsClient(Head(events)),
         UNCHANGED <<load, req, rgot, rx, bsent, holed>>, ReplyOf(events') = ReplyOf(Tail(events))
  PROVE  /\ EndInv' /\ BodyInv' /\ Reply' \in Seq(EventRec)
         /\ Len(Reply) \in Nat /\ Len(Reply') \in Nat
         /\ Reply[1] = Head(events) /\ Len(Reply) = Len(Reply') + 1
         /\ \A i \in 1..Len(Reply') : Reply'[i] = Reply[i + 1] /\ i + 1 \in 1..Len(Reply)
         /\ \A i \in 1..Len(Reply) : i # 1 => i - 1 \in 1..Len(Reply') /\ Reply'[i - 1] = Reply[i]
         /\ Headed(rgot)' = Headed(rgot) /\ Resp' = Resp /\ Kinds' = Kinds
<1> DEFINE e == Head(events)
           w == ReplyOf(Tail(events))
<1>1. /\ ReplyOf(events) = <<e>> \o w /\ w \in Seq(EventRec) /\ e \in EventRec
  BY ReplyTaken
<1>2. Reply = <<e>> \o w /\ Reply' = w
  BY <1>1 DEF Reply
<1> HIDE DEF w, e
<1>3. /\ Len(<<e>> \o w) = Len(w) + 1 /\ Len(w) \in Nat /\ (<<e>> \o w)[1] = e
      /\ \A i \in 1..Len(w) : (<<e>> \o w)[i + 1] = w[i]
  BY <1>1, ConsFacts
<1> DEFINE k == Len(w)
           s == <<e>> \o w
<1>4. k \in Nat /\ Len(s) = k + 1 /\ s[1] = e /\ (\A i \in 1..k : s[i + 1] = w[i])
      /\ Reply = s /\ Reply' = w /\ Len(w) = k
  BY <1>2, <1>3
<1> HIDE DEF k, s
<1>5. \A i \in 1..k : w[i] = s[i + 1] /\ i + 1 \in 1..(k + 1)
  BY <1>4
<1>6. \A i \in 1..(k + 1) : i # 1 => i - 1 \in 1..k /\ w[i - 1] = s[i]
  <2> SUFFICES ASSUME NEW i \in 1..(k + 1), i # 1 PROVE i - 1 \in 1..k /\ w[i - 1] = s[i]
    OBVIOUS
  <2>1. i - 1 \in 1..k /\ (i - 1) + 1 = i
    BY <1>4
  <2> QED
    BY <1>4, <2>1
<1>7. EndInv /\ BodyInv
  BY EventParts DEF Exchange
<1>8. Resp' = Resp /\ Kinds' = Kinds
  BY DEF Resp, Kinds
<1>9. Headed(rgot)' = Headed(rgot)
  BY <1>8 DEF Headed
<1>10. EndFacts' = EndFacts /\ Loose' = Loose
  BY <1>8, <1>9 DEF EndFacts, Loose
<1>11. EndInv'
  <2> SUFFICES ASSUME NEW i \in 1..k, w[i].ev = "rend" PROVE EndFacts /\ (i = k \/ Loose)
    BY <1>4, <1>10 DEF EndInv
  <2>1. i + 1 \in 1..(k + 1) /\ s[i + 1].ev = "rend"
    BY <1>5
  <2>2. EndFacts /\ (i + 1 = k + 1 \/ Loose)
    BY <1>4, <1>7, <2>1 DEF EndInv
  <2> QED
    BY <1>4, <2>2
<1>12. BodyInv'
  BY <1>4, <1>5, <1>7, <1>9 DEF BodyInv
<1> QED
  BY <1>1, <1>4, <1>5, <1>6, <1>8, <1>9, <1>11, <1>12 DEF e

\* The client is written a sample.
LEMMA WriteAnswer ==
  ASSUME TypeOK, req \in Req, UNCHANGED <<load, req>>, NEW n \in Nat,
         NEW kind \in {"sample", "refused", "error"}, Write(req, kind, n)
  PROVE  /\ Answer(req)' = Append(Answer(req), [req |-> req, kind |-> kind, at |-> n])
         /\ [req |-> req, kind |-> kind, at |-> n] \in OutRec
         /\ \A r : r # req => Answer(r)' = Answer(r)
<1> DEFINE rec == [req |-> req, kind |-> kind, at |-> n]
<1>1. out \in Seq(OutRec) /\ out' = Append(out, rec) /\ Len(load.resp) \in Nat
  BY LineTypes, Typed DEF Write
<1>2. req \in 1..(Len(load.resp) + 1)
  BY <1>1 DEF Req
<1>3. rec \in OutRec /\ rec.req = req
  BY <1>2 DEF OutRec
<1> HIDE DEF rec
<1>4. ASSUME NEW r
      PROVE /\ r = req => Answer(r)' = Append(Answer(r), rec)
            /\ r # req => Answer(r)' = Answer(r)
  BY <1>1, <1>3, AnswerWrite
<1>5. Answer(req)' = Append(Answer(req), rec)
  <2>1. PICK r : r = req
    OBVIOUS
  <2>2. Answer(r)' = Append(Answer(r), rec)
    BY <1>4, <2>1
  <2> QED
    BY <2>1, <2>2 DEF Answer
<1> QED
  BY <1>3, <1>4, <1>5 DEF rec

\* A head of the response is written.
LEMMA EventHead ==
  ASSUME TypeOK, SentInv, EventInv, TakenHead
  PROVE  EventInv'
<1> DEFINE n == Head(events).at
<1>1. /\ pc = "process" /\ events # <<>> /\ Head(events).ev = "rhead" /\ events' = Tail(events)
      /\ UNCHANGED <<load, req, rgot, rx, bsent, holed>> /\ Write(req, "sample", n)
  BY DEF TakenHead, Taken, bus
<1>2. ~IsClient(Head(events))
  BY <1>1 DEF IsClient
<1>3. /\ EndInv' /\ BodyInv' /\ Len(Reply) \in Nat
      /\ Reply[1] = Head(events)
      /\ \A i \in 1..Len(Reply) : i # 1 => i - 1 \in 1..Len(Reply') /\ Reply'[i - 1] = Reply[i]
      /\ Headed(rgot)' = Headed(rgot) /\ Resp' = Resp /\ Kinds' = Kinds
      /\ \A i \in 1..Len(Reply') : Reply'[i] = Reply[i + 1] /\ i + 1 \in 1..Len(Reply)
      /\ Len(Reply') \in Nat
  BY <1>1, <1>2, EventTake
<1>4. CloseInv
  BY <1>1, EventParts DEF Exchange
<1>5. CloseInv'
  <2> SUFFICES ASSUME keep_alive', response_wants_close(req)'
               PROVE  Headless(req)' /\ (Headed(rgot)' => Announced')
    BY DEF CloseInv
  <2>1. response_wants_close(req)
    BY <1>1 DEF response_wants_close
  <2>2. keep_alive' = (keep_alive /\ (\/ Kinds[n] = "interim" \/ ~response_wants_close(req)))
    BY DEF TakenHead
  <2>3. keep_alive /\ Kinds[n] = "interim"
    BY <2>1, <2>2
  <2>4. Headless(req) /\ (Headed(rgot) => Announced)
    BY <1>4, <2>1, <2>3 DEF CloseInv
  <2>5. Headless(req)'
    <3> DEFINE A == Answer(req)
               rec == [req |-> req, kind |-> "sample", at |-> n]
    <3>1. req \in Req
      BY <1>1, ReqFacts DEF Exchange
    <3>2. Head(events) \in EventRec
      BY <1>1, <1>2, ReplyTaken
    <3>3. n \in Nat
      BY <3>2 DEF EventRec
    <3>4. Answer(req)' = Append(A, rec) /\ rec \in OutRec /\ rec.at = n
      BY <1>1, <3>1, <3>3, WriteAnswer
    <3>5. A \in Seq(OutRec)
      BY LineTypes
    <3>6. \A i \in 1..Len(A) : Kinds[A[i].at] = "interim"
      BY <2>4, <3>5 DEF Headless, Kinds, Resp
    <3> HIDE DEF A, rec
    <3>7. /\ Append(A, rec) \in Seq(OutRec) /\ Len(Append(A, rec)) = Len(A) + 1 /\ Len(A) \in Nat
          /\ \A i \in 1..Len(A) : Append(A, rec)[i] = A[i]
          /\ Append(A, rec)[Len(A) + 1] = rec
      BY <3>4, <3>5, AppendFacts
    <3>8. DOMAIN Append(A, rec) = 1..(Len(A) + 1)
      BY <3>7
    <3>9. \A i \in 1..(Len(A) + 1) : i \in 1..Len(A) \/ i = Len(A) + 1
      BY <3>7
    <3>10. \A i \in DOMAIN Append(A, rec) : Kinds[Append(A, rec)[i].at] = "interim"
      BY <2>3, <3>4, <3>6, <3>7, <3>8, <3>9
    <3> QED
      BY <1>1, <3>4, <3>10 DEF Headless, Kinds, Resp
  <2>6. ASSUME Headed(rgot) PROVE Announced'
    <3>1. PICK i \in 1..Len(Reply) :
            /\ Reply[i].ev = "rhead" /\ Kinds[Reply[i].at] = "head"
            /\ \A j \in 1..(i - 1) : Reply[j].ev \notin {"rend", "rbody"}
      BY <2>4, <2>6 DEF Announced
    <3>2. i # 1
      BY <1>3, <2>3, <3>1
    <3>3. i - 1 \in 1..Len(Reply') /\ Reply'[i - 1] = Reply[i]
      BY <1>3, <3>2
    <3>4. \A j \in 1..((i - 1) - 1) : Reply'[j].ev \notin {"rend", "rbody"}
      <4> SUFFICES ASSUME NEW j \in 1..((i - 1) - 1) PROVE Reply'[j].ev \notin {"rend", "rbody"}
        OBVIOUS
      <4>1. j \in 1..Len(Reply') /\ j + 1 \in 1..(i - 1)
        BY <1>3, <3>3
      <4> QED
        BY <1>3, <3>1, <4>1
    <3>5. PICK m : m = i - 1
      OBVIOUS
    <3>6. m \in 1..Len(Reply') /\ Reply'[m].ev = "rhead" /\ Kinds'[Reply'[m].at] = "head"
          /\ \A j \in 1..(m - 1) : Reply'[j].ev \notin {"rend", "rbody"}
      BY <1>3, <3>1, <3>3, <3>4, <3>5
    <3> QED
      BY <3>6 DEF Announced
  <2> QED
    BY <1>3, <2>5, <2>6
<1> QED
  BY <1>3, <1>5, EventGoal

\* A piece of the body is written: the head that came before it has been.
LEMMA EventBody ==
  ASSUME TypeOK, EventInv, TakenBody
  PROVE  EventInv'
<1>1. /\ pc = "process" /\ events # <<>> /\ Head(events).ev = "rbody" /\ events' = Tail(events)
      /\ UNCHANGED <<load, req, rgot, rx, bsent, holed>>
  BY DEF TakenBody, Taken, bus
<1>2. ~IsClient(Head(events))
  BY <1>1 DEF IsClient
<1>3. EndInv' /\ BodyInv' /\ Len(Reply) \in Nat /\ Reply[1] = Head(events)
      /\ Len(Reply) = Len(Reply') + 1 /\ Len(Reply') \in Nat
  BY <1>1, <1>2, EventTake
<1>4. BodyInv /\ CloseInv
  BY <1>1, EventParts DEF Exchange
<1>5. 1 \in 1..Len(Reply)
  BY <1>3
<1>6. Headed(rgot)
  BY <1>1, <1>3, <1>4, <1>5 DEF BodyInv
<1>7. ~Announced
  <2> SUFFICES ASSUME NEW i \in 1..Len(Reply), Reply[i].ev = "rhead",
                      \A j \in 1..(i - 1) : Reply[j].ev \notin {"rend", "rbody"}
               PROVE  FALSE
    BY DEF Announced
  <2>1. i # 1
    BY <1>1, <1>3
  <2>2. 1 \in 1..(i - 1)
    BY <1>3, <2>1
  <2> QED
    BY <1>1, <1>3, <2>2
<1>8. ~(keep_alive /\ response_wants_close(req))
  BY <1>4, <1>6, <1>7 DEF CloseInv
<1>9. keep_alive' = keep_alive
  BY DEF TakenBody
<1>10. response_wants_close(req)' = response_wants_close(req)
  BY <1>1 DEF response_wants_close
<1>11. CloseInv'
  BY <1>8, <1>9, <1>10 DEF CloseInv
<1> QED
  BY <1>3, <1>11, EventGoal

\* The switch is seen.
LEMMA EventSwitch ==
  ASSUME TypeOK, CarryInv, SwitchInv, EventInv, TakenSwitch, SwitchInv'
  PROVE  EventInv'
<1>1. /\ pc = "process" /\ pc' = "switch" /\ events # <<>> /\ Head(events).ev = "switch"
      /\ events' = carry \o Tail(events)
      /\ UNCHANGED <<load, req, rgot, rx, bsent, holed, out>>
  BY DEF TakenSwitch, Taken, bus
<1>2. ~IsClient(Head(events))
  BY <1>1 DEF IsClient
<1>3. ReplyOf(events') = ReplyOf(Tail(events))
  BY <1>1, ReplyCarried
<1>4. /\ EndInv' /\ BodyInv' /\ Len(Reply) \in Nat /\ Reply[1] = Head(events)
      /\ Len(Reply) = Len(Reply') + 1 /\ Headed(rgot)' = Headed(rgot)
  BY <1>1, <1>2, <1>3, EventTake
<1>5. Reply' = <<>>
  BY <1>1 DEF SwitchInv, Reply
<1>6. Len(Reply) = 1
  BY <1>4, <1>5
<1>7. ~Announced
  <2> SUFFICES ASSUME NEW i \in 1..Len(Reply), Reply[i].ev = "rhead" PROVE FALSE
    BY DEF Announced
  <2>1. i = 1
    BY <1>6
  <2> QED
    BY <1>1, <1>4, <2>1
<1>8. CloseInv
  BY <1>1, EventParts DEF Exchange
<1>9. keep_alive' = keep_alive
  BY DEF TakenSwitch
<1>10. response_wants_close(req)' = response_wants_close(req) /\ Headless(req)' = Headless(req)
  BY <1>1 DEF response_wants_close, Headless, Answer
<1>11. CloseInv'
  BY <1>4, <1>7, <1>8, <1>9, <1>10 DEF CloseInv
<1> QED
  BY <1>4, <1>11, EventGoal

\* A piece of the body comes after the head.
InPlace(n) == Kinds[n] \in {"body", "raw"} => Headed(rgot')

\* What an accepted sample adds to the backend's side of the queue.
LEMMA ReplyAccepted ==
  ASSUME TypeOK, UNCHANGED <<load, req>>, NEW n \in Nat, Accepted(n)
  PROVE  \E t \in Seq(EventRec) :
           /\ Reply' = Reply \o t
           /\ \A i \in 1..Len(t) : t[i].ev = "rend" => i = Len(t) /\ Complete(rgot') /\ InPlace(n)
           /\ \A i \in 1..Len(t) : t[i].ev = "rbody" => Headed(rgot')
           /\ Kinds[n] = "head" => Len(t) >= 1 /\ t[1] = Event("rhead", n)
<1>1. events \in Seq(EventRec) /\ Reply \in Seq(EventRec)
  BY Typed, LineTypes DEF Reply
<1>2. rgot' = Append(rgot, n)
  BY DEF Accepted
<1>3. CASE events' = events /\ Kinds[n] \in {"body", "raw"}
  <2>1. Reply' = Reply
    BY <1>3 DEF Reply
  <2>2. Reply \o <<>> = Reply
    BY <1>1, ConcatEmptySeq
  <2>3. <<>> \in Seq(EventRec) /\ 1..Len(<<>>) = {}
    OBVIOUS
  <2> QED
    BY <1>3, <2>1, <2>2, <2>3
<1>4. CASE /\ events' = events \o ResponseEvents(n, rgot)
           /\ Kinds[n] \in {"body", "raw"} => Headed(rgot')
  <2> DEFINE t == ResponseEvents(n, rgot)
  <2>1. t \in Seq(EventRec) /\ ReplyOf(t) = t
    BY ResponseFacts, ResponseData
  <2>2. ReplyOf(events \o t) = ReplyOf(events) \o ReplyOf(t)
    BY <1>1, <2>1, SideConcat
  <2>3. Reply' = Reply \o t
    BY <1>4, <2>1, <2>2 DEF Reply
  <2>4. CASE Kinds[n] = "raw"
    <3>1. t = <<>>
      BY <2>4, ResponseFacts
    <3>2. 1..Len(<<>>) = {}
      OBVIOUS
    <3> QED
      BY <2>1, <2>3, <2>4, <3>1, <3>2
  <2>5. CASE Kinds[n] = "head" /\ Resp.framing = "switch"
    <3>1. t = <<Event("rhead", n), Event("switch", n)>>
      BY <2>5, ResponseFacts
    <3>2. Len(t) = 2 /\ t[1] = Event("rhead", n) /\ t[2] = Event("switch", n)
      BY <3>1
    <3>3. \A i \in 1..2 : t[i].ev \notin {"rend", "rbody"}
      BY <3>2 DEF Event
    <3> HIDE DEF t
    <3>4. \A i \in 1..Len(t) : t[i].ev # "rend" /\ t[i].ev # "rbody"
      BY <3>2, <3>3
    <3>5. Len(t) >= 1 /\ t[1] = Event("rhead", n)
      BY <3>2
    <3> QED
      BY <2>1, <2>3, <3>4, <3>5
  <2>6. CASE Kinds[n] # "raw" /\ ~(Kinds[n] = "head" /\ Resp.framing = "switch")
    <3> DEFINE e == Event(IF Kinds[n] = "body" THEN "rbody" ELSE "rhead", n)
               d == Event("rend", n)
    <3>1. t = <<e>> \o (IF Complete(rgot') THEN <<d>> ELSE <<>>)
      BY <1>2, <2>6, ResponseFacts
    <3>2. /\ e.ev = "rbody" => Kinds[n] = "body" /\ e.ev # "rend" /\ d.ev = "rend"
          /\ Kinds[n] = "head" => e = Event("rhead", n)
          /\ e.ev # "rend" /\ d.ev = "rend"
      BY DEF Event
    <3>3. Kinds[n] = "body" => Headed(rgot')
      BY <1>4
    <3> HIDE DEF e, d, t
    <3>4. CASE Complete(rgot')
      <4>1. t = <<e>> \o <<d>>
        BY <3>1, <3>4
      <4>2. Len(t) = 2 /\ t[1] = e /\ t[2] = d
        BY <4>1
      <4>3. \A i \in 1..2 : i = 1 \/ i = 2
        OBVIOUS
      <4>4. \A i \in 1..Len(t) : t[i].ev = "rend" => i = Len(t) /\ Complete(rgot') /\ InPlace(n)
        BY <1>4, <3>2, <3>4, <4>2, <4>3 DEF InPlace
      <4>5. \A i \in 1..Len(t) : t[i].ev = "rbody" => Headed(rgot')
        BY <3>2, <3>3, <4>2, <4>3
      <4>6. Kinds[n] = "head" => Len(t) >= 1 /\ t[1] = Event("rhead", n)
        BY <3>2, <4>2
      <4> QED
        BY <2>1, <2>3, <4>4, <4>5, <4>6
    <3>5. CASE ~Complete(rgot')
      <4>1. t = <<e>> \o <<>>
        BY <3>1, <3>5
      <4>2. Len(t) = 1 /\ t[1] = e
        BY <4>1
      <4>3. \A i \in 1..1 : i = 1
        OBVIOUS
      <4>4. \A i \in 1..Len(t) : t[i].ev = "rend" => i = Len(t) /\ Complete(rgot') /\ InPlace(n)
        BY <3>2, <4>2, <4>3
      <4>5. \A i \in 1..Len(t) : t[i].ev = "rbody" => Headed(rgot')
        BY <3>2, <3>3, <4>2, <4>3
      <4>6. Kinds[n] = "head" => Len(t) >= 1 /\ t[1] = Event("rhead", n)
        BY <3>2, <4>2
      <4> QED
        BY <2>1, <2>3, <4>4, <4>5, <4>6
    <3> QED
      BY <3>4, <3>5
  <2> QED
    BY <2>4, <2>5, <2>6
<1> QED
  BY <1>3, <1>4 DEF Accepted

\* The parser's samples and what is to come, one by one.
LEMMA LineTyped ==
  TypeOK => Coming \in Seq(Nat) /\ rgot \in Seq(Nat) /\ SamplesOf(rx) \in Seq(Nat)
BY LineTypes

\* The front of an ascending sequence ascends.
LEMMA AscPrefix ==
  ASSUME NEW a \in Seq(Nat), NEW b \in Seq(Nat), NEW n \in Nat, Ascending(a \o b, n)
  PROVE  Ascending(a, n)
<1>1. b \o <<>> = b /\ a \o <<>> = a
  BY ConcatEmptySeq
<1>2. <<>> \in Seq(Nat)
  OBVIOUS
<1>3. Ascending(a \o (b \o <<>>), n)
  BY <1>1
<1>4. Ascending(a \o <<>>, n)
  BY <1>2, <1>3, AscDrop
<1> QED
  BY <1>1, <1>4

\* What the parser has of the response after an accepted sample.
LEMMA AcceptedFacts ==
  ASSUME TypeOK, TypeOK', req \in Req, LineInv', pc' \in Exchange \ {"splice"},
         UNCHANGED <<load, req>>, NEW n \in Nat, Accepted(n)
  PROVE  /\ Len(Kinds) \in Nat /\ Len(rgot) \in Nat /\ rgot \in Seq(Nat) /\ rgot' \in Seq(Nat)
         /\ Len(rgot') = Len(rgot) + 1 /\ rgot'[Len(rgot) + 1] = n
         /\ n \in 1..Len(Kinds) /\ Len(rgot') <= Len(Kinds) /\ Len(rgot') <= n
         /\ \A i \in 1..Len(rgot) : rgot[i] < n /\ rgot[i] \in Nat
         /\ \A i \in 1..Len(rgot) : rgot'[i] = rgot[i]
         /\ req \notin holed' => n = Len(rgot')
<1>1. rgot' = Append(rgot, n)
  BY DEF Accepted
<1>2. rgot \in Seq(Nat) /\ Len(Kinds) \in Nat
  BY Typed, KindsFacts
<1>3. /\ rgot' \in Seq(Nat) /\ Len(rgot') = Len(rgot) + 1 /\ Len(rgot) \in Nat
      /\ \A i \in 1..Len(rgot) : rgot'[i] = rgot[i]
      /\ rgot'[Len(rgot) + 1] = n
  BY <1>1, <1>2, AppendFacts
<1>4. Kinds' = Kinds /\ Resp' = Resp
  BY DEF Kinds, Resp
<1>5. Coming' \in Seq(Nat) /\ bsent' \in Nat
  <2>1. (TypeOK => Coming \in Seq(Nat) /\ rgot \in Seq(Nat) /\ SamplesOf(rx) \in Seq(Nat))'
    BY LineTyped, PTL
  <2>2. bsent' \in Nat
    BY DEF TypeOK
  <2> QED
    BY <2>1, <2>2
<1>6. Out' \in Nat /\ Out' <= Len(Kinds)
  BY <1>2, <1>4, <1>5 DEF Out
<1>7. /\ Ascending(rgot' \o Coming', Out')
      /\ req' \notin holed' => Line' = Run(0, Len(Line')) /\ Passed' = rgot'
  BY DEF LineInv
<1>8. Ascending(rgot', Out')
  BY <1>3, <1>5, <1>6, <1>7, AscPrefix
<1>9. (\A i \in 1..Len(rgot') : i <= rgot'[i]) /\ Len(rgot') <= Out'
  BY <1>6, <1>8, AscBound
<1> DEFINE k == Len(rgot)
<1>10. /\ k \in Nat /\ Len(rgot') = k + 1 /\ rgot'[k + 1] = n
       /\ \A i \in 1..k : rgot'[i] = rgot[i]
  BY <1>3
<1> HIDE DEF k
<1>11. k + 1 \in 1..(k + 1) /\ \A i \in 1..k : i \in 1..(k + 1) /\ i < k + 1
  BY <1>10
<1>12. /\ \A i, j \in 1..(k + 1) : i < j => rgot'[i] < rgot'[j]
       /\ \A i \in 1..(k + 1) : 1 <= rgot'[i] /\ rgot'[i] <= Out'
  BY <1>8, <1>10 DEF Ascending
<1>13. n \in 1..Len(Kinds) /\ k + 1 <= n /\ k + 1 <= Len(Kinds)
  <2>1. 1 <= n /\ n <= Out'
    BY <1>10, <1>11, <1>12
  <2>2. k + 1 <= n /\ k + 1 <= Out'
    BY <1>9, <1>10, <1>11
  <2> QED
    BY <1>2, <1>6, <1>10, <2>1, <2>2
<1>14. \A i \in 1..k : rgot[i] < n
  BY <1>10, <1>11, <1>12
<1>15. \A i \in 1..k : rgot[i] \in Nat
  BY <1>2 DEF k
<1>16. ASSUME req \notin holed' PROVE n = k + 1
  <2>1. Line' = Run(0, Len(Line')) /\ Line' = rgot' \o Coming'
    BY <1>7, <1>16 DEF Line
  <2>2. PICK m : m = Len(Line')
    OBVIOUS
  <2>3. m \in Nat
    <3>1. rgot' \o Coming' \in Seq(Nat)
      BY <1>3, <1>5
    <3> QED
      BY <2>1, <2>2, <3>1
  <2>4. Splits(rgot', Coming', m)
    BY <2>1, <2>2 DEF Splits
  <2>5. \A i \in 1..Len(rgot') : rgot'[i] = i
    BY <1>3, <1>5, <2>3, <2>4, RunPrefix
  <2> QED
    BY <1>10, <1>11, <2>5
<1> QED
  BY <1>2, <1>3, <1>10, <1>13, <1>14, <1>15, <1>16 DEF k

\* The sample that completes a response is its last, and its head has come.
LEMMA CompleteFacts ==
  ASSUME TypeOK, TypeOK', req \in Req, LineInv', pc' \in Exchange \ {"splice"},
         UNCHANGED <<load, req>>, NEW n \in Nat, Accepted(n), Complete(rgot'), InPlace(n)
  PROVE  /\ Resp.framing \notin {"close", "switch"} /\ Headed(rgot') /\ n = Len(Kinds)
         /\ \E k \in 1..Len(rgot') : rgot'[k] = Len(Kinds)
         /\ req \notin holed' => Len(rgot') = Len(Kinds)
<1>1. /\ Len(Kinds) \in Nat /\ Len(rgot) \in Nat /\ rgot \in Seq(Nat) /\ rgot' \in Seq(Nat)
      /\ Len(rgot') = Len(rgot) + 1 /\ rgot'[Len(rgot) + 1] = n
      /\ n \in 1..Len(Kinds) /\ Len(rgot') <= Len(Kinds) /\ Len(rgot') <= n
      /\ \A i \in 1..Len(rgot) : rgot[i] < n /\ rgot[i] \in Nat
      /\ \A i \in 1..Len(rgot) : rgot'[i] = rgot[i]
      /\ req \notin holed' => n = Len(rgot')
  BY AcceptedFacts
<1>2. /\ Resp.framing = "chunked" \/ Resp.framing = "length"
      /\ Resp.framing = "chunked" => Len(Kinds) \in ToSet(rgot')
      /\ Resp.framing = "length" => Len(rgot') = Len(Kinds)
  BY Zenon DEF Complete, Kinds
<1>3. n = Len(Kinds)
  <2>1. CASE Resp.framing = "length"
    BY <1>1, <1>2, <2>1
  <2>2. CASE Resp.framing = "chunked"
    <3>1. PICK i \in DOMAIN rgot' : rgot'[i] = Len(Kinds)
      BY <1>2, <2>2 DEF ToSet
    <3>2. i \in 1..(Len(rgot) + 1)
      BY <1>1, <3>1
    <3>3. CASE i = Len(rgot) + 1
      BY <1>1, <3>1, <3>3
    <3>4. CASE i \in 1..Len(rgot)
      <4>1. rgot[i] = Len(Kinds) /\ rgot[i] < n
        BY <1>1, <3>1, <3>4
      <4> QED
        BY <1>1, <4>1
    <3> QED
      BY <1>1, <3>2, <3>3, <3>4
  <2> QED
    BY <1>2, <2>1, <2>2
<1>4. Headed(rgot')
  <2>1. Kinds[n] = "head" => Headed(rgot')
    <3>1. rgot' = Append(rgot, n)
      BY DEF Accepted
    <3> QED
      BY <1>1, <3>1, HeadedAppend
  <2>2. Kinds[n] \in {"body", "raw"} => Headed(rgot')
    BY DEF InPlace
  <2>3. PICK h \in 1..Len(Kinds) : \A i \in 1..Len(Kinds) :
          /\ i < h => Kinds[i] = "interim"
          /\ i = h => Kinds[i] = "head"
          /\ i > h => Kinds[i] = (IF Resp.framing = "switch" THEN "raw" ELSE "body")
    BY KindsFacts
  <2>4. Kinds[n] \in {"head", "body", "raw"}
    <3>1. n = h \/ n > h
      BY <1>1, <1>3, <2>3
    <3> QED
      BY <1>1, <2>3, <3>1
  <2> QED
    BY <2>1, <2>2, <2>4
<1>5. \E k \in 1..Len(rgot') : rgot'[k] = Len(Kinds)
  <2>1. Len(rgot) + 1 \in 1..Len(rgot')
    BY <1>1
  <2> QED
    BY <1>1, <1>3, <2>1
<1> QED
  BY <1>1, <1>2, <1>3, <1>4, <1>5

\* Nothing is accepted past the end of a response, unless a loss cut it.
LEMMA PastEnd ==
  ASSUME TypeOK, TypeOK', req \in Req, LineInv', pc' \in Exchange \ {"splice"},
         UNCHANGED <<load, req>>, NEW n \in Nat, Accepted(n), EndFacts, holed \subseteq holed'
  PROVE  Loose /\ rx = <<>> /\ bsent = Len(Kinds) + 1
<1>1. /\ Len(Kinds) \in Nat /\ Len(rgot) \in Nat
      /\ Len(rgot') = Len(rgot) + 1
      /\ n \in 1..Len(Kinds) /\ Len(rgot') <= Len(Kinds)
      /\ \A i \in 1..Len(rgot) : rgot[i] < n /\ rgot[i] \in Nat
  BY AcceptedFacts
<1>2. Resp.framing = "close"
  <2> SUFFICES ASSUME Resp.framing # "close" PROVE FALSE
    OBVIOUS
  <2>1. PICK k \in 1..Len(rgot) : rgot[k] = Len(Kinds)
    BY DEF EndFacts
  <2> QED
    BY <1>1, <2>1
<1>3. req \in holed
  <2> SUFFICES ASSUME req \notin holed PROVE FALSE
    OBVIOUS
  <2>1. Len(rgot) = Len(Kinds)
    BY DEF EndFacts
  <2> QED
    BY <1>1, <2>1
<1> QED
  BY <1>2, <1>3 DEF EndFacts, Loose

\* A push of the backend's bytes.
LEMMA EventPush ==
  ASSUME TypeOK, TypeOK', req \in Req, LineInv', EventInv,
         pc \in Exchange \ {"splice"}, pc' \in Exchange \ {"splice"},
         UNCHANGED <<load, req, out, bsent>>, keep_alive' = keep_alive,
         NEW off \in Seq(Nat), Len(off) <= 1, PushResp(off), holed \subseteq holed',
         rx' = rx \/ rx # <<>>
  PROVE  EventInv'
<1>1. /\ rgot \in Seq(Nat) /\ events \in Seq(EventRec) /\ Reply \in Seq(EventRec)
      /\ residue \in [{"up", "down"} -> Seq(Nat)]
  BY Typed, LineTypes DEF Reply
<1>2. Resp' = Resp /\ Kinds' = Kinds
  BY DEF Resp, Kinds
<1>3. EndInv /\ BodyInv /\ CloseInv
  BY EventParts
<1>4. /\ response_wants_close(req)' = response_wants_close(req) /\ Headless(req)' = Headless(req)
  BY DEF response_wants_close, Headless, Answer
<1>5. Loose => Loose'
  BY <1>2 DEF Loose
<1>6. Held(off) \/ (Len(off) = 1 /\ off[1] \in Nat /\ Accepted(off[1]))
  BY <1>1, PushOne
<1>7. CASE Held(off)
  <2>1. rgot' = rgot /\ Reply' = Reply
    BY <1>7 DEF Held, Reply
  <2>2. Headed(rgot)' = Headed(rgot) /\ Announced' = Announced
    BY <1>2, <2>1 DEF Headed, Announced
  <2>3. BodyInv' /\ CloseInv'
    BY <1>3, <1>4, <2>1, <2>2 DEF BodyInv, CloseInv
  <2>4. EndFacts => EndFacts'
    BY <1>2, <2>1, <2>2 DEF EndFacts
  <2>5. EndInv'
    BY <1>3, <1>5, <2>1, <2>4 DEF EndInv
  <2> QED
    BY <2>3, <2>5, EventGoal
<1>8. CASE Len(off) = 1 /\ off[1] \in Nat /\ Accepted(off[1])
  <2>1. PICK n \in Nat : Accepted(n)
    BY <1>8
  <2>2. PICK t \in Seq(EventRec) :
           /\ Reply' = Reply \o t
           /\ \A i \in 1..Len(t) : t[i].ev = "rend" => i = Len(t) /\ Complete(rgot') /\ InPlace(n)
           /\ \A i \in 1..Len(t) : t[i].ev = "rbody" => Headed(rgot')
           /\ Kinds[n] = "head" => Len(t) >= 1 /\ t[1] = Event("rhead", n)
    BY <2>1, ReplyAccepted
  <2> DEFINE a == Len(Reply)
             b == Len(t)
             w == Reply
  <2>3. /\ a \in Nat /\ b \in Nat /\ Len(Reply') = a + b
        /\ \A i \in 1..(a + b) : Reply'[i] = IF i <= a THEN w[i] ELSE t[i - a]
    <3>1. /\ Len(w \o t) = Len(w) + Len(t) /\ Len(w) \in Nat /\ Len(t) \in Nat
          /\ \A i \in 1..(Len(w) + Len(t)) : (w \o t)[i] = IF i <= Len(w) THEN w[i] ELSE t[i - Len(w)]
      <4>1. w \in Seq(EventRec)
        BY <1>1
      <4> HIDE DEF w
      <4> QED
        BY <4>1, ConcatProperties
    <3> QED
      BY <2>2, <3>1
  <2>4. /\ \A i \in 1..b : t[i].ev = "rend" => i = b /\ Complete(rgot') /\ InPlace(n)
        /\ \A i \in 1..b : t[i].ev = "rbody" => Headed(rgot')
        /\ Kinds[n] = "head" => b >= 1 /\ t[1] = Event("rhead", n)
    BY <2>2
  <2>5. /\ \A i \in 1..a : w[i].ev = "rend" => EndFacts /\ (i = a \/ Loose)
        /\ \A i \in 1..a : w[i].ev = "rbody" => Headed(rgot)
    BY <1>3 DEF EndInv, BodyInv
  <2>6. Headed(rgot') <=> (Headed(rgot) \/ Kinds[n] = "head")
    <3>1. rgot' = Append(rgot, n)
      BY <2>1 DEF Accepted
    <3> QED
      BY <1>1, <3>1, HeadedAppend
  <2>7. Headed(rgot)' = Headed(rgot')
    BY <1>2 DEF Headed
  <2> HIDE DEF a, b, w
  <2>8. \A i \in 1..(a + b) : \/ i \in 1..a /\ Reply'[i] = w[i]
                              \/ i - a \in 1..b /\ Reply'[i] = t[i - a]
    BY <2>3
  <2>9. BodyInv'
    <3> SUFFICES ASSUME NEW i \in 1..(a + b), Reply'[i].ev = "rbody" PROVE Headed(rgot')
      BY <2>3, <2>7 DEF BodyInv
    <3> QED
      BY <2>4, <2>5, <2>6, <2>8
  <2>10. EndInv'
    <3> SUFFICES ASSUME NEW i \in 1..(a + b), Reply'[i].ev = "rend"
                 PROVE  EndFacts' /\ (i = a + b \/ Loose')
      BY <2>3 DEF EndInv
    <3>1. CASE i \in 1..a /\ Reply'[i] = w[i]
      <4>1. EndFacts
        BY <2>5, <3>1
      <4>2. Loose /\ rx = <<>> /\ bsent = Len(Kinds) + 1
        BY <2>1, <4>1, PastEnd
      <4>3. rx' = <<>> /\ Loose'
        BY <1>5, <4>2
      <4>4. Headed(rgot)'
        BY <2>6, <2>7, <4>1 DEF EndFacts
      <4> QED
        BY <1>2, <4>2, <4>3, <4>4 DEF EndFacts, Loose
    <3>2. CASE i - a \in 1..b /\ Reply'[i] = t[i - a]
      <4>1. i - a = b /\ Complete(rgot') /\ InPlace(n)
        BY <2>4, <3>2
      <4>2. i = a + b
        BY <2>3, <4>1
      <4>3. /\ Resp.framing \notin {"close", "switch"} /\ Headed(rgot')
            /\ \E k \in 1..Len(rgot') : rgot'[k] = Len(Kinds)
            /\ req \notin holed' => Len(rgot') = Len(Kinds)
        BY <2>1, <4>1, CompleteFacts
      <4>4. EndFacts'
        BY <1>2, <2>7, <4>3 DEF EndFacts
      <4> QED
        BY <4>2, <4>4
    <3> QED
      BY <2>8, <3>1, <3>2
  <2>11. CloseInv'
    <3> SUFFICES ASSUME keep_alive, response_wants_close(req)
                 PROVE  Headless(req) /\ (Headed(rgot') => Announced')
      BY <1>4, <2>7 DEF CloseInv
    <3>1. Headless(req) /\ (Headed(rgot) => Announced)
      BY <1>3 DEF CloseInv
    <3>2. ASSUME Headed(rgot) PROVE Announced'
      <4>1. PICK i \in 1..a :
              /\ w[i].ev = "rhead" /\ Kinds[w[i].at] = "head"
              /\ \A j \in 1..(i - 1) : w[j].ev \notin {"rend", "rbody"}
        BY <3>1, <3>2 DEF Announced, a, w
      <4>2. i \in 1..(a + b) /\ Reply'[i] = w[i] /\ i <= a
        BY <2>3
      <4>3. \A j \in 1..(i - 1) : Reply'[j] = w[j]
        BY <2>3, <4>2
      <4> QED
        BY <1>2, <2>3, <4>1, <4>2, <4>3 DEF Announced
    <3>3. ASSUME ~Headed(rgot), Headed(rgot') PROVE Announced'
      <4>1. Kinds[n] = "head" /\ b >= 1 /\ t[1] = Event("rhead", n)
        BY <2>4, <2>6, <3>3
      <4>2. a + 1 \in 1..(a + b) /\ Reply'[a + 1] = t[1]
        <5>1. a + 1 \in 1..(a + b) /\ ~(a + 1 <= a) /\ (a + 1) - a = 1
          BY <2>3, <4>1
        <5> QED
          BY <2>3, <5>1
      <4>3. \A j \in 1..a : Reply'[j] = w[j] /\ w[j].ev \notin {"rend", "rbody"}
        <5>1. \A j \in 1..a : j \in 1..(a + b) /\ j <= a
          BY <2>3
        <5> QED
          BY <2>3, <2>5, <3>3, <5>1 DEF EndFacts
      <4>4. PICK m : m = a + 1
        OBVIOUS
      <4>7. Event("rhead", n).ev = "rhead" /\ Event("rhead", n).at = n
        BY DEF Event
      <4>8. m \in 1..Len(Reply') /\ m - 1 = a /\ Reply'[m] = Event("rhead", n)
        BY <2>3, <4>1, <4>2, <4>4
      <4>5. /\ m \in 1..Len(Reply') /\ Reply'[m].ev = "rhead" /\ Kinds'[Reply'[m].at] = "head"
            /\ m - 1 = a
        BY <1>2, <4>1, <4>7, <4>8
      <4>6. \A j \in 1..(m - 1) : Reply'[j].ev \notin {"rend", "rbody"}
        BY <4>3, <4>5
      <4> QED
        BY <4>5, <4>6 DEF Announced
    <3> QED
      BY <3>1, <3>2, <3>3
  <2> QED
    BY <2>9, <2>10, <2>11, EventGoal
<1> QED
  BY <1>6, <1>7, <1>8

\* The EOF marker ends a response framed by the close.
LEMMA EventFin ==
  ASSUME TypeOK, SentInv, LineInv, EventInv, LineInv', SelectRecv, Head(rx) = 0
  PROVE  EventInv'
<1> DEFINE e == Event("rend", 0)
<1>1. /\ pc = "select" /\ pc' = "offer" /\ rx # <<>> /\ rx' = Tail(rx) /\ FinResp
      /\ holed' = (IF resp_pending = <<>> THEN holed ELSE holed \cup {req})
      /\ UNCHANGED <<load, req, out, bsent, rgot, resp_pending>> /\ keep_alive' = keep_alive
  BY DEF SelectRecv, Goto, ctl, FinResp
<1>2. /\ e \in EventRec /\ e.ev = "rend" /\ Reply \in Seq(EventRec)
      /\ \/ Reply' = Reply
         \/ /\ Reply' = Append(Reply, e)
            /\ Resp.framing = "close" /\ Headed(rgot)
  BY <1>1, FinReply DEF Reply, Event
<1> HIDE DEF e
<1>3. EndInv /\ BodyInv /\ CloseInv
  BY <1>1, EventParts DEF Exchange
<1>4. rx \in Seq(Nat) /\ req \in Req
  BY <1>1, Typed, ReqFacts DEF Exchange
<1>5. Len(Kinds) \in Nat
  BY <1>4, KindsFacts
<1>6. rx' = <<>> /\ bsent = Len(Kinds) + 1
  <2>1. \A i \in 1..Len(rx) : rx[i] = 0 => i = Len(rx) /\ bsent = Len(Kinds) + 1
    BY <1>1 DEF LineInv, Exchange
  <2>2. Tail(rx) = <<>> /\ bsent = Len(Kinds) + 1
    BY <1>1, <1>4, <2>1, RxTail
  <2> QED
    BY <1>1, <2>2
<1>7. Resp' = Resp /\ Kinds' = Kinds
  BY <1>1 DEF Resp, Kinds
<1>8. /\ response_wants_close(req)' = response_wants_close(req) /\ Headless(req)' = Headless(req)
      /\ Headed(rgot)' = Headed(rgot)
  BY <1>1, <1>7 DEF response_wants_close, Headless, Answer, Headed
<1>9. holed \subseteq holed'
  BY <1>1
<1>10. EndFacts => EndFacts' /\ Resp.framing # "close"
  BY <1>1, <1>7, <1>8, <1>9 DEF EndFacts
<1>11. CASE Reply' = Reply
  <2>1. BodyInv'
    BY <1>3, <1>8, <1>11 DEF BodyInv
  <2>2. EndInv'
    BY <1>3, <1>10, <1>11 DEF EndInv, Loose
  <2>3. Announced' = Announced
    BY <1>7, <1>11 DEF Announced
  <2>4. CloseInv'
    BY <1>1, <1>3, <1>8, <2>3 DEF CloseInv
  <2> QED
    BY <2>1, <2>2, <2>4, EventGoal
<1>12. CASE Reply' = Append(Reply, e) /\ Resp.framing = "close" /\ Headed(rgot)
  <2> DEFINE w == Reply
             a == Len(Reply)
  <2>1. /\ Len(Reply') = a + 1 /\ a \in Nat
        /\ \A i \in 1..a : Reply'[i] = w[i]
        /\ Reply'[a + 1] = e
    BY <1>2, <1>12, AppendFacts
  <2>2. /\ \A i \in 1..a : w[i].ev # "rend"
    BY <1>3, <1>10, <1>12 DEF EndInv
  <2>3. EndFacts'
    <3>1. req \notin holed' => Len(rgot') = Len(Kinds')
      <4> SUFFICES ASSUME req \notin holed' PROVE Len(rgot') = Len(Kinds)
        BY <1>7
      <4>1. resp_pending' = <<>>
        BY <1>1
      <4>2. SamplesOf(rx') = <<>>
        BY <1>4, <1>6, SamplesFacts
      <4>3. Coming' = <<>>
        <5>1. <<>> \o <<>> = <<>>
          OBVIOUS
        <5> QED
          BY <4>1, <4>2, <5>1 DEF Coming
      <4>4. bsent' > Len(Kinds) /\ Resp'.framing = "close"
        BY <1>1, <1>5, <1>6, <1>7, <1>12
      <4>5. Passed' = rgot' /\ Len(Line') = Len(Kinds)
        BY <1>1, <1>7, <4>4 DEF LineInv, Exchange
      <4>6. rgot' \in Seq(Nat)
        BY <1>1, Typed
      <4>7. rgot' \o <<>> = rgot'
        BY <4>6, ConcatEmptySeq
      <4>8. Line' = rgot'
        BY <4>3, <4>5, <4>7 DEF Line
      <4> QED
        BY <4>5, <4>8
    <3> QED
      BY <1>1, <1>6, <1>7, <1>8, <1>12, <3>1 DEF EndFacts
  <2> HIDE DEF w, a
  <2>4. \A i \in 1..(a + 1) : i \in 1..a \/ i = a + 1
    BY <2>1
  <2>5. EndInv'
    BY <2>1, <2>2, <2>3, <2>4 DEF EndInv
  <2>6. BodyInv'
    BY <1>8, <1>12 DEF BodyInv
  <2>7. Announced => Announced'
    <3> SUFFICES ASSUME Announced PROVE Announced'
      OBVIOUS
    <3>1. PICK i \in 1..a :
            /\ w[i].ev = "rhead" /\ Kinds[w[i].at] = "head"
            /\ \A j \in 1..(i - 1) : w[j].ev \notin {"rend", "rbody"}
      BY DEF Announced, w, a
    <3>2. i \in 1..(a + 1) /\ \A j \in 1..(i - 1) : j \in 1..a
      BY <2>1, <3>1
    <3> QED
      BY <1>7, <2>1, <3>1, <3>2 DEF Announced
  <2>8. CloseInv'
    BY <1>1, <1>3, <1>8, <2>7 DEF CloseInv
  <2> QED
    BY <2>5, <2>6, <2>8, EventGoal
<1> QED
  BY <1>2, <1>11, <1>12

\* The backend sends nothing after the end of a response framed by the close.
LEMMA EventBackend ==
  ASSUME TypeOK, SentInv, EventInv, Backend
  PROVE  EventInv'
<1>1. /\ pc \in Exchange /\ pc' = pc
      /\ UNCHANGED <<load, req, events, rgot, out>>
      /\ Resp' = Resp /\ Kinds' = Kinds
  BY BackendFrame
<1>2. keep_alive' = keep_alive
  BY BackendFrame
<1>3. req \in Req /\ bsent \in Nat
  BY <1>1, ReqFacts DEF TypeOK
<1>4. Len(Kinds) \in Nat
  BY <1>3, KindsFacts
<1>5. bsent <= Len(Kinds)
  BY <1>3, <1>4 DEF Backend, Kinds
<1>6. holed \subseteq holed'
  BY DEF Backend, Arrives
<1> SUFFICES ASSUME pc \in Exchange \ {"splice"} PROVE EventInv'
  BY <1>1 DEF EventInv
<1>7. EndInv /\ BodyInv /\ CloseInv
  BY EventParts
<1>8. Reply' = Reply /\ Headed(rgot)' = Headed(rgot) /\ Headless(req)' = Headless(req)
      /\ response_wants_close(req)' = response_wants_close(req)
  BY <1>1 DEF Reply, Headed, Headless, Answer, response_wants_close
<1>9. Announced' = Announced
  BY <1>1, <1>8 DEF Announced
<1>10. EndFacts => EndFacts' /\ (Loose => Loose')
  <2> SUFFICES ASSUME EndFacts PROVE EndFacts' /\ (Loose => Loose')
    OBVIOUS
  <2>1. Resp.framing # "close"
    <3>1. bsent # Len(Kinds) + 1
      BY <1>3, <1>4, <1>5
    <3> QED
      BY <3>1 DEF EndFacts
  <2>2. rgot' = rgot /\ Resp' = Resp /\ Kinds' = Kinds /\ req' = req
    BY <1>1
  <2> QED
    BY <1>6, <1>8, <2>1, <2>2 DEF EndFacts, Loose
<1>11. EndInv' /\ BodyInv'
  BY <1>1, <1>7, <1>8, <1>10 DEF EndInv, BodyInv
<1>12. CloseInv'
  BY <1>2, <1>7, <1>8, <1>9 DEF CloseInv
<1> QED
  BY <1>11, <1>12, EventGoal

\* Every step keeps what the backend's events promise.
LEMMA EventNext == Inv /\ [Next]_vars => EventInv'
<1> SUFFICES ASSUME Inv, [Next]_vars PROVE EventInv'
  OBVIOUS
<1>1. /\ TypeOK /\ FeedInv /\ CarryInv /\ SentInv /\ UpInv /\ SwitchInv /\ LineInv /\ EventInv
  BY DEF Inv
<1>0. TypeOK' /\ SwitchInv' /\ LineInv'
  BY TypeNext, SwitchNext, LineNext
<1>2. CASE pc' \notin Exchange \ {"splice"}
  BY <1>2 DEF EventInv
<1>3. CASE Pushed /\ pc' \in Exchange \ {"splice"}
  <2>1. /\ pc \in {"offer", "select"}
        /\ UNCHANGED <<load, req, rgot, rx, bsent, holed, out>> /\ keep_alive' = keep_alive
    BY <1>3 DEF Pushed, exch, bus, Exchange, Ahead
  <2>2. NoPreface
    BY <1>1, <2>1 DEF UpInv
  <2>3. ReplyOf(events') = ReplyOf(events)
    BY <1>1, <1>3, <2>2, ReplyPushed
  <2>4. pc \in Exchange \ {"splice"}
    BY <2>1 DEF Exchange
  <2> QED
    BY <1>1, <2>1, <2>3, <2>4, EventSame
<1>4. CASE Idle /\ pc' \in Exchange \ {"splice"}
  <2>1. /\ UNCHANGED <<load, req, rgot, rx, bsent, holed, out, events>> /\ keep_alive' = keep_alive
        /\ pc \in Exchange \ {"splice"}
    BY <1>4 DEF Idle, exch, bus, hist, Exchange
  <2> QED
    BY <1>1, <2>1, EventSame
<1>5. CASE TakenRequest \/ TakenAside
  <2>1. /\ UNCHANGED <<load, req, rgot, rx, bsent, holed, out>> /\ keep_alive' = keep_alive
        /\ pc = "process" /\ pc' = "process" /\ events # <<>>
        /\ Head(events).ev \in {"head", "body", "end"} /\ events' = Tail(events)
    BY <1>5 DEF TakenRequest, TakenAside, Taken, bus
  <2>2. ReplyOf(events') = ReplyOf(events)
    BY <1>1, <2>1, ReplyTaken DEF IsClient
  <2> QED
    BY <1>1, <2>1, <2>2, EventSame
<1>6. CASE TakenSwitch
  BY <1>0, <1>1, <1>6, EventSwitch
<1>7. CASE TakenAll
  <2>1. /\ UNCHANGED <<load, req, rgot, rx, bsent, holed, out>> /\ keep_alive' = keep_alive
        /\ pc = "process" /\ pc' = "select" /\ events = <<>> /\ events' = carry
    BY <1>7 DEF TakenAll, bus, hist
  <2>2. ReplyOf(events') = ReplyOf(events)
    BY <1>1, <2>1, ReplyCarried, SideEmpty
  <2> QED
    BY <1>1, <2>1, <2>2, EventSame DEF Exchange
<1>9. CASE SetupOk
  BY <1>9, EventSetup
<1>10. CASE Offered
  <2>1. /\ pc = "reoffer" /\ pc' = "process" /\ PushResp(resp_pending)
        /\ UNCHANGED <<load, req, out, bsent, rx, holed>> /\ keep_alive' = keep_alive
    BY <1>10 DEF Offered, bus, hist
  <2>2. resp_pending \in Seq(Nat) /\ Len(resp_pending) <= 1 /\ req \in Req
    BY <1>1, <2>1, Typed, ReqFacts DEF LineInv, Exchange
  <2>3. pc \in Exchange \ {"splice"} /\ pc' \in Exchange \ {"splice"} /\ holed \subseteq holed'
    BY <2>1 DEF Exchange
  <2> QED
    BY <1>0, <1>1, <2>1, <2>2, <2>3, EventPush
<1>11. CASE SelectRecv
  <2>1. CASE Head(rx) = 0
    BY <1>0, <1>1, <1>11, <2>1, EventFin
  <2>2. CASE Head(rx) # 0
    <3>1. /\ pc = "select" /\ pc' = "offer" /\ rx # <<>> /\ PushResp(<<Head(rx)>>)
          /\ holed \subseteq holed'
          /\ UNCHANGED <<load, req, out, bsent>> /\ keep_alive' = keep_alive
      BY <1>11, <2>2 DEF SelectRecv, Goto, ctl
    <3>2. rx \in Seq(Nat) /\ req \in Req
      BY <1>1, <3>1, Typed, ReqFacts DEF Exchange
    <3>3. Head(rx) \in Nat
      BY <3>1, <3>2, SamplesHead
    <3>4. <<Head(rx)>> \in Seq(Nat) /\ Len(<<Head(rx)>>) <= 1
      BY <3>3
    <3>5. pc \in Exchange \ {"splice"} /\ pc' \in Exchange \ {"splice"}
      BY <3>1 DEF Exchange
    <3> QED
      BY <1>0, <1>1, <3>1, <3>2, <3>4, <3>5, EventPush
  <2> QED
    BY <2>1, <2>2
<1>12. CASE TakenHead
  BY <1>1, <1>12, EventHead
<1>13. CASE TakenBody
  BY <1>1, <1>13, EventBody
<1>15. CASE Backend
  BY <1>1, <1>15, EventBackend
<1>16. CASE Quit \/ NextPop \/ RouteUnavailable \/ DiscardPop \/ TakenEnd \/ Abandoned
            \/ Teardown \/ Switched \/ SpliceUp \/ SpliceDown
  <2>1. pc' \notin Exchange \ {"splice"}
    BY <1>16 DEF Quit, NextPop, RouteUnavailable, DiscardPop, TakenEnd, Abandoned, Teardown,
       Switched, SpliceUp, SpliceDown, Goto, Exchange
  <2> QED
    BY <1>2, <2>1
<1> QED
  BY <1>1, <1>2, <1>3, <1>4, <1>5, <1>6, <1>7, <1>9, <1>10, <1>11, <1>12, <1>13,
     <1>15, <1>16, Kind

Free == {"next", "route", "consume", "discard", "setup"}

\* The response is over: what is kept for the next request.
Closed ==
  /\ Whole(req) \/ req \in holed
  /\ residue["down"] = <<>>
  /\ keep_alive => /\ Headless(req) \/ ~response_wants_close(req)
                   /\ ReplyOf(events) = <<>>

\* BetweenInv in parts.
LEMMA BetweenParts ==
  BetweenInv <=>
    /\ pc \in Free => (NoPreface => ReplyOf(events) = <<>>) /\ residue["down"] = <<>>
    /\ pc = "teardown" => /\ end # "Ok" => ~keep_alive
                          /\ end = "Ok" => response_done \/ Resp.framing = "switch"
                          /\ response_done => Closed
BY DEF BetweenInv, Free, Closed

\* Between two requests the backend's side is empty.
LEMMA BetweenFree ==
  ASSUME pc' \in Free, (NoPreface => ReplyOf(events) = <<>>)', residue'["down"] = <<>>
  PROVE  BetweenInv'
BY DEF BetweenInv, Free

\* An exchange that is given up.
LEMMA BetweenCut ==
  ASSUME pc' = "teardown", (end # "Ok" => ~keep_alive)',
         end' = "Ok" => Resp'.framing = "switch", ~response_done'
  PROVE  BetweenInv'
BY DEF BetweenInv

\* A queue without the backend's events stays one.
LEMMA TailNone ==
  ASSUME TypeOK, events # <<>>, ReplyOf(events) = <<>>
  PROVE  ReplyOf(Tail(events)) = <<>>
BY ReplyTaken

\* The end of the response is seen.
LEMMA BetweenEnd ==
  ASSUME TypeOK, FeedInv, CarryInv, SentInv, LineInv, EventInv, TakenEnd
  PROVE  BetweenInv'
<1>1. /\ pc = "process" /\ pc' = "teardown" /\ events # <<>> /\ Head(events).ev = "rend"
      /\ events' = carry \o Tail(events)
      /\ UNCHANGED <<load, req, rgot, rx, bsent, holed, out, residue, end>>
  BY DEF TakenEnd, Taken, bus
<1>2. response_done' = TRUE /\ keep_alive' = keep_alive
  BY DEF TakenEnd
<1>3. ~IsClient(Head(events))
  BY <1>1 DEF IsClient
<1>4. ReplyOf(events') = ReplyOf(Tail(events))
  BY <1>1, ReplyCarried
<1>5. /\ Len(Reply) \in Nat /\ Len(Reply') \in Nat /\ Reply[1] = Head(events)
      /\ Len(Reply) = Len(Reply') + 1 /\ Reply' \in Seq(EventRec)
  BY <1>1, <1>3, <1>4, EventTake
<1>6. EndInv /\ CloseInv
  BY <1>1, EventParts DEF Exchange
<1>7. 1 \in 1..Len(Reply)
  BY <1>5
<1>8. EndFacts /\ (Len(Reply) = 1 \/ Loose)
  BY <1>1, <1>5, <1>6, <1>7 DEF EndInv
<1>9. end = "Ok" /\ residue["down"] = <<>>
  BY <1>1, <1>8 DEF LineInv, Exchange, EndFacts
<1>10. Len(Reply) = 1 => ReplyOf(events') = <<>> /\ DataOf(ReplyOf(events)) = <<>>
  <2> SUFFICES ASSUME Len(Reply) = 1 PROVE ReplyOf(events') = <<>> /\ DataOf(ReplyOf(events)) = <<>>
    OBVIOUS
  <2>1. Reply' = <<>>
    <3>0. PICK m : m = Len(Reply')
      OBVIOUS
    <3>1. Len(Reply') = 0
      <4>1. m \in Nat /\ 1 = m + 1
        BY <1>5, <3>0
      <4>2. m = 0
        BY <4>1
      <4> QED
        BY <3>0, <4>2
    <3> QED
      BY <1>5, <3>1, EmptySeq
  <2>2. /\ ReplyOf(events) = <<Head(events)>> \o ReplyOf(Tail(events)) /\ Head(events) \in EventRec
    BY <1>1, <1>3, ReplyTaken
  <2>3. ReplyOf(Tail(events)) = <<>> /\ ReplyOf(events') = <<>>
    BY <1>4, <2>1 DEF Reply
  <2> DEFINE e == Head(events)
  <2>4. e \in EventRec /\ e.ev = "rend" /\ ReplyOf(events) = <<e>> \o <<>>
    BY <1>1, <2>2, <2>3
  <2> HIDE DEF e
  <2>5. <<e>> \o <<>> = <<e>>
    OBVIOUS
  <2>6. DataOf(<<e>>) = <<>>
    BY <2>4, SideOne
  <2> QED
    BY <2>3, <2>4, <2>5, <2>6
<1>11. Whole(req) \/ req \in holed
  <2> SUFFICES ASSUME req \notin holed PROVE Whole(req)
    OBVIOUS
  <2>1. Len(Reply) = 1 /\ Len(rgot) = Len(Kinds)
    BY <1>8 DEF EndFacts, Loose
  <2>2. Passed = rgot
    BY <1>1 DEF LineInv, Exchange
  <2>3. Written(req) \in Seq(Nat) /\ Len(Written(req)) = Len(Answer(req)) /\ Answer(req) \in Seq(OutRec)
    BY LineTypes
  <2>4. Passed = Written(req)
    <3>1. (Written(req) \o <<>>) \o <<>> = Written(req)
      BY <2>3, ConcatEmptySeq
    <3> QED
      BY <1>9, <1>10, <2>1, <3>1 DEF Passed
  <2>5. Len(Answer(req)) = Len(Kinds)
    BY <2>1, <2>2, <2>3, <2>4
  <2>6. \A i \in 1..Len(Answer(req)) : Answer(req)[i].kind = "sample"
    BY <1>1 DEF LineInv, Exchange
  <2>7. DOMAIN Answer(req) = 1..Len(Answer(req))
    BY <2>3
  <2> QED
    BY <2>5, <2>6, <2>7 DEF Whole, Kinds, Resp
<1>12. keep_alive => /\ Headless(req) \/ ~response_wants_close(req)
                     /\ ReplyOf(events') = <<>>
  <2> SUFFICES ASSUME keep_alive
               PROVE  (Headless(req) \/ ~response_wants_close(req)) /\ ReplyOf(events') = <<>>
    OBVIOUS
  <2>1. response_wants_close(req) => Headless(req) /\ Announced
    BY <1>6, <1>8 DEF CloseInv, EndFacts
  <2>2. ~Announced
    <3> SUFFICES ASSUME NEW i \in 1..Len(Reply), Reply[i].ev = "rhead",
                        \A j \in 1..(i - 1) : Reply[j].ev \notin {"rend", "rbody"}
                 PROVE  FALSE
      BY DEF Announced
    <3>1. i # 1
      BY <1>1, <1>5
    <3>2. 1 \in 1..(i - 1)
      BY <1>5, <3>1
    <3> QED
      BY <1>1, <1>5, <3>2
  <2>3. ~response_wants_close(req)
    BY <2>1, <2>2
  <2>4. ~Loose
    BY <2>3 DEF Loose, response_wants_close, Resp
  <2> QED
    BY <1>8, <1>10, <2>3, <2>4
<1>13. /\ Whole(req)' = Whole(req) /\ Headless(req)' = Headless(req)
       /\ response_wants_close(req)' = response_wants_close(req)
  BY <1>1 DEF Whole, Headless, Answer, response_wants_close
<1>14. Closed'
  BY <1>1, <1>2, <1>9, <1>11, <1>12, <1>13 DEF Closed
<1>15. BetweenInv' <=> (
    /\ pc \in Free => (NoPreface => ReplyOf(events) = <<>>) /\ residue["down"] = <<>>
    /\ pc = "teardown" => /\ end # "Ok" => ~keep_alive
                          /\ end = "Ok" => response_done \/ Resp.framing = "switch"
                          /\ response_done => Closed)'
  BY BetweenParts, PTL
<1>16. pc' \notin Free
  BY <1>1 DEF Free
<1> QED
  BY <1>1, <1>2, <1>9, <1>14, <1>15, <1>16

\* Every step keeps what holds from one request to the next.
LEMMA BetweenNext == Inv /\ [Next]_vars => BetweenInv'
<1> SUFFICES ASSUME Inv, [Next]_vars PROVE BetweenInv'
  OBVIOUS
<1>1. /\ TypeOK /\ FeedInv /\ CarryInv /\ SentInv /\ UpInv /\ SwitchInv /\ LineInv /\ EventInv
      /\ BetweenInv
  BY DEF Inv
<1>0. load' = load
  BY <1>1, LoadKept
<1>20. NoPreface' = NoPreface
  BY <1>0 DEF NoPreface, Script
<1>21. pc \in Free => (NoPreface => ReplyOf(events) = <<>>) /\ residue["down"] = <<>>
  BY <1>1, BetweenParts
<1>2. CASE pc' \notin Free \cup {"teardown"}
  BY <1>2 DEF BetweenInv, Free
<1>3. CASE Pushed /\ pc' \in Free \cup {"teardown"}
  <2>1. pc \in Free /\ pc' \in Free
    BY <1>3 DEF Pushed, Ahead, Free
  <2>2. NoPreface => ReplyOf(events') = <<>>
    BY <1>21, <1>1, <1>3, <2>1, ReplyPushed
  <2>3. residue'["down"] = <<>>
    <3>1. residue \in [{"up", "down"} -> Seq(Nat)]
      BY <1>1, Typed
    <3>2. PICK k \in Nat : Accepts(k, inp')
      BY <1>1, <1>3, PushedRun
    <3> QED
      BY <1>21, <2>1, <3>1, <3>2 DEF Accepts
  <2> QED
    BY <1>20, <2>1, <2>2, <2>3, BetweenFree
<1>4. CASE Idle /\ pc' \in Free
  <2>1. pc \in Free /\ UNCHANGED <<events, residue>>
    BY <1>4 DEF Idle, Free
  <2> QED
    BY <1>20, <1>21, <1>4, <2>1, BetweenFree
<1>5. CASE Idle /\ pc' = "teardown" /\ pc = "teardown"
  <2>1. UNCHANGED <<load, req, events, residue, out, holed, end>>
    BY <1>5 DEF Idle, exch, hist
  <2>2. response_done' = response_done /\ keep_alive' = keep_alive
    BY <1>5 DEF Idle, exch
  <2>3. /\ Whole(req)' = Whole(req) /\ Headless(req)' = Headless(req)
        /\ response_wants_close(req)' = response_wants_close(req) /\ Resp' = Resp
    BY <2>1 DEF Whole, Headless, Answer, response_wants_close, Resp
  <2> QED
    BY <1>1, <1>5, <2>1, <2>2, <2>3 DEF BetweenInv
<1>6. CASE (SpliceUp \/ SpliceDown \/ (Idle /\ pc # "teardown")) /\ pc' = "teardown"
  <2>1. pc = "splice" /\ UNCHANGED <<load, req, end>>
    BY <1>6 DEF SpliceUp, SpliceDown, Idle, ctl, exch
  <2>2. response_done' = response_done
    BY <1>6 DEF SpliceUp, SpliceDown, Idle, exch
  <2>3. end = "Ok" /\ Resp.framing = "switch" /\ ~response_done
    BY <1>1, <2>1 DEF LineInv, SwitchInv, FeedInv, Exchange
  <2>4. Resp' = Resp
    BY <2>1 DEF Resp
  <2> QED
    BY <1>6, <2>1, <2>2, <2>3, <2>4, BetweenCut
<1>7. CASE NextPop
  <2>1. /\ pc = "next" /\ events # <<>> /\ events' = Tail(events) /\ residue' = residue
        /\ pc' \in Free
    BY <1>7 DEF NextPop, Goto, Free
  <2>2. NoPreface => ReplyOf(events') = <<>>
    BY <1>21, <1>1, <2>1, TailNone DEF Free
  <2>3. residue["down"] = <<>>
    BY <1>21, <2>1 DEF Free
  <2> QED
    BY <1>20, <2>1, <2>2, <2>3, BetweenFree
<1>8. CASE RouteUnavailable
  <2>1. pc = "route" /\ pc' = "consume" /\ UNCHANGED <<events, residue>>
    BY <1>8 DEF RouteUnavailable, Goto, par
  <2> QED
    BY <1>20, <1>21, <2>1, BetweenFree DEF Free
<1>9. CASE DiscardPop
  <2>1. /\ pc = "discard" /\ pc' \in Free /\ events # <<>> /\ residue' = residue
        /\ events' = events \/ events' = Tail(events)
    BY <1>9 DEF DiscardPop, Goto, Free
  <2>2. NoPreface => ReplyOf(events') = <<>>
    BY <1>21, <1>1, <2>1, TailNone DEF Free
  <2>3. residue["down"] = <<>>
    BY <1>21, <2>1 DEF Free
  <2> QED
    BY <1>20, <2>1, <2>2, <2>3, BetweenFree
<1>10. CASE Teardown /\ pc' \in Free
  <2>1. pc = "teardown" /\ UNCHANGED <<events, residue>> /\ Reusable
    BY <1>10 DEF Teardown, Goto, par, Free
  <2>2. Closed /\ keep_alive
    BY <1>1, <2>1, BetweenParts DEF Reusable
  <2> QED
    BY <1>10, <2>1, <2>2, BetweenFree DEF Closed
<1>11. CASE TakenEnd
  BY <1>1, <1>11, BetweenEnd
<1>12. CASE Abandoned
  <2>1. /\ pc \in {"process", "select"} /\ pc' = "teardown" /\ end' # "Ok"
    BY <1>12 DEF Abandoned
  <2>2. keep_alive' = FALSE /\ response_done' = response_done
    BY <1>12 DEF Abandoned
  <2>3. ~response_done
    BY <1>1, <2>1 DEF FeedInv, Exchange
  <2> QED
    BY <2>1, <2>2, <2>3, BetweenCut
<1>16. CASE Quit \/ SetupOk \/ Offered \/ TakenRequest \/ TakenAside \/ TakenHead \/ TakenBody
            \/ TakenSwitch \/ TakenAll \/ SelectRecv \/ Switched \/ Backend
  <2>1. pc' \notin Free \cup {"teardown"}
    BY <1>16, BackendFrame DEF Quit, SetupOk, Offered, TakenRequest, TakenAside, TakenHead,
       TakenBody, TakenSwitch, TakenAll, SelectRecv, Switched, Taken, Goto, Exchange, Free
  <2> QED
    BY <1>2, <2>1
<1>17. CASE (SpliceUp \/ SpliceDown \/ Teardown) /\ pc' \notin Free \cup {"teardown"}
  BY <1>2, <1>17
<1>18. (SpliceUp \/ SpliceDown => pc' \in {"splice", "teardown"})
       /\ (Teardown => pc' \in {"next", "finish"})
  BY DEF SpliceUp, SpliceDown, Teardown, Goto
<1>19. "splice" \notin Free \cup {"teardown"} /\ "finish" \notin Free \cup {"teardown"}
       /\ "next" \in Free
  BY DEF Free
<1> QED
  BY <1>1, <1>2, <1>3, <1>4, <1>5, <1>6, <1>7, <1>8, <1>9, <1>10, <1>11, <1>12,
     <1>16, <1>17, <1>18, <1>19, Kind

\* The answers one by one.
Shaped(r) ==
  \A i \in DOMAIN Answer(r) :
    \/ Len(Answer(r)) = 1 /\ Answer(r)[1].kind # "sample"
    \/ /\ Answer(r)[i].kind = "sample"
       /\ IF r \in holed
          THEN i > 1 => Answer(r)[i].at > Answer(r)[i - 1].at
          ELSE Answer(r)[i].at = i

InOrder == \A i, j \in DOMAIN out : i < j => out[i].req <= out[j].req

\* AnswersInOrder is the order of the answers, and the shape of each.
LEMMA OrderParts == AnswersInOrder <=> InOrder /\ \A r \in Req : Shaped(r)
BY DEF AnswersInOrder, InOrder, Shaped

\* The front of a concatenation, element by element.
LEMMA PrefixAt ==
  ASSUME NEW a \in Seq(Nat), NEW b \in Seq(Nat)
  PROVE  /\ a \o b \in Seq(Nat) /\ Len(a) \in Nat /\ Len(a \o b) \in Nat /\ Len(a) <= Len(a \o b)
         /\ \A i \in 1..Len(a) : i \in 1..Len(a \o b) /\ (a \o b)[i] = a[i]
<1>1. /\ a \o b \in Seq(Nat) /\ Len(a) \in Nat /\ Len(b) \in Nat /\ Len(a \o b) = Len(a) + Len(b)
      /\ \A i \in 1..(Len(a) + Len(b)) : (a \o b)[i] = IF i <= Len(a) THEN a[i] ELSE b[i - Len(a)]
  BY ConcatProperties
<1> DEFINE m == Len(a)
           n == Len(b)
<1>2. /\ m \in Nat /\ n \in Nat /\ Len(a \o b) = m + n
      /\ \A i \in 1..(m + n) : (a \o b)[i] = IF i <= m THEN a[i] ELSE b[i - m]
  BY <1>1
<1> HIDE DEF m, n
<1>3. \A i \in 1..m : i \in 1..(m + n) /\ i <= m
  BY <1>2
<1>4. m <= m + n /\ m + n \in Nat
  BY <1>2
<1> QED
  BY <1>1, <1>2, <1>3, <1>4 DEF m

\* What was written of the response that is on its way is in order.
LEMMA ShapedExchange == TypeOK /\ LineInv /\ pc \in Exchange => Shaped(req)
<1> SUFFICES ASSUME TypeOK, LineInv, pc \in Exchange PROVE Shaped(req)
  OBVIOUS
<1> DEFINE W == Written(req)
           D == DataOf(ReplyOf(events))
           R == residue["down"]
           A == Answer(req)
<1>1. /\ W \in Seq(Nat) /\ D \in Seq(Nat) /\ R \in Seq(Nat) /\ Coming \in Seq(Nat)
      /\ A \in Seq(OutRec) /\ Len(W) = Len(A) /\ Len(A) \in Nat
      /\ \A i \in 1..Len(A) : W[i] = A[i].at
      /\ Line \in Seq(Nat)
  BY LineTypes
<1>2. Line = ((W \o D) \o R) \o Coming
  BY DEF Line, Passed
<1> HIDE DEF W, D, R
<1>3. /\ W \o D \in Seq(Nat) /\ \A i \in 1..Len(W) : i \in 1..Len(W \o D) /\ (W \o D)[i] = W[i]
  BY <1>1, PrefixAt
<1>4. /\ (W \o D) \o R \in Seq(Nat)
      /\ \A i \in 1..Len(W \o D) : i \in 1..Len((W \o D) \o R) /\ ((W \o D) \o R)[i] = (W \o D)[i]
  BY <1>1, <1>3, PrefixAt
<1> DEFINE P == (W \o D) \o R
<1>5. P \in Seq(Nat) /\ \A i \in 1..Len(W) : i \in 1..Len(P) /\ P[i] = W[i]
  BY <1>3, <1>4
<1>6. Line = P \o Coming
  BY <1>2
<1> HIDE DEF P
<1>7. \A i \in 1..Len(P) : i \in 1..Len(P \o Coming) /\ (P \o Coming)[i] = P[i]
  BY <1>1, <1>5, PrefixAt
<1>8. \A i \in 1..Len(A) : i \in 1..Len(Line) /\ Line[i] = A[i].at
  BY <1>1, <1>5, <1>6, <1>7
<1>9. \A i \in 1..Len(A) : A[i].kind = "sample"
  BY DEF LineInv
<1>10. DOMAIN A = 1..Len(A)
  BY <1>1
<1>11. CASE req \in holed
  <2>1. \A i, j \in 1..Len(Line) : i < j => Line[i] < Line[j]
    BY DEF LineInv, Ascending
  <2>2. \A i \in 1..Len(A) : i > 1 => A[i].at > A[i - 1].at
    <3> SUFFICES ASSUME NEW i \in 1..Len(A), i > 1 PROVE A[i].at > A[i - 1].at
      OBVIOUS
    <3>1. i - 1 \in 1..Len(A) /\ i - 1 < i
      BY <1>1
    <3>2. i \in 1..Len(Line) /\ i - 1 \in 1..Len(Line) /\ Line[i] = A[i].at /\ Line[i - 1] = A[i - 1].at
      BY <1>8, <3>1
    <3>3. Line[i - 1] < Line[i]
      BY <2>1, <3>1, <3>2
    <3>5. Line \in Seq(Nat)
      BY <1>1
    <3>6. \A j \in 1..Len(Line) : Line[j] \in Nat
      BY <3>5
    <3>4. Line[i] \in Nat /\ Line[i - 1] \in Nat
      BY <3>2, <3>6
    <3> QED
      BY <3>2, <3>3, <3>4
  <2> QED
    BY <1>9, <1>10, <1>11, <2>2 DEF Shaped
<1>12. CASE req \notin holed
  <2>1. Line = Run(0, Len(Line))
    BY <1>12 DEF LineInv
  <2>2. PICK m : m = Len(Line)
    OBVIOUS
  <2>3. m \in Nat
    BY <1>1, <2>2
  <2>4. 0 <= m /\ m - 0 = m
    BY <2>3
  <2>5. \A i \in 1..(m - 0) : Run(0, m)[i] = 0 + i
    BY <2>3, <2>4, RunFacts
  <2>6. \A i \in 1..m : Line[i] = i
    <3> SUFFICES ASSUME NEW i \in 1..m PROVE Line[i] = i
      OBVIOUS
    <3>1. Run(0, m)[i] = 0 + i /\ 0 + i = i
      BY <2>4, <2>5
    <3> QED
      BY <2>1, <2>2, <3>1
  <2>7. \A i \in 1..Len(A) : A[i].at = i
    BY <1>8, <2>2, <2>6
  <2> QED
    BY <1>9, <1>10, <1>12, <2>7 DEF Shaped
<1> QED
  BY <1>11, <1>12

\* The same of the next state.
LEMMA ShapedNext ==
  ASSUME TypeOK', LineInv', pc' \in Exchange
  PROVE  Shaped(req)'
<1>1. (TypeOK /\ LineInv /\ pc \in Exchange => Shaped(req))'
  BY ShapedExchange, PTL
<1> QED
  BY <1>1

\* An answer that has not changed.
LEMMA ShapedSame ==
  ASSUME NEW r, Shaped(r), Answer(r)' = Answer(r), r \in holed <=> r \in holed'
  PROVE  Shaped(r)'
BY DEF Shaped

\* The bridge's own answer, where nothing was written.
LEMMA ShapedOwn ==
  ASSUME NEW r, NEW e \in OutRec, Answer(r)' = Append(<<>>, e), e.kind # "sample"
  PROVE  Shaped(r)'
<1>1. Append(<<>>, e) = <<e>> /\ Len(<<e>>) = 1 /\ <<e>>[1] = e
  OBVIOUS
<1> QED
  BY <1>1 DEF Shaped

\* A settled request stays settled while its answer stands.
LEMMA SettledSame ==
  ASSUME NEW r, Settled(r), load' = load, sent'[r] = sent[r], Answer(r)' = Answer(r),
         r \in holed => r \in holed'
  PROVE  Settled(r)'
<1>1. /\ Forwarded(r)' = Forwarded(r) /\ Headless(r)' = Headless(r) /\ Whole(r)' = Whole(r)
      /\ response_wants_close(r)' = response_wants_close(r)
  BY DEF Forwarded, Headless, Whole, response_wants_close
<1> QED
  BY <1>1 DEF Settled

\* Nothing is written; something of this request's answer; or the connection's
\* last word, on the request that did not come.
Wrote(e) == e \in OutRec /\ out' = Append(out, e)

Silent == out' = out
Answered(e) ==
  /\ Wrote(e) /\ e.req = req /\ req \in Req /\ pc \notin {"finish", "done"}
  /\ \/ pc' \in Exchange
     \/ Answer(req) = <<>> /\ e.kind # "sample" /\ pc' \in {"finish", "teardown"}
     \/ Answer(req) = <<>> /\ e.kind = "refused" /\ pc = "route" /\ pc' = "consume"
LastWord(e) ==
  Wrote(e) /\ e.req = req + 1 /\ e.kind = "error" /\ pc = "next" /\ pc' = "finish"

\* What a step writes to the client.
LEMMA WroteKinds ==
  ASSUME Inv, [Next]_vars
  PROVE  \/ Silent
         \/ \E e : Answered(e)
         \/ \E e : LastWord(e)
         \/ Switched
<1>1. TypeOK /\ SentInv /\ HistoryInv /\ FeedInv
  BY DEF Inv
<1>2. Len(load.resp) \in Nat /\ req \in Nat /\ req <= Len(load.resp) /\ events \in Seq(EventRec)
      /\ Answer(req) \in Seq(OutRec) /\ rx \in Seq(Nat)
  BY <1>1, Typed, LineTypes
<1>3. CASE out' = out
  BY <1>3 DEF Silent
<1>4. CASE TakenHead \/ TakenBody
  <2>1. /\ pc = "process" /\ pc' = "process" /\ events # <<>> /\ Write(req, "sample", Head(events).at)
    BY <1>4 DEF TakenHead, TakenBody, Taken
  <2>2. req \in Req /\ req \in 1..(Len(load.resp) + 1)
    BY <1>1, <2>1, ReqFacts DEF Exchange
  <2>3. Head(events) \in EventRec
    BY <1>2, <2>1, SideHead
  <2>4. Head(events).at \in Nat
    BY <2>3 DEF EventRec
  <2>5. Answered([req |-> req, kind |-> "sample", at |-> Head(events).at])
    BY <2>1, <2>2, <2>4 DEF Answered, Wrote, Write, OutRec, Exchange
  <2> QED
    BY <2>5
<1>5. CASE SpliceDown /\ out' # out
  <2>1. pc = "splice" /\ pc' = "splice" /\ rx # <<>> /\ Write(req, "sample", Head(rx))
    BY <1>5 DEF SpliceDown, Goto
  <2>2. req \in Req /\ req \in 1..(Len(load.resp) + 1)
    BY <1>1, <2>1, ReqFacts DEF Exchange
  <2>3. Head(rx) \in Nat
    BY <1>2, <2>1, SamplesHead
  <2>5. Answered([req |-> req, kind |-> "sample", at |-> Head(rx)])
    BY <2>1, <2>2, <2>3 DEF Answered, Wrote, Write, OutRec, Exchange
  <2> QED
    BY <2>5
<1>6. CASE RouteUnavailable
  <2>1. pc = "route" /\ pc' = "consume" /\ Write(req, "refused", 0)
    BY <1>6 DEF RouteUnavailable, Goto
  <2>2. req \in Req /\ req \in 1..(Len(load.resp) + 1) /\ Answer(req) = <<>>
    BY <1>1, <2>1, ReqFacts DEF HistoryInv
  <2>5. Answered([req |-> req, kind |-> "refused", at |-> 0])
    BY <2>1, <2>2 DEF Answered, Wrote, Write, OutRec
  <2> QED
    BY <2>5
<1>7. CASE Abandoned /\ out' # out
  <2>1. pc \in {"process", "select"} /\ pc' = "teardown" /\ Untold
        /\ out' = Append(out, [req |-> req, kind |-> "error", at |-> 0])
    BY <1>7 DEF Abandoned, Told
  <2>2. req \in Req /\ req \in 1..(Len(load.resp) + 1)
    BY <1>1, <2>1, ReqFacts DEF Exchange
  <2>3. Answer(req) = <<>>
    <3>1. Len(Answer(req)) = 0
      BY <2>1 DEF Untold, WrittenSamples
    <3> QED
      BY <1>2, <3>1, EmptySeq
  <2>5. Answered([req |-> req, kind |-> "error", at |-> 0])
    BY <2>1, <2>2, <2>3 DEF Answered, Wrote, OutRec
  <2> QED
    BY <2>5
<1>8. CASE (Quit \/ Pushed) /\ out' # out /\ pc = "next"
  <2>1. pc' = "finish" /\ out' = Append(out, [req |-> req + 1, kind |-> "error", at |-> 0])
    BY <1>8 DEF Quit, Pushed, Told, Ahead
  <2>2. req + 1 \in 1..(Len(load.resp) + 1)
    BY <1>2
  <2>5. LastWord([req |-> req + 1, kind |-> "error", at |-> 0])
    BY <1>8, <2>1, <2>2 DEF LastWord, Wrote, OutRec
  <2> QED
    BY <2>5
<1>9. CASE Quit /\ out' # out /\ pc = "route"
  <2>1. pc' = "finish" /\ out' = Append(out, [req |-> req, kind |-> "error", at |-> 0])
    BY <1>9 DEF Quit, Told
  <2>2. req \in Req /\ req \in 1..(Len(load.resp) + 1) /\ Answer(req) = <<>>
    BY <1>1, <1>9, ReqFacts DEF HistoryInv
  <2>5. Answered([req |-> req, kind |-> "error", at |-> 0])
    BY <1>9, <2>1, <2>2 DEF Answered, Wrote, OutRec
  <2> QED
    BY <2>5
<1>10. (Quit => pc \in {"next", "route"}) /\ (Pushed /\ out' # out => pc = "next")
  BY DEF Quit, Pushed
<1>11. CASE Idle \/ NextPop \/ DiscardPop \/ SetupOk \/ Offered \/ TakenRequest \/ TakenAside
            \/ TakenEnd \/ TakenSwitch \/ TakenAll \/ SelectRecv \/ SpliceUp \/ Teardown \/ Backend
  BY <1>11, BackendFrame DEF Idle, NextPop, DiscardPop, SetupOk, Offered, TakenRequest, TakenAside,
     TakenEnd, TakenSwitch, TakenAll, SelectRecv, SpliceUp, Teardown, hist, Silent
<1> QED
  BY <1>1, <1>3, <1>4, <1>5, <1>6, <1>7, <1>8, <1>9, <1>10, <1>11, Kind

\* The number of the request moves on with its head, and only then.
LEMMA Onward ==
  ASSUME FeedInv, [Next]_vars
  PROVE  \/ req' = req
         \/ /\ req' = req + 1 /\ pc = "next" /\ pc' = "route"
            /\ UNCHANGED <<sent, out, holed, outcome>>
<1>1. CASE NextPop
  BY <1>1 DEF NextPop, Goto, hist
<1>2. CASE Pushed \/ Idle \/ Quit \/ RouteUnavailable \/ DiscardPop
         \/ SetupOk \/ Offered \/ TakenRequest \/ TakenAside \/ TakenHead \/ TakenBody
         \/ TakenEnd \/ TakenSwitch \/ TakenAll \/ Abandoned \/ SelectRecv
         \/ Switched \/ SpliceUp \/ SpliceDown \/ Teardown \/ Backend
  BY <1>2, BackendFrame DEF Pushed, Idle, Quit, RouteUnavailable, DiscardPop, SetupOk, Offered,
     TakenRequest, TakenAside, TakenHead, TakenBody, TakenEnd, TakenSwitch, TakenAll, Taken,
     Abandoned, SelectRecv, Switched, SpliceUp, SpliceDown, Teardown, ctl
<1> QED
  BY <1>1, <1>2, Kind

\* A sample is lost of this request's response, and only while it is on its way.
LEMMA Lost ==
  ASSUME TypeOK, SentInv, FeedInv, [Next]_vars
  PROVE  /\ holed \subseteq holed' /\ holed' \subseteq holed \cup {req}
         /\ holed' # holed => pc' \in Exchange /\ req \in Req
<1>1. CASE Backend
  <2>1. pc \in Exchange /\ pc' = pc
    BY <1>1, BackendFrame
  <2>2. req \in Req
    BY <2>1, ReqFacts
  <2> QED
    BY <1>1, <2>1, <2>2 DEF Backend, Arrives
<1>2. CASE SelectRecv
  <2>1. pc = "select" /\ pc' = "offer"
    BY <1>2 DEF SelectRecv, Goto
  <2>2. req \in Req
    BY <2>1, ReqFacts DEF Exchange
  <2> QED
    BY <1>2, <2>1, <2>2 DEF SelectRecv, Exchange
<1>3. CASE Pushed \/ Idle \/ Quit \/ NextPop \/ RouteUnavailable \/ DiscardPop
         \/ SetupOk \/ Offered \/ TakenRequest \/ TakenAside \/ TakenHead \/ TakenBody
         \/ TakenEnd \/ TakenSwitch \/ TakenAll \/ Abandoned
         \/ Switched \/ SpliceUp \/ SpliceDown \/ Teardown
  <2>1. holed' = holed
    BY <1>3 DEF Pushed, Idle, Quit, NextPop, RouteUnavailable, DiscardPop, SetupOk, Offered,
       TakenRequest, TakenAside, TakenHead, TakenBody, TakenEnd, TakenSwitch, TakenAll, Taken,
       Abandoned, Switched, SpliceUp, SpliceDown, Teardown, hist
  <2> QED
    BY <2>1
<1> QED
  BY <1>1, <1>2, <1>3, Kind

\* Only this request's bytes are put.
LEMMA PutOnly ==
  ASSUME TypeOK, FeedInv, [Next]_vars
  PROVE  \A r \in Req : r # req => sent'[r] = sent[r]
<1>1. sent \in [Req -> Seq(0..Len(Script))]
  BY DEF TypeOK
<1>2. ASSUME NEW t, sent' = [sent EXCEPT ![req] = t]
      PROVE  \A r \in Req : r # req => sent'[r] = sent[r]
  BY <1>1, <1>2
<1>3. CASE sent' = sent
  BY <1>3
<1>4. CASE SetupOk \/ TakenRequest \/ Switched \/ SpliceUp \/ Teardown
  <2>1. sent' = sent \/ \E t : sent' = [sent EXCEPT ![req] = t]
    BY <1>4 DEF SetupOk, TakenRequest, Switched, SpliceUp, Teardown, Put
  <2> QED
    BY <1>2, <1>3, <2>1
<1>5. CASE Pushed \/ Idle \/ Quit \/ NextPop \/ RouteUnavailable \/ DiscardPop
         \/ Offered \/ TakenAside \/ TakenHead \/ TakenBody \/ SelectRecv
         \/ TakenEnd \/ TakenSwitch \/ TakenAll \/ Abandoned \/ SpliceDown \/ Backend
  <2>1. sent' = sent
    BY <1>5, BackendFrame DEF Pushed, Idle, Quit, NextPop, RouteUnavailable, DiscardPop, Offered,
       TakenAside, TakenHead, TakenBody, TakenEnd, TakenSwitch, TakenAll, Taken, SelectRecv,
       Abandoned, SpliceDown, hist
  <2> QED
    BY <1>3, <2>1
<1> QED
  BY <1>4, <1>5, Kind

\* The request in hand, by its number.
LEMMA SettledAt ==
  ASSUME NEW r, r = req', Settled(r)'
  PROVE  Settled(req)'
BY DEF Settled, Forwarded, Whole, Headless, Answer, response_wants_close

\* The same for the shape of its answer.
LEMMA ShapedAt ==
  ASSUME NEW r, r = req', Shaped(req)'
  PROVE  Shaped(r)'
BY DEF Shaped, Answer

\* The answers to the other requests stay.
LEMMA AnswerElse ==
  ASSUME Inv, [Next]_vars, NEW r, r # req
  PROVE  Answer(r)' = Answer(r) \/ (r = req + 1 /\ \E e : LastWord(e))
<1>1. /\ out \in Seq(OutRec) /\ load' = load /\ TypeOK /\ SentInv
  BY LineTypes, LoadKept DEF Inv
<1>2. CASE Silent
  BY <1>2 DEF Silent, Answer
<1>3. CASE \E e : Answered(e)
  <2>1. PICK e : e \in OutRec /\ out' = Append(out, e) /\ e.req = req
    BY <1>3 DEF Answered, Wrote
  <2> QED
    BY <1>1, <2>1, AnswerWrite
<1>4. CASE \E e : LastWord(e)
  <2>1. PICK e : e \in OutRec /\ out' = Append(out, e) /\ e.req = req + 1
    BY <1>4 DEF LastWord, Wrote
  <2>2. CASE r = req + 1
    BY <1>4, <2>2
  <2>3. CASE r # req + 1
    BY <1>1, <2>1, <2>3, AnswerWrite
  <2> QED
    BY <2>2, <2>3
<1>5. CASE Switched
  <2>1. /\ pc = "switch" /\ out' = out \o Samples(DownFirst)
    BY <1>5 DEF Switched
  <2>2. req \in 1..(Len(load.resp) + 1) /\ Len(load.resp) \in Nat
    BY <1>1, <2>1, ReqFacts, Typed DEF Exchange
  <2>3. resp_pending \in Seq(Nat) /\ residue["down"] \in Seq(Nat)
    BY <1>1, Typed
  <2>4. DownFirst \in Seq(Nat)
    BY <2>3 DEF DownFirst
  <2> QED
    BY <1>1, <2>1, <2>2, <2>4, AnswerSamples
<1> QED
  BY <1>2, <1>3, <1>4, <1>5, WroteKinds

\* The requests before this one stay settled.
LEMMA SettledBefore ==
  ASSUME Inv, [Next]_vars, NEW r \in 1..(req - 1)
  PROVE  Settled(r)'
<1>1. TypeOK /\ SentInv /\ FeedInv /\ HistoryInv
  BY DEF Inv
<1>2. req \in Nat /\ req <= Len(load.resp) /\ Len(load.resp) \in Nat
  BY <1>1, Typed
<1>3. r \in Req /\ r # req /\ r # req + 1
  BY <1>2 DEF Req
<1>4. Settled(r)
  BY <1>1 DEF HistoryInv
<1>5. Answer(r)' = Answer(r)
  BY <1>3, AnswerElse
<1>6. sent'[r] = sent[r]
  BY <1>1, <1>3, PutOnly
<1>7. r \in holed => r \in holed'
  BY <1>1, Lost
<1>8. load' = load
  BY <1>1, LoadKept
<1> QED
  BY <1>4, <1>5, <1>6, <1>7, <1>8, SettledSame

\* This one is settled when the next may come.
LEMMA SettledHere ==
  ASSUME Inv, [Next]_vars, pc' \in Ahead, req' > 0
  PROVE  Settled(req)'
<1>1. TypeOK /\ SentInv /\ FeedInv /\ HistoryInv /\ BetweenInv
  BY DEF Inv
<1>2. load' = load
  BY <1>1, LoadKept
<1>3. CASE pc \in Ahead /\ UNCHANGED <<sent, out, holed, req>>
  <2>1. PICK r : r = req
    OBVIOUS
  <2>2. Settled(r)
    BY <1>1, <1>3, <2>1 DEF HistoryInv, Ahead
  <2>3. Answer(r)' = Answer(r) /\ sent'[r] = sent[r] /\ (r \in holed => r \in holed')
    BY <1>3 DEF Answer
  <2>4. Settled(r)'
    BY <1>2, <2>2, <2>3, SettledSame
  <2> QED
    BY <1>3, <2>1, <2>4, SettledAt
<1>4. CASE Pushed \/ Idle \/ NextPop \/ DiscardPop
  <2>1. pc \in Ahead /\ UNCHANGED <<sent, out, holed, req>>
    BY <1>4 DEF Pushed, Idle, NextPop, DiscardPop, Ahead, Goto, hist, ctl
  <2> QED
    BY <1>3, <2>1
<1>5. CASE RouteUnavailable
  <2>1. /\ pc = "route" /\ Write(req, "refused", 0) /\ UNCHANGED <<load, req, sent>>
    BY <1>5 DEF RouteUnavailable, ctl
  <2>2. req \in Req /\ sent[req] = <<>> /\ Answer(req) = <<>>
    BY <1>1, <2>1 DEF SentInv, HistoryInv
  <2>3. Answer(req)' = Append(<<>>, [req |-> req, kind |-> "refused", at |-> 0])
    BY <1>1, <2>1, <2>2, WriteAnswer
  <2>4. Len(Answer(req)') = 1 /\ Answer(req)'[1].kind = "refused"
    BY <2>3
  <2>5. ~Forwarded(req)'
    BY <2>1, <2>2 DEF Forwarded
  <2> QED
    BY <2>4, <2>5 DEF Settled
<1>6. CASE Teardown
  <2>1. /\ pc = "teardown" /\ Put(<<0>>) /\ UNCHANGED <<load, req, out, holed>>
    BY <1>6 DEF Teardown
  <2>2. Reusable
    BY <1>6 DEF Teardown, Goto, Ahead
  <2>3. Closed /\ keep_alive
    BY <1>1, <2>1, <2>2, BetweenParts DEF Reusable
  <2>4. /\ Whole(req) \/ req \in holed
        /\ Headless(req) \/ ~response_wants_close(req)
    BY <2>3 DEF Closed
  <2>5. /\ Whole(req)' = Whole(req) /\ Headless(req)' = Headless(req)
        /\ response_wants_close(req)' = response_wants_close(req)
    BY <2>1 DEF Whole, Headless, response_wants_close, Answer
  <2>6. req \in Req
    BY <1>1, <2>1, ReqFacts
  <2>7. Forwarded(req)'
    <3>1. sent \in [Req -> Seq(0..Len(Script))]
      BY <1>1 DEF TypeOK
    <3>2. sent[req] \in Seq(0..Len(Script)) /\ sent'[req] = sent[req] \o <<0>>
      BY <2>1, <2>6, <3>1 DEF Put
    <3>3. sent[req] \in Seq(Nat)
      <4>1. Len(Script) \in Nat
        BY <1>1, Typed
      <4> QED
        BY <3>2, <4>1
    <3>4. sent[req] \o <<0>> = Append(sent[req], 0)
          /\ Len(Append(sent[req], 0)) = Len(sent[req]) + 1 /\ Len(sent[req]) \in Nat
      BY <3>3, AppendFacts
    <3>5. sent'[req] # <<>>
      BY <3>2, <3>4
    <3> QED
      BY <2>1, <3>5 DEF Forwarded
  <2> QED
    BY <2>1, <2>4, <2>5, <2>7 DEF Settled
<1>7. CASE Quit \/ SetupOk \/ Offered \/ TakenRequest \/ TakenAside \/ TakenHead \/ TakenBody
         \/ TakenEnd \/ TakenSwitch \/ TakenAll \/ Abandoned \/ SelectRecv
         \/ Switched \/ SpliceUp \/ SpliceDown \/ Backend
  <2>1. pc' \notin Ahead
    BY <1>7, BackendFrame DEF Quit, SetupOk, Offered,
       TakenRequest, TakenAside, TakenHead, TakenBody, TakenEnd, TakenSwitch, TakenAll, Taken,
       Abandoned, SelectRecv, Switched, SpliceUp, SpliceDown, Goto, Ahead, Exchange
  <2> QED
    BY <2>1
<1> QED
  BY <1>1, <1>4, <1>5, <1>6, <1>7, Kind

\* What is written is of this request.
Within == \A i \in 1..Len(out) : out[i].req <= req

\* Every response has been delivered.
AllWhole ==
  \A r \in Req : Forwarded(r) =>
    Whole(r) \/ r \in holed \/ load.resp[r].framing = "switch"

\* HistoryInv in parts.
LEMMA HistoryParts ==
  HistoryInv <=>
    /\ holed \subseteq 1..req
    /\ \A r \in 1..(req - 1) : Settled(r)
    /\ pc \in Ahead /\ req > 0 => Settled(req)
    /\ pc \in {"route", "setup"} => Answer(req) = <<>> /\ req \notin holed
    /\ pc \notin {"finish", "done"} => outcome = "Completed" /\ Within
    /\ pc \in {"finish", "done"} /\ outcome = "Completed" => AllWhole
    /\ AnswersInOrder
BY DEF HistoryInv, Within, AllWhole, Ahead, CompletedIsWhole

\* A request is new when its head is found.
LEMMA FreshNext ==
  ASSUME Inv, [Next]_vars, pc' \in {"route", "setup"}
  PROVE  Answer(req)' = <<>> /\ req' \notin holed'
<1>1. TypeOK /\ FeedInv /\ HistoryInv
  BY DEF Inv
<1>2. /\ holed \subseteq 1..req
      /\ pc \in {"route", "setup"} => Answer(req) = <<>> /\ req \notin holed
  BY <1>1, HistoryParts
<1>3. CASE Idle
  <2>1. pc \in {"route", "setup"} /\ UNCHANGED <<out, holed, req>>
    BY <1>3 DEF Idle, hist
  <2> QED
    BY <1>2, <2>1 DEF Answer
<1>4. CASE NextPop
  <2>1. pc = "next" /\ req' = req + 1 /\ UNCHANGED <<out, holed>>
    BY <1>4 DEF NextPop, Goto, hist
  <2>2. out \in Seq(OutRec) /\ req \in Nat /\ Len(load.resp) \in Nat
    BY <1>1, LineTypes, Typed
  <2>3. PICK r : r = req + 1
    OBVIOUS
  <2>4. \A i \in 1..Len(out) : out[i].req # r
    <3> SUFFICES ASSUME NEW i \in 1..Len(out) PROVE out[i].req # r
      OBVIOUS
    <3>0. Within
      BY <1>1, <2>1, HistoryParts
    <3>1. out[i].req <= req
      BY <3>0 DEF Within
    <3>2. out[i] \in OutRec
      BY <2>2
    <3>3. out[i].req \in Nat
      BY <2>2, <3>2 DEF OutRec
    <3> QED
      BY <2>2, <2>3, <3>1, <3>3
  <2>5. Answer(r) = <<>>
    BY <2>2, <2>4, AnswerNone
  <2>6. r \notin 1..req
    BY <2>2, <2>3
  <2>7. Answer(r)' = Answer(r)
    BY <2>1 DEF Answer
  <2>8. Answer(req)' = Answer(r)'
    BY <2>1, <2>3 DEF Answer
  <2>9. r \notin holed'
    BY <1>2, <2>1, <2>6
  <2> QED
    BY <2>1, <2>3, <2>5, <2>7, <2>8, <2>9
<1>5. CASE Pushed \/ Quit \/ RouteUnavailable \/ DiscardPop
         \/ SetupOk \/ Offered \/ TakenRequest \/ TakenAside \/ TakenHead \/ TakenBody
         \/ TakenEnd \/ TakenSwitch \/ TakenAll \/ Abandoned \/ SelectRecv
         \/ Switched \/ SpliceUp \/ SpliceDown \/ Teardown \/ Backend
  <2>1. pc' \notin {"route", "setup"}
    BY <1>5, BackendFrame DEF Pushed, Quit, RouteUnavailable, DiscardPop, SetupOk, Offered,
       TakenRequest, TakenAside, TakenHead, TakenBody, TakenEnd, TakenSwitch, TakenAll, Taken,
       Abandoned, SelectRecv, Switched, SpliceUp, SpliceDown, Teardown, Goto, Ahead, Exchange
  <2> QED
    BY <2>1
<1> QED
  BY <1>1, <1>3, <1>4, <1>5, Kind

\* The outcome stands until the connection ends.
LEMMA OutcomeNext ==
  ASSUME Inv, [Next]_vars, pc' \notin {"finish", "done"}
  PROVE  outcome' = "Completed" /\ pc \notin {"finish", "done"}
<1>1. TypeOK /\ FeedInv /\ HistoryInv /\ BetweenInv
  BY DEF Inv
<1>2. pc \notin {"finish", "done"} => outcome = "Completed"
  BY <1>1, HistoryParts
<1>3. CASE Teardown
  <2>1. pc = "teardown" /\ Reusable /\ outcome' = Closing
    BY <1>3 DEF Teardown, Goto
  <2>2. end = "Ok"
    BY <1>1, <2>1 DEF BetweenInv, Reusable
  <2>3. Closing = outcome
    BY <2>2, Zenon DEF Closing
  <2> QED
    BY <1>2, <2>1, <2>3
<1>4. CASE Backend
  BY <1>2, <1>4, BackendFrame DEF Exchange
<1>5. CASE Pushed \/ Idle \/ NextPop \/ Quit \/ RouteUnavailable \/ DiscardPop
         \/ SetupOk \/ Offered \/ SelectRecv
  <2>1. pc \notin {"finish", "done"} /\ outcome' = outcome
    BY <1>5 DEF Pushed, Idle, NextPop, Quit, RouteUnavailable, DiscardPop, SetupOk, Offered,
       SelectRecv, Goto, ctl, Ahead
  <2> QED
    BY <1>2, <2>1
<1>6. CASE TakenRequest \/ TakenAside \/ TakenHead \/ TakenBody
         \/ TakenEnd \/ TakenSwitch \/ TakenAll \/ Abandoned
         \/ Switched \/ SpliceUp \/ SpliceDown
  <2>1. pc \notin {"finish", "done"} /\ outcome' = outcome
    BY <1>6 DEF TakenRequest, TakenAside, TakenHead, TakenBody, TakenEnd, TakenSwitch, TakenAll,
       Taken, Abandoned, Switched, SpliceUp, SpliceDown, ctl
  <2> QED
    BY <1>2, <2>1
<1> QED
  BY <1>1, <1>3, <1>4, <1>5, <1>6, Kind

\* Between two requests, and after the last, every response is delivered.
LEMMA WholeBefore ==
  ASSUME TypeOK, SentInv, HistoryInv, NEW r \in Req, r # req, Forwarded(r)
  PROVE  Whole(r) \/ r \in holed
<1>1. req \in Nat /\ Len(load.resp) \in Nat
  BY Typed
<1>2. ~(r > req)
  BY DEF SentInv, Forwarded
<1>3. r \in 1..(req - 1)
  BY <1>1, <1>2 DEF Req
<1>4. Settled(r)
  BY <1>3 DEF HistoryInv
<1> QED
  BY <1>4 DEF Settled

\* A connection that ends as Completed has delivered everything.
LEMMA WholeNext ==
  ASSUME Inv, [Next]_vars, pc' \in {"finish", "done"}, outcome' = "Completed"
  PROVE  AllWhole'
<1>1. TypeOK /\ FeedInv /\ SentInv /\ HistoryInv /\ BetweenInv
  BY DEF Inv
<1>2. load' = load /\ req \in Nat
  BY <1>1, LoadKept, Typed
<1>3. CASE Idle
  <2>1. UNCHANGED <<sent, out, holed, req>> /\ (pc = "next" \/ pc \in {"finish", "done"})
    BY <1>3 DEF Idle, hist
  <2>2. outcome = "Completed"
    BY <1>3 DEF Idle
  <2>3. AllWhole
    <3>1. CASE pc \in {"finish", "done"}
      BY <1>1, <2>2, <3>1, HistoryParts
    <3>2. CASE pc = "next"
      <4> SUFFICES ASSUME NEW r \in Req, Forwarded(r) PROVE Whole(r) \/ r \in holed
        BY DEF AllWhole
      <4>1. CASE r # req
        BY <1>1, <4>1, WholeBefore
      <4>2. CASE r = req
        <5>1. req > 0
          BY <1>1, <4>2, Typed DEF Req
        <5>2. Settled(r)
          BY <1>1, <3>2, <4>2, <5>1 DEF HistoryInv
        <5> QED
          BY <5>2 DEF Settled
      <4> QED
        BY <4>1, <4>2
    <3> QED
      BY <2>1, <3>1, <3>2
  <2> QED
    BY <1>2, <2>1, <2>3 DEF AllWhole, Req, Forwarded, Whole, Answer
<1>4. CASE Teardown
  <2>1. /\ pc = "teardown" /\ UNCHANGED <<req, out, holed>> /\ outcome' = Closing
    BY <1>4 DEF Teardown
  <2>2. end = "Ok"
    <3> SUFFICES ASSUME end # "Ok" PROVE FALSE
      OBVIOUS
    <3>1. Closing \in {"Failed", "Reset"}
      BY Zenon DEF Closing
    <3> QED
      BY <2>1, <3>1
  <2>3. response_done \/ Resp.framing = "switch"
    BY <1>1, <2>1, <2>2, BetweenParts
  <2>4. Whole(req) \/ req \in holed \/ Resp.framing = "switch"
    BY <1>1, <2>1, <2>3, BetweenParts DEF Closed
  <2> SUFFICES ASSUME NEW r \in Req, Forwarded(r)'
               PROVE  Whole(r) \/ r \in holed \/ load.resp[r].framing = "switch"
    BY <1>2, <2>1 DEF AllWhole, Req, Whole, Answer
  <2>5. CASE r = req
    BY <2>4, <2>5 DEF Resp
  <2>6. CASE r # req
    <3>1. sent'[r] = sent[r]
      BY <1>1, <2>6, PutOnly
    <3>2. Forwarded(r)
      BY <3>1 DEF Forwarded
    <3> QED
      BY <1>1, <2>6, <3>2, WholeBefore
  <2> QED
    BY <2>5, <2>6
<1>5. CASE Pushed \/ Quit \/ NextPop \/ RouteUnavailable \/ DiscardPop
         \/ SetupOk \/ Offered \/ TakenRequest \/ TakenAside \/ TakenHead \/ TakenBody
         \/ TakenEnd \/ TakenSwitch \/ TakenAll \/ Abandoned \/ SelectRecv
         \/ Switched \/ SpliceUp \/ SpliceDown \/ Backend
  <2>1. pc' \notin {"finish", "done"} \/ outcome' = "Reset"
    BY <1>5, BackendFrame DEF Pushed, Quit, NextPop, RouteUnavailable, DiscardPop, SetupOk, Offered,
       TakenRequest, TakenAside, TakenHead, TakenBody, TakenEnd, TakenSwitch, TakenAll, Taken,
       Abandoned, SelectRecv, Switched, SpliceUp, SpliceDown, Goto, Ahead, Exchange
  <2> QED
    BY <2>1
<1> QED
  BY <1>1, <1>3, <1>4, <1>5, Kind

\* Something is written that is not of an earlier request.
LEMMA OrderAppend ==
  ASSUME TypeOK, InOrder, NEW e \in OutRec, out' = Append(out, e),
         \A i \in 1..Len(out) : out[i].req <= e.req
  PROVE  InOrder' /\ \A i \in 1..Len(out') : out'[i].req <= e.req
<1>1. out \in Seq(OutRec) /\ Len(load.resp) \in Nat
  BY LineTypes, Typed
<1>2. PICK m : m = Len(out)
  OBVIOUS
<1>3. /\ Len(out') = m + 1 /\ m \in Nat /\ out'[m + 1] = e
      /\ \A i \in 1..m : out'[i] = out[i]
      /\ DOMAIN out = 1..m /\ out' \in Seq(OutRec)
  BY <1>1, <1>2, AppendFacts
<1>4. DOMAIN out' = 1..(m + 1)
  BY <1>3
<1>5. e.req \in Nat
  BY <1>1 DEF OutRec
<1>6. \A i \in 1..(m + 1) : i \in 1..m \/ i = m + 1
  BY <1>3
<1>7. \A i \in 1..(m + 1) : out'[i].req <= e.req
  BY <1>2, <1>3, <1>5, <1>6
<1>8. \A i, j \in 1..(m + 1) : i < j => out'[i].req <= out'[j].req
  <2> SUFFICES ASSUME NEW i \in 1..(m + 1), NEW j \in 1..(m + 1), i < j
               PROVE  out'[i].req <= out'[j].req
    OBVIOUS
  <2>1. i \in 1..m
    BY <1>3
  <2>2. CASE j = m + 1
    BY <1>3, <1>7, <2>2
  <2>3. CASE j \in 1..m
    BY <1>3, <2>1, <2>3 DEF InOrder
  <2> QED
    BY <1>6, <2>2, <2>3
<1> QED
  BY <1>3, <1>4, <1>7, <1>8 DEF InOrder

\* The switch's first bytes are written.
LEMMA OrderSamples ==
  ASSUME TypeOK, InOrder, Within, NEW s \in Seq(Nat), req \in 1..(Len(load.resp) + 1),
         out' = out \o Samples(s), load' = load
  PROVE  InOrder' /\ \A i \in 1..Len(out') : out'[i].req <= req
<1>1. out \in Seq(OutRec) /\ Len(load.resp) \in Nat /\ req \in Nat
  BY LineTypes, Typed
<1>0. Samples(s) \in Seq(OutRec) /\ Len(Samples(s)) = Len(s)
  BY <1>1, AnswerSamples
<1> DEFINE w == Samples(s)
<1>2. \A i \in 1..Len(w) : w[i].req = req
  BY <1>0 DEF Samples
<1>3. w \in Seq(OutRec) /\ out' = out \o w
  BY <1>0
<1> HIDE DEF w
<1>4. PICK m : m = Len(out)
  OBVIOUS
<1>5. PICK n : n = Len(w)
  OBVIOUS
<1>6. /\ out \o w \in Seq(OutRec) /\ Len(out \o w) = Len(out) + Len(w)
      /\ \A i \in 1..(Len(out) + Len(w)) :
           (out \o w)[i] = IF i <= Len(out) THEN out[i] ELSE w[i - Len(out)]
  BY <1>1, <1>3, ConcatProperties
<1>7. /\ m \in Nat /\ n \in Nat /\ Len(out') = m + n /\ DOMAIN out = 1..m /\ out' \in Seq(OutRec)
      /\ \A i \in 1..(m + n) : out'[i] = IF i <= m THEN out[i] ELSE w[i - m]
  BY <1>1, <1>3, <1>4, <1>5, <1>6
<1>8. DOMAIN out' = 1..(m + n)
  BY <1>7
<1>9. \A i \in 1..(m + n) : \/ i \in 1..m /\ out'[i] = out[i]
                            \/ i > m /\ out'[i].req = req
  <2> SUFFICES ASSUME NEW i \in 1..(m + n), ~(i \in 1..m) PROVE i > m /\ out'[i].req = req
    BY <1>7
  <2>1. i > m /\ i - m \in 1..n /\ ~(i <= m)
    BY <1>7
  <2>2. out'[i] = w[i - m]
    BY <1>7, <2>1
  <2> QED
    BY <1>2, <1>5, <2>1, <2>2
<1>10. \A i \in 1..m : out[i].req <= req
  BY <1>4 DEF Within
<1>11. \A i \in 1..(m + n) : out'[i].req <= req
  <2> SUFFICES ASSUME NEW i \in 1..(m + n) PROVE out'[i].req <= req
    OBVIOUS
  <2>1. CASE i \in 1..m /\ out'[i] = out[i]
    BY <1>10, <2>1
  <2>2. CASE i > m /\ out'[i].req = req
    BY <1>1, <2>2
  <2> QED
    BY <1>9, <2>1, <2>2
<1>12. \A i, j \in 1..(m + n) : i < j => out'[i].req <= out'[j].req
  <2> SUFFICES ASSUME NEW i \in 1..(m + n), NEW j \in 1..(m + n), i < j
               PROVE  out'[i].req <= out'[j].req
    OBVIOUS
  <2>1. CASE j > m /\ out'[j].req = req
    BY <1>11, <2>1
  <2>2. CASE j \in 1..m /\ out'[j] = out[j]
    <3>1. i \in 1..m
      BY <1>7, <2>2
    <3>2. out'[i] = out[i]
      BY <1>7, <1>9, <3>1
    <3> QED
      BY <1>7, <2>2, <3>1, <3>2 DEF InOrder
  <2> QED
    BY <1>9, <2>1, <2>2
<1> QED
  BY <1>7, <1>8, <1>11, <1>12 DEF InOrder

\* The answers follow one another as the requests do.
LEMMA OrderNext ==
  ASSUME Inv, [Next]_vars
  PROVE  InOrder' /\ (pc' \notin {"finish", "done"} => Within')
<1>1. TypeOK /\ SentInv /\ FeedInv /\ HistoryInv
  BY DEF Inv
<1>2. /\ InOrder /\ (pc \notin {"finish", "done"} => Within)
      /\ req \in Nat /\ load' = load /\ Len(load.resp) \in Nat /\ out \in Seq(OutRec)
  BY <1>1, HistoryParts, OrderParts, Typed, LineTypes, LoadKept
<1>3. req' = req \/ req' = req + 1
  BY <1>1, Onward
<1>4. pc' \notin {"finish", "done"} => pc \notin {"finish", "done"}
  BY OutcomeNext
<1>5. \A i \in 1..Len(out) : out[i].req \in Nat
  <2> SUFFICES ASSUME NEW i \in 1..Len(out) PROVE out[i].req \in Nat
    OBVIOUS
  <2>1. out[i] \in OutRec
    BY <1>2
  <2> QED
    BY <1>2, <2>1 DEF OutRec
<1>6. CASE Silent
  <2>1. out' = out
    BY <1>6 DEF Silent
  <2>2. InOrder'
    BY <1>2, <2>1 DEF InOrder
  <2>3. ASSUME pc' \notin {"finish", "done"} PROVE Within'
    <3>1. Within
      BY <1>2, <1>4, <2>3
    <3>2. \A i \in 1..Len(out) : out[i].req <= req'
      BY <1>2, <1>3, <1>5, <3>1 DEF Within
    <3> QED
      BY <2>1, <3>2 DEF Within
  <2> QED
    BY <2>2, <2>3
<1>7. CASE \E e : Answered(e)
  <2>1. PICK e : e \in OutRec /\ out' = Append(out, e) /\ e.req = req /\ pc \notin {"finish", "done"}
    BY <1>7 DEF Answered, Wrote
  <2>2. InOrder' /\ \A i \in 1..Len(out') : out'[i].req <= req
    BY <1>1, <1>2, <2>1, OrderAppend DEF Within
  <2>3. req' = req
    <3>1. out' # out
      <4>1. Len(Append(out, e)) = Len(out) + 1 /\ Len(out) \in Nat
        BY <1>2, <2>1, AppendFacts
      <4> QED
        BY <2>1, <4>1
    <3> QED
      BY <1>1, <3>1, Onward
  <2> QED
    BY <2>2, <2>3 DEF Within
<1>8. CASE \E e : LastWord(e)
  <2>1. PICK e : /\ e \in OutRec /\ out' = Append(out, e) /\ e.req = req + 1 /\ pc = "next"
                 /\ pc' = "finish"
    BY <1>8 DEF LastWord, Wrote
  <2>2. \A i \in 1..Len(out) : out[i].req <= e.req
    BY <1>2, <1>5, <2>1 DEF Within
  <2>3. InOrder'
    BY <1>1, <1>2, <2>1, <2>2, OrderAppend
  <2> QED
    BY <2>1, <2>3
<1>9. CASE Switched
  <2>1. /\ pc = "switch" /\ out' = out \o Samples(DownFirst) /\ req' = req
    BY <1>9 DEF Switched, ctl
  <2>2. req \in 1..(Len(load.resp) + 1)
    BY <1>1, <2>1, ReqFacts DEF Exchange
  <2>3. resp_pending \in Seq(Nat) /\ residue["down"] \in Seq(Nat)
    BY <1>1, Typed
  <2>4. DownFirst \in Seq(Nat)
    BY <2>3 DEF DownFirst
  <2>5. InOrder' /\ \A i \in 1..Len(out') : out'[i].req <= req
    BY <1>1, <1>2, <2>1, <2>2, <2>4, OrderSamples
  <2> QED
    BY <2>1, <2>5 DEF Within
<1> QED
  BY <1>6, <1>7, <1>8, <1>9, WroteKinds

\* Every answer keeps its shape.
LEMMA ShapedKept ==
  ASSUME Inv, [Next]_vars, NEW r \in Req
  PROVE  Shaped(r)'
<1>1. TypeOK /\ SentInv /\ FeedInv /\ HistoryInv
  BY DEF Inv
<1>2. /\ Shaped(r) /\ req \in Nat /\ load' = load /\ Len(load.resp) \in Nat /\ out \in Seq(OutRec)
  BY <1>1, HistoryParts, OrderParts, Typed, LineTypes, LoadKept
<1>3. /\ holed \subseteq holed' /\ holed' \subseteq holed \cup {req}
      /\ holed' # holed => pc' \in Exchange
  BY <1>1, Lost
<1>4. CASE pc' \in Exchange /\ r = req'
  <2>1. TypeOK' /\ LineInv'
    BY TypeNext, LineNext
  <2>2. Shaped(req)'
    BY <1>4, <2>1, ShapedNext
  <2> QED
    BY <1>4, <2>2, ShapedAt
<1>5. CASE Answer(r)' = Answer(r) /\ ~(pc' \in Exchange /\ r = req')
  <2>1. r \in holed <=> r \in holed'
    <3>1. CASE pc' \in Exchange
      <4>1. req' = req
        BY <1>1, <3>1, Onward DEF Exchange
      <4>2. r # req
        BY <1>5, <3>1, <4>1
      <4> QED
        BY <1>3, <4>2
    <3>2. CASE pc' \notin Exchange
      BY <1>3, <3>2
    <3> QED
      BY <3>1, <3>2
  <2> QED
    BY <1>2, <1>5, <2>1, ShapedSame
<1>6. CASE Silent /\ ~(pc' \in Exchange /\ r = req')
  <2>1. Answer(r)' = Answer(r)
    BY <1>6 DEF Silent, Answer
  <2> QED
    BY <1>5, <1>6, <2>1
<1>7. CASE (\E e : Answered(e)) /\ ~(pc' \in Exchange /\ r = req')
  <2>1. CASE r # req
    <3>1. PICK e : e \in OutRec /\ out' = Append(out, e) /\ e.req = req
      BY <1>7 DEF Answered, Wrote
    <3>2. Answer(r)' = Answer(r)
      BY <1>2, <2>1, <3>1, AnswerWrite
    <3> QED
      BY <1>5, <1>7, <3>2
  <2>2. CASE r = req
    <3>1. PICK e : Answered(e)
      BY <1>7
    <3>2. e \in OutRec /\ out' = Append(out, e) /\ e.req = req
      BY <3>1 DEF Answered, Wrote
    <3>3. pc' \in Exchange => req' = req
      BY <1>1, Onward DEF Exchange
    <3>4. pc' \notin Exchange
      BY <1>7, <2>2, <3>3
    <3>5. Answer(req) = <<>> /\ e.kind # "sample"
      BY <3>1, <3>4 DEF Answered
    <3>6. Answer(r)' = Append(Answer(r), e)
      BY <1>2, <2>2, <3>2, AnswerWrite
    <3>7. Answer(r)' = Append(<<>>, e)
      BY <2>2, <3>5, <3>6
    <3> QED
      BY <3>2, <3>5, <3>7, ShapedOwn
  <2> QED
    BY <2>1, <2>2
<1>8. CASE \E e : LastWord(e)
  <2>1. PICK e : LastWord(e)
    BY <1>8
  <2>2. /\ e \in OutRec /\ out' = Append(out, e) /\ e.req = req + 1 /\ pc = "next"
        /\ pc' = "finish" /\ e.kind = "error"
    BY <2>1 DEF LastWord, Wrote
  <2>3. ~(pc' \in Exchange /\ r = req')
    BY <2>2 DEF Exchange
  <2>4. CASE r # req + 1
    <3>1. Answer(r)' = Answer(r)
      BY <1>2, <2>2, <2>4, AnswerWrite
    <3> QED
      BY <1>5, <2>3, <3>1
  <2>5. CASE r = req + 1
    <3>0. Within
      BY <1>1, <2>2, HistoryParts
    <3>1. \A i \in 1..Len(out) : out[i].req # r
      <4> SUFFICES ASSUME NEW i \in 1..Len(out) PROVE out[i].req # r
        OBVIOUS
      <4>1. out[i].req <= req
        BY <3>0 DEF Within
      <4>2. out[i] \in OutRec
        BY <1>2
      <4>3. out[i].req \in Nat
        BY <1>2, <4>2 DEF OutRec
      <4> QED
        BY <1>2, <2>5, <4>1, <4>3
    <3>2. Answer(r) = <<>>
      BY <1>2, <3>1, AnswerNone
    <3>3. Answer(r)' = Append(Answer(r), e)
      BY <1>2, <2>2, <2>5, AnswerWrite
    <3>4. Answer(r)' = Append(<<>>, e)
      BY <3>2, <3>3
    <3> QED
      BY <2>2, <3>4, ShapedOwn
  <2> QED
    BY <2>4, <2>5
<1>9. CASE Switched /\ ~(pc' \in Exchange /\ r = req')
  <2>1. /\ pc = "switch" /\ pc' = "splice" /\ req' = req
    BY <1>9 DEF Switched, ctl, Goto
  <2>2. r # req
    BY <1>9, <2>1 DEF Exchange
  <2>3. Answer(r)' = Answer(r)
    BY <2>1, <2>2, AnswerElse DEF LastWord
  <2> QED
    BY <1>5, <1>9, <2>3
<1> QED
  BY <1>4, <1>6, <1>7, <1>8, <1>9, WroteKinds

\* The history of the connection.
LEMMA HistoryKept == Inv /\ [Next]_vars => HistoryInv'
<1> SUFFICES ASSUME Inv, [Next]_vars PROVE HistoryInv'
  OBVIOUS
<1>1. TypeOK /\ SentInv /\ FeedInv /\ HistoryInv
  BY DEF Inv
<1>2. /\ req \in Nat /\ load' = load /\ Len(load.resp) \in Nat /\ holed \subseteq 1..req
  BY <1>1, HistoryParts, Typed, LoadKept
<1>3. \/ req' = req
      \/ req' = req + 1 /\ pc = "next" /\ pc' = "route" /\ UNCHANGED <<sent, out, holed>>
  BY <1>1, Onward
<1>4. holed' \subseteq 1..req'
  <2>1. /\ holed' \subseteq holed \cup {req}
        /\ holed' # holed => req \in Req
    BY <1>1, Lost
  <2>2. req \in Req => req \in 1..req
    BY <1>2 DEF Req
  <2>3. holed' \subseteq 1..req
    BY <1>2, <2>1, <2>2
  <2>4. \A x \in 1..req : x \in 1..req'
    BY <1>2, <1>3
  <2> QED
    BY <2>3, <2>4
<1>5. \A r \in 1..(req' - 1) : Settled(r)'
  <2> SUFFICES ASSUME NEW r \in 1..(req' - 1) PROVE Settled(r)'
    OBVIOUS
  <2>1. CASE r \in 1..(req - 1)
    BY <2>1, SettledBefore
  <2>2. CASE ~(r \in 1..(req - 1))
    <3>1. r = req /\ req' = req + 1 /\ pc = "next" /\ UNCHANGED <<sent, out, holed>> /\ req > 0
      BY <1>2, <1>3, <2>2
    <3>2. Settled(r)
      BY <1>1, <3>1, HistoryParts DEF Ahead
    <3>3. Answer(r)' = Answer(r) /\ sent'[r] = sent[r] /\ (r \in holed => r \in holed')
      BY <3>1 DEF Answer
    <3> QED
      BY <1>2, <3>2, <3>3, SettledSame
  <2> QED
    BY <2>1, <2>2
<1>6. pc' \in Ahead /\ req' > 0 => Settled(req)'
  BY SettledHere
<1>7. pc' \in {"route", "setup"} => Answer(req)' = <<>> /\ req' \notin holed'
  BY FreshNext
<1>8. pc' \notin {"finish", "done"} => outcome' = "Completed" /\ Within'
  BY OutcomeNext, OrderNext
<1>9. pc' \in {"finish", "done"} /\ outcome' = "Completed" => AllWhole'
  BY WholeNext
<1>10. AnswersInOrder'
  <2>1. Req' = Req
    BY <1>2 DEF Req
  <2>2. \A r \in Req : Shaped(r)'
    BY ShapedKept
  <2>3. (\A r \in Req : Shaped(r))'
    BY <2>1, <2>2
  <2>4. InOrder'
    BY OrderNext
  <2>5. (InOrder /\ \A r \in Req : Shaped(r))' => AnswersInOrder'
    BY OrderParts, PTL
  <2> QED
    BY <2>3, <2>4, <2>5
<1>11. (/\ holed \subseteq 1..req
        /\ \A r \in 1..(req - 1) : Settled(r)
        /\ pc \in Ahead /\ req > 0 => Settled(req)
        /\ pc \in {"route", "setup"} => Answer(req) = <<>> /\ req \notin holed
        /\ pc \notin {"finish", "done"} => outcome = "Completed" /\ Within
        /\ pc \in {"finish", "done"} /\ outcome = "Completed" => AllWhole
        /\ AnswersInOrder)' => HistoryInv'
  BY HistoryParts, PTL
<1> QED
  BY <1>4, <1>5, <1>6, <1>7, <1>8, <1>9, <1>10, <1>11 DEF Ahead

\* The stream before its first event.
LEMMA CursorInit == Init => CursorInv
<1> SUFFICES ASSUME Init PROVE At(0)
  BY DEF CursorInv
<1>1. /\ load \in Loads /\ carry = <<>> /\ events = <<>> /\ fed = 0 /\ req = 0 /\ pc = "next"
  BY DEF Init
<1>2. Script \in Seq(Token) /\ Len(Script) \in Nat
  BY <1>1, ScriptFacts
<1>3. ClientOf(carry \o events) = <<>>
  BY <1>1, SideEmpty
<1>4. \A e \in EventRec : Genuine(Script, e) => ~(0 < Order(e) /\ Order(e) <= 1)
  BY <1>2 DEF Genuine, Order, EventRec
<1>5. Len(<<>>) = 0 /\ 2 * fed + 1 = 1
  BY <1>1
<1>6. Queue(Script, ClientOf(carry \o events), 0, 2 * fed + 1)
  BY <1>3, <1>4, <1>5 DEF Queue
<1>7. \A p \in 1..Len(Script) : Script[p].req \in Nat \ {0}
  <2> SUFFICES ASSUME NEW p \in 1..Len(Script) PROVE Script[p].req \in Nat \ {0}
    OBVIOUS
  <2>1. Script[p] \in Token
    BY <1>2
  <2> QED
    BY <2>1 DEF Token
<1>8. HeadsUpTo(0, req)
  <2> SUFFICES ASSUME NEW p \in 1..Len(Script) PROVE ~(2 * p <= 0) /\ ~(Script[p].req <= 0)
    BY <1>1 DEF HeadsUpTo
  <2> QED
    BY <1>2, <1>7
<1> QED
  BY <1>1, <1>6, <1>8 DEF At, Exchange

\* The invariant holds of a new connection.
LEMMA InvInit == Init => Inv
<1> SUFFICES ASSUME Init PROVE Inv
  OBVIOUS
<1>1. /\ load \in Loads /\ pc = "next" /\ req = 0 /\ outcome = "Completed"
      /\ fed = 0 /\ carry = <<>> /\ events = <<>> /\ residue = [s \in {"up", "down"} |-> <<>>]
      /\ sent = [r \in Req |-> <<>>] /\ out = <<>> /\ holed = {}
  BY DEF Init
<1>2. Len(load.resp) \in Nat /\ Len(Script) \in Nat
  BY <1>1, ScriptFacts
<1>3. TypeOK
  <2>1. \A A : <<>> \in Seq(A)
    OBVIOUS
  <2>2. Flags
    BY DEF Init, Flags
  <2>6. ControlType
    BY <1>1, <1>2, <2>2 DEF ControlType, Stage
  <2>7. ClientType
    <3>1. /\ inp = 0 /\ client_pending = <<>> /\ fed = 0 /\ events = <<>> /\ tunnelled = FALSE
      BY DEF Init
    <3>2. residue \in [{"up", "down"} -> Seq(Nat)]
      BY <1>1, <2>1
    <3>3. 0 \in 0..Len(Script)
      BY <1>2
    <3>4. events \in Seq(EventRec) /\ client_pending \in Seq(1..Len(Script))
      BY <2>1, <3>1
    <3> QED
      BY <3>1, <3>2, <3>3, <3>4 DEF ClientType
  <2>3. ExchangeType
    BY <2>1 DEF Init, ExchangeType, Ends
  <2>4. BusType
    <3>1. rx = <<>> /\ Len(<<>>) = 0 /\ 0 <= Capacity
      BY MultirouteAssumption DEF Init
    <3> QED
      BY <2>1, <3>1 DEF Init, BusType
  <2>5. HistoryType
    BY <1>1, <2>1 DEF HistoryType
  <2> QED
    BY <2>3, <2>4, <2>5, <2>6, <2>7, TypeParts
<1>4. FeedInv /\ CursorInv
  BY FeedInit, CursorInit
<1>5. CarryInv
  BY <1>1 DEF CarryInv
<1>6. SentInv
  <2>1. \A r \in Req : sent[r] = <<>>
    BY <1>1
  <2>2. OwnBytesOnly
    BY <2>1 DEF OwnBytesOnly
  <2> QED
    BY <1>1, <2>1, <2>2 DEF SentInv, Exchange
<1>7. UpInv
  <2>1. Run(0, 0) = <<>>
    BY DEF Run
  <2>2. Kept(<<>>, 0)
    BY <2>1 DEF Kept
  <2> QED
    BY <1>1, <2>2 DEF UpInv
<1>8. SwitchInv /\ LineInv /\ EventInv
  BY <1>1 DEF SwitchInv, LineInv, EventInv, Exchange
<1>9. BetweenInv
  BY <1>1, SideEmpty DEF BetweenInv
<1>10. HistoryInv
  <2>1. \A r : Answer(r) = <<>>
    <3> TAKE r
    <3>1. out \in Seq(OutRec) /\ Len(out) = 0
      BY <1>1
    <3> QED
      BY <3>1, AnswerNone
  <2>2. InOrder /\ \A r \in Req : Shaped(r)
    BY <1>1, <2>1 DEF InOrder, Shaped
  <2>3. AnswersInOrder
    BY <2>2, OrderParts
  <2>4. Within
    BY <1>1 DEF Within
  <2> QED
    BY <1>1, <2>3, <2>4, HistoryParts
<1> QED
  BY <1>3, <1>4, <1>5, <1>6, <1>7, <1>8, <1>9, <1>10 DEF Inv

\* Every conjunct is kept by every step.
LEMMA InvNext == Inv /\ [Next]_vars => Inv'
<1> SUFFICES ASSUME Inv, [Next]_vars PROVE Inv'
  OBVIOUS
<1>1. FeedInv'
  BY FeedNext DEF Inv
<1>2. /\ TypeOK' /\ CursorInv' /\ CarryInv' /\ SentInv' /\ UpInv' /\ SwitchInv'
      /\ LineInv' /\ EventInv' /\ BetweenInv' /\ HistoryInv'
  BY TypeNext, CursorNext, CarryNext, SentNext, UpNext, SwitchNext, LineNext, EventNext,
     BetweenNext, HistoryKept
<1> QED
  BY <1>1, <1>2 DEF Inv

\* What the handler of a connection keeps, whatever the client and the backends
\* send, however the parser cuts it and whatever is lost: the inductive invariant.
THEOREM MultirouteInvariant == Spec => []Inv
<1> QED
  BY InvInit, InvNext, PTL DEF Spec

\* The handler's state, the events and what was written keep their types.
THEOREM MultirouteTypeCorrect == Spec => []TypeOK
<1>1. Inv => TypeOK
  BY DEF Inv
<1> QED
  BY <1>1, MultirouteInvariant, PTL

\* run_exchange never puts a byte of one request on another's tx key, nor out of
\* order, however the client pipelines its requests and the parser cuts them.
THEOREM MultirouteOwnBytesOnly == Spec => []OwnBytesOnly
<1>1. Inv => OwnBytesOnly
  BY DEF Inv, SentInv
<1> QED
  BY <1>1, MultirouteInvariant, PTL

\* The client reads answers in the order of its requests, each a prefix of its
\* response; the bridge's own answer never lands in the middle of one.
THEOREM MultirouteAnswersInOrder == Spec => []AnswersInOrder
<1>1. Inv => AnswersInOrder
  BY DEF Inv, HistoryInv
<1> QED
  BY <1>1, MultirouteInvariant, PTL

\* A request that was forwarded, and the one before it.
LEMMA BeforeForwarded ==
  ASSUME Inv, NEW r \in Req, r + 1 \in Req, Forwarded(r + 1)
  PROVE  Settled(r)
<1>1. TypeOK /\ SentInv /\ HistoryInv
  BY DEF Inv
<1>2. req \in Nat /\ Len(load.resp) \in Nat /\ r \in Nat /\ r >= 1
  BY <1>1, Typed DEF Req
<1>3. ~(r + 1 > req)
  BY <1>1 DEF SentInv, Forwarded
<1>4. r \in 1..(req - 1)
  BY <1>2, <1>3
<1> QED
  BY <1>1, <1>4 DEF HistoryInv

\* serve keeps a connection for another request only after a response that was
\* delivered whole or lost a sample (unmissed, or in an overflow whose rx_cancel
\* was not taken), or after a refusal.
THEOREM MultirouteNextAfterWhole == Spec => []NextAfterWhole
<1>1. Inv => NextAfterWhole
  <2> SUFFICES ASSUME Inv, NEW r \in Req, r + 1 \in Req, Forwarded(r + 1)
               PROVE  \/ Forwarded(r) /\ (Whole(r) \/ r \in holed)
                      \/ ~Forwarded(r) /\ Len(Answer(r)) = 1 /\ Answer(r)[1].kind = "refused"
    BY DEF NextAfterWhole
  <2>1. Settled(r)
    BY BeforeForwarded
  <2> QED
    BY <2>1 DEF Settled
<1> QED
  BY <1>1, MultirouteInvariant, PTL

\* No request is forwarded once the client has read a response head that
\* announced the close.
THEOREM MultirouteNotAfterClose == Spec => []NotAfterClose
<1>1. Inv => NotAfterClose
  <2> SUFFICES ASSUME Inv, NEW r \in Req, r + 1 \in Req, Forwarded(r + 1), Forwarded(r),
                      ~Headless(r)
               PROVE  ~(load.resp[r].framing = "close" \/ load.resp[r].close)
    BY DEF NotAfterClose
  <2>1. Settled(r)
    BY BeforeForwarded
  <2> QED
    BY <2>1 DEF Settled, response_wants_close
<1> QED
  BY <1>1, MultirouteInvariant, PTL

\* A connection whose outcome is Completed has delivered what it was asked for, but
\* for a response that lost a sample and for a tunnel.
THEOREM MultirouteCompletedIsWhole == Spec => []CompletedIsWhole
<1>1. Inv => CompletedIsWhole
  BY DEF Inv, HistoryInv
<1> QED
  BY <1>1, MultirouteInvariant, PTL

=============================================================================
