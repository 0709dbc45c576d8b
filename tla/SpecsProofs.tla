---------------------------- MODULE SpecsProofs -----------------------------
(***************************************************************************)
(* TLAPS proofs about Names and Specs, for any command line and any host.  *)
(***************************************************************************)
EXTENDS Specs, SequenceTheorems, FiniteSetTheorems, WellFoundedInduction, TLAPS

-----------------------------------------------------------------------------
(* The operators of the model.                                             *)

Less == OpToRel(<, Nat)

\* Every set of numbers has a least one.
LEMMA LeastNat ==
  ASSUME NEW T \in SUBSET Nat, T # {}
  PROVE  \E x \in T : \A y \in T : x <= y
<1>1. IsWellFoundedOn(Less, Nat)
  BY NatLessThanWellFounded DEF Less
<1>2. PICK x \in T : \A y \in T : <<y, x>> \notin Less
  BY <1>1, WFMin
<1>3. ASSUME NEW y \in T PROVE x <= y
  <2>1. x \in Nat /\ y \in Nat
    OBVIOUS
  <2>2. ~(y < x)
    BY <2>1, <1>2 DEF Less, OpToRel
  <2> QED
    BY <2>1, <2>2
<1> QED
  BY <1>3

\* What count says: whether there is none, or exactly one.
LEMMA CountFacts ==
  ASSUME NEW S, NEW s \in Seq(S), NEW c
  PROVE  /\ count(s, c) \in Nat
         /\ count(s, c) = 0 <=> \A i \in 1..Len(s) : s[i] # c
         /\ count(s, c) = 1 <=> \E i \in 1..Len(s) :
                                   s[i] = c /\ \A j \in 1..Len(s) : s[j] = c => j = i
<1> DEFINE I == {i \in DOMAIN s : s[i] = c}
<1>1. DOMAIN s = 1..Len(s) /\ Len(s) \in Nat
  OBVIOUS
<1>2. IsFiniteSet(1..Len(s))
  BY <1>1, FS_Interval
<1>3. IsFiniteSet(I)
  BY <1>1, <1>2, FS_Subset
<1>4. Cardinality(I) \in Nat
  BY <1>3, FS_CardinalityType
<1>5. Cardinality(I) = 0 <=> I = {}
  BY <1>3, FS_EmptySet
<1>6. Cardinality(I) = 1 <=> \E x : I = {x}
  BY <1>3, FS_Singleton
<1>7. (\E x : I = {x}) <=> \E i \in 1..Len(s) :
                              s[i] = c /\ \A j \in 1..Len(s) : s[j] = c => j = i
  <2>1. ASSUME NEW x, I = {x}
        PROVE  x \in 1..Len(s) /\ s[x] = c /\ \A j \in 1..Len(s) : s[j] = c => j = x
    <3>1. x \in I /\ \A y \in I : y = x
      BY <2>1
    <3> QED
      BY <1>1, <3>1
  <2>2. ASSUME NEW i \in 1..Len(s), s[i] = c, \A j \in 1..Len(s) : s[j] = c => j = i
        PROVE  I = {i}
    BY <1>1, <2>2
  <2> QED
    BY <2>1, <2>2
<1>8. I = {} <=> \A i \in 1..Len(s) : s[i] # c
  BY <1>1
<1> QED
  BY <1>4, <1>5, <1>6, <1>7, <1>8 DEF count

\* Where split_once splits.
LEMMA SplitFacts ==
  ASSUME NEW S, NEW s \in Seq(S), NEW c, Contains(s, c)
  PROVE  /\ At(s, c) \in 1..Len(s) /\ s[At(s, c)] = c
         /\ \A i \in 1..(At(s, c) - 1) : s[i] # c
         /\ Before(s, c) \in Seq(S) /\ Len(Before(s, c)) = At(s, c) - 1
         /\ \A i \in 1..(At(s, c) - 1) : Before(s, c)[i] = s[i]
         /\ After(s, c) \in Seq(S) /\ Len(After(s, c)) = Len(s) - At(s, c)
         /\ \A i \in 1..(Len(s) - At(s, c)) : After(s, c)[i] = s[At(s, c) + i]
<1> DEFINE I == {i \in DOMAIN s : s[i] = c}
           a == At(s, c)
<1>1. DOMAIN s = 1..Len(s) /\ Len(s) \in Nat
  OBVIOUS
<1>2. I \in SUBSET Nat /\ I # {}
  BY <1>1 DEF Contains
<1>3. \E x \in I : \A y \in I : x <= y
  BY <1>2, LeastNat
<1>4. a \in I /\ \A y \in I : a <= y
  BY <1>3 DEF At, Min
<1>5. a \in 1..Len(s) /\ s[a] = c
  BY <1>1, <1>4
<1>6. \A i \in 1..(a - 1) : s[i] # c
  BY <1>1, <1>4, <1>5
<1> HIDE DEF a
<1>7. /\ SubSeq(s, 1, a - 1) \in Seq(S) /\ Len(SubSeq(s, 1, a - 1)) = a - 1
      /\ \A i \in 1..(a - 1) : SubSeq(s, 1, a - 1)[i] = s[i]
  BY <1>1, <1>5
<1>8. /\ SubSeq(s, a + 1, Len(s)) \in Seq(S)
      /\ Len(SubSeq(s, a + 1, Len(s))) = Len(s) - a
      /\ \A i \in 1..(Len(s) - a) : SubSeq(s, a + 1, Len(s))[i] = s[a + i]
  BY <1>1, <1>5
<1> QED
  BY <1>5, <1>6, <1>7, <1>8 DEF a, Before, After

\* Lower case has the same punctuation and digits in the same places.
LEMMA LowerFacts ==
  ASSUME NEW S, NEW s \in Seq(S)
  PROVE  /\ to_lowercase(s) \in Seq(S \cup {"a"})
         /\ Len(to_lowercase(s)) = Len(s)
         /\ \A i \in 1..Len(s) :
              to_lowercase(s)[i] = IF s[i] = "A" THEN "a" ELSE s[i]
<1> DEFINE l == [i \in 1..Len(s) |-> IF s[i] = "A" THEN "a" ELSE s[i]]
<1>1. /\ Len(s) \in Nat /\ DOMAIN s = 1..Len(s)
      /\ \A i \in 1..Len(s) : s[i] \in S
  OBVIOUS
<1>2. to_lowercase(s) = l
  BY <1>1 DEF to_lowercase
<1>3. l \in [1..Len(s) -> S \cup {"a"}]
  BY <1>1
<1>4. l \in Seq(S \cup {"a"}) /\ Len(l) = Len(s)
  BY <1>1, <1>3, SeqDef
<1> QED
  BY <1>2, <1>4

\* The parts of a sequence before and after a position.
LEMMA CutFacts ==
  ASSUME NEW S, NEW s \in Seq(S), NEW j \in 0..Len(s)
  PROVE  /\ SubSeq(s, 1, j) \in Seq(S) /\ Len(SubSeq(s, 1, j)) = j
         /\ \A i \in 1..j : SubSeq(s, 1, j)[i] = s[i]
         /\ SubSeq(s, j + 1, Len(s)) \in Seq(S)
         /\ Len(SubSeq(s, j + 1, Len(s))) = Len(s) - j
         /\ \A i \in 1..(Len(s) - j) : SubSeq(s, j + 1, Len(s))[i] = s[j + i]
OBVIOUS

\* What is left of a sequence without its first element.
LEMMA TailFacts ==
  ASSUME NEW S, NEW s \in Seq(S), s # <<>>
  PROVE  /\ Tail(s) \in Seq(S) /\ Len(Tail(s)) = Len(s) - 1 /\ Len(s) > 0
         /\ \A i \in 1..(Len(s) - 1) : Tail(s)[i] = s[i + 1]
OBVIOUS

\* The characters of a port.
LEMMA PortFacts ==
  ASSUME NEW S, NEW s \in Seq(S), parses_u16(s)
  PROVE  s # <<>> /\ \A i \in 1..Len(s) : s[i] \in {"8", "+"}
<1> DEFINE d == IF s # <<>> /\ s[1] = "+" THEN Tail(s) ELSE s
<1>1. Len(d) \in 1..PortDigits /\ \A i \in DOMAIN d : d[i] = "8"
  BY DEF parses_u16
<1>2. CASE s # <<>> /\ s[1] = "+"
  <2>1. /\ d = Tail(s) /\ d \in Seq(S) /\ Len(d) = Len(s) - 1
        /\ \A i \in 1..(Len(s) - 1) : d[i] = s[i + 1]
    BY <1>2, TailFacts
  <2> HIDE DEF d
  <2>2. DOMAIN d = 1..(Len(s) - 1)
    BY <2>1
  <2>3. ASSUME NEW i \in 1..Len(s), i # 1 PROVE s[i] = "8"
    <3>1. i - 1 \in 1..(Len(s) - 1) /\ (i - 1) + 1 = i
      BY <2>3
    <3>2. d[i - 1] = s[(i - 1) + 1]
      BY <2>1, <3>1
    <3> QED
      BY <1>1, <2>2, <3>1, <3>2
  <2> QED
    BY <1>2, <2>3
<1>3. CASE ~(s # <<>> /\ s[1] = "+")
  <2>1. d = s
    BY <1>3
  <2> HIDE DEF d
  <2>2. DOMAIN s = 1..Len(s) /\ Len(s) # 0
    BY <1>1, <2>1, PortAssumption
  <2> QED
    BY <1>1, <2>1, <2>2
<1> QED
  BY <1>2, <1>3

\* The characters of a colon and a port: no bracket, and one colon, in front.
LEMMA PortTailFacts ==
  ASSUME NEW S, NEW s \in Seq(S), PortTail(s), s # <<>>
  PROVE  /\ s[1] = ":" /\ Len(s) > 1 /\ parses_u16(Tail(s))
         /\ \A i \in 2..Len(s) : s[i] \in {"8", "+"}
<1>1. s[1] = ":" /\ parses_u16(Tail(s))
  BY DEF PortTail
<1>2. /\ Tail(s) \in Seq(S) /\ Len(Tail(s)) = Len(s) - 1 /\ Len(s) > 0
      /\ \A i \in 1..(Len(s) - 1) : Tail(s)[i] = s[i + 1]
  BY TailFacts
<1>3. Tail(s) # <<>> /\ \A i \in 1..Len(Tail(s)) : Tail(s)[i] \in {"8", "+"}
  BY <1>1, <1>2, PortFacts
<1>4. ASSUME NEW i \in 2..Len(s) PROVE s[i] \in {"8", "+"}
  <2>1. i - 1 \in 1..(Len(s) - 1) /\ (i - 1) + 1 = i
    BY <1>4
  <2>2. Tail(s)[i - 1] = s[(i - 1) + 1]
    BY <1>2, <2>1
  <2> QED
    BY <1>2, <1>3, <2>1, <2>2
<1>5. Len(s) > 1
  <2>1. Len(Tail(s)) # 0
    BY <1>2, <1>3
  <2> QED
    BY <1>2, <2>1
<1> QED
  BY <1>1, <1>4, <1>5

-----------------------------------------------------------------------------
(* Host names.                                                             *)

\* The key a normalised name stands for.
KeyOf(dns) ==
  IF count(dns, ":") # 1 /\ \A i \in DOMAIN dns : is_valid_key_char(dns[i])
  THEN dns ELSE Unroutable

\* RefKeys, of a name in lower case.
Grammar(h) ==
  {k \in Portless(h) : IsName(k)} \cup
  {k \in {h} \cup {SubSeq(p, 2, Len(p) - 1) :
                     p \in {q \in Portless(h) : q # <<>> /\ q[1] = "["
                                                  /\ Last(q) = "]"}} : IsV6(k)}

\* What an element of Portless is.
LEMMA PortlessFacts ==
  ASSUME NEW S, NEW h \in Seq(S), NEW k \in Portless(h)
  PROVE  \E j \in 0..Len(h) :
           /\ k = SubSeq(h, 1, j) /\ PortTail(SubSeq(h, j + 1, Len(h)))
           /\ k \in Seq(S) /\ Len(k) = j /\ \A i \in 1..j : k[i] = h[i]
           /\ j # Len(h) =>
                /\ h[j + 1] = ":"
                /\ \A i \in (j + 2)..Len(h) : h[i] \in {"8", "+"}
<1>1. PICK j \in 0..Len(h) :
        k = SubSeq(h, 1, j) /\ PortTail(SubSeq(h, j + 1, Len(h)))
  BY DEF Portless
<1> DEFINE t == SubSeq(h, j + 1, Len(h))
<1>2. /\ k \in Seq(S) /\ Len(k) = j /\ \A i \in 1..j : k[i] = h[i]
      /\ t \in Seq(S) /\ Len(t) = Len(h) - j
      /\ \A i \in 1..(Len(h) - j) : t[i] = h[j + i]
  BY <1>1, CutFacts
<1>3. PortTail(t)
  BY <1>1
<1> HIDE DEF t
<1>4. ASSUME j # Len(h)
      PROVE  h[j + 1] = ":" /\ \A i \in (j + 2)..Len(h) : h[i] \in {"8", "+"}
  <2>1. t # <<>> /\ 1 \in 1..(Len(h) - j)
    BY <1>2, <1>4
  <2>2. t[1] = ":" /\ \A i \in 2..Len(t) : t[i] \in {"8", "+"}
    BY <1>2, <1>3, <2>1, PortTailFacts
  <2>3. ASSUME NEW i \in (j + 2)..Len(h) PROVE h[i] \in {"8", "+"}
    <3>1. i - j \in 2..(Len(h) - j) /\ i - j \in 1..(Len(h) - j) /\ j + (i - j) = i
      BY <2>3
    <3>2. t[i - j] = h[j + (i - j)]
      BY <1>2, <3>1
    <3> QED
      BY <1>2, <2>2, <3>1, <3>2
  <2> QED
    BY <1>2, <2>1, <2>2, <2>3
<1> QED
  BY <1>1, <1>2, <1>4

\* The bracketed form: the literal between the brackets.
LEMMA BracketedKey ==
  ASSUME NEW S, NEW h \in Seq(S), Bracketed(h)
  PROVE  {KeyOf(Tail(Before(h, "]")))} \ {Unroutable} = Grammar(h)
<1> DEFINE q == At(h, "]")
           b == Before(h, "]")
           d == Tail(b)
<1>1. h # <<>> /\ h[1] = "[" /\ Contains(h, "]") /\ Contains(b, ":")
      /\ PortTail(After(h, "]"))
  BY DEF Bracketed
<1>2. /\ q \in 1..Len(h) /\ h[q] = "]" /\ \A i \in 1..(q - 1) : h[i] # "]"
      /\ b \in Seq(S) /\ Len(b) = q - 1 /\ \A i \in 1..(q - 1) : b[i] = h[i]
  BY <1>1, SplitFacts
<1>3. After(h, "]") = SubSeq(h, q + 1, Len(h))
  BY DEF After
<1> HIDE DEF q, b
<1>4. q # 1 /\ Len(h) \in Nat /\ q \in Nat
  BY <1>1, <1>2
<1>5. b # <<>>
  BY <1>2, <1>4
<1>6. d \in Seq(S) /\ Len(d) = q - 2 /\ \A i \in 1..(q - 2) : d[i] = h[i + 1]
  <2>1. d \in Seq(S) /\ Len(d) = Len(b) - 1 /\ \A i \in 1..(Len(b) - 1) : d[i] = b[i + 1]
    BY <1>2, <1>5, TailFacts
  <2> HIDE DEF d
  <2>2. Len(d) = q - 2
    BY <1>2, <1>4, <2>1
  <2>3. ASSUME NEW i \in 1..(q - 2) PROVE d[i] = h[i + 1]
    <3>1. i \in 1..(Len(b) - 1) /\ i + 1 \in 1..(q - 1)
      BY <1>2, <1>4
    <3> QED
      BY <1>2, <2>1, <3>1
  <2> QED
    BY <2>1, <2>2, <2>3
<1> HIDE DEF d
<1>7. count(d, ":") # 0
  <2>1. PICK i \in 1..(q - 1) : b[i] = ":"
    BY <1>1, <1>2 DEF Contains
  <2>2. h[i] = ":" /\ i # 1
    BY <1>1, <1>2, <2>1
  <2>3. i - 1 \in 1..(q - 2) /\ (i - 1) + 1 = i
    BY <1>4, <2>2
  <2>4. d[i - 1] = ":"
    BY <1>6, <2>2, <2>3
  <2> QED
    BY <1>6, <2>3, <2>4, CountFacts
<1>8. DOMAIN d = 1..(q - 2) /\ d # <<>>
  <2>1. DOMAIN d = 1..(q - 2)
    BY <1>6
  <2>2. d # <<>>
    BY <1>7, <1>6, CountFacts
  <2> QED
    BY <2>1, <2>2
<1>9. IsV6(d) <=> count(d, ":") # 1 /\ \A i \in DOMAIN d : is_valid_key_char(d[i])
  <2>1. count(d, ":") \in Nat
    BY <1>6, CountFacts
  <2>2. count(d, ":") >= 2 <=> count(d, ":") # 1
    BY <1>7, <2>1
  <2> QED
    BY <2>2 DEF IsV6
<1> DEFINE p == SubSeq(h, 1, q)
<1>10. /\ p \in Portless(h) /\ p \in Seq(S) /\ Len(p) = q
       /\ \A i \in 1..q : p[i] = h[i]
  <2>1. q \in 0..Len(h)
    BY <1>2
  <2> QED
    BY <1>1, <1>3, <2>1, CutFacts DEF Portless
<1>11. p # <<>> /\ p[1] = "[" /\ Last(p) = "]"
  <2>1. 1 \in 1..q /\ q \in 1..q
    BY <1>2, <1>4
  <2> QED
    BY <1>1, <1>2, <1>10, <2>1 DEF Last
<1> HIDE DEF p
\* between the brackets
<1>12. ASSUME NEW r \in Seq(S), Len(r) = q, \A i \in 1..q : r[i] = h[i]
       PROVE  SubSeq(r, 2, Len(r) - 1) = d
  <2> DEFINE u == SubSeq(r, 2, q - 1)
  <2>0. Len(r) = q /\ q - 1 <= Len(r) /\ q \in Nat /\ q >= 2
    BY <1>2, <1>4, <1>12
  <2>1. /\ u \in Seq(S) /\ Len(u) = q - 2
        /\ \A i \in 1..(q - 2) : u[i] = r[i + 1]
    BY <2>0
  <2> HIDE DEF u
  <2>2. ASSUME NEW i \in 1..(q - 2) PROVE u[i] = d[i]
    <3>1. i + 1 \in 1..q
      BY <1>4
    <3> QED
      BY <1>6, <1>12, <2>1, <3>1
  <2>3. u = d
    BY <1>6, <2>1, <2>2, SeqEqual
  <2> QED
    BY <1>12, <2>3 DEF u
<1>13. ASSUME NEW k \in Grammar(h) PROVE k = d /\ IsV6(d)
  <2>1. CASE k \in Portless(h) /\ IsName(k)
    <3>1. PICK j \in 0..Len(h) : k \in Seq(S) /\ Len(k) = j /\ \A i \in 1..j : k[i] = h[i]
      BY <2>1, PortlessFacts
    <3>2. 1 \in 1..j /\ 1 \in DOMAIN k
      BY <2>1, <3>1 DEF IsName
    <3>3. k[1] = "["
      BY <1>1, <3>1, <3>2
    <3> QED
      BY <2>1, <3>2, <3>3 DEF IsName
  <2>2. CASE k = h /\ IsV6(k)
    <3>1. 1 \in DOMAIN h
      BY <1>2, <1>4
    <3> QED
      BY <1>1, <2>2, <3>1 DEF IsV6, is_valid_key_char
  <2>3. ASSUME NEW r \in Portless(h), r # <<>>, r[1] = "[", Last(r) = "]",
               k = SubSeq(r, 2, Len(r) - 1), IsV6(k)
        PROVE  k = d /\ IsV6(d)
    <3>1. PICK j \in 0..Len(h) :
            r \in Seq(S) /\ Len(r) = j /\ \A i \in 1..j : r[i] = h[i]
      BY <2>3, PortlessFacts
    <3>2. j \in 1..j /\ h[j] = "]" /\ j \in Nat
      BY <2>3, <3>1 DEF Last
    <3>3. ~(j < q)
      BY <1>2, <1>4, <3>2
    <3>4. ~(j > q)
      <4> SUFFICES ASSUME j > q PROVE FALSE
        OBVIOUS
      <4>1. /\ k \in Seq(S) /\ Len(k) = j - 2
            /\ \A i \in 1..(j - 2) : k[i] = r[i + 1]
        BY <1>4, <2>3, <3>1, <3>2
      <4>2. q - 1 \in 1..(j - 2) /\ (q - 1) + 1 = q /\ q \in 1..j
        BY <1>4, <1>2, <3>2
      <4>3. k[q - 1] = "]"
        BY <1>2, <3>1, <4>1, <4>2
      <4>4. q - 1 \in DOMAIN k
        BY <4>1, <4>2
      <4> QED
        BY <2>3, <4>3, <4>4 DEF IsV6, is_valid_key_char
    <3>5. j = q
      BY <1>4, <3>2, <3>3, <3>4
    <3>6. k = d
      BY <1>12, <2>3, <3>1, <3>5
    <3> QED
      BY <2>3, <3>6
  <2> QED
    BY <2>1, <2>2, <2>3 DEF Grammar
<1>14. ASSUME IsV6(d) PROVE d \in Grammar(h)
  <2>1. d = SubSeq(p, 2, Len(p) - 1)
    BY <1>10, <1>12
  <2> QED
    BY <1>10, <1>11, <1>14, <2>1 DEF Grammar
<1>15. {KeyOf(d)} \ {Unroutable} = IF IsV6(d) THEN {d} ELSE {}
  BY <1>8, <1>9 DEF KeyOf, Unroutable
<1>16. Grammar(h) = IF IsV6(d) THEN {d} ELSE {}
  BY <1>13, <1>14
<1> QED
  BY <1>15, <1>16 DEF d, b

\* A literal in brackets, with or without a port, is the bracketed form.
LEMMA BareIsBracketed ==
  ASSUME NEW S, NEW h \in Seq(S), NEW r \in Portless(h), r # <<>>,
         r[1] = "[", Last(r) = "]", IsV6(SubSeq(r, 2, Len(r) - 1))
  PROVE  Bracketed(h)
<1> DEFINE k == SubSeq(r, 2, Len(r) - 1)
<1>1. PICK j \in 0..Len(h) :
        /\ r \in Seq(S) /\ Len(r) = j /\ \A i \in 1..j : r[i] = h[i]
        /\ PortTail(SubSeq(h, j + 1, Len(h)))
  BY PortlessFacts
<1>2. /\ j \in Nat /\ j \in 1..j /\ 1 \in 1..j /\ j \in 1..Len(h)
      /\ h[1] = "[" /\ h[j] = "]"
  BY <1>1 DEF Last
<1>3. j >= 2
  BY <1>2
<1>4. k \in Seq(S) /\ Len(k) = j - 2 /\ \A i \in 1..(j - 2) : k[i] = r[i + 1]
  BY <1>1, <1>3
<1>5. IsV6(k)
  OBVIOUS
<1> HIDE DEF k
<1>6. PICK c \in 1..(j - 2) : k[c] = ":"
  <2>1. count(k, ":") \in Nat /\ count(k, ":") # 0
    <3>1. count(k, ":") \in Nat
      BY <1>4, CountFacts
    <3> QED
      BY <1>5, <3>1 DEF IsV6
  <2> QED
    BY <1>4, <2>1, CountFacts
<1>7. Contains(h, "]") /\ h # <<>>
  BY <1>2 DEF Contains
<1> DEFINE q == At(h, "]")
           b == Before(h, "]")
<1>8. /\ q \in 1..Len(h) /\ h[q] = "]" /\ \A i \in 1..(q - 1) : h[i] # "]"
      /\ Len(b) = q - 1 /\ \A i \in 1..(q - 1) : b[i] = h[i]
  BY <1>7, SplitFacts
<1>9. After(h, "]") = SubSeq(h, q + 1, Len(h))
  BY DEF After
<1> HIDE DEF q, b
<1>10. ~(j < q) /\ q # 1 /\ q \in Nat
  BY <1>2, <1>8
<1>11. ~(q < j)
  <2> SUFFICES ASSUME q < j PROVE FALSE
    OBVIOUS
  <2>1. q - 1 \in 1..(j - 2) /\ (q - 1) + 1 = q /\ q \in 1..j
    BY <1>2, <1>8, <1>10
  <2>2. k[q - 1] = "]"
    BY <1>1, <1>4, <1>8, <2>1
  <2>3. q - 1 \in DOMAIN k
    BY <1>4, <2>1
  <2> QED
    BY <1>5, <2>2, <2>3 DEF IsV6, is_valid_key_char
<1>12. q = j
  BY <1>2, <1>10, <1>11
<1>13. Contains(b, ":")
  <2>1. c + 1 \in 1..(q - 1) /\ c + 1 \in 1..j
    BY <1>2, <1>12
  <2>2. b[c + 1] = ":"
    BY <1>1, <1>4, <1>6, <1>8, <2>1
  <2> QED
    BY <1>8, <2>1, <2>2 DEF Contains
<1> QED
  BY <1>1, <1>2, <1>7, <1>9, <1>12, <1>13 DEF Bracketed, b

\* A name and a port: the name.
LEMMA PortedKey ==
  ASSUME NEW S, NEW h \in Seq(S), ~Bracketed(h), count(h, ":") = 1,
         parses_u16(After(h, ":"))
  PROVE  {KeyOf(Before(h, ":"))} \ {Unroutable} = Grammar(h)
<1> DEFINE a == At(h, ":")
           b == Before(h, ":")
           t == SubSeq(h, a, Len(h))
<1>1. PICK u \in 1..Len(h) : h[u] = ":" /\ \A j \in 1..Len(h) : h[j] = ":" => j = u
  BY CountFacts
<1>2. Contains(h, ":")
  BY <1>1 DEF Contains
<1>3. /\ a \in 1..Len(h) /\ h[a] = ":"
      /\ b \in Seq(S) /\ Len(b) = a - 1 /\ \A i \in 1..(a - 1) : b[i] = h[i]
      /\ After(h, ":") \in Seq(S) /\ Len(After(h, ":")) = Len(h) - a
      /\ \A i \in 1..(Len(h) - a) : After(h, ":")[i] = h[a + i]
  BY <1>2, SplitFacts
<1>4. b = SubSeq(h, 1, a - 1)
  BY DEF Before
<1>5. \A j \in 1..Len(h) : h[j] = ":" => j = a
  BY <1>1, <1>3
<1> HIDE DEF a, b
<1>6. Len(h) \in Nat /\ a \in Nat /\ DOMAIN b = 1..(a - 1)
  BY <1>3
<1>7. \A i \in 1..(a - 1) : b[i] # ":"
  <2> SUFFICES ASSUME NEW i \in 1..(a - 1) PROVE b[i] # ":"
    OBVIOUS
  <2>1. i \in 1..Len(h) /\ i # a
    BY <1>3, <1>6
  <2> QED
    BY <1>3, <1>5, <2>1
<1>8. count(b, ":") = 0
  BY <1>3, <1>7, CountFacts
<1>9. {KeyOf(b)} \ {Unroutable} = IF IsName(b) THEN {b} ELSE {}
  BY <1>6, <1>7, <1>8 DEF KeyOf, Unroutable, IsName, is_valid_key_char
<1>10. b \in Portless(h)
  <2>1. /\ t \in Seq(S) /\ Len(t) = Len(h) - a + 1
        /\ \A i \in 1..(Len(h) - a + 1) : t[i] = h[a - 1 + i]
    BY <1>3, <1>6
  <2>2. t = SubSeq(h, (a - 1) + 1, Len(h)) /\ a - 1 \in 0..Len(h)
    BY <1>3, <1>6
  <2> HIDE DEF t
  <2>3. t # <<>> /\ t[1] = ":"
    <3>1. 1 \in 1..(Len(h) - a + 1) /\ a - 1 + 1 = a /\ Len(h) - a + 1 # 0
      BY <1>3, <1>6
    <3>2. t[1] = h[a - 1 + 1]
      BY <2>1, <3>1
    <3>3. t # <<>>
      BY <2>1, <3>1
    <3> QED
      BY <1>3, <3>1, <3>2, <3>3
  <2>4. /\ Tail(t) \in Seq(S) /\ Len(Tail(t)) = Len(h) - a
        /\ \A i \in 1..(Len(h) - a) : Tail(t)[i] = h[a + i]
    <3>1. /\ Tail(t) \in Seq(S) /\ Len(Tail(t)) = Len(t) - 1
          /\ \A i \in 1..(Len(t) - 1) : Tail(t)[i] = t[i + 1]
      BY <2>1, <2>3, TailFacts
    <3>2. Len(t) - 1 = Len(h) - a
      BY <1>3, <1>6, <2>1
    <3>3. ASSUME NEW i \in 1..(Len(h) - a) PROVE Tail(t)[i] = h[a + i]
      <4>1. i + 1 \in 1..(Len(h) - a + 1) /\ a - 1 + (i + 1) = a + i
        BY <1>3, <1>6
      <4> QED
        BY <2>1, <3>1, <3>2, <4>1
    <3> QED
      BY <3>1, <3>2, <3>3
  <2>5. Tail(t) = After(h, ":")
    <3>1. \A i \in 1..Len(Tail(t)) : Tail(t)[i] = After(h, ":")[i]
      BY <1>3, <2>4
    <3>2. Len(Tail(t)) = Len(After(h, ":"))
      BY <1>3, <2>4
    <3> QED
      BY <1>3, <2>4, <3>1, <3>2, SeqEqual
  <2>6. PortTail(t)
    BY <2>3, <2>5 DEF PortTail
  <2> QED
    BY <1>4, <2>2, <2>6 DEF Portless
<1>11. ASSUME NEW k \in Grammar(h) PROVE k = b /\ IsName(b)
  <2>1. CASE k \in Portless(h) /\ IsName(k)
    <3>1. PICK j \in 0..Len(h) :
            /\ k = SubSeq(h, 1, j) /\ k \in Seq(S) /\ Len(k) = j
            /\ \A i \in 1..j : k[i] = h[i]
            /\ j # Len(h) => h[j + 1] = ":"
      BY <2>1, PortlessFacts
    <3>2. j # Len(h)
      <4> SUFFICES ASSUME j = Len(h) PROVE FALSE
        OBVIOUS
      <4>1. a \in DOMAIN k /\ k[a] = ":"
        BY <1>3, <3>1
      <4> QED
        BY <2>1, <4>1 DEF IsName
    <3>3. j + 1 \in 1..Len(h) /\ j + 1 = a
      BY <1>5, <1>6, <3>1, <3>2
    <3>4. j = a - 1
      BY <1>6, <3>3
    <3> QED
      BY <1>4, <2>1, <3>1, <3>4
  <2>2. CASE k = h /\ IsV6(k)
    BY <2>2 DEF IsV6
  <2>3. ASSUME NEW r \in Portless(h), r # <<>>, r[1] = "[", Last(r) = "]",
               IsV6(SubSeq(r, 2, Len(r) - 1))
        PROVE  FALSE
    BY <2>3, BareIsBracketed
  <2> QED
    BY <2>1, <2>2, <2>3 DEF Grammar
<1>12. Grammar(h) = IF IsName(b) THEN {b} ELSE {}
  BY <1>10, <1>11 DEF Grammar
<1> QED
  BY <1>9, <1>12 DEF b

\* Any other name, as it stands.
LEMMA PlainKey ==
  ASSUME NEW S, NEW h \in Seq(S), ~Bracketed(h),
         ~(count(h, ":") = 1 /\ parses_u16(After(h, ":")))
  PROVE  {KeyOf(h)} \ {Unroutable} = Grammar(h)
<1>1. Len(h) \in Nat /\ DOMAIN h = 1..Len(h)
  OBVIOUS
<1> DEFINE Good == /\ h # <<>> /\ count(h, ":") # 1
                   /\ \A i \in DOMAIN h : is_valid_key_char(h[i])
<1>2. {KeyOf(h)} \ {Unroutable} = IF Good THEN {h} ELSE {}
  BY DEF KeyOf, Unroutable
<1>3. ASSUME NEW k \in Grammar(h) PROVE k = h /\ Good
  <2>1. CASE k \in Portless(h) /\ IsName(k)
    <3>1. PICK j \in 0..Len(h) :
            /\ k = SubSeq(h, 1, j) /\ PortTail(SubSeq(h, j + 1, Len(h)))
            /\ k \in Seq(S) /\ Len(k) = j
            /\ \A i \in 1..j : k[i] = h[i]
            /\ j # Len(h) =>
                 /\ h[j + 1] = ":"
                 /\ \A i \in (j + 2)..Len(h) : h[i] \in {"8", "+"}
      BY <2>1, PortlessFacts
    <3>2. CASE j = Len(h)
      <4>1. k = h
        BY <3>1, <3>2, SeqEqual
      <4>2. \A i \in 1..Len(h) : h[i] # ":"
        BY <1>1, <2>1, <4>1 DEF IsName
      <4>3. count(h, ":") # 1
        BY <4>2, CountFacts
      <4> QED
        BY <2>1, <4>1, <4>3 DEF IsName, is_valid_key_char
    <3>3. CASE j # Len(h)
      <4>1. j \in Nat /\ j + 1 \in 1..Len(h) /\ h[j + 1] = ":"
        <5>1. j \in Nat /\ j + 1 \in 1..Len(h)
          <6>1. j \in 0..Len(h)
            BY <3>1
          <6>2. Len(h) \in Nat /\ j # Len(h)
            BY <1>1, <3>3
          <6> HIDE DEF Good
          <6> QED
            BY <6>1, <6>2
        <5> QED
          BY <3>1, <3>3, <5>1
      <4>2. ASSUME NEW i \in 1..Len(h), h[i] = ":" PROVE i = j + 1
        <5>1. CASE i \in 1..j
          <6>1. i \in DOMAIN k /\ k[i] = ":"
            BY <3>1, <4>2, <5>1
          <6> QED
            BY <2>1, <6>1 DEF IsName
        <5>2. CASE i \in (j + 2)..Len(h)
          BY <3>1, <3>3, <4>2, <5>2
        <5> QED
          BY <4>1, <5>1, <5>2
      <4>3. count(h, ":") = 1
        BY <4>1, <4>2, CountFacts
      <4>4. Contains(h, ":")
        BY <4>1 DEF Contains
      <4>5. At(h, ":") = j + 1
        BY <4>2, <4>4, SplitFacts
      <4> DEFINE t == SubSeq(h, j + 1, Len(h))
      <4>6. /\ t \in Seq(S) /\ Len(t) = Len(h) - j
            /\ \A i \in 1..(Len(h) - j) : t[i] = h[j + i]
        BY CutFacts
      <4>7. PortTail(t)
        BY <3>1
      <4> HIDE DEF t
      <4>8. t # <<>>
        BY <4>1, <4>6
      <4>9. parses_u16(Tail(t))
        BY <4>6, <4>7, <4>8, PortTailFacts
      <4>10. /\ Tail(t) \in Seq(S) /\ Len(Tail(t)) = Len(h) - (j + 1)
             /\ \A i \in 1..(Len(h) - (j + 1)) : Tail(t)[i] = h[(j + 1) + i]
        <5>1. /\ Tail(t) \in Seq(S) /\ Len(Tail(t)) = Len(t) - 1
              /\ \A i \in 1..(Len(t) - 1) : Tail(t)[i] = t[i + 1]
          BY <4>6, <4>8, TailFacts
        <5>2. Len(t) - 1 = Len(h) - (j + 1)
          BY <1>1, <4>1, <4>6
        <5>3. ASSUME NEW i \in 1..(Len(h) - (j + 1))
              PROVE  Tail(t)[i] = h[(j + 1) + i]
          <6>1. i + 1 \in 1..(Len(h) - j) /\ j + (i + 1) = (j + 1) + i
            BY <1>1, <4>1
          <6> QED
            BY <4>6, <5>1, <5>2, <6>1
        <5> QED
          BY <5>1, <5>2, <5>3
      <4>11. Tail(t) = After(h, ":")
        <5>1. /\ After(h, ":") \in Seq(S) /\ Len(After(h, ":")) = Len(h) - (j + 1)
              /\ \A i \in 1..(Len(h) - (j + 1)) : After(h, ":")[i] = h[(j + 1) + i]
          <6> DEFINE a == At(h, ":")
          <6>1. /\ After(h, ":") \in Seq(S) /\ Len(After(h, ":")) = Len(h) - a
                /\ \A i \in 1..(Len(h) - a) : After(h, ":")[i] = h[a + i]
            BY <4>4, SplitFacts
          <6>2. a = j + 1
            BY <4>5
          <6> HIDE DEF a
          <6> QED
            BY <6>1, <6>2
        <5>2. /\ Len(Tail(t)) = Len(After(h, ":"))
              /\ \A i \in 1..Len(Tail(t)) : Tail(t)[i] = After(h, ":")[i]
          BY <4>10, <5>1
        <5> QED
          BY <4>10, <5>1, <5>2, SeqEqual
      <4> QED
        BY <4>3, <4>9, <4>11
    <3> QED
      BY <3>2, <3>3
  <2>2. CASE k = h /\ IsV6(k)
    <3>1. count(h, ":") \in Nat /\ (count(h, ":") = 0 <=> \A i \in 1..Len(h) : h[i] # ":")
      BY CountFacts
    <3>2. count(h, ":") # 0 /\ count(h, ":") # 1
      BY <2>2, <3>1 DEF IsV6
    <3>3. h # <<>>
      BY <3>1, <3>2
    <3> QED
      BY <2>2, <3>2, <3>3 DEF IsV6
  <2>3. ASSUME NEW r \in Portless(h), r # <<>>, r[1] = "[", Last(r) = "]",
               IsV6(SubSeq(r, 2, Len(r) - 1))
        PROVE  FALSE
    BY <2>3, BareIsBracketed
  <2> QED
    BY <2>1, <2>2, <2>3 DEF Grammar
<1>4. ASSUME Good PROVE h \in Grammar(h)
  <2>1. count(h, ":") \in Nat /\ (count(h, ":") = 0 <=> \A i \in 1..Len(h) : h[i] # ":")
    BY CountFacts
  <2>2. CASE count(h, ":") = 0
    <3>1. IsName(h)
      BY <1>1, <1>4, <2>1, <2>2 DEF IsName, is_valid_key_char
    <3>2. SubSeq(h, 1, Len(h)) = h
      OBVIOUS
    <3>3. SubSeq(h, Len(h) + 1, Len(h)) = <<>> /\ Len(h) \in 0..Len(h)
      BY <1>1
    <3>4. h \in Portless(h)
      BY <3>2, <3>3 DEF Portless, PortTail
    <3> QED
      BY <3>1, <3>4 DEF Grammar
  <2>3. CASE count(h, ":") # 0
    <3>1. count(h, ":") >= 2
      BY <1>4, <2>1, <2>3
    <3> QED
      BY <1>4, <3>1 DEF Grammar, IsV6
  <2> QED
    BY <2>2, <2>3
<1> HIDE DEF Good
<1>5. Grammar(h) = IF Good THEN {h} ELSE {}
  BY <1>3, <1>4
<1> QED
  BY <1>2, <1>5

\* routing_key computes the grammar, for every host.
LEMMA RoutingKeyIsReference ==
  ASSUME NEW S, NEW host \in Seq(S)
  PROVE  {routing_key(host)} \ {Unroutable} = RefKeys(host)
<1> DEFINE h == to_lowercase(host)
<1>1. h \in Seq(S \cup {"a"})
  BY LowerFacts
<1>2. routing_key(host) = KeyOf(normalize_dns(host))
  BY DEF routing_key, KeyOf
<1>3. RefKeys(host) = Grammar(h)
  BY DEF RefKeys, Grammar
<1>4. normalize_dns(host) =
        CASE Bracketed(h) -> Tail(Before(h, "]"))
          [] ~Bracketed(h) /\ count(h, ":") = 1 /\ parses_u16(After(h, ":"))
               -> Before(h, ":")
          [] OTHER -> h
  BY DEF normalize_dns
<1> HIDE DEF h
<1>5. CASE Bracketed(h)
  <2>1. normalize_dns(host) = Tail(Before(h, "]"))
    BY <1>4, <1>5
  <2> QED
    BY <1>1, <1>2, <1>3, <1>5, <2>1, BracketedKey
<1>6. CASE ~Bracketed(h) /\ count(h, ":") = 1 /\ parses_u16(After(h, ":"))
  <2>1. normalize_dns(host) = Before(h, ":")
    BY <1>4, <1>6
  <2> QED
    BY <1>1, <1>2, <1>3, <1>6, <2>1, PortedKey
<1>7. CASE ~Bracketed(h) /\ ~(count(h, ":") = 1 /\ parses_u16(After(h, ":")))
  <2>1. normalize_dns(host) = h
    BY <1>4, <1>7
  <2> QED
    BY <1>1, <1>2, <1>3, <1>7, <2>1, PlainKey
<1> QED
  BY <1>5, <1>6, <1>7

\* The characters of a normalised name are the host's, in lower case.
LEMMA NormalizeFacts ==
  ASSUME NEW S, "a" \in S, NEW host \in Seq(S)
  PROVE  /\ normalize_dns(host) \in Seq(S)
         /\ \A i \in 1..Len(normalize_dns(host)) : \E j \in 1..Len(host) :
              normalize_dns(host)[i] = to_lowercase(host)[j]
<1> DEFINE h == to_lowercase(host)
           n == normalize_dns(host)
<1>1. h \in Seq(S) /\ Len(h) = Len(host)
  <2>1. S \cup {"a"} = S
    OBVIOUS
  <2> QED
    BY <2>1, LowerFacts
<1>2. n = CASE Bracketed(h) -> Tail(Before(h, "]"))
            [] ~Bracketed(h) /\ count(h, ":") = 1 /\ parses_u16(After(h, ":"))
                 -> Before(h, ":")
            [] OTHER -> h
  BY DEF normalize_dns
<1> SUFFICES n \in Seq(S) /\ \A i \in 1..Len(n) : \E j \in 1..Len(h) : n[i] = h[j]
  BY <1>1
<1> HIDE DEF h, n
<1>3. CASE Bracketed(h)
  <2> DEFINE b == Before(h, "]")
             q == At(h, "]")
  <2>1. h # <<>> /\ h[1] = "[" /\ Contains(h, "]")
    BY <1>3 DEF Bracketed
  <2>2. /\ q \in 1..Len(h) /\ h[q] = "]"
        /\ b \in Seq(S) /\ Len(b) = q - 1 /\ \A i \in 1..(q - 1) : b[i] = h[i]
    BY <1>1, <2>1, SplitFacts
  <2>3. n = Tail(b)
    BY <1>2, <1>3
  <2> HIDE DEF b, q
  <2>4. q # 1 /\ q \in Nat
    BY <2>1, <2>2
  <2>5. b # <<>>
    BY <2>2, <2>4
  <2>6. n \in Seq(S) /\ Len(n) = Len(b) - 1 /\ \A i \in 1..(Len(b) - 1) : n[i] = b[i + 1]
    BY <2>2, <2>3, <2>5, TailFacts
  <2>7. ASSUME NEW i \in 1..Len(n) PROVE \E j \in 1..Len(h) : n[i] = h[j]
    <3>1. i \in 1..(Len(b) - 1) /\ i + 1 \in 1..(q - 1) /\ i + 1 \in 1..Len(h)
      BY <2>2, <2>4, <2>6
    <3>2. n[i] = h[i + 1]
      BY <2>2, <2>6, <3>1
    <3> QED
      BY <3>1, <3>2
  <2> QED
    BY <2>6, <2>7
<1>4. CASE ~Bracketed(h) /\ count(h, ":") = 1 /\ parses_u16(After(h, ":"))
  <2> DEFINE b == Before(h, ":")
             a == At(h, ":")
  <2>1. Contains(h, ":")
    BY <1>1, <1>4, CountFacts DEF Contains
  <2>2. /\ a \in 1..Len(h)
        /\ b \in Seq(S) /\ Len(b) = a - 1 /\ \A i \in 1..(a - 1) : b[i] = h[i]
    BY <1>1, <2>1, SplitFacts
  <2>3. n = b
    BY <1>2, <1>4
  <2> HIDE DEF b, a
  <2>4. ASSUME NEW i \in 1..Len(n) PROVE \E j \in 1..Len(h) : n[i] = h[j]
    <3>1. i \in 1..(a - 1) /\ i \in 1..Len(h)
      BY <2>2, <2>3
    <3> QED
      BY <2>2, <2>3, <3>1
  <2> QED
    BY <2>2, <2>3, <2>4
<1>5. CASE ~Bracketed(h) /\ ~(count(h, ":") = 1 /\ parses_u16(After(h, ":")))
  <2>1. n = h
    BY <1>2, <1>5
  <2> QED
    BY <1>1, <2>1
<1> QED
  BY <1>3, <1>4, <1>5

\* What a routing key is: valid, in lower case, and with no single colon.
LEMMA RoutingKeyFacts ==
  ASSUME NEW S, "a" \in S, NEW host \in Seq(S), routing_key(host) # Unroutable
  PROVE  LET r == routing_key(host)
         IN  /\ r = normalize_dns(host) /\ r \in Seq(S) /\ count(r, ":") # 1
             /\ \A i \in 1..Len(r) : is_valid_key_char(r[i]) /\ r[i] # "A"
<1> DEFINE r == routing_key(host)
<1>1. /\ r = normalize_dns(host) /\ count(r, ":") # 1
      /\ \A i \in DOMAIN r : is_valid_key_char(r[i])
  BY DEF routing_key
<1>2. /\ r \in Seq(S)
      /\ \A i \in 1..Len(r) : \E j \in 1..Len(host) : r[i] = to_lowercase(host)[j]
  BY <1>1, NormalizeFacts
<1>3. \A j \in 1..Len(host) : to_lowercase(host)[j] # "A"
  BY LowerFacts
<1> HIDE DEF r
<1>4. DOMAIN r = 1..Len(r)
  BY <1>2
<1>5. \A i \in 1..Len(r) : is_valid_key_char(r[i]) /\ r[i] # "A"
  BY <1>1, <1>2, <1>3, <1>4
<1> QED
  BY <1>1, <1>2, <1>5 DEF r

\* A routing key can be registered as it stands.
LEMMA KeyRegisters ==
  ASSUME NEW S, "a" \in S, NEW host \in Seq(S), routing_key(host) # Unroutable
  PROVE  spec_host_key(routing_key(host)) = routing_key(host)
<1> DEFINE r == routing_key(host)
<1>1. /\ r \in Seq(S) /\ count(r, ":") # 1
      /\ \A i \in 1..Len(r) : is_valid_key_char(r[i]) /\ r[i] # "A"
  BY RoutingKeyFacts
<1> HIDE DEF r
<1>2. to_lowercase(r) = r
  <2> DEFINE l == to_lowercase(r)
  <2>1. l \in Seq(S \cup {"a"}) /\ S \cup {"a"} = S /\ Len(l) = Len(r)
        /\ \A i \in 1..Len(r) : l[i] = IF r[i] = "A" THEN "a" ELSE r[i]
    BY <1>1, LowerFacts
  <2> HIDE DEF l
  <2>2. \A i \in 1..Len(r) : l[i] = r[i]
    BY <1>1, <2>1
  <2>3. l = r
    BY <1>1, <2>1, <2>2, SeqEqual
  <2> QED
    BY <2>3 DEF l
<1>3. ~(r # <<>> /\ r[1] = "[")
  <2> SUFFICES ASSUME r # <<>>, r[1] = "[" PROVE FALSE
    OBVIOUS
  <2>1. 1 \in 1..Len(r)
    BY <1>1
  <2> QED
    BY <1>1, <2>1 DEF is_valid_key_char
<1>4. normalize_dns(r) = r
  BY <1>1, <1>2, <1>3 DEF normalize_dns, Bracketed
<1>5. DOMAIN r = 1..Len(r)
  BY <1>1
<1>6. routing_key(r) = r
  BY <1>1, <1>4, <1>5 DEF routing_key
<1>7. ~has_explicit_port(r)
  BY <1>1, <1>3 DEF has_explicit_port
<1> QED
  BY <1>6, <1>7 DEF spec_host_key, r

\* Lower case splits where the host does.
LEMMA LowerSplits ==
  ASSUME NEW S, NEW host \in Seq(S), NEW c, c \notin {"A", "a"}
  PROVE  /\ At(to_lowercase(host), c) = At(host, c)
         /\ count(to_lowercase(host), c) = count(host, c)
         /\ Contains(to_lowercase(host), c) <=> Contains(host, c)
<1> DEFINE h == to_lowercase(host)
<1>1. /\ h \in Seq(S \cup {"a"}) /\ Len(h) = Len(host)
      /\ \A i \in 1..Len(host) : h[i] = IF host[i] = "A" THEN "a" ELSE host[i]
  BY LowerFacts
<1> HIDE DEF h
<1>2. DOMAIN h = 1..Len(host) /\ DOMAIN host = 1..Len(host)
  BY <1>1
<1>3. \A i \in 1..Len(host) : h[i] = c <=> host[i] = c
  BY <1>1
<1>4. {i \in DOMAIN h : h[i] = c} = {i \in DOMAIN host : host[i] = c}
  BY <1>2, <1>3
<1>5. At(h, c) = At(host, c) /\ count(h, c) = count(host, c)
  BY <1>4 DEF At, count
<1>6. Contains(h, c) <=> Contains(host, c)
  BY <1>1, <1>3 DEF Contains
<1> QED
  BY <1>5, <1>6 DEF h

\* What follows a split is the same in lower case, if it is a port.
LEMMA LowerTail ==
  ASSUME NEW S, "a" \in S, NEW host \in Seq(S), NEW c, c \notin {"A", "a"},
         Contains(host, c),
         \A i \in 1..Len(After(to_lowercase(host), c)) :
           After(to_lowercase(host), c)[i] \in {":", "8", "+"}
  PROVE  After(to_lowercase(host), c) = After(host, c)
<1> DEFINE h == to_lowercase(host)
           t == After(h, c)
           u == After(host, c)
           a == At(host, c)
<1>1. /\ h \in Seq(S) /\ Len(h) = Len(host)
      /\ \A i \in 1..Len(host) : h[i] = IF host[i] = "A" THEN "a" ELSE host[i]
  <2>1. S \cup {"a"} = S
    OBVIOUS
  <2> QED
    BY <2>1, LowerFacts
<1>2. At(h, c) = a /\ Contains(h, c)
  BY LowerSplits
<1>3. \A i \in 1..Len(t) : t[i] \in {":", "8", "+"}
  OBVIOUS
<1>4. /\ a \in 1..Len(host) /\ u \in Seq(S) /\ Len(u) = Len(host) - a
      /\ \A i \in 1..(Len(host) - a) : u[i] = host[a + i]
  BY SplitFacts
<1> HIDE DEF h
<1>5. /\ t \in Seq(S) /\ Len(t) = Len(h) - At(h, c)
      /\ \A i \in 1..(Len(h) - At(h, c)) : t[i] = h[At(h, c) + i]
  BY <1>1, <1>2, SplitFacts
<1> HIDE DEF t, u, a
<1>6. /\ Len(t) = Len(host) - a
      /\ \A i \in 1..(Len(host) - a) : t[i] = h[a + i]
  BY <1>1, <1>2, <1>5
<1>7. ASSUME NEW i \in 1..(Len(host) - a) PROVE t[i] = u[i]
  <2>1. a + i \in 1..Len(host)
    BY <1>4
  <2>2. h[a + i] \in {":", "8", "+"}
    BY <1>3, <1>6
  <2>3. h[a + i] = host[a + i]
    BY <1>1, <2>1, <2>2
  <2> QED
    BY <1>4, <1>6, <2>3
<1>8. t = u
  BY <1>4, <1>5, <1>6, <1>7, SeqEqual
<1> QED
  BY <1>8 DEF t, u, h

\* One token before a sequence, and one after it.
LEMMA WrapFacts ==
  ASSUME NEW S, NEW x \in Seq(S), Len(x) = 1, NEW k \in Seq(S)
  PROVE  /\ x \o k \in Seq(S) /\ Len(x \o k) = 1 + Len(k)
         /\ \A i \in 1..(1 + Len(k)) :
              (x \o k)[i] = IF i <= 1 THEN x[i] ELSE k[i - 1]
         /\ k \o x \in Seq(S) /\ Len(k \o x) = Len(k) + 1
         /\ \A i \in 1..(Len(k) + 1) :
              (k \o x)[i] = IF i <= Len(k) THEN k[i] ELSE x[i - Len(k)]
<1>1. /\ x \o k \in Seq(S) /\ Len(x \o k) = Len(x) + Len(k)
      /\ \A i \in 1..(Len(x) + Len(k)) :
           (x \o k)[i] = IF i <= Len(x) THEN x[i] ELSE k[i - Len(x)]
  BY ConcatProperties
<1>2. /\ k \o x \in Seq(S) /\ Len(k \o x) = Len(k) + Len(x)
      /\ \A i \in 1..(Len(k) + Len(x)) :
           (k \o x)[i] = IF i <= Len(k) THEN k[i] ELSE x[i - Len(k)]
  BY ConcatProperties
<1>3. /\ x \o k \in Seq(S) /\ Len(x \o k) = 1 + Len(k)
      /\ \A i \in 1..(1 + Len(k)) :
           (x \o k)[i] = IF i <= 1 THEN x[i] ELSE k[i - 1]
  BY <1>1, Zenon
<1>4. /\ k \o x \in Seq(S) /\ Len(k \o x) = Len(k) + 1
      /\ \A i \in 1..(Len(k) + 1) :
           (k \o x)[i] = IF i <= Len(k) THEN k[i] ELSE x[i - Len(k)]
  BY <1>2, Zenon
<1> QED
  BY <1>3, <1>4, Zenon

\* What an operator registers is what he wrote, but for case and brackets.
LEMMA RegisteredAsWritten ==
  ASSUME NEW S, "a" \in S, NEW host \in Seq(S), spec_host_key(host) # Unroutable
  PROVE  to_lowercase(host) \in
           {spec_host_key(host), <<"[">> \o spec_host_key(host) \o <<"]">>}
<1> DEFINE h == to_lowercase(host)
           k == spec_host_key(host)
<1>1. ~has_explicit_port(host) /\ k = routing_key(host) /\ k # Unroutable
  BY DEF spec_host_key
<1>2. /\ h \in Seq(S) /\ Len(h) = Len(host)
      /\ \A i \in 1..Len(host) : h[i] = IF host[i] = "A" THEN "a" ELSE host[i]
  <2>1. S \cup {"a"} = S
    OBVIOUS
  <2> QED
    BY <2>1, LowerFacts
<1>3. /\ k = normalize_dns(host) /\ k \in Seq(S)
      /\ \A i \in 1..Len(k) : is_valid_key_char(k[i])
  BY <1>1, RoutingKeyFacts
<1>4. normalize_dns(host) =
        CASE Bracketed(h) -> Tail(Before(h, "]"))
          [] ~Bracketed(h) /\ count(h, ":") = 1 /\ parses_u16(After(h, ":"))
               -> Before(h, ":")
          [] OTHER -> h
  BY DEF normalize_dns
<1>5. (h # <<>> /\ h[1] = "[") <=> (host # <<>> /\ host[1] = "[")
  <2>1. h = <<>> <=> host = <<>>
    BY <1>2
  <2>2. ASSUME h # <<>> PROVE 1 \in 1..Len(host)
    BY <1>2, <2>2
  <2> QED
    BY <1>2, <2>1, <2>2
<1> HIDE DEF k
<1>6. CASE Bracketed(h)
  <2> DEFINE b == Before(h, "]")
             q == At(h, "]")
  <2>1. h # <<>> /\ h[1] = "[" /\ Contains(h, "]") /\ PortTail(After(h, "]"))
    BY <1>6 DEF Bracketed
  <2>2. /\ q \in 1..Len(h) /\ h[q] = "]"
        /\ b \in Seq(S) /\ Len(b) = q - 1 /\ \A i \in 1..(q - 1) : b[i] = h[i]
        /\ After(h, "]") \in Seq(S) /\ Len(After(h, "]")) = Len(h) - q
    BY <1>2, <2>1, SplitFacts
  <2>3. k = Tail(b)
    BY <1>3, <1>4, <1>6
  <2>4. After(h, "]") = <<>>
    <3> SUFFICES ASSUME After(h, "]") # <<>> PROVE FALSE
      OBVIOUS
    <3> DEFINE t == After(h, "]")
    <3>1. t[1] = ":" /\ \A i \in 2..Len(t) : t[i] \in {"8", "+"}
      BY <2>1, <2>2, PortTailFacts
    <3>2. \A i \in 1..Len(t) : t[i] \in {":", "8", "+"}
      BY <2>2, <3>1
    <3>3. Contains(host, "]")
      BY <2>1, LowerSplits
    <3>4. t = After(host, "]")
      BY <3>2, <3>3, LowerTail
    <3> QED
      BY <1>1, <1>5, <2>1, <3>3, <3>4 DEF has_explicit_port
  <2> HIDE DEF b, q
  <2>5. q = Len(h) /\ q # 1 /\ q \in Nat
    BY <2>1, <2>2, <2>4
  <2>6. b # <<>>
    BY <2>2, <2>5
  <2>7. Len(k) = Len(b) - 1 /\ \A i \in 1..(Len(b) - 1) : k[i] = b[i + 1]
    BY <2>2, <2>3, <2>6, TailFacts
  <2>8. Len(k) = q - 2 /\ \A i \in 1..(q - 2) : k[i] = h[i + 1]
    <3>1. Len(b) - 1 = q - 2
      BY <2>2, <2>5
    <3>2. ASSUME NEW i \in 1..(q - 2) PROVE k[i] = h[i + 1]
      <4>1. i + 1 \in 1..(q - 1)
        BY <2>5
      <4> QED
        BY <2>2, <2>7, <3>1, <4>1
    <3> QED
      BY <2>7, <3>1, <3>2
  <2> DEFINE o == <<"[">>
             c == <<"]">>
             m == o \o k
             w == m \o c
             V == S \cup {"[", "]"}
  <2>9. /\ o \in Seq(V) /\ Len(o) = 1 /\ o[1] = "["
        /\ c \in Seq(V) /\ Len(c) = 1 /\ c[1] = "]" /\ k \in Seq(V) /\ h \in Seq(V)
    BY <1>2, <1>3
  <2> HIDE DEF o, c, V
  <2>10. /\ m \in Seq(V) /\ Len(m) = 1 + Len(k)
         /\ \A i \in 1..(1 + Len(k)) : m[i] = IF i <= 1 THEN o[i] ELSE k[i - 1]
    <3>1. o \in Seq(V) /\ Len(o) = 1 /\ k \in Seq(V)
      BY <2>9
    <3> QED
      BY <3>1, WrapFacts
  <2> HIDE DEF m
  <2>11. /\ w \in Seq(V) /\ Len(w) = Len(m) + 1
         /\ \A i \in 1..(Len(m) + 1) : w[i] = IF i <= Len(m) THEN m[i] ELSE c[i - Len(m)]
    BY <2>9, <2>10, WrapFacts, Zenon DEF w
  <2> HIDE DEF w
  <2>12. Len(m) = q - 1 /\ Len(w) = q /\ Len(w) = Len(h)
    BY <2>5, <2>8, <2>10, <2>11
  <2>13. ASSUME NEW i \in 1..q PROVE w[i] = h[i]
    <3>1. CASE i = 1
      <4>1. i \in 1..(Len(m) + 1) /\ i <= Len(m) /\ i \in 1..(1 + Len(k)) /\ i <= 1
        BY <2>5, <2>8, <2>12, <3>1
      <4>2. w[i] = o[i]
        BY <2>10, <2>11, <4>1
      <4> QED
        BY <2>1, <2>9, <3>1, <4>2
    <3>2. CASE i = q
      <4>1. i \in 1..(Len(m) + 1) /\ ~(i <= Len(m)) /\ i - Len(m) = 1
        BY <2>5, <2>12, <3>2
      <4>2. w[i] = c[1]
        BY <2>11, <4>1
      <4> QED
        BY <2>2, <2>9, <3>2, <4>2
    <3>3. CASE i # 1 /\ i # q
      <4>1. /\ i \in 1..(Len(m) + 1) /\ i <= Len(m) /\ i \in 1..(1 + Len(k))
            /\ ~(i <= 1) /\ i - 1 \in 1..(q - 2) /\ (i - 1) + 1 = i
        BY <2>5, <2>8, <2>12, <3>3
      <4>2. w[i] = k[i - 1]
        BY <2>10, <2>11, <4>1
      <4>3. k[i - 1] = h[i]
        BY <2>8, <4>1
      <4> QED
        BY <4>2, <4>3
    <3> QED
      BY <3>1, <3>2, <3>3
  <2>14. w = h
    BY <2>9, <2>11, <2>12, <2>13, SeqEqual
  <2> QED
    BY <2>14 DEF w, m, o, c, k
<1>7. CASE ~Bracketed(h) /\ count(h, ":") = 1 /\ parses_u16(After(h, ":"))
  <2> DEFINE b == Before(h, ":")
             a == At(h, ":")
  <2>1. Contains(h, ":")
    BY <1>2, <1>7, CountFacts DEF Contains
  <2>2. /\ a \in 1..Len(h) /\ h[a] = ":"
        /\ Len(b) = a - 1 /\ \A i \in 1..(a - 1) : b[i] = h[i]
        /\ After(h, ":") \in Seq(S)
    BY <1>2, <2>1, SplitFacts
  <2>3. k = b
    BY <1>3, <1>4, <1>7
  <2> HIDE DEF b, a
  <2>4. CASE h # <<>> /\ h[1] = "["
    <3>1. a # 1 /\ a \in Nat
      BY <2>2, <2>4
    <3>2. 1 \in 1..(a - 1)
      BY <2>2, <3>1
    <3>3. 1 \in 1..Len(k) /\ k[1] = "["
      BY <2>2, <2>3, <2>4, <3>2
    <3> QED
      BY <1>3, <3>3 DEF is_valid_key_char
  <2>5. CASE ~(h # <<>> /\ h[1] = "[")
    <3>1. count(host, ":") = 1 /\ Contains(host, ":")
      BY <1>7, <2>1, LowerSplits
    <3>2. \A i \in 1..Len(After(h, ":")) : After(h, ":")[i] \in {"8", "+"}
      BY <1>7, <2>2, PortFacts
    <3>3. After(h, ":") = After(host, ":")
      BY <3>1, <3>2, LowerTail
    <3> QED
      BY <1>1, <1>5, <1>7, <2>5, <3>1, <3>3 DEF has_explicit_port
  <2> QED
    BY <2>4, <2>5
<1>8. CASE ~Bracketed(h) /\ ~(count(h, ":") = 1 /\ parses_u16(After(h, ":")))
  <2>1. k = h
    BY <1>3, <1>4, <1>8
  <2> QED
    BY <2>1 DEF k
<1> QED
  BY <1>6, <1>7, <1>8

-----------------------------------------------------------------------------
(* The inductive invariant.                                                *)

Token   == (STRING \ {"*"}) \cup {"a"}
Backend == [service : STRING, sound : BOOLEAN, host : Seq(STRING \ {"*"})]

\* What was given keeps its shape.
GivenInv ==
  /\ listen = NoListen \/ listen \in Seq(Option)
  /\ backends \in Seq(Backend) /\ built \in BOOLEAN
  /\ \A i \in DOMAIN backends : backends[i].sound => backends[i].service # "*"

\* The first k options were read: each is in its place, none was given twice,
\* and nothing else is set.
ReadUpTo(k) ==
  /\ \A i \in 1..k : listen[i] # "bad" /\ opts[Name(listen[i])] = listen[i]
  /\ \A i, j \in 1..k : i # j => Name(listen[i]) # Name(listen[j])
  /\ \A n \in Setting : opts[n] # "none" =>
       \E i \in 1..k : listen[i] = opts[n] /\ Name(listen[i]) = n

OptsInv ==
  /\ opts \in [Setting -> Option \cup {"none"}]
  /\ verdict \in {"listen", "backends", "scopes", "ok", "error"}
  /\ verdict = "listen" =>
       /\ listen # NoListen /\ at \in 0..Len(listen) /\ ReadUpTo(at)
  /\ verdict \in {"backends", "scopes", "ok"} =>
       IF listen = NoListen THEN \A n \in Setting : opts[n] = "none"
       ELSE ReadUpTo(Len(listen)) /\ ~Contradiction

\* The backends read so far parse and have a scope each.
ScopeInv ==
  /\ verdict \in {"listen", "backends"} => scopes = {}
  /\ verdict = "backends" => at = 0
  /\ verdict \in {"scopes", "ok"} =>
       /\ at \in 0..Len(backends)
       /\ \A i \in DOMAIN backends : Parses(backends[i])
       /\ \A i \in 1..at : Scope(backends[i]) \in scopes
       /\ \A i, j \in 1..at : i # j => Scope(backends[i]) # Scope(backends[j])
  /\ verdict = "ok" => at = Len(backends)
  /\ \A s \in scopes :
       \E i \in DOMAIN backends : Parses(backends[i]) /\ s = Scope(backends[i])

SpecsInv == GivenInv /\ OptsInv /\ ScopeInv /\ DoorAsWritten

\* A process is started with one of the command lines.
LEMMA GivenInit == Init => GivenInv
<1> SUFFICES ASSUME Init PROVE GivenInv
  OBVIOUS
<1>1. PICK c \in CommandLines : 
                /\ listen = c.listen /\ backends = c.backends /\ built = c.built
  BY DEF Init
<1>2. c \in CommandLine
  BY SpecsAssumption
<1>3. c.listen \in {NoListen} \cup Seq(Option) /\ c.backends \in Seq(Backend)
        /\ c.built \in BOOLEAN
  BY <1>2 DEF CommandLine, Backend
<1>4. \A i \in DOMAIN c.backends :
         c.backends[i].sound => c.backends[i].service # "*"
  BY SpecsAssumption
<1> QED
  BY <1>1, <1>3, <1>4 DEF GivenInv

\* What was given stays as it is.
LEMMA GivenStep == GivenInv /\ [Next]_vars => GivenInv' /\ UNCHANGED given
  BY DEF GivenInv, Next, vars, given, ReadOption, OptionError, ListenRead,
         ListenError, BackendsRead, BackendError, ReadScope, ScopeError,
         Accepted, ValidateError, Refuse

\* What the options read say of the options given.
LEMMA OptionsGiven ==
  ASSUME listen \in Seq(Option), opts \in [Setting -> Option \cup {"none"}],
         ReadUpTo(Len(listen))
  PROVE  /\ \A x \in Option \ {"bad"} : Contains(listen, x) <=> opts[Name(x)] = x
         /\ ~Contains(listen, "bad")
         /\ \A i, j \in DOMAIN listen : i # j => Name(listen[i]) # Name(listen[j])
         /\ opts["proto"] \in {"none", "auto", "raw"}
         /\ opts["route"] \in {"none", "connection", "request"}
         /\ opts["cert"] \in {"none", "cert"}
         /\ opts["key"] \in {"none", "key"}
<1>1. ASSUME NEW x \in Option \ {"bad"}
      PROVE  Name(x) \in Setting /\ x # "none"
  BY <1>1 DEF Option, Name, Setting
<1>2. ASSUME NEW n \in Setting
      PROVE  opts[n] = "none" \/ (opts[n] \in Option /\ Name(opts[n]) = n)
  BY <1>2 DEF ReadUpTo
<1>3. ASSUME NEW x \in Option \ {"bad"}
      PROVE  Contains(listen, x) <=> opts[Name(x)] = x
  BY <1>1, <1>3 DEF ReadUpTo, Contains
<1>4. ~Contains(listen, "bad")
  BY DEF ReadUpTo, Contains
<1>5. \A i, j \in DOMAIN listen : i # j => Name(listen[i]) # Name(listen[j])
  BY DEF ReadUpTo
<1>6. /\ opts["proto"] \in {"none", "auto", "raw"}
      /\ opts["route"] \in {"none", "connection", "request"}
      /\ opts["cert"] \in {"none", "cert"}
      /\ opts["key"] \in {"none", "key"}
  <2>1. "proto" \in Setting /\ "route" \in Setting /\ "cert" \in Setting
          /\ "key" \in Setting
    BY DEF Setting
  <2>2. \A o \in Option : /\ Name(o) = "proto" => o \in {"auto", "raw"}
                          /\ Name(o) = "route" => o \in {"connection", "request"}
                          /\ Name(o) = "cert" => o = "cert"
                          /\ Name(o) = "key" => o = "key"
    BY DEF Option, Name
  <2> QED
    BY <1>2, <2>1, <2>2
<1> QED
  BY <1>3, <1>4, <1>5, <1>6

\* ListenSpec::from_str keeps OptsInv, and nothing after it touches the options.
LEMMA OptsStep ==
  ASSUME GivenInv, OptsInv, [Next]_vars
  PROVE  OptsInv'
<1> USE DEF OptsInv
<1>1. CASE ReadOption
  <2> DEFINE o == listen[at + 1]
  <2>1. /\ verdict = "listen" /\ at \in 0..Len(listen) /\ at < Len(listen)
        /\ ReadUpTo(at) /\ listen # NoListen /\ listen \in Seq(Option)
    BY <1>1 DEF ReadOption, Reading, GivenInv
  <2>2. /\ o # "bad" /\ opts[Name(o)] = "none"
        /\ opts' = [opts EXCEPT ![Name(o)] = o] /\ at' = at + 1
        /\ listen' = listen /\ verdict' = verdict
    BY <1>1 DEF ReadOption, Taken, given
  <2>3. o \in Option /\ Name(o) \in Setting /\ o # "none"
    <3>1. o \in Option
      BY <2>1
    <3> QED
      BY <2>2, <3>1 DEF Option, Name, Setting
  <2> HIDE DEF o
  <2>4. opts' \in [Setting -> Option \cup {"none"}]
    BY <2>2, <2>3
  <2>5. /\ opts'[Name(o)] = o
        /\ \A n \in Setting : n # Name(o) => opts'[n] = opts[n]
    BY <2>2, <2>3
  <2>6. ASSUME NEW i \in 1..at
        PROVE  /\ listen[i] # "bad" /\ Name(listen[i]) # Name(o)
               /\ opts'[Name(listen[i])] = listen[i]
    <3>1. listen[i] # "bad" /\ opts[Name(listen[i])] = listen[i] /\ listen[i] \in Option
      BY <2>1, <2>6 DEF ReadUpTo
    <3>2. Name(listen[i]) \in Setting /\ listen[i] # "none"
      BY <3>1 DEF Option, Name, Setting
    <3> QED
      BY <2>2, <2>5, <3>1, <3>2
  <2>7. 1..(at + 1) = (1..at) \cup {at + 1}
    BY <2>1
  <2>8. ASSUME NEW n \in Setting, opts'[n] # "none"
        PROVE  \E i \in 1..(at + 1) : listen[i] = opts'[n] /\ Name(listen[i]) = n
    BY <2>1, <2>5, <2>7, <2>8 DEF ReadUpTo, o
  <2>9. /\ \A i \in 1..(at + 1) : listen[i] # "bad" /\ opts'[Name(listen[i])] = listen[i]
        /\ \A i, j \in 1..(at + 1) : i # j => Name(listen[i]) # Name(listen[j])
    <3>1. \A i, j \in 1..at : i # j => Name(listen[i]) # Name(listen[j])
      BY <2>1 DEF ReadUpTo
    <3> QED
      BY <2>2, <2>5, <2>6, <2>7, <3>1 DEF o
  <2>10. at' \in 0..Len(listen)
    BY <2>1, <2>2
  <2> QED
    BY <2>1, <2>2, <2>4, <2>8, <2>9, <2>10 DEF ReadUpTo
<1>2. CASE ListenRead
  <2>1. ReadUpTo(Len(listen)) /\ listen # NoListen /\ ~Contradiction
    BY <1>2 DEF ListenRead
  <2> QED
    BY <1>2, <2>1 DEF ListenRead, ReadUpTo, Contradiction, proto, route, tls, given
<1>3. CASE OptionError \/ ListenError \/ BackendError \/ ScopeError \/ ValidateError
  BY <1>3 DEF OptionError, ListenError, BackendError, ScopeError, ValidateError, Refuse
<1>4. CASE BackendsRead
  BY <1>4 DEF BackendsRead, ReadUpTo, Contradiction, proto, route, tls, given
<1>5. CASE ReadScope
  BY <1>5 DEF ReadScope, ReadUpTo, Contradiction, proto, route, tls, given
<1>6. CASE Accepted
  BY <1>6 DEF Accepted, ReadUpTo, Contradiction, proto, route, tls, given
<1>7. CASE UNCHANGED vars
  BY <1>7 DEF vars, ReadUpTo, Contradiction, proto, route, tls, given
<1> QED
  BY <1>1, <1>2, <1>3, <1>4, <1>5, <1>6, <1>7 DEF Next

\* Args::validate keeps ScopeInv: a scope is added only if it is not there yet.
LEMMA ScopeStep ==
  ASSUME GivenInv, ScopeInv, [Next]_vars
  PROVE  ScopeInv'
<1> USE DEF ScopeInv, GivenInv
<1>1. CASE ReadScope
  <2> DEFINE b == backends[at + 1]
  <2>1. /\ verdict = "scopes" /\ at \in 0..Len(backends) /\ at < Len(backends)
        /\ Scope(b) \notin scopes
        /\ scopes' = scopes \cup {Scope(b)} /\ at' = at + 1
        /\ backends' = backends /\ verdict' = verdict
    BY <1>1 DEF ReadScope, Seen, given
  <2>2. at + 1 \in DOMAIN backends /\ Parses(b)
    BY <2>1
  <2>3. 1..(at + 1) = (1..at) \cup {at + 1}
    BY <2>1
  <2>4. \A i, j \in 1..(at + 1) : i # j => Scope(backends[i]) # Scope(backends[j])
    BY <2>1, <2>3
  <2>5. \A i \in 1..(at + 1) : Scope(backends[i]) \in scopes'
    BY <2>1, <2>3
  <2>6. \A s \in scopes' :
          \E i \in DOMAIN backends : Parses(backends[i]) /\ s = Scope(backends[i])
    BY <2>1, <2>2
  <2>7. at' \in 0..Len(backends)
    BY <2>1
  <2> QED
    BY <2>1, <2>4, <2>5, <2>6, <2>7 DEF Parses, Scope
<1>2. CASE ReadOption
  BY <1>2 DEF ReadOption, Reading, given, Parses, Scope
<1>3. CASE ListenRead
  BY <1>3 DEF ListenRead, given, Parses, Scope
<1>4. CASE OptionError \/ ListenError \/ BackendError \/ ScopeError \/ ValidateError
  BY <1>4 DEF OptionError, ListenError, BackendError, ScopeError, ValidateError,
              Refuse, given, Parses, Scope
<1>5. CASE BackendsRead
  BY <1>5 DEF BackendsRead, given, Parses, Scope
<1>6. CASE Accepted
  BY <1>6 DEF Accepted, given, Parses, Scope
<1>7. CASE UNCHANGED vars
  <2>1. /\ backends' = backends /\ scopes' = scopes /\ at' = at
        /\ verdict' = verdict
    BY <1>7 DEF vars, given
  <2> QED
    BY <2>1 DEF Parses, Scope
<1> QED
  BY <1>1, <1>2, <1>3, <1>4, <1>5, <1>6, <1>7 DEF Next

-----------------------------------------------------------------------------
(* The door.                                                               *)

\* At most one of three is at most one, whichever.
LEMMA AtMostOne ==
  ASSUME NEW a, NEW b, NEW c, NEW D \in SUBSET {a, b, c}
  PROVE  Cardinality(D) <= 1 <=> \A x, y \in D : x = y
<1>1. IsFiniteSet({a}) /\ IsFiniteSet({a} \cup {b})
  BY FS_Singleton, FS_AddElement
<1>2. IsFiniteSet(({a} \cup {b}) \cup {c})
  BY <1>1, FS_AddElement
<1>3. {a, b, c} = ({a} \cup {b}) \cup {c}
  OBVIOUS
<1>4. IsFiniteSet(D) /\ Cardinality(D) \in Nat
  BY <1>2, <1>3, FS_Subset, FS_CardinalityType
<1>5. ASSUME NEW x \in D, NEW y \in D, x # y PROVE Cardinality(D) > 1
  <2>1. IsFiniteSet({x}) /\ Cardinality({x}) = 1
    BY FS_Singleton
  <2>2. Cardinality({x} \cup {y}) = 2
    BY <1>5, <2>1, FS_AddElement
  <2>3. ({x} \cup {y}) \in SUBSET D
    BY <1>5
  <2>4. Cardinality({x} \cup {y}) <= Cardinality(D)
    BY <1>4, <2>3, FS_Subset
  <2> QED
    BY <1>4, <2>2, <2>4
<1>6. ASSUME \A x, y \in D : x = y PROVE Cardinality(D) <= 1
  <2>1. CASE D = {}
    BY <2>1, FS_EmptySet
  <2>2. CASE D # {}
    <3>1. PICK x : x \in D
      BY <2>2
    <3>2. D = {x}
      BY <1>6, <3>1
    <3>3. Cardinality({x}) = 1
      BY FS_Singleton
    <3> QED
      BY <3>2, <3>3
  <2> QED
    BY <2>1, <2>2
<1> QED
  BY <1>4, <1>5, <1>6

\* Sound, spelled out.
LEMMA SoundFacts ==
  ASSUME NEW o
  PROVE  Sound(o) <=>
           /\ o # NoListen \/ backends # <<>>
           /\ ~Contains(o, "bad")
           /\ \A i, j \in DOMAIN o : i # j => Name(o[i]) # Name(o[j])
           /\ Contains(o, "cert") <=> Contains(o, "key")
           /\ ~(Contains(o, "raw") /\ Contains(o, "request"))
           /\ ~(Contains(o, "raw") /\ Contains(o, "cert"))
           /\ ~(Contains(o, "request") /\ Contains(o, "cert"))
           /\ Contains(o, "cert") => built
<1> DEFINE D == {x \in {"raw", "request", "cert"} : Contains(o, x)}
<1>0. D \in SUBSET {"raw", "request", "cert"}
  OBVIOUS
<1> HIDE DEF D
<1>1. Cardinality(D) <= 1 <=> \A x, y \in D : x = y
  BY <1>0, AtMostOne
<1>2. (\A x, y \in D : x = y) <=>
           /\ ~(Contains(o, "raw") /\ Contains(o, "request"))
           /\ ~(Contains(o, "raw") /\ Contains(o, "cert"))
           /\ ~(Contains(o, "request") /\ Contains(o, "cert"))
  BY DEF D
<1>3. Cardinality(D) <= 1 <=>
           /\ ~(Contains(o, "raw") /\ Contains(o, "request"))
           /\ ~(Contains(o, "raw") /\ Contains(o, "cert"))
           /\ ~(Contains(o, "request") /\ Contains(o, "cert"))
  BY <1>1, <1>2
<1> QED
  BY <1>3, Zenon DEF Sound, D

\* What is not given is not set.
LEMMA NothingGiven ==
  \A x \in Option : ~Contains(NoListen, x)
<1>1. Len(NoListen) = 1 /\ NoListen[1] = "none"
  BY DEF NoListen
<1>2. "none" \notin Option
  BY DEF Option
<1> QED
  BY <1>1, <1>2 DEF Contains

\* The name of each option.
LEMMA NameFacts ==
  /\ Name("auto") = "proto" /\ Name("raw") = "proto"
  /\ Name("connection") = "route" /\ Name("request") = "route"
  /\ Name("cert") = "cert" /\ Name("key") = "key"
<1>1. Name("auto") = "proto" /\ Name("raw") = "proto"
  BY Zenon DEF Name
<1>2. Name("connection") = "route" /\ Name("request") = "route"
  BY Zenon DEF Name
<1>3. Name("cert") = "cert" /\ Name("key") = "key"
  BY Zenon DEF Name
<1> QED
  BY <1>1, <1>2, <1>3

\* Once they are read, the options given are the options set.
LEMMA OptionsSet ==
  ASSUME GivenInv, OptsInv,
         \/ verdict = "listen" /\ at = Len(listen)
         \/ verdict \in {"backends", "scopes", "ok"}
  PROVE  /\ Contains(listen, "raw") <=> proto = "raw"
         /\ Contains(listen, "request") <=> route = "request"
         /\ Contains(listen, "cert") <=> tls = "terminate"
         /\ Contains(listen, "cert") <=> opts["cert"] # "none"
         /\ Contains(listen, "key") <=> opts["key"] # "none"
         /\ proto \in {"auto", "raw"} /\ route \in {"connection", "request"}
         /\ tls \in {"passthrough", "terminate"}
         /\ ~Contains(listen, "bad")
         /\ \A i, j \in DOMAIN listen : i # j => Name(listen[i]) # Name(listen[j])
         /\ verdict # "listen" => ~Contradiction
<1>1. CASE listen # NoListen
  <2>1. /\ listen \in Seq(Option) /\ opts \in [Setting -> Option \cup {"none"}]
        /\ ReadUpTo(Len(listen)) /\ (verdict # "listen" => ~Contradiction)
    BY <1>1 DEF GivenInv, OptsInv
  <2>2. /\ \A x \in Option \ {"bad"} : Contains(listen, x) <=> opts[Name(x)] = x
        /\ ~Contains(listen, "bad")
        /\ \A i, j \in DOMAIN listen : i # j => Name(listen[i]) # Name(listen[j])
        /\ opts["proto"] \in {"none", "auto", "raw"}
        /\ opts["route"] \in {"none", "connection", "request"}
        /\ opts["cert"] \in {"none", "cert"}
        /\ opts["key"] \in {"none", "key"}
    BY <2>1, OptionsGiven
  <2>3. /\ Contains(listen, "raw") <=> opts["proto"] = "raw"
        /\ Contains(listen, "request") <=> opts["route"] = "request"
        /\ Contains(listen, "cert") <=> opts["cert"] = "cert"
        /\ Contains(listen, "key") <=> opts["key"] = "key"
    BY <2>2, NameFacts DEF Option
  <2> QED
    BY <2>1, <2>2, <2>3 DEF proto, route, tls
<1>2. CASE listen = NoListen
  <2>1. \A n \in Setting : opts[n] = "none"
    BY <1>2 DEF OptsInv
  <2>2. /\ opts["proto"] = "none" /\ opts["route"] = "none"
        /\ opts["cert"] = "none" /\ opts["key"] = "none"
    BY <2>1 DEF Setting
  <2>3. \A x \in Option : ~Contains(listen, x)
    BY <1>2, NothingGiven
  <2>4. \A i, j \in DOMAIN listen : i # j => Name(listen[i]) # Name(listen[j])
    <3>1. DOMAIN listen = {1}
      BY <1>2 DEF NoListen
    <3> QED
      BY <3>1
  <2>5. ~Contradiction
    BY <2>2 DEF Contradiction, proto, route, tls
  <2> QED
    BY <2>2, <2>3, <2>4, <2>5 DEF Option, proto, route, tls
<1> QED
  BY <1>1, <1>2

\* Where the options do not contradict each other, one of them decides the arm of
\* run_listener, and it is never the last.
LEMMA Doors ==
  ASSUME proto \in {"auto", "raw"}, route \in {"connection", "request"},
         tls \in {"passthrough", "terminate"}, ~Contradiction,
         tls = "terminate" => built = TRUE
  PROVE  /\ proto = "raw" => Dispatched = "raw"
         /\ route = "request" => Dispatched = "multiroute"
         /\ tls = "terminate" => Dispatched = "terminate"
         /\ proto # "raw" /\ route # "request" /\ tls # "terminate"
              => Dispatched = "auto"
<1> DEFINE P == proto
           R == route
           T == tls
<1>1. /\ ~(P = "raw" /\ R = "request") /\ ~(P = "raw" /\ T = "terminate")
      /\ ~(R = "request" /\ T = "terminate")
  BY DEF Contradiction
<1>2. Dispatched =
        CASE P = "raw" /\ T = "passthrough" /\ R = "connection" -> "raw"
          [] P = "auto" /\ T = "passthrough" /\ R = "connection" -> "auto"
          [] P = "auto" /\ T = "passthrough" /\ R = "request" -> "multiroute"
          [] P = "auto" /\ T = "terminate" /\ R = "connection" /\ built = TRUE
               -> "terminate"
          [] OTHER -> "unsupported"
  <2>1. /\ (<<P, T, R>> = <<"raw", "passthrough", "connection">>)
             = (P = "raw" /\ T = "passthrough" /\ R = "connection")
        /\ (<<P, T, R>> = <<"auto", "passthrough", "connection">>)
             = (P = "auto" /\ T = "passthrough" /\ R = "connection")
        /\ (<<P, T, R>> = <<"auto", "passthrough", "request">>)
             = (P = "auto" /\ T = "passthrough" /\ R = "request")
        /\ (<<P, T, R, built>> = <<"auto", "terminate", "connection", TRUE>>)
             = (P = "auto" /\ T = "terminate" /\ R = "connection" /\ built = TRUE)
    OBVIOUS
  <2> QED
    BY <2>1, Zenon DEF Dispatched
<1> HIDE DEF P, R, T
<1>3. /\ P \in {"auto", "raw"} /\ R \in {"connection", "request"}
      /\ T \in {"passthrough", "terminate"}
  BY DEF P, R, T
<1>4. T = "terminate" => built = TRUE
  BY DEF T
<1>5. P = "raw" => Dispatched = "raw"
  BY <1>1, <1>2, <1>3, Zenon
<1>6. R = "request" => Dispatched = "multiroute"
  BY <1>1, <1>2, <1>3, Zenon
<1>7. T = "terminate" => Dispatched = "terminate"
  BY <1>1, <1>2, <1>3, <1>4, Zenon
<1>8. P # "raw" /\ R # "request" /\ T # "terminate" => Dispatched = "auto"
  BY <1>2, <1>3, Zenon
<1> QED
  BY <1>5, <1>6, <1>7, <1>8 DEF P, R, T

\* The door, where at most one option decides it.
LEMMA OpenedFacts ==
  ASSUME NEW o, ~(Contains(o, "raw") /\ Contains(o, "request")),
         ~(Contains(o, "raw") /\ Contains(o, "cert")),
         ~(Contains(o, "request") /\ Contains(o, "cert"))
  PROVE  /\ o # NoListen /\ Contains(o, "raw") => Opened(o) = "raw"
         /\ o # NoListen /\ Contains(o, "request") => Opened(o) = "multiroute"
         /\ o # NoListen /\ Contains(o, "cert") => Opened(o) = "terminate"
         /\ (o # NoListen /\ ~Contains(o, "raw") /\ ~Contains(o, "request")
               /\ ~Contains(o, "cert")) => Opened(o) = "auto"
         /\ o = NoListen => Opened(o) = "none"
<1>1. o # NoListen /\ Contains(o, "raw") => Opened(o) = "raw"
  BY Zenon DEF Opened
<1>2. o # NoListen /\ Contains(o, "request") => Opened(o) = "multiroute"
  BY Zenon DEF Opened
<1>3. o # NoListen /\ Contains(o, "cert") => Opened(o) = "terminate"
  BY Zenon DEF Opened
<1>4. (o # NoListen /\ ~Contains(o, "raw") /\ ~Contains(o, "request")
         /\ ~Contains(o, "cert")) => Opened(o) = "auto"
  BY Zenon DEF Opened
<1>5. o = NoListen => Opened(o) = "none"
  <2>1. ~Contains(NoListen, "raw") /\ ~Contains(NoListen, "request")
          /\ ~Contains(NoListen, "cert")
    BY NothingGiven DEF Option
  <2> QED
    BY <2>1, Zenon DEF Opened
<1> QED
  BY <1>1, <1>2, <1>3, <1>4, <1>5, Zenon

\* Each step that accepts or refuses does so as the options say.
LEMMA DoorStep ==
  ASSUME GivenInv, OptsInv, ScopeInv, DoorAsWritten, [Next]_vars
  PROVE  DoorAsWritten'
<1>1. UNCHANGED given
  BY GivenStep
<1>2. /\ Sound(listen)' <=> Sound(listen)
      /\ Opened(listen)' = Opened(listen)
      /\ backends' = backends /\ low' = low /\ listen' = listen
  BY <1>1 DEF given, Sound, Opened
<1>3. CASE Accepted
  <2>1. /\ verdict = "scopes" /\ ~Unusable /\ verdict' = "ok"
        /\ door' = IF listen = NoListen THEN "none" ELSE Dispatched
    BY <1>3 DEF Accepted
  <2>2. /\ Contains(listen, "raw") <=> proto = "raw"
        /\ Contains(listen, "request") <=> route = "request"
        /\ Contains(listen, "cert") <=> tls = "terminate"
        /\ Contains(listen, "cert") <=> opts["cert"] # "none"
        /\ Contains(listen, "key") <=> opts["key"] # "none"
        /\ proto \in {"auto", "raw"} /\ route \in {"connection", "request"}
        /\ tls \in {"passthrough", "terminate"}
        /\ ~Contains(listen, "bad")
        /\ \A i, j \in DOMAIN listen : i # j => Name(listen[i]) # Name(listen[j])
        /\ ~Contradiction
    BY <2>1, OptionsSet
  <2>3. /\ listen # NoListen \/ backends # <<>>
        /\ tls = "terminate" => built
    BY <2>1 DEF Unusable
  <2>4. Sound(listen)
    BY <2>2, <2>3, SoundFacts DEF Contradiction
  <2>5. tls = "terminate" => built = TRUE
    BY <2>3 DEF GivenInv
  <2>6. listen # NoListen => Dispatched = Opened(listen)
    <3>1. /\ proto = "raw" => Dispatched = "raw"
          /\ route = "request" => Dispatched = "multiroute"
          /\ tls = "terminate" => Dispatched = "terminate"
          /\ proto # "raw" /\ route # "request" /\ tls # "terminate"
               => Dispatched = "auto"
      BY <2>2, <2>5, Doors
    <3>2. /\ ~(proto = "raw" /\ route = "request")
          /\ ~(proto = "raw" /\ tls = "terminate")
          /\ ~(route = "request" /\ tls = "terminate")
      BY <2>2 DEF Contradiction
    <3> QED
      BY <2>2, <3>1, <3>2, OpenedFacts
  <2>7. listen = NoListen => Opened(listen) = "none"
    BY NothingGiven, OpenedFacts DEF Option
  <2> QED
    BY <1>2, <2>1, <2>4, <2>6, <2>7 DEF DoorAsWritten
<1>4. CASE OptionError
  <2>1. /\ verdict = "listen" /\ at \in 0..Len(listen) /\ at < Len(listen)
        /\ ReadUpTo(at) /\ listen \in Seq(Option) /\ verdict' = "error"
        /\ listen[at + 1] = "bad" \/ Taken(listen[at + 1])
    BY <1>4 DEF OptionError, Reading, Refuse, OptsInv, GivenInv
  <2>2. at + 1 \in 1..Len(listen)
    BY <2>1
  <2>3. CASE listen[at + 1] = "bad"
    <3>1. Contains(listen, "bad")
      BY <2>2, <2>3 DEF Contains
    <3> QED
      BY <1>2, <2>1, <3>1, SoundFacts DEF DoorAsWritten
  <2>4. CASE listen[at + 1] # "bad" /\ Taken(listen[at + 1])
    <3> DEFINE o == listen[at + 1]
    <3>1. o \in Option /\ o # "bad" /\ opts[Name(o)] # "none"
      BY <2>1, <2>2, <2>4 DEF Taken
    <3>2. Name(o) \in Setting
      BY <3>1, NameFacts DEF Option, Setting
    <3>3. PICK i \in 1..at : Name(listen[i]) = Name(o)
      BY <2>1, <3>1, <3>2 DEF ReadUpTo
    <3>4. i # at + 1 /\ i \in DOMAIN listen /\ at + 1 \in DOMAIN listen
      BY <2>1, <2>2
    <3>5. ~(\A p, q \in DOMAIN listen : p # q => Name(listen[p]) # Name(listen[q]))
      BY <3>3, <3>4
    <3> QED
      BY <1>2, <2>1, <3>5, SoundFacts DEF DoorAsWritten
  <2> QED
    BY <2>1, <2>3, <2>4
<1>5. CASE ListenError
  <2>1. verdict = "listen" /\ at = Len(listen) /\ Contradiction /\ verdict' = "error"
    BY <1>5 DEF ListenError, Refuse
  <2>2. /\ Contains(listen, "raw") <=> proto = "raw"
        /\ Contains(listen, "request") <=> route = "request"
        /\ Contains(listen, "cert") <=> tls = "terminate"
        /\ Contains(listen, "cert") <=> opts["cert"] # "none"
        /\ Contains(listen, "key") <=> opts["key"] # "none"
    BY <2>1, OptionsSet
  <2>3. ~Sound(listen)
    BY <2>1, <2>2, SoundFacts DEF Contradiction
  <2> QED
    BY <1>2, <2>1, <2>3 DEF DoorAsWritten
<1>6. CASE BackendError
  <2>1. verdict' = "error" /\ \E i \in DOMAIN backends : ~Parses(backends[i])
    BY <1>6 DEF BackendError, Refuse
  <2>2. backends # <<>>
    BY <2>1
  <2> QED
    BY <1>2, <2>1, <2>2 DEF DoorAsWritten
<1>7. CASE ScopeError
  <2>1. verdict' = "error" /\ verdict = "scopes" /\ at < Len(backends)
    BY <1>7 DEF ScopeError, Refuse
  <2>2. at \in Nat
    BY <2>1 DEF ScopeInv
  <2>3. backends # <<>>
    BY <2>1, <2>2
  <2> QED
    BY <1>2, <2>1, <2>3 DEF DoorAsWritten
<1>8. CASE ValidateError
  <2>1. verdict = "scopes" /\ verdict' = "error" /\ Unusable
    BY <1>8 DEF ValidateError, Refuse
  <2>2. Contains(listen, "cert") <=> tls = "terminate"
    BY <2>1, OptionsSet
  <2>3. ASSUME backends = <<>>, low = {} PROVE ~Sound(listen)
    BY <2>1, <2>2, <2>3, SoundFacts DEF Unusable
  <2> QED
    BY <1>2, <2>1, <2>3 DEF DoorAsWritten
<1>9. CASE ReadOption \/ ListenRead \/ BackendsRead \/ ReadScope
  <2>1. verdict' \notin {"ok", "error"}
    BY <1>9 DEF ReadOption, Reading, ListenRead, BackendsRead, ReadScope
  <2> QED
    BY <2>1 DEF DoorAsWritten
<1>10. CASE UNCHANGED vars
  BY <1>2, <1>10 DEF vars, DoorAsWritten
<1> QED
  BY <1>3, <1>4, <1>5, <1>6, <1>7, <1>8, <1>9, <1>10 DEF Next

\* The invariant is inductive: what was given stays, the options read so far are
\* the options set, the backends read so far have a scope each, and the verdict is
\* the one the options call for.
THEOREM SpecsInductive == Spec => []SpecsInv
<1>1. Init => SpecsInv
  <2> SUFFICES ASSUME Init PROVE SpecsInv
    OBVIOUS
  <2>1. GivenInv
    BY GivenInit
  <2>2. /\ opts = [n \in Setting |-> "none"] /\ at = 0 /\ scopes = {}
        /\ verdict = IF listen = NoListen THEN "backends" ELSE "listen"
    BY DEF Init
  <2>3. OptsInv
    <3>1. opts \in [Setting -> Option \cup {"none"}] /\ \A n \in Setting : opts[n] = "none"
      BY <2>2
    <3>2. listen # NoListen => at \in 0..Len(listen) /\ ReadUpTo(at)
      <4> SUFFICES ASSUME listen # NoListen PROVE at \in 0..Len(listen) /\ ReadUpTo(at)
        OBVIOUS
      <4>1. Len(listen) \in Nat
        BY <2>1 DEF GivenInv
      <4> QED
        BY <2>2, <3>1, <4>1 DEF ReadUpTo
    <3> QED
      BY <2>2, <3>1, <3>2 DEF OptsInv
  <2>4. ScopeInv
    BY <2>2 DEF ScopeInv
  <2>5. DoorAsWritten
    BY <2>2 DEF DoorAsWritten
  <2> QED
    BY <2>1, <2>3, <2>4, <2>5 DEF SpecsInv
<1>2. SpecsInv /\ [Next]_vars => SpecsInv'
  BY GivenStep, OptsStep, ScopeStep, DoorStep DEF SpecsInv
<1> QED
  BY <1>1, <1>2, PTL DEF Spec

\* The options that are given decide whether a listener starts and which door it
\* opens, in any order and number; run_listener never reaches its last arm.
THEOREM SpecsDoorAsWritten == Spec => []DoorAsWritten
<1>1. SpecsInv => DoorAsWritten
  BY DEF SpecsInv
<1> QED
  BY <1>1, SpecsInductive, PTL

\* A host as it was given.
LEMMA HostFacts ==
  ASSUME GivenInv, NEW i \in DOMAIN backends
  PROVE  /\ backends[i].host \in Seq(Token) /\ "a" \in Token /\ "*" \notin Token
         /\ backends[i].sound => backends[i].service # "*"
<1>1. backends[i] \in Backend
  BY DEF GivenInv
<1>2. backends[i].host \in Seq(STRING \ {"*"})
  BY <1>1 DEF Backend
<1>3. "a" \in Token /\ "*" \notin Token
  BY DEF Token
<1>4. backends[i].host \in Seq(Token)
  BY <1>2, SeqMonotonic DEF Token
<1> QED
  BY <1>3, <1>4 DEF GivenInv

\* For hosts of any length routing_key computes the grammar that dns.rs documents:
\* the one key of a well-formed host, and none for any other.
THEOREM SpecsKeyMatchesReference == Spec => []KeyMatchesReference
<1>1. SpecsInv => KeyMatchesReference
  BY HostFacts, RoutingKeyIsReference DEF SpecsInv, KeyMatchesReference, Hosts
<1> QED
  BY <1>1, SpecsInductive, PTL

\* For hosts of any length, every key a client's name turns into can be registered
\* as it stands, and what an operator registers is what he wrote, but for case and
\* brackets (routing_key and spec_host_key, dns.rs).
THEOREM SpecsRegistrationMatches == Spec => []RegistrationMatches
<1>1. SpecsInv => RegistrationMatches
  <2> SUFFICES ASSUME GivenInv, NEW i \in DOMAIN backends
               PROVE  LET h == backends[i].host
                          r == routing_key(h)
                          k == spec_host_key(h)
                      IN  /\ r # Unroutable => spec_host_key(r) = r
                          /\ k # Unroutable =>
                               to_lowercase(h) \in {k, <<"[">> \o k \o <<"]">>}
    BY DEF SpecsInv, RegistrationMatches, Hosts
  <2>1. backends[i].host \in Seq(Token) /\ "a" \in Token
    BY HostFacts
  <2> QED
    BY <2>1, KeyRegisters, RegisteredAsWritten
<1> QED
  BY <1>1, SpecsInductive, PTL

\* Args::validate lets no two backends of one process serve the same host of the
\* same service, however many there are and however their hosts are spelled.
THEOREM SpecsOneBackendPerScope == Spec => []OneBackendPerScope
<1>1. SpecsInv => OneBackendPerScope
  <2> SUFFICES ASSUME GivenInv, ScopeInv, verdict = "ok",
                      NEW i \in DOMAIN backends, NEW j \in DOMAIN backends, i # j,
                      backends[i].service = backends[j].service,
                      SameHost(backends[i].host, backends[j].host)
               PROVE  FALSE
    BY DEF SpecsInv, OneBackendPerScope, Written
  <2> DEFINE g == backends[i].host
             h == backends[j].host
  <2>1. /\ Parses(backends[i]) /\ Parses(backends[j])
        /\ Scope(backends[i]) # Scope(backends[j])
    <3>1. DOMAIN backends = 1..at
      BY DEF ScopeInv, GivenInv
    <3> QED
      BY <3>1 DEF ScopeInv
  <2>2. g # h
    BY <2>1 DEF Scope
  <2>3. g # NoHost /\ h # NoHost /\ RefKeys(g) \cap RefKeys(h) # {}
    BY <2>2 DEF SameHost
  <2>4. /\ {routing_key(g)} \ {Unroutable} = RefKeys(g)
        /\ {routing_key(h)} \ {Unroutable} = RefKeys(h)
    BY HostFacts, RoutingKeyIsReference
  <2>5. routing_key(g) = routing_key(h)
    BY <2>3, <2>4
  <2>6. spec_host_key(g) # Unroutable /\ spec_host_key(h) # Unroutable
    BY <2>1, <2>3 DEF Parses, Scope
  <2>7. spec_host_key(g) = routing_key(g) /\ spec_host_key(h) = routing_key(h)
    BY <2>6 DEF spec_host_key
  <2> QED
    BY <2>1, <2>3, <2>5, <2>7 DEF Scope
<1> QED
  BY <1>1, SpecsInductive, PTL

-----------------------------------------------------------------------------
(* The keys of a scope.                                                    *)

\* What a concatenation is.
LEMMA CatIs ==
  ASSUME NEW S, NEW s \in Seq(S), NEW t \in Seq(S), NEW u \in Seq(S),
         Len(u) = Len(s) + Len(t),
         \A i \in 1..Len(s) : u[i] = s[i],
         \A i \in 1..Len(t) : u[Len(s) + i] = t[i]
  PROVE  s \o t = u
<1> DEFINE c == s \o t
<1>1. /\ c \in Seq(S) /\ Len(c) = Len(s) + Len(t)
      /\ \A i \in 1..(Len(s) + Len(t)) :
           c[i] = IF i <= Len(s) THEN s[i] ELSE t[i - Len(s)]
  BY ConcatProperties
<1> HIDE DEF c
<1>2. Len(s) \in Nat /\ Len(t) \in Nat
  OBVIOUS
<1>3. ASSUME NEW i \in 1..Len(c) PROVE c[i] = u[i]
  <2>1. CASE i <= Len(s)
    BY <1>1, <1>2, <2>1
  <2>2. CASE i > Len(s)
    <3>1. i - Len(s) \in 1..Len(t) /\ Len(s) + (i - Len(s)) = i
      BY <1>1, <1>2, <2>2
    <3>2. c[i] = t[i - Len(s)]
      BY <1>1, <1>2, <2>2
    <3> QED
      BY <3>1, <3>2
  <2> QED
    BY <1>1, <1>2, <2>1, <2>2
<1>4. c = u
  BY <1>1, <1>3, SeqEqual
<1> QED
  BY <1>4 DEF c

\* Concatenations of short sequences, written out.
LEMMA Cat11 ==
  ASSUME NEW a, NEW b
  PROVE  <<a>> \o <<b>> = <<a, b>>
<1> DEFINE S == {a, b}
           s == <<a>>
           t == <<b>>
           x == <<a, b>>
<1>1. /\ s \in Seq(S) /\ t \in Seq(S) /\ x \in Seq(S)
      /\ Len(s) = 1 /\ Len(t) = 1 /\ Len(x) = 2
      /\ \A i \in 1..1 : x[i] = s[i]
      /\ \A i \in 1..1 : x[1 + i] = t[i]
  OBVIOUS
<1> HIDE DEF S, s, t, x
<1>2. /\ Len(x) = Len(s) + Len(t)
      /\ \A i \in 1..Len(s) : x[i] = s[i]
      /\ \A i \in 1..Len(t) : x[Len(s) + i] = t[i]
  BY <1>1
<1>3. s \o t = x
  BY <1>1, <1>2, CatIs
<1> QED
  BY <1>3 DEF s, t, x

\* One and two.
LEMMA Cat12 ==
  ASSUME NEW a, NEW b, NEW c
  PROVE  <<a>> \o <<b, c>> = <<a, b, c>>
<1> DEFINE S == {a, b, c}
           s == <<a>>
           t == <<b, c>>
           x == <<a, b, c>>
<1>1. /\ s \in Seq(S) /\ t \in Seq(S) /\ x \in Seq(S)
      /\ Len(s) = 1 /\ Len(t) = 2 /\ Len(x) = 3
      /\ \A i \in 1..1 : x[i] = s[i]
      /\ \A i \in 1..2 : x[1 + i] = t[i]
  OBVIOUS
<1> HIDE DEF S, s, t, x
<1>2. /\ Len(x) = Len(s) + Len(t)
      /\ \A i \in 1..Len(s) : x[i] = s[i]
      /\ \A i \in 1..Len(t) : x[Len(s) + i] = t[i]
  BY <1>1
<1>3. s \o t = x
  BY <1>1, <1>2, CatIs
<1> QED
  BY <1>3 DEF s, t, x

\* Two and one.
LEMMA Cat21 ==
  ASSUME NEW a, NEW b, NEW c
  PROVE  <<a, b>> \o <<c>> = <<a, b, c>>
<1> DEFINE S == {a, b, c}
           s == <<a, b>>
           t == <<c>>
           x == <<a, b, c>>
<1>1. /\ s \in Seq(S) /\ t \in Seq(S) /\ x \in Seq(S)
      /\ Len(s) = 2 /\ Len(t) = 1 /\ Len(x) = 3
      /\ \A i \in 1..2 : x[i] = s[i]
      /\ \A i \in 1..1 : x[2 + i] = t[i]
  OBVIOUS
<1> HIDE DEF S, s, t, x
<1>2. /\ Len(x) = Len(s) + Len(t)
      /\ \A i \in 1..Len(s) : x[i] = s[i]
      /\ \A i \in 1..Len(t) : x[Len(s) + i] = t[i]
  BY <1>1
<1>3. s \o t = x
  BY <1>1, <1>2, CatIs
<1> QED
  BY <1>3 DEF s, t, x

\* Two and two.
LEMMA Cat22 ==
  ASSUME NEW a, NEW b, NEW c, NEW d
  PROVE  <<a, b>> \o <<c, d>> = <<a, b, c, d>>
<1> DEFINE S == {a, b, c, d}
           s == <<a, b>>
           t == <<c, d>>
           x == <<a, b, c, d>>
<1>1. /\ s \in Seq(S) /\ t \in Seq(S) /\ x \in Seq(S)
      /\ Len(s) = 2 /\ Len(t) = 2 /\ Len(x) = 4
      /\ \A i \in 1..2 : x[i] = s[i]
      /\ \A i \in 1..2 : x[2 + i] = t[i]
  OBVIOUS
<1> HIDE DEF S, s, t, x
<1>2. /\ Len(x) = Len(s) + Len(t)
      /\ \A i \in 1..Len(s) : x[i] = s[i]
      /\ \A i \in 1..Len(t) : x[Len(s) + i] = t[i]
  BY <1>1
<1>3. s \o t = x
  BY <1>1, <1>2, CatIs
<1> QED
  BY <1>3 DEF s, t, x

\* The segments of a key.
LEMMA KeyFacts1 ==
  ASSUME NEW s, NEW x
  PROVE  /\ s.host = NoHost => scoped_key(s, <<x>>) = <<<<s.service>>, x>>
         /\ s.host # NoHost =>
              scoped_key(s, <<x>>) = <<<<s.service>>, s.host, x>>
<1> DEFINE v == <<s.service>>
           h == s.host
<1>1. CASE h = NoHost
  <2>1. scoped_key(s, <<x>>) = <<v>> \o <<x>>
    BY <1>1 DEF scoped_key
  <2>2. <<v>> \o <<x>> = <<v, x>>
    BY Cat11
  <2> QED
    BY <1>1, <2>1, <2>2, Zenon
<1>2. CASE h # NoHost
  <2>1. scoped_key(s, <<x>>) = <<v, h>> \o <<x>>
    BY <1>2 DEF scoped_key
  <2>2. <<v, h>> \o <<x>> = <<v, h, x>>
    BY Cat21
  <2> QED
    BY <1>2, <2>1, <2>2, Zenon
<1> QED
  BY <1>1, <1>2

\* The same with two segments behind the scope.
LEMMA KeyFacts2 ==
  ASSUME NEW s, NEW x, NEW y
  PROVE  /\ s.host = NoHost => scoped_key(s, <<x, y>>) = <<<<s.service>>, x, y>>
         /\ s.host # NoHost =>
              scoped_key(s, <<x, y>>) = <<<<s.service>>, s.host, x, y>>
<1> DEFINE v == <<s.service>>
           h == s.host
<1>1. CASE h = NoHost
  <2>1. scoped_key(s, <<x, y>>) = <<v>> \o <<x, y>>
    BY <1>1 DEF scoped_key
  <2>2. <<v>> \o <<x, y>> = <<v, x, y>>
    BY Cat12
  <2> QED
    BY <1>1, <2>1, <2>2, Zenon
<1>2. CASE h # NoHost
  <2>1. scoped_key(s, <<x, y>>) = <<v, h>> \o <<x, y>>
    BY <1>2 DEF scoped_key
  <2>2. <<v, h>> \o <<x, y>> = <<v, h, x, y>>
    BY Cat22
  <2> QED
    BY <1>2, <2>1, <2>2, Zenon
<1> QED
  BY <1>1, <1>2

\* No segment of a scope is a wildcard.
Plain(s) == /\ s = [service |-> s.service, host |-> s.host]
            /\ s.service # "*" /\ s.host # <<"*">>

Pattern == {"clients", "exporter-claim"}

\* Keys of three and of four segments.
LEMMA Match3 ==
  ASSUME NEW a, NEW b, NEW c, NEW d, NEW e, NEW f
  PROVE  Matches(<<a, b, c>>, <<d, e, f>>) <=>
           /\ a = <<"*">> \/ a = d
           /\ b = <<"*">> \/ b = e
           /\ c = <<"*">> \/ c = f
<1>1. DOMAIN <<a, b, c>> = {1, 2, 3} /\ Len(<<a, b, c>>) = 3 /\ Len(<<d, e, f>>) = 3
  OBVIOUS
<1> QED
  BY <1>1 DEF Matches

\* Four segments.
LEMMA Match4 ==
  ASSUME NEW a, NEW b, NEW c, NEW d, NEW e, NEW f, NEW g, NEW h
  PROVE  Matches(<<a, b, c, d>>, <<e, f, g, h>>) <=>
           /\ a = <<"*">> \/ a = e
           /\ b = <<"*">> \/ b = f
           /\ c = <<"*">> \/ c = g
           /\ d = <<"*">> \/ d = h
<1>1. /\ DOMAIN <<a, b, c, d>> = {1, 2, 3, 4}
      /\ Len(<<a, b, c, d>>) = 4 /\ Len(<<e, f, g, h>>) = 4
  OBVIOUS
<1> QED
  BY <1>1 DEF Matches

\* Keys of different lengths.
LEMMA MatchLen ==
  ASSUME NEW p, NEW k, Len(p) # Len(k)
  PROVE  ~Matches(p, k)
BY DEF Matches

\* A pattern meets the tokens of its own kind, of its own scope.
LEMMA PatternMeets ==
  ASSUME NEW s, NEW t, Plain(s), Plain(t), NEW x \in Pattern, NEW y \in Pattern, NEW c
  PROVE  /\ Matches(scoped_key(s, <<<<x>>, <<"*">>>>), scoped_key(t, <<<<y>>, <<c>>>>))
              <=> s = t /\ x = y
         /\ t.host \notin Reserved =>
              ~Matches(scoped_key(s, <<<<x>>, <<"*">>>>), scoped_key(t, <<<<"available">>>>))
<1> DEFINE w == <<"*">>
           xs == <<x>>
           ys == <<y>>
           cs == <<c>>
           av == <<"available">>
           sv == <<s.service>>
           tv == <<t.service>>
           sh == s.host
           th == t.host
           p == scoped_key(s, <<xs, w>>)
           k == scoped_key(t, <<ys, cs>>)
           v == scoped_key(t, <<av>>)
<1>1. /\ xs # w /\ sv # w /\ sh # w
      /\ (xs = ys <=> x = y) /\ (sv = tv <=> s.service = t.service)
  BY DEF Plain, Pattern
<1>2. s = t <=> s.service = t.service /\ sh = th
  BY Zenon DEF Plain
<1>3. w = <<"*">> /\ xs \in Reserved
  BY DEF Reserved, Pattern
<1>4. s.service = t.service <=> sv = tv
  BY <1>1
<1>5. /\ sh = NoHost => p = <<sv, xs, w>>
      /\ sh # NoHost => p = <<sv, sh, xs, w>>
      /\ th = NoHost => k = <<tv, ys, cs>> /\ v = <<tv, av>>
      /\ th # NoHost => k = <<tv, th, ys, cs>> /\ v = <<tv, th, av>>
  <2> HIDE DEF xs, ys, cs, av, w
  <2>1. /\ sh = NoHost => p = <<sv, xs, w>>
        /\ sh # NoHost => p = <<sv, sh, xs, w>>
    BY KeyFacts2
  <2>2. /\ th = NoHost => k = <<tv, ys, cs>>
        /\ th # NoHost => k = <<tv, th, ys, cs>>
    BY KeyFacts2
  <2>3. /\ th = NoHost => v = <<tv, av>>
        /\ th # NoHost => v = <<tv, th, av>>
    BY KeyFacts1
  <2> QED
    BY <2>1, <2>2, <2>3, Zenon
<1> HIDE DEF w, xs, ys, cs, av, sv, tv, sh, th, p, k, v
<1>6. /\ sh = NoHost => Len(p) = 3
      /\ sh # NoHost => Len(p) = 4
      /\ th = NoHost => Len(k) = 3 /\ Len(v) = 2
      /\ th # NoHost => Len(k) = 4 /\ Len(v) = 3
  BY <1>5
<1>7. Matches(p, k) <=> s = t /\ x = y
  <2>1. CASE sh = NoHost /\ th = NoHost
    <3>1. p = <<sv, xs, w>> /\ k = <<tv, ys, cs>>
      BY <1>5, <2>1
    <3>2. Matches(p, k) <=> (sv = w \/ sv = tv) /\ (xs = w \/ xs = ys)
      BY <1>3, <3>1, Match3
    <3> QED
      BY <1>1, <1>2, <2>1, <3>2
  <2>2. CASE sh # NoHost /\ th # NoHost
    <3>1. p = <<sv, sh, xs, w>> /\ k = <<tv, th, ys, cs>>
      BY <1>5, <2>2
    <3>2. Matches(p, k) <=>
            (sv = w \/ sv = tv) /\ (sh = w \/ sh = th) /\ (xs = w \/ xs = ys)
      BY <1>3, <3>1, Match4
    <3> QED
      BY <1>1, <1>2, <2>2, <3>2
  <2>3. CASE ~(sh = NoHost <=> th = NoHost)
    <3>1. ~Matches(p, k)
      BY <1>6, <2>3, MatchLen
    <3> QED
      BY <1>2, <2>3, <3>1
  <2> QED
    BY <2>1, <2>2, <2>3
<1>8. ASSUME th \notin Reserved PROVE ~Matches(p, v)
  <2>1. CASE sh = NoHost /\ th # NoHost
    <3>1. p = <<sv, xs, w>> /\ v = <<tv, th, av>>
      BY <1>5, <2>1
    <3>2. Matches(p, v) => xs = w \/ xs = th
      BY <1>3, <3>1, Match3
    <3> QED
      BY <1>1, <1>3, <1>8, <3>2
  <2>2. CASE ~(sh = NoHost /\ th # NoHost)
    <3>1. Len(p) # Len(v)
      <4>1. CASE sh # NoHost
        <5>1. Len(p) = 4 /\ (Len(v) = 2 \/ Len(v) = 3)
          BY <1>6, <4>1, Zenon
        <5> QED
          BY <5>1
      <4>2. CASE sh = NoHost /\ th = NoHost
        <5>1. Len(p) = 3 /\ Len(v) = 2
          BY <1>6, <4>2, Zenon
        <5> QED
          BY <5>1
      <4> QED
        BY <2>2, <4>1, <4>2, Zenon
    <3> QED
      BY <3>1, MatchLen
  <2> QED
    BY <2>1, <2>2
<1> QED
  BY <1>7, <1>8 DEF p, k, v, w, xs, ys, cs, av, th

\* What the tokens of a scope are.
LEMMA PatternMeetsAll ==
  ASSUME NEW s, NEW t, Plain(s), Plain(t), t.host \notin Reserved
  PROVE  /\ {k \in Tokens(t) : Matches(Patterns(s).clients, k)} =
              (IF s = t THEN {scoped_key(s, <<<<"clients">>, <<c>>>>) : c \in Clients}
               ELSE {})
         /\ {k \in Tokens(t) : Matches(Patterns(s).claims, k)} =
              (IF s = t THEN {scoped_key(s, <<<<"exporter-claim">>, <<c>>>>) : c \in Claims}
               ELSE {})
<1> DEFINE avail == scoped_key(t, <<<<"available">>>>)
           client(c) == scoped_key(t, <<<<"clients">>, <<c>>>>)
           claim(c) == scoped_key(t, <<<<"exporter-claim">>, <<c>>>>)
           p == scoped_key(s, <<<<"clients">>, <<"*">>>>)
           q == scoped_key(s, <<<<"exporter-claim">>, <<"*">>>>)
<1>1. /\ Patterns(s).clients = p /\ Patterns(s).claims = q
      /\ Tokens(t) = {avail} \cup {client(c) : c \in Clients} \cup {claim(c) : c \in Claims}
  BY DEF Patterns, Tokens
<1>2. "clients" \in Pattern /\ "exporter-claim" \in Pattern
  BY DEF Pattern
<1>3. ~Matches(p, avail) /\ ~Matches(q, avail)
  BY <1>2, PatternMeets
<1>4. ASSUME NEW c
      PROVE  /\ Matches(p, client(c)) <=> s = t
             /\ ~Matches(p, claim(c))
             /\ ~Matches(q, client(c))
             /\ Matches(q, claim(c)) <=> s = t
  BY <1>2, PatternMeets
<1> HIDE DEF avail, client, claim, p, q
<1>5. /\ {k \in Tokens(t) : Matches(p, k)} =
           (IF s = t THEN {client(c) : c \in Clients} ELSE {})
      /\ {k \in Tokens(t) : Matches(q, k)} =
           (IF s = t THEN {claim(c) : c \in Claims} ELSE {})
  BY <1>1, <1>3, <1>4
<1>6. s = t => /\ {client(c) : c \in Clients} =
                    {scoped_key(s, <<<<"clients">>, <<c>>>>) : c \in Clients}
               /\ {claim(c) : c \in Claims} =
                    {scoped_key(s, <<<<"exporter-claim">>, <<c>>>>) : c \in Claims}
  BY DEF client, claim
<1> QED
  BY <1>1, <1>5, <1>6

\* The scope of a backend that parses holds no wildcard.
LEMMA ScopesPlain ==
  ASSUME GivenInv, ScopeInv, NEW s \in scopes
  PROVE  Plain(s)
<1>1. PICK i \in DOMAIN backends : Parses(backends[i]) /\ s = Scope(backends[i])
  BY DEF ScopeInv
<1> DEFINE b == backends[i]
<1>2. b.sound /\ Scope(b).host # Unroutable
  BY <1>1 DEF Parses
<1>3. /\ s.service = b.service
      /\ s.host = IF b.host = NoHost THEN NoHost ELSE spec_host_key(b.host)
      /\ s = [service |-> s.service, host |-> s.host]
  BY <1>1 DEF Scope
<1>4. b.host \in Seq(Token) /\ "a" \in Token /\ "*" \notin Token /\ b.service # "*"
  BY <1>2, HostFacts
<1>5. s.host # <<"*">>
  <2>1. CASE b.host = NoHost
    BY <1>3, <2>1 DEF NoHost
  <2>2. CASE b.host # NoHost
    <3>1. s.host = routing_key(b.host) /\ s.host # Unroutable
      BY <1>2, <1>1, <1>3, <2>2 DEF spec_host_key
    <3>2. s.host \in Seq(Token)
      BY <1>4, <3>1, RoutingKeyFacts
    <3>3. \A j \in 1..Len(s.host) : s.host[j] \in Token
      BY <3>2
    <3>4. Len(<<"*">>) = 1 /\ <<"*">>[1] = "*"
      OBVIOUS
    <3>5. ASSUME s.host = <<"*">> PROVE FALSE
      <4>1. 1 \in 1..Len(s.host) /\ s.host[1] = "*"
        BY <3>4, <3>5
      <4> QED
        BY <1>4, <3>3, <4>1
    <3> QED
      BY <3>5
  <2> QED
    BY <2>1, <2>2
<1> QED
  BY <1>3, <1>4, <1>5 DEF Plain

\* For any backends, clients and claims, the patterns an exporter watches meet the
\* client and claim tokens of its own scope and nothing else, unless a host is
\* named after a segment of the key layout.
THEOREM SpecsKeysApart == Spec => []KeysApart
<1>1. SpecsInv => KeysApart
  BY ScopesPlain, PatternMeetsAll, Zenon DEF SpecsInv, KeysApart
<1> QED
  BY <1>1, SpecsInductive, PTL

\* The host of a scope is not empty.
LEMMA ScopeHost ==
  ASSUME GivenInv, NEW i \in DOMAIN backends, Parses(backends[i])
  PROVE  Scope(backends[i]).host = NoHost \/ Len(Scope(backends[i]).host) > 0
<1> DEFINE b == backends[i]
           s == Scope(b)
<1>1. /\ s.host = IF b.host = NoHost THEN NoHost ELSE spec_host_key(b.host)
      /\ s.host # Unroutable
  BY DEF Scope, Parses
<1>2. b.host \in Seq(Token) /\ "a" \in Token
  BY HostFacts
<1>3. CASE b.host # NoHost
  <2>1. s.host = routing_key(b.host) /\ routing_key(b.host) # Unroutable
    BY <1>1, <1>3 DEF spec_host_key
  <2>2. s.host \in Seq(Token) /\ s.host # <<>>
    BY <1>2, <2>1, RoutingKeyFacts DEF Unroutable
  <2> QED
    BY <2>2
<1> QED
  BY <1>1, <1>3

\* Every step keeps the types.
LEMMA TypeStep ==
  ASSUME GivenInv, OptsInv, OptsInv', ScopeInv, ScopeInv', TypeOK, [Next]_vars
  PROVE  TypeOK'
<1>1. UNCHANGED given /\ GivenInv'
  BY GivenStep
<1>2. /\ (listen \in {NoListen} \cup Seq(Option))' /\ (low \subseteq Tunable)'
      /\ (built \in BOOLEAN)'
  BY <1>1 DEF given, TypeOK
<1>3. /\ (opts \in [Setting -> Option \cup {"none"}])'
      /\ (verdict \in {"listen", "backends", "scopes", "ok", "error"})'
  BY DEF OptsInv
<1>4. ASSUME NEW s \in scopes' PROVE s.host = NoHost \/ Len(s.host) > 0
  <2>1. PICK i \in DOMAIN backends' : (Parses(backends[i]) /\ s = Scope(backends[i]))'
    BY <1>4 DEF ScopeInv
  <2>2. backends' = backends
    BY <1>1 DEF given
  <2>3. i \in DOMAIN backends /\ Parses(backends[i]) /\ s = Scope(backends[i])
    BY <2>1, <2>2 DEF Parses, Scope
  <2> QED
    BY <2>3, ScopeHost
<1>5. (door \in {"none", "raw", "auto", "multiroute", "terminate", "unsupported"})'
  <2>1. CASE Accepted
    <3>1. Dispatched \in {"raw", "auto", "multiroute", "terminate", "unsupported"}
      BY Zenon DEF Dispatched
    <3> QED
      BY <2>1, <3>1 DEF Accepted
  <2>2. CASE ~Accepted
    <3>1. door' = door
      BY <2>2 DEF Next, vars, ReadOption, OptionError, ListenRead, ListenError,
                  BackendsRead, BackendError, ReadScope, ScopeError, ValidateError,
                  Refuse
    <3> QED
      BY <3>1 DEF TypeOK
  <2> QED
    BY <2>1, <2>2
<1>6. (at \in 0..Len(IF verdict \in {"listen", "error"} /\ scopes = {}
                     THEN listen ELSE backends))'
  <2>1. Len(listen) \in Nat /\ Len(backends) \in Nat
    BY DEF GivenInv, NoListen
  <2>2. listen' = listen /\ backends' = backends
    BY <1>1 DEF given
  <2>3. CASE verdict' = "listen"
    BY <2>2, <2>3 DEF OptsInv, ScopeInv
  <2>4. CASE verdict' = "backends"
    BY <2>1, <2>2, <2>4 DEF ScopeInv
  <2>5. CASE verdict' \in {"scopes", "ok"}
    BY <2>2, <2>5 DEF ScopeInv
  <2>6. CASE verdict' = "error"
    <3>1. at' = at /\ scopes' = scopes
      BY <2>6 DEF Next, vars, ReadOption, Reading, OptionError, ListenRead, ListenError,
                  BackendsRead, BackendError, ReadScope, ScopeError, Accepted,
                  ValidateError, Refuse
    <3>2. CASE verdict \in {"listen", "error"}
      BY <2>2, <2>6, <3>1, <3>2 DEF TypeOK
    <3>3. CASE verdict = "backends"
      BY <2>1, <2>2, <2>6, <3>1, <3>3 DEF ScopeInv
    <3>4. CASE verdict \in {"scopes", "ok"}
      <4>1. at \in 0..Len(backends) /\ \A i \in 1..at : Scope(backends[i]) \in scopes
        BY <3>4 DEF ScopeInv
      <4>2. CASE scopes = {}
        <5>1. at = 0
          BY <2>1, <4>1, <4>2
        <5> QED
          BY <2>1, <2>2, <3>1, <5>1
      <4>3. CASE scopes # {}
        BY <2>2, <3>1, <4>1, <4>3
      <4> QED
        BY <4>2, <4>3
    <3> QED
      BY <3>2, <3>3, <3>4 DEF OptsInv
  <2> QED
    BY <1>3, <2>3, <2>4, <2>5, <2>6
<1> QED
  BY <1>2, <1>3, <1>4, <1>5, <1>6 DEF TypeOK

\* The variables keep their types: the cursor stays within the list it walks, and
\* no scope has an empty host.
THEOREM SpecsTypeCorrect == Spec => []TypeOK
<1>1. Init => TypeOK
  <2> SUFFICES ASSUME Init PROVE TypeOK
    OBVIOUS
  <2>1. PICK c \in CommandLines :
          /\ listen = c.listen /\ backends = c.backends
          /\ low = c.low /\ built = c.built
    BY DEF Init
  <2>2. c \in CommandLine
    BY SpecsAssumption
  <2>3. /\ listen \in {NoListen} \cup Seq(Option) /\ low \subseteq Tunable
        /\ built \in BOOLEAN
    BY <2>1, <2>2 DEF CommandLine
  <2>4. Len(listen) \in Nat /\ Len(backends) \in Nat
    BY GivenInit DEF GivenInv, NoListen
  <2>5. /\ opts = [n \in Setting |-> "none"] /\ at = 0 /\ scopes = {} /\ door = "none"
        /\ verdict \in {"listen", "backends"}
    BY DEF Init
  <2> QED
    BY <2>3, <2>4, <2>5 DEF TypeOK
<1>2. SpecsInv /\ SpecsInv' /\ TypeOK /\ [Next]_vars => TypeOK'
  BY TypeStep DEF SpecsInv
<1> QED
  BY <1>1, <1>2, SpecsInductive, PTL DEF Spec

=============================================================================
