----------------------------- MODULE HeadProofs -----------------------------
(***************************************************************************)
(* TLAPS proofs about Head, for any doors, profiles, windows, caps and     *)
(* bounds on what a client sends, and for every class of failure.          *)
(***************************************************************************)
EXTENDS Head, SequenceTheorems, TLAPS

Unread   == {"classify", "peekhead", "sniff", "handshake"}
HttpLike == {"tls", "http1", "h2"}

\* Which doors lead to a stage, what the client is known to speak there, and
\* which parser is on its stream.
StageInv ==
  /\ stage \in Unread => parser = "none"
  /\ stage = "classify" => door = "auto"
  /\ stage = "peekhead" => door = "auto"
  /\ stage = "handshake" => door = "terminate" /\ cl.proto \in {"http1", "h2"}
  /\ stage = "sniff" => door \in {"auto", "http"}
  /\ stage \in {"peekhead", "sniff"} /\ door = "auto" =>
       /\ cl.proto \in {"tls", "http1"}
       /\ cl.sig <= sent /\ cl.sig <= Window
  /\ stage = "peekhead" => cl.proto = "http1"
  /\ stage = "read" => parser \in HttpLike
  /\ stage = "resolve" => parser # "none"
  /\ stage = "upgrade" => parser = "ws"
  /\ answer # "none" => stage = "closed"
  /\ route # "none" => stage = "bridged"

\* The parser is the one for what the client speaks, unless the http door has
\* put an HTTP/1.1 parser on a stream of another kind.
ParserInv ==
  /\ parser \in HttpLike => door \in {"auto", "terminate", "http"}
  /\ parser \in {"tls", "h2"} => cl.proto = parser
  /\ parser = "http1" /\ door # "http" => cl.proto = "http1"
  /\ parser = "h2" => door # "http"
  /\ parser = "ws" => door \in {"auto", "ws"}
  /\ parser = "ws" /\ door = "auto" => cl.proto = "http1" /\ cl.key = "host"

\* The replay buffer is what was taken, from the start and without a hole, and
\* a WebSocket upgrade is not read at all before it is accepted.
BufferInv ==
  /\ stage \in Unread => taken = 0
  /\ parser = "ws" => buffer = <<>>
  /\ parser = "ws" /\ stage \in {"resolve", "upgrade"} => taken = 0
  /\ parser = "ws" /\ stage = "bridged" => taken = cl.head
  /\ parser # "ws" => buffer = Units(0, taken)
  /\ stage = "read" => taken < MaxHeader
  /\ parser # "ws" => taken <= MaxHeader - 1 + Chunk

\* The parser has been fed a prefix of what was taken, the refused tail is the
\* rest, and no complete head has been fed to a parser that still reads.
FeedInv ==
  /\ ~gap
  /\ parser # "ws" => pending = Units(fed, taken - fed)
  /\ parser \in {"none", "ws"} => fed = 0
  /\ stage = "read" /\ parser = cl.proto
       /\ ~cl.malformed /\ cl.head <= MaxHeader => fed < cl.head

\* What is probed, and for whom.
ProbeInv ==
  /\ stage = "resolve" =>
       /\ dns = "host" => cl.key = "host" /\ probe["host"] # "off"
       /\ dns = "none" =>
            /\ probe["host"] = "off" /\ parser # "ws"
            /\ \/ cl.key = "none" /\ cl.proto = "tls"
               \/ upset = "late" /\ parser = "h2"
       /\ probe["default"] # "off"
  /\ stage = "upgrade" /\ door = "auto" =>
       \/ probe["host"] = "yes"
       \/ probe["host"] = "no" /\ probe["default"] = "yes"

HeadInv ==
  /\ StageInv /\ ParserInv /\ BufferInv /\ FeedInv /\ ProbeInv
  /\ RoutedAsNamed /\ AnswersInProtocol /\ ClosedForCause

-----------------------------------------------------------------------------
(* The operators of the model.                                             *)

\* The smaller and the larger of two numbers.
LEMMA PairBounds ==
  ASSUME NEW a \in Int, NEW b \in Int
  PROVE  /\ Min({a, b}) = IF a <= b THEN a ELSE b
         /\ Max({a, b}) = IF a >= b THEN a ELSE b
<1>1. \E x \in {a, b} : \A y \in {a, b} : x <= y
  <2>1. a <= b \/ b <= a
    OBVIOUS
  <2> QED
    BY <2>1
<1>2. \E x \in {a, b} : \A y \in {a, b} : x >= y
  <2>1. a >= b \/ b >= a
    OBVIOUS
  <2> QED
    BY <2>1
<1>3. Min({a, b}) \in {a, b} /\ \A y \in {a, b} : Min({a, b}) <= y
  BY <1>1 DEF Min
<1>4. Max({a, b}) \in {a, b} /\ \A y \in {a, b} : Max({a, b}) >= y
  BY <1>2 DEF Max
<1> QED
  BY <1>3, <1>4

\* How far a smaller number is from a larger one.
LEMMA Distance ==
  ASSUME NEW a \in Nat, NEW b \in Nat, a < b
  PROVE  b - a \in Nat /\ b - a # 0
OBVIOUS

\* What is known of the constants and of the client's profile.
LEMMA ProfileFacts ==
  ASSUME TypeOK
  PROVE  /\ cl.proto \in Proto
         /\ cl.sig \in Nat \ {0} /\ cl.head \in Nat \ {0}
         /\ cl.sig <= cl.head
         /\ cl.malformed \in BOOLEAN /\ cl.ws \in BOOLEAN
         /\ cl.key \in {"host", "none", "invalid"}
         /\ cl.sig > Window => cl.proto = "raw"
         /\ cl.proto = "raw" => cl.key = "none"
         /\ door \in Door
<1>1. cl \in Profile
  BY HeadAssumption DEF TypeOK
<1> QED
  BY <1>1, HeadAssumption DEF TypeOK, Profile

\* A peek sees what is buffered, up to its window.
LEMMA PeekFacts ==
  ASSUME TypeOK, NEW w \in Nat
  PROVE  /\ Peek(w) \in Nat
         /\ Peek(w) = IF sent <= w THEN sent ELSE w
BY PairBounds DEF Peek, TypeOK

\* A run of n units from a on.
LEMMA UnitsFacts ==
  ASSUME NEW a \in Nat, NEW n \in Nat
  PROVE  /\ Units(a, n) \in Seq(Nat)
         /\ Len(Units(a, n)) = n
         /\ \A i \in 1..n : Units(a, n)[i] = a + i
BY DEF Units

\* No units.
LEMMA UnitsEmpty ==
  ASSUME NEW a \in Nat
  PROVE  Units(a, 0) = <<>>
BY DEF Units

\* A run of units followed by the next run is a run.
LEMMA UnitsAppend ==
  ASSUME NEW a \in Nat, NEW m \in Nat, NEW n \in Nat
  PROVE  Units(a, m) \o Units(a + m, n) = Units(a, m + n)
<1> DEFINE s == Units(a, m)
           t == Units(a + m, n)
           u == Units(a, m + n)
<1>1. s \in Seq(Nat) /\ Len(s) = m /\ \A i \in 1..m : s[i] = a + i
  BY UnitsFacts
<1>2. t \in Seq(Nat) /\ Len(t) = n /\ \A i \in 1..n : t[i] = a + m + i
  BY a + m \in Nat, UnitsFacts
<1>3. u \in Seq(Nat) /\ Len(u) = m + n /\ \A i \in 1..(m + n) : u[i] = a + i
  BY m + n \in Nat, UnitsFacts
<1> HIDE DEF s, t, u
<1> DEFINE l == s \o t
<1>4. /\ l \in Seq(Nat) /\ Len(l) = m + n
      /\ \A i \in 1..(m + n) : l[i] = IF i <= m THEN s[i] ELSE t[i - m]
  BY <1>1, <1>2, ConcatProperties
<1> HIDE DEF l
<1>5. ASSUME NEW i \in 1..(m + n) PROVE l[i] = u[i]
  <2>1. CASE i <= m
    <3>1. i \in 1..m /\ l[i] = s[i]
      BY <1>4, <2>1
    <3> QED
      BY <1>1, <1>3, <3>1
  <2>2. CASE ~(i <= m)
    <3>1. i - m \in 1..n /\ l[i] = t[i - m]
      BY <1>4, <2>2
    <3>2. t[i - m] = a + m + (i - m)
      BY <1>2, <3>1
    <3> QED
      BY <1>3, <3>1, <3>2
  <2> QED
    BY <2>1, <2>2
<1>6. l = u
  BY <1>3, <1>4, <1>5, SeqEqual
<1> QED
  BY <1>6 DEF s, t, u, l

\* What is left of a run when its first m units are gone is a run.
LEMMA UnitsTail ==
  ASSUME NEW a \in Nat, NEW n \in Nat, NEW m \in 0..n
  PROVE  SubSeq(Units(a, n), m + 1, n) = Units(a + m, n - m)
<1> DEFINE s == Units(a, n)
           u == Units(a + m, n - m)
<1>1. s \in Seq(Nat) /\ Len(s) = n /\ \A i \in 1..n : s[i] = a + i
  BY UnitsFacts
<1>2. /\ u \in Seq(Nat) /\ Len(u) = n - m
      /\ \A i \in 1..(n - m) : u[i] = a + m + i
  BY a + m \in Nat, n - m \in Nat, UnitsFacts
<1> HIDE DEF s, u
<1>3. /\ SubSeq(s, m + 1, n) \in Seq(Nat)
      /\ Len(SubSeq(s, m + 1, n)) = n - m
      /\ \A i \in 1..(n - m) : SubSeq(s, m + 1, n)[i] = u[i]
  BY <1>1, <1>2
<1>4. SubSeq(s, m + 1, n) = u
  BY <1>2, <1>3
<1> QED
  BY <1>4 DEF s, u

-----------------------------------------------------------------------------
(* The type.                                                               *)

\* What read_until offers to the parser is a run of units, and what the parser
\* leaves of it is its tail: no turn of the loop makes a hole.
LEMMA ReadStep ==
  ASSUME TypeOK, BufferInv, FeedInv, parser # "ws",
         NEW n \in 1..Chunk, ReadChunk(n)
  PROVE  /\ taken' = taken + n /\ taken' <= sent
         /\ buffer' = Units(0, taken')
         /\ fed' \in fed..taken'
         /\ ~gap'
         /\ pending' = Units(fed', taken' - fed')
         /\ Len(Mirror(buffer, Units(taken, n))) = taken'
         /\ LET o == Parsed(fed', FALSE)
                buf == Mirror(buffer, Units(taken, n))
            IN  \/ /\ o = "head" /\ routable
                   /\ StartResolve(cl.key)
                \/ /\ \/ o = "head" /\ ~routable
                      \/ o = "refused"
                      \/ o = "more" /\ TooLarge(buf)
                   /\ CloseUnread
                   /\ UNCHANGED busVars
                \/ /\ o = "more" /\ ~TooLarge(buf)
                   /\ UNCHANGED <<stage, busVars, endVars>>
<1> DEFINE new   == Units(taken, n)
           buf   == Mirror(buffer, new)
           offer == concat_pending(pending, new)
           k     == taken + n - fed
<1>1. /\ taken \in Nat /\ n \in Nat /\ fed \in Nat /\ sent \in Nat
      /\ fed <= taken /\ taken + n <= sent
      /\ taken' = taken + n /\ buffer' = buf
  BY HeadAssumption DEF TypeOK, ReadChunk
<1>2. buf = Units(0, taken + n) /\ Len(buf) = taken + n
  <2>1. Units(0, taken) \o Units(0 + taken, n) = Units(0, taken + n)
    BY <1>1, UnitsAppend
  <2>2. 0 + taken = taken /\ taken + n \in Nat
    BY <1>1
  <2>3. buf = Units(0, taken + n)
    BY <2>1, <2>2 DEF Mirror, BufferInv
  <2> QED
    BY <2>2, <2>3, UnitsFacts
<1>3. offer = Units(fed, k) /\ k \in Nat
  <2>1. pending = Units(fed, taken - fed) /\ taken - fed \in Nat
    BY <1>1 DEF FeedInv
  <2>2. Units(fed, taken - fed) \o Units(fed + (taken - fed), n)
          = Units(fed, (taken - fed) + n)
    BY <1>1, <2>1, UnitsAppend
  <2>3. fed + (taken - fed) = taken /\ (taken - fed) + n = k /\ k \in Nat
    BY <1>1
  <2> QED
    BY <2>1, <2>2, <2>3 DEF concat_pending
<1>0. k = taken + n - fed
  OBVIOUS
<1> HIDE DEF new, buf, offer, k
<1>4. /\ offer \in Seq(Nat) /\ Len(offer) = k
      /\ \A i \in 1..k : offer[i] = fed + i
  BY <1>1, <1>3, UnitsFacts
<1>5. PICK m \in Accepted(offer) :
         LET holed == gap \/ (m > 0 /\ offer[1] # fed + 1)
             last  == IF m = 0 THEN fed ELSE offer[m]
             o     == Parsed(last, holed)
         IN  /\ fed' = last
             /\ gap' = holed
             /\ pending' = SubSeq(offer, m + 1, Len(offer))
             /\ \/ /\ o = "head" /\ routable
                   /\ StartResolve(cl.key)
                \/ /\ \/ o = "head" /\ ~routable
                      \/ o = "refused"
                      \/ o = "more" /\ TooLarge(buf)
                   /\ CloseUnread
                   /\ UNCHANGED busVars
                \/ /\ o = "more" /\ ~TooLarge(buf)
                   /\ UNCHANGED <<stage, busVars, endVars>>
  BY DEF ReadChunk, new, buf, offer
<1>6. m \in 0..k
  BY <1>4, <1>3 DEF Accepted
<1>7. (gap \/ (m > 0 /\ offer[1] # fed + 1)) = FALSE
  BY <1>1, <1>3, <1>4, <1>6 DEF FeedInv
<1>8. (IF m = 0 THEN fed ELSE offer[m]) = fed + m
  <2>1. CASE m = 0
    BY <1>1, <2>1
  <2>2. CASE m # 0
    BY <1>3, <1>4, <1>6, <2>2
  <2> QED
    BY <2>1, <2>2
<1>9. fed' = fed + m /\ ~gap' /\ pending' = Units(fed + m, k - m)
  BY <1>1, <1>3, <1>4, <1>5, <1>6, <1>7, <1>8, UnitsTail
<1>10. k - m = taken' - fed'
  BY <1>0, <1>1, <1>6, <1>9
<1>11. fed' \in fed..taken'
  BY <1>0, <1>1, <1>6, <1>9
<1> QED
  BY <1>1, <1>2, <1>5, <1>7, <1>8, <1>9, <1>10, <1>11 DEF buf, new


\* The counters are numbers, and each is bounded by the one before.
LEMMA Counters ==
  ASSUME TypeOK
  PROVE  /\ sent \in Nat /\ taken \in Nat /\ fed \in Nat /\ seen \in Nat
         /\ taken <= sent /\ fed <= taken /\ seen <= sent /\ sent <= MaxSend
<1>1. sent \in Nat /\ sent <= MaxSend
  BY HeadAssumption DEF TypeOK
<1> QED
  BY <1>1 DEF TypeOK

\* What http_outcome says, without its arithmetic.
LEMMA HttpFacts ==
  ASSUME TypeOK, NEW n \in Nat
  PROVE  LET good == /\ cl.proto = "http1" /\ ~cl.malformed
                     /\ cl.head <= MaxHeader
         IN  /\ http_outcome(n) \in {"head", "refused", "more"}
             /\ http_outcome(n) = "head" => good /\ n >= cl.head
             /\ http_outcome(n) = "refused" => ~good
             /\ http_outcome(n) = "more" /\ good => n < cl.head
<1> DEFINE good == cl.proto = "http1" /\ ~cl.malformed /\ cl.head <= MaxHeader
           told == IF cl.proto = "http1" THEN cl.head ELSE cl.sig
           lim  == Min({told, MaxHeader + 1})
<1>1. http_outcome(n) = CASE good  /\ n >= cl.head -> "head"
                          [] ~good /\ n >= lim     -> "refused"
                          [] OTHER                 -> "more"
  BY DEF http_outcome
<1> HIDE DEF lim
<1>2. cl.head \in Nat /\ good \in BOOLEAN
  BY ProfileFacts
<1> QED
  BY <1>1, <1>2

\* The window of peek_full_http_head.
LEMMA HeadWindowType == HeadWindow \in Nat /\ HeadWindow >= MaxHeader
<1>1. MaxHeader \in Nat /\ Chunk \in Nat /\ MaxHeader \in Int /\ Chunk \in Int
  BY HeadAssumption
<1>2. Max({MaxHeader, Chunk}) = IF MaxHeader >= Chunk THEN MaxHeader ELSE Chunk
  BY ONLY <1>1, PairBounds
<1> QED
  BY <1>1, <1>2 DEF HeadWindow

\* What a turn of read_until leaves alone.
LEMMA ReadFrame ==
  ASSUME NEW n \in 1..Chunk, ReadChunk(n)
  PROVE  stage = "read" /\ UNCHANGED <<cliVars, seen, parser, upset>>
BY DEF ReadChunk

\* A step of the connection keeps the type of every variable.
LEMMA TypeStep ==
  ASSUME TypeOK, StageInv, BufferInv, FeedInv, [Next]_vars
  PROVE  TypeOK'
<1>1. ASSUME NEW n \in 1..MaxSend, Send(n) PROVE TypeOK'
  BY <1>1, HeadAssumption DEF Send, TypeOK, Stage, cliVars, readVars,
     busVars, endVars
<1>2. ASSUME HalfClose PROVE TypeOK'
  BY <1>2, HeadAssumption DEF HalfClose, TypeOK, Stage, cliVars, readVars,
     busVars, endVars
<1>3. ASSUME NEW t \in Token, Churn(t) PROVE TypeOK'
  BY <1>3, HeadAssumption DEF Churn, Ended, TypeOK, Stage, cliVars, readVars,
     busVars, endVars
<1>4. ASSUME NEW t \in Token, Probe(t) PROVE TypeOK'
  BY <1>4, HeadAssumption DEF Probe, token_alive, TypeOK, Stage, cliVars,
     readVars, busVars, endVars
<1>5. ASSUME ClassifyMore PROVE TypeOK'
  BY <1>5, HeadAssumption DEF ClassifyMore, classify_first_bytes, Bridge,
     TypeOK, Stage, cliVars, readVars, busVars, endVars
<1>6. ASSUME Classified PROVE TypeOK'
  BY <1>6, HeadAssumption DEF Classified, classify_first_bytes, Bridge,
     StartRead, TypeOK, Stage, cliVars, readVars, busVars, endVars
<1>7. ASSUME ClassifyTimeout PROVE TypeOK'
  BY <1>7, HeadAssumption DEF ClassifyTimeout, classify_first_bytes, Bridge,
     Close, TypeOK, Stage, cliVars, readVars, busVars, endVars
<1>8. ASSUME PeekHead PROVE TypeOK'
  <2>1. Peek(HeadWindow) \in Nat /\ Peek(HeadWindow) <= sent
    <3>1. HeadWindow \in Nat
      BY HeadWindowType
    <3> QED
      BY <3>1, Counters, PeekFacts
  <2> QED
    BY <1>8, <2>1 DEF PeekHead, StartResolve, Close, TypeOK, Stage, cliVars,
       readVars, busVars, endVars
<1>9. ASSUME PeekHeadFails PROVE TypeOK'
  BY <1>9, HeadAssumption DEF PeekHeadFails, TypeOK, Stage, cliVars,
     readVars, busVars, endVars
<1>10. ASSUME Sniff PROVE TypeOK'
  BY <1>10, HeadAssumption DEF Sniff, Sniffed, classify_first_bytes,
     StartRead, TypeOK, Stage, cliVars, readVars, busVars, endVars
<1>11. ASSUME PeekFails PROVE TypeOK'
  BY <1>11, HeadAssumption DEF PeekFails, Close, TypeOK, Stage, cliVars,
     readVars, busVars, endVars
<1>12. ASSUME HandshakeOk PROVE TypeOK'
  BY <1>12, HeadAssumption DEF HandshakeOk, StartRead, TypeOK, Stage,
     cliVars, readVars, busVars, endVars, StageInv
<1>13. ASSUME HandshakeFails PROVE TypeOK'
  BY <1>13, HeadAssumption DEF HandshakeFails, Close, TypeOK, Stage, cliVars,
     readVars, busVars, endVars
<1>14. ASSUME UpgradeOk PROVE TypeOK'
  <2>1. cl.head \in 0..sent
    BY <1>14, HttpFacts, ProfileFacts DEF UpgradeOk, TypeOK
  <2> QED
    BY <1>14, <2>1, HeadAssumption DEF UpgradeOk, Bridge, TypeOK, Stage,
       cliVars, busVars, endVars, FeedInv, StageInv
<1>15. ASSUME UpgradeFails PROVE TypeOK'
  BY <1>15, HeadAssumption DEF UpgradeFails, Close, TypeOK, Stage, cliVars,
     readVars, busVars, endVars
<1>16. ASSUME NEW n \in 1..Chunk, ReadChunk(n) PROVE TypeOK'
  <2>1. parser # "ws"
    BY <1>16, ReadFrame DEF StageInv, HttpLike
  <2>2. /\ taken' \in 0..sent' /\ fed' \in 0..taken' /\ gap' \in BOOLEAN
        /\ buffer' \in Seq(Nat) /\ pending' \in Seq(Nat)
    <3>1. /\ taken' = taken + n /\ taken' <= sent /\ sent' = sent
          /\ buffer' = Units(0, taken') /\ fed' \in fed..taken' /\ ~gap'
          /\ pending' = Units(fed', taken' - fed')
      BY <1>16, <2>1, ReadStep, ReadFrame DEF cliVars
    <3>2. taken' \in Nat /\ fed' \in Nat /\ taken' - fed' \in Nat
      BY <3>1, Counters
    <3>3. gap' \in BOOLEAN
      BY <1>16 DEF ReadChunk, TypeOK
    <3> QED
      BY <3>1, <3>2, <3>3, UnitsFacts
  <2>3. /\ stage' \in Stage
        /\ dns' \in {"host", "none"}
        /\ probe' \in [Token -> {"off", "pending", "yes", "no"}]
        /\ alive' \subseteq Token
        /\ route' \in {"none", "host", "bare"}
        /\ answer' \in {"none", "400", "502"}
    BY <1>16, <2>1, ReadStep, ProfileFacts DEF TypeOK, Stage, StartResolve,
       CloseUnread, Close, busVars, endVars, routable
  <2> QED
    BY <1>16, <2>2, <2>3, ReadFrame DEF TypeOK, cliVars
<1>17. ASSUME ReadFails PROVE TypeOK'
  BY <1>17, HeadAssumption DEF ReadFails, CloseUnread, Close, TypeOK, Stage,
     cliVars, readVars, busVars, endVars
<1>18. ASSUME ReadTimeout PROVE TypeOK'
  BY <1>18, HeadAssumption DEF ReadTimeout, CloseUnread, Close, StartResolve,
     TypeOK, Stage, cliVars, readVars, busVars, endVars
<1>19. ASSUME ProbeFails PROVE TypeOK'
  BY <1>19, HeadAssumption DEF ProbeFails, Close, TypeOK, Stage, cliVars,
     readVars, busVars, endVars
<1>20. ASSUME Resolved PROVE TypeOK'
  BY <1>20, HeadAssumption DEF Resolved, Routes, Close, Bridge, TypeOK,
     Stage, cliVars, readVars, busVars, endVars
<1>21. ASSUME UNCHANGED vars PROVE TypeOK'
  BY <1>21, HeadAssumption DEF vars, TypeOK, Stage, cliVars, readVars,
     busVars, endVars
<1> QED
  BY <1>1, <1>2, <1>3, <1>4, <1>5, <1>6, <1>7, <1>8, <1>9, <1>10, <1>11,
     <1>12, <1>13, <1>14, <1>15, <1>16, <1>17, <1>18, <1>19, <1>20, <1>21
  DEF Next

\* A step keeps what the stages and the parsers say of the client.
LEMMA StageStep ==
  ASSUME TypeOK, StageInv, ParserInv, BufferInv, FeedInv, [Next]_vars
  PROVE  StageInv' /\ ParserInv'
<1>1. ASSUME NEW n \in 1..MaxSend, Send(n) PROVE StageInv' /\ ParserInv'
  BY <1>1, Counters, ProfileFacts, HeadAssumption
  DEF Send, StageInv, ParserInv, Unread, HttpLike, cliVars, readVars,
      busVars, endVars
<1>2. ASSUME HalfClose PROVE StageInv' /\ ParserInv'
  BY <1>2 DEF HalfClose, StageInv, ParserInv, Unread, HttpLike, cliVars,
     readVars, busVars, endVars
<1>3. ASSUME NEW t \in Token, Churn(t) PROVE StageInv' /\ ParserInv'
  BY <1>3 DEF Churn, Ended, StageInv, ParserInv, Unread, HttpLike, cliVars,
     readVars, busVars, endVars
<1>4. ASSUME NEW t \in Token, Probe(t) PROVE StageInv' /\ ParserInv'
  BY <1>4 DEF Probe, token_alive, StageInv, ParserInv, Unread, HttpLike,
     cliVars, readVars, busVars, endVars
<1>5. ASSUME ClassifyMore PROVE StageInv' /\ ParserInv'
  BY <1>5 DEF ClassifyMore, classify_first_bytes, Bridge, StageInv,
     ParserInv, Unread, HttpLike, cliVars, readVars, busVars, endVars
<1>6. ASSUME Classified PROVE StageInv' /\ ParserInv'
  <2>1. Peek(Window) = IF sent <= Window THEN sent ELSE Window
    BY HeadAssumption, PeekFacts
  <2> QED
    BY <1>6, <2>1, HeadAssumption, ProfileFacts, Counters DEF Classified,
       classify_first_bytes, Bridge, StartRead, StageInv, ParserInv, Unread,
       HttpLike, cliVars, readVars, busVars, endVars
<1>7. ASSUME ClassifyTimeout PROVE StageInv' /\ ParserInv'
  BY <1>7 DEF ClassifyTimeout, classify_first_bytes, Bridge, Close, StageInv,
     ParserInv, Unread, HttpLike, cliVars, readVars, busVars, endVars
<1>8. ASSUME PeekHead PROVE StageInv' /\ ParserInv'
  <2>1. http_outcome(seen') = "head" => cl.proto = "http1"
    BY <1>8, HeadWindowType, PeekFacts, HttpFacts DEF PeekHead
  <2> QED
    BY <1>8, <2>1 DEF PeekHead, StartResolve, Close, StageInv, ParserInv,
       Unread, HttpLike, cliVars, readVars, busVars, endVars
<1>9. ASSUME PeekHeadFails PROVE StageInv' /\ ParserInv'
  BY <1>9 DEF PeekHeadFails, StageInv, ParserInv, Unread, HttpLike, cliVars,
     readVars, busVars, endVars
<1>10. ASSUME Sniff PROVE StageInv' /\ ParserInv'
  <2>1. Peek(Window) = IF sent <= Window THEN sent ELSE Window
    BY HeadAssumption, PeekFacts
  <2> QED
    BY <1>10, <2>1, HeadAssumption, ProfileFacts, Counters DEF Sniff,
       Sniffed, classify_first_bytes, StartRead, StageInv, ParserInv, Unread,
       HttpLike, cliVars, readVars, busVars, endVars
<1>11. ASSUME PeekFails PROVE StageInv' /\ ParserInv'
  BY <1>11 DEF PeekFails, Close, StageInv, ParserInv, Unread, HttpLike,
     cliVars, readVars, busVars, endVars
<1>12. ASSUME HandshakeOk PROVE StageInv' /\ ParserInv'
  BY <1>12 DEF HandshakeOk, StartRead, StageInv, ParserInv, Unread, HttpLike,
     cliVars, readVars, busVars, endVars
<1>13. ASSUME HandshakeFails PROVE StageInv' /\ ParserInv'
  BY <1>13 DEF HandshakeFails, Close, StageInv, ParserInv, Unread, HttpLike,
     cliVars, readVars, busVars, endVars
<1>14. ASSUME UpgradeOk PROVE StageInv' /\ ParserInv'
  BY <1>14 DEF UpgradeOk, Bridge, StageInv, ParserInv, Unread, HttpLike,
     cliVars, readVars, busVars, endVars
<1>15. ASSUME UpgradeFails PROVE StageInv' /\ ParserInv'
  BY <1>15 DEF UpgradeFails, Close, StageInv, ParserInv, Unread, HttpLike,
     cliVars, readVars, busVars, endVars
<1>16. ASSUME NEW n \in 1..Chunk, ReadChunk(n) PROVE StageInv' /\ ParserInv'
  <2>1. parser # "ws"
    BY <1>16, ReadFrame DEF StageInv, HttpLike
  <2> QED
    BY <1>16, <2>1, ReadStep, ReadFrame DEF StartResolve, CloseUnread, Close,
       StageInv, ParserInv, Unread, HttpLike, cliVars, busVars, endVars
<1>17. ASSUME ReadFails PROVE StageInv' /\ ParserInv'
  BY <1>17 DEF ReadFails, CloseUnread, Close, StageInv, ParserInv, Unread,
     HttpLike, cliVars, readVars, busVars, endVars
<1>18. ASSUME ReadTimeout PROVE StageInv' /\ ParserInv'
  BY <1>18 DEF ReadTimeout, CloseUnread, Close, StartResolve, StageInv,
     ParserInv, Unread, HttpLike, cliVars, readVars, busVars, endVars
<1>19. ASSUME ProbeFails PROVE StageInv' /\ ParserInv'
  BY <1>19 DEF ProbeFails, Close, StageInv, ParserInv, Unread, HttpLike,
     cliVars, readVars, busVars, endVars
<1>20. ASSUME Resolved PROVE StageInv' /\ ParserInv'
  BY <1>20 DEF Resolved, Routes, Close, Bridge, StageInv, ParserInv, Unread,
     HttpLike, cliVars, readVars, busVars, endVars
<1>21. ASSUME UNCHANGED vars PROVE StageInv' /\ ParserInv'
  BY <1>21 DEF vars, StageInv, ParserInv, Unread, HttpLike, cliVars,
     readVars, busVars, endVars
<1> QED
  BY <1>1, <1>2, <1>3, <1>4, <1>5, <1>6, <1>7, <1>8, <1>9, <1>10, <1>11,
     <1>12, <1>13, <1>14, <1>15, <1>16, <1>17, <1>18, <1>19, <1>20, <1>21
  DEF Next

\* A step keeps what is known of the probes and of whom they are for.
LEMMA ProbeStep ==
  ASSUME TypeOK, StageInv, ParserInv, BufferInv, FeedInv, ProbeInv, [Next]_vars
  PROVE  ProbeInv'
<1>1. ASSUME NEW n \in 1..MaxSend, Send(n) PROVE ProbeInv'
  BY <1>1 DEF Send, ProbeInv, StageInv, cliVars, readVars, busVars, endVars
<1>2. ASSUME HalfClose PROVE ProbeInv'
  BY <1>2 DEF HalfClose, ProbeInv, StageInv, cliVars, readVars, busVars,
     endVars
<1>3. ASSUME NEW t \in Token, Churn(t) PROVE ProbeInv'
  BY <1>3 DEF Churn, Ended, ProbeInv, StageInv, cliVars, readVars, busVars,
     endVars
<1>4. ASSUME NEW t \in Token, Probe(t) PROVE ProbeInv'
  BY <1>4, ProfileFacts DEF Probe, token_alive, ProbeInv, StageInv, cliVars,
     readVars, busVars, endVars, TypeOK, Token
<1>5. ASSUME ClassifyMore PROVE ProbeInv'
  BY <1>5 DEF ClassifyMore, classify_first_bytes, Bridge, ProbeInv, StageInv,
     cliVars, readVars, busVars, endVars
<1>6. ASSUME Classified PROVE ProbeInv'
  BY <1>6 DEF Classified, classify_first_bytes, Bridge, StartRead, ProbeInv,
     StageInv, cliVars, readVars, busVars, endVars
<1>7. ASSUME ClassifyTimeout PROVE ProbeInv'
  BY <1>7 DEF ClassifyTimeout, classify_first_bytes, Bridge, Close, ProbeInv,
     StageInv, cliVars, readVars, busVars, endVars
<1>8. ASSUME PeekHead PROVE ProbeInv'
  BY <1>8, ProfileFacts DEF PeekHead, StartResolve, Close, ProbeInv,
     StageInv, cliVars, readVars, busVars, endVars, Token
<1>9. ASSUME PeekHeadFails PROVE ProbeInv'
  BY <1>9 DEF PeekHeadFails, ProbeInv, StageInv, cliVars, readVars, busVars,
     endVars
<1>10. ASSUME Sniff PROVE ProbeInv'
  BY <1>10 DEF Sniff, Sniffed, classify_first_bytes, StartRead, ProbeInv,
     StageInv, cliVars, readVars, busVars, endVars
<1>11. ASSUME PeekFails PROVE ProbeInv'
  BY <1>11 DEF PeekFails, Close, ProbeInv, StageInv, cliVars, readVars,
     busVars, endVars
<1>12. ASSUME HandshakeOk PROVE ProbeInv'
  BY <1>12 DEF HandshakeOk, StartRead, ProbeInv, StageInv, cliVars, readVars,
     busVars, endVars
<1>13. ASSUME HandshakeFails PROVE ProbeInv'
  BY <1>13 DEF HandshakeFails, Close, ProbeInv, StageInv, cliVars, readVars,
     busVars, endVars
<1>14. ASSUME UpgradeOk PROVE ProbeInv'
  BY <1>14 DEF UpgradeOk, Bridge, ProbeInv, StageInv, cliVars, readVars,
     busVars, endVars
<1>15. ASSUME UpgradeFails PROVE ProbeInv'
  BY <1>15 DEF UpgradeFails, Close, ProbeInv, StageInv, cliVars, readVars,
     busVars, endVars
<1>16. ASSUME NEW n \in 1..Chunk, ReadChunk(n) PROVE ProbeInv'
  <2>1. parser # "ws" /\ parser \in HttpLike
    BY <1>16, ReadFrame DEF StageInv, HttpLike
  <2>2. Parsed(fed', FALSE) = "head" /\ cl.key = "none" /\ routable
          => cl.proto = "tls"
    BY <1>16, <2>1 DEF routable, ParserInv
  <2> QED
    BY <1>16, <2>1, <2>2, ReadStep, ReadFrame, ProfileFacts DEF StartResolve,
       CloseUnread, Close, ProbeInv, StageInv, ParserInv, routable, HttpLike,
       Token, cliVars, busVars, endVars
<1>17. ASSUME ReadFails PROVE ProbeInv'
  BY <1>17 DEF ReadFails, CloseUnread, Close, ProbeInv, StageInv, cliVars,
     readVars, busVars, endVars
<1>18. ASSUME ReadTimeout PROVE ProbeInv'
  BY <1>18, ProfileFacts DEF ReadTimeout, CloseUnread, Close, StartResolve,
     ProbeInv, StageInv, cliVars, readVars, busVars, endVars, Token
<1>19. ASSUME ProbeFails PROVE ProbeInv'
  BY <1>19 DEF ProbeFails, Close, ProbeInv, StageInv, cliVars, readVars,
     busVars, endVars
<1>20. ASSUME Resolved PROVE ProbeInv'
  BY <1>20 DEF Resolved, Routes, Close, Bridge, ProbeInv, StageInv, cliVars,
     readVars, busVars, endVars, ParserInv, TypeOK, Token
<1>21. ASSUME UNCHANGED vars PROVE ProbeInv'
  BY <1>21 DEF vars, ProbeInv, StageInv, cliVars, readVars, busVars, endVars
<1> QED
  BY <1>1, <1>2, <1>3, <1>4, <1>5, <1>6, <1>7, <1>8, <1>9, <1>10, <1>11,
     <1>12, <1>13, <1>14, <1>15, <1>16, <1>17, <1>18, <1>19, <1>20, <1>21
  DEF Next

\* A step keeps the replay buffer and the refused tail.
LEMMA BufferStep ==
  ASSUME TypeOK, StageInv, ParserInv, BufferInv, FeedInv, [Next]_vars
  PROVE  BufferInv' /\ FeedInv'
<1>1. ASSUME NEW n \in 1..MaxSend, Send(n) PROVE BufferInv' /\ FeedInv'
  BY <1>1 DEF Send, BufferInv, FeedInv, StageInv, Unread, cliVars, readVars,
     busVars, endVars
<1>2. ASSUME HalfClose PROVE BufferInv' /\ FeedInv'
  BY <1>2 DEF HalfClose, BufferInv, FeedInv, StageInv, Unread, cliVars,
     readVars, busVars, endVars
<1>3. ASSUME NEW t \in Token, Churn(t) PROVE BufferInv' /\ FeedInv'
  BY <1>3 DEF Churn, Ended, BufferInv, FeedInv, StageInv, Unread, cliVars,
     readVars, busVars, endVars
<1>4. ASSUME NEW t \in Token, Probe(t) PROVE BufferInv' /\ FeedInv'
  BY <1>4 DEF Probe, token_alive, BufferInv, FeedInv, StageInv, Unread,
     cliVars, readVars, busVars, endVars
<1>5. ASSUME ClassifyMore PROVE BufferInv' /\ FeedInv'
  BY <1>5 DEF ClassifyMore, classify_first_bytes, Bridge, BufferInv, FeedInv,
     StageInv, Unread, cliVars, readVars, busVars, endVars
<1>6. ASSUME Classified PROVE BufferInv' /\ FeedInv'
  BY <1>6, ProfileFacts, HeadAssumption DEF Classified, classify_first_bytes,
     Bridge, StartRead, BufferInv, FeedInv, StageInv, Unread, cliVars,
     readVars, busVars, endVars
<1>7. ASSUME ClassifyTimeout PROVE BufferInv' /\ FeedInv'
  BY <1>7 DEF ClassifyTimeout, classify_first_bytes, Bridge, Close,
     BufferInv, FeedInv, StageInv, Unread, cliVars, readVars, busVars,
     endVars
<1>8. ASSUME PeekHead PROVE BufferInv' /\ FeedInv'
  BY <1>8, UnitsEmpty DEF PeekHead, StartResolve, Close, BufferInv, FeedInv,
     StageInv, Unread, cliVars, readVars, busVars, endVars
<1>9. ASSUME PeekHeadFails PROVE BufferInv' /\ FeedInv'
  BY <1>9 DEF PeekHeadFails, BufferInv, FeedInv, StageInv, Unread, cliVars,
     readVars, busVars, endVars
<1>10. ASSUME Sniff PROVE BufferInv' /\ FeedInv'
  BY <1>10, ProfileFacts, HeadAssumption DEF Sniff, Sniffed,
     classify_first_bytes, StartRead, BufferInv, FeedInv, StageInv, Unread,
     cliVars, readVars, busVars, endVars
<1>11. ASSUME PeekFails PROVE BufferInv' /\ FeedInv'
  BY <1>11 DEF PeekFails, Close, BufferInv, FeedInv, StageInv, Unread,
     cliVars, readVars, busVars, endVars
<1>12. ASSUME HandshakeOk PROVE BufferInv' /\ FeedInv'
  BY <1>12, ProfileFacts, HeadAssumption DEF HandshakeOk, StartRead,
     BufferInv, FeedInv, StageInv, Unread, cliVars, readVars, busVars,
     endVars
<1>13. ASSUME HandshakeFails PROVE BufferInv' /\ FeedInv'
  BY <1>13 DEF HandshakeFails, Close, BufferInv, FeedInv, StageInv, Unread,
     cliVars, readVars, busVars, endVars
<1>14. ASSUME UpgradeOk PROVE BufferInv' /\ FeedInv'
  BY <1>14 DEF UpgradeOk, Bridge, BufferInv, FeedInv, StageInv, Unread,
     cliVars, readVars, busVars, endVars
<1>15. ASSUME UpgradeFails PROVE BufferInv' /\ FeedInv'
  BY <1>15 DEF UpgradeFails, Close, BufferInv, FeedInv, StageInv, Unread,
     cliVars, readVars, busVars, endVars
<1>16. ASSUME NEW n \in 1..Chunk, ReadChunk(n) PROVE BufferInv' /\ FeedInv'
  <2>1. parser # "ws" /\ parser # "none" /\ stage = "read"
    BY <1>16, ReadFrame DEF StageInv, HttpLike
  <2>2. /\ taken' = taken + n /\ buffer' = Units(0, taken') /\ ~gap'
        /\ pending' = Units(fed', taken' - fed')
        /\ parser' = parser /\ cl' = cl
    BY <1>16, <2>1, ReadStep, ReadFrame DEF cliVars
  <2>3. taken' <= MaxHeader - 1 + Chunk
    BY <2>1, <2>2, Counters, HeadAssumption DEF BufferInv
  <2>4. ASSUME stage' = "read"
        PROVE  Parsed(fed', FALSE) = "more" /\ taken' < MaxHeader
    <3> DEFINE buf == Mirror(buffer, Units(taken, n))
    <3>1. Parsed(fed', FALSE) = "more" /\ ~TooLarge(buf) /\ Len(buf) = taken'
      BY <1>16, <2>1, <2>4, ReadStep DEF StartResolve, CloseUnread, Close
    <3> HIDE DEF buf
    <3>2. taken' \in Nat /\ MaxHeader \in Nat
      BY <2>2, Counters, HeadAssumption
    <3>3. ~(taken' >= MaxHeader)
      BY <3>1 DEF TooLarge
    <3>4. taken' < MaxHeader
      BY <3>2, <3>3
    <3> QED
      BY <3>1, <3>4
  <2>5. ASSUME stage' = "read", parser = cl.proto, ~cl.malformed,
               cl.head <= MaxHeader
        PROVE  fed' < cl.head
    <3>0. fed' \in fed..taken'
      BY <1>16, <2>1, ReadStep
    <3>1. fed' \in Nat
      BY <2>2, <3>0, Counters
    <3>2. CASE parser = "http1"
      BY <2>4, <2>5, <3>1, <3>2, HttpFacts DEF Parsed
    <3>3. CASE parser # "http1"
      BY <2>4, <2>5, <3>1, <3>3, ProfileFacts DEF Parsed
    <3> QED
      BY <3>2, <3>3
  <2> QED
    BY <1>16, <2>1, <2>2, <2>3, <2>4, <2>5, ReadStep DEF BufferInv, FeedInv,
       StartResolve, CloseUnread, Close, Unread
<1>17. ASSUME ReadFails PROVE BufferInv' /\ FeedInv'
  BY <1>17 DEF ReadFails, CloseUnread, Close, BufferInv, FeedInv, StageInv,
     Unread, cliVars, readVars, busVars, endVars
<1>18. ASSUME ReadTimeout PROVE BufferInv' /\ FeedInv'
  BY <1>18 DEF ReadTimeout, CloseUnread, Close, StartResolve, BufferInv,
     FeedInv, StageInv, Unread, cliVars, readVars, busVars, endVars
<1>19. ASSUME ProbeFails PROVE BufferInv' /\ FeedInv'
  BY <1>19 DEF ProbeFails, Close, BufferInv, FeedInv, StageInv, Unread,
     cliVars, readVars, busVars, endVars
<1>20. ASSUME Resolved PROVE BufferInv' /\ FeedInv'
  BY <1>20 DEF Resolved, Routes, Close, Bridge, BufferInv, FeedInv, StageInv,
     Unread, cliVars, readVars, busVars, endVars
<1>21. ASSUME UNCHANGED vars PROVE BufferInv' /\ FeedInv'
  BY <1>21 DEF vars, BufferInv, FeedInv, StageInv, Unread, cliVars, readVars,
     busVars, endVars
<1> QED
  BY <1>1, <1>2, <1>3, <1>4, <1>5, <1>6, <1>7, <1>8, <1>9, <1>10, <1>11,
     <1>12, <1>13, <1>14, <1>15, <1>16, <1>17, <1>18, <1>19, <1>20, <1>21
  DEF Next

\* A connection is bridged where its name says (handle_auto_import_connection,
\* resolve_backend).
LEMMA RouteStep ==
  ASSUME TypeOK, StageInv, ParserInv, BufferInv, FeedInv, ProbeInv,
         RoutedAsNamed, [Next]_vars
  PROVE  RoutedAsNamed'
<1>1. ASSUME NEW n \in 1..MaxSend, Send(n) PROVE RoutedAsNamed'
  BY <1>1 DEF Send, RoutedAsNamed, Opaque, cliVars, readVars, busVars,
     endVars, Ended
<1>2. ASSUME HalfClose PROVE RoutedAsNamed'
  BY <1>2 DEF HalfClose, RoutedAsNamed, Opaque, cliVars, readVars, busVars,
     endVars, Ended
<1>3. ASSUME NEW t \in Token, Churn(t) PROVE RoutedAsNamed'
  BY <1>3 DEF Churn, Ended, RoutedAsNamed, Opaque, cliVars, readVars,
     busVars, endVars
<1>4. ASSUME NEW t \in Token, Probe(t) PROVE RoutedAsNamed'
  BY <1>4 DEF Probe, token_alive, RoutedAsNamed, Opaque, cliVars, readVars,
     busVars, endVars
<1>5. ASSUME ClassifyMore PROVE RoutedAsNamed'
  <2>1. ~(Window >= cl.sig)
    <3>1. cl.proto # "more"
      BY ProfileFacts DEF Proto
    <3> QED
      BY <1>5, <3>1 DEF ClassifyMore, classify_first_bytes
  <2>2. cl.proto = "raw"
    BY <2>1, HeadAssumption, ProfileFacts
  <2> QED
    BY <1>5, <2>2 DEF ClassifyMore, Bridge, RoutedAsNamed, Opaque, cliVars
<1>6. ASSUME Classified PROVE RoutedAsNamed'
  <2>1. Peek(Window) = IF sent <= Window THEN sent ELSE Window
    BY HeadAssumption, PeekFacts
  <2> QED
    BY <1>6, <2>1, HeadAssumption, ProfileFacts, Counters DEF Classified,
       classify_first_bytes, Bridge, StartRead, RoutedAsNamed, Opaque,
       StageInv, cliVars, readVars, busVars, endVars
<1>7. ASSUME ClassifyTimeout PROVE RoutedAsNamed'
  <2>1. /\ Peek(Window) \in Nat
        /\ Peek(Window) = IF sent <= Window THEN sent ELSE Window
    BY HeadAssumption, PeekFacts
  <2>2. ~(Peek(Window) >= cl.sig)
    <3>1. cl.proto # "more"
      BY ProfileFacts DEF Proto
    <3> QED
      BY <1>7, <3>1 DEF ClassifyTimeout, classify_first_bytes
  <2>3. sent < cl.sig \/ cl.sig > Window
    BY <2>1, <2>2, HeadAssumption, Counters, ProfileFacts
  <2>4. sent < cl.sig \/ cl.proto = "raw"
    BY <2>3, ProfileFacts
  <2> QED
    BY <1>7, <2>4 DEF ClassifyTimeout, Bridge, Close, RoutedAsNamed, Opaque,
       cliVars
<1>8. ASSUME PeekHead PROVE RoutedAsNamed'
  BY <1>8 DEF PeekHead, StartResolve, Close, RoutedAsNamed, Opaque, cliVars,
     readVars, busVars, endVars
<1>9. ASSUME PeekHeadFails PROVE RoutedAsNamed'
  BY <1>9 DEF PeekHeadFails, RoutedAsNamed, Opaque, cliVars, readVars,
     busVars, endVars
<1>10. ASSUME Sniff PROVE RoutedAsNamed'
  BY <1>10 DEF Sniff, Sniffed, classify_first_bytes, StartRead,
     RoutedAsNamed, Opaque, cliVars, readVars, busVars, endVars
<1>11. ASSUME PeekFails PROVE RoutedAsNamed'
  BY <1>11 DEF PeekFails, Close, RoutedAsNamed, Opaque, cliVars, readVars,
     busVars, endVars
<1>12. ASSUME HandshakeOk PROVE RoutedAsNamed'
  BY <1>12 DEF HandshakeOk, StartRead, RoutedAsNamed, Opaque, cliVars,
     readVars, busVars, endVars
<1>13. ASSUME HandshakeFails PROVE RoutedAsNamed'
  BY <1>13 DEF HandshakeFails, Close, RoutedAsNamed, Opaque, cliVars,
     readVars, busVars, endVars
<1>14. ASSUME UpgradeOk PROVE RoutedAsNamed'
  BY <1>14, ProfileFacts DEF UpgradeOk, Bridge, RoutedAsNamed, Opaque,
     cliVars, readVars, busVars, endVars, StageInv, ParserInv, ProbeInv
<1>15. ASSUME UpgradeFails PROVE RoutedAsNamed'
  BY <1>15 DEF UpgradeFails, Close, RoutedAsNamed, Opaque, cliVars, readVars,
     busVars, endVars
<1>16. ASSUME NEW n \in 1..Chunk, ReadChunk(n) PROVE RoutedAsNamed'
  <2>1. parser # "ws"
    BY <1>16, ReadFrame DEF StageInv, HttpLike
  <2> QED
    BY <1>16, <2>1, ReadStep, ReadFrame DEF StartResolve, CloseUnread, Close,
       RoutedAsNamed
<1>17. ASSUME ReadFails PROVE RoutedAsNamed'
  BY <1>17 DEF ReadFails, CloseUnread, Close, RoutedAsNamed, Opaque, cliVars,
     readVars, busVars, endVars
<1>18. ASSUME ReadTimeout PROVE RoutedAsNamed'
  BY <1>18 DEF ReadTimeout, CloseUnread, Close, StartResolve, RoutedAsNamed,
     Opaque, cliVars, readVars, busVars, endVars
<1>19. ASSUME ProbeFails PROVE RoutedAsNamed'
  BY <1>19 DEF ProbeFails, Close, RoutedAsNamed, Opaque, cliVars, readVars,
     busVars, endVars
<1>20. ASSUME Resolved PROVE RoutedAsNamed'
  BY <1>20 DEF Resolved, Routes, Close, Bridge, RoutedAsNamed, Opaque,
     cliVars, readVars, busVars, endVars, ProbeInv, TypeOK, Token
<1>21. ASSUME UNCHANGED vars PROVE RoutedAsNamed'
  BY <1>21 DEF vars, RoutedAsNamed, Opaque, cliVars, readVars, busVars,
     endVars
<1> QED
  BY <1>1, <1>2, <1>3, <1>4, <1>5, <1>6, <1>7, <1>8, <1>9, <1>10, <1>11,
     <1>12, <1>13, <1>14, <1>15, <1>16, <1>17, <1>18, <1>19, <1>20, <1>21
  DEF Next

\* A plaintext answer is written to an HTTP/1.1 client only.
LEMMA AnswerStep ==
  ASSUME TypeOK, StageInv, ParserInv, BufferInv, FeedInv, AnswersInProtocol,
         [Next]_vars
  PROVE  AnswersInProtocol'
<1>1. ASSUME NEW n \in 1..MaxSend, Send(n) PROVE AnswersInProtocol'
  BY <1>1 DEF Send, AnswersInProtocol, StageInv, ParserInv, cliVars,
     readVars, busVars, endVars, Ended
<1>2. ASSUME HalfClose PROVE AnswersInProtocol'
  BY <1>2 DEF HalfClose, AnswersInProtocol, StageInv, ParserInv, cliVars,
     readVars, busVars, endVars, Ended
<1>3. ASSUME NEW t \in Token, Churn(t) PROVE AnswersInProtocol'
  BY <1>3 DEF Churn, Ended, AnswersInProtocol, StageInv, ParserInv, cliVars,
     readVars, busVars, endVars
<1>4. ASSUME NEW t \in Token, Probe(t) PROVE AnswersInProtocol'
  BY <1>4 DEF Probe, token_alive, AnswersInProtocol, StageInv, ParserInv,
     cliVars, readVars, busVars, endVars
<1>5. ASSUME ClassifyMore PROVE AnswersInProtocol'
  BY <1>5 DEF ClassifyMore, classify_first_bytes, Bridge, AnswersInProtocol,
     StageInv, ParserInv, cliVars, readVars, busVars, endVars
<1>6. ASSUME Classified PROVE AnswersInProtocol'
  BY <1>6 DEF Classified, classify_first_bytes, Bridge, StartRead,
     AnswersInProtocol, StageInv, ParserInv, cliVars, readVars, busVars,
     endVars
<1>7. ASSUME ClassifyTimeout PROVE AnswersInProtocol'
  BY <1>7 DEF ClassifyTimeout, classify_first_bytes, Bridge, Close,
     AnswersInProtocol, StageInv, ParserInv, cliVars, readVars, busVars,
     endVars
<1>8. ASSUME PeekHead PROVE AnswersInProtocol'
  BY <1>8 DEF PeekHead, StartResolve, Close, AnswersInProtocol, StageInv,
     ParserInv, cliVars, readVars, busVars, endVars
<1>9. ASSUME PeekHeadFails PROVE AnswersInProtocol'
  BY <1>9 DEF PeekHeadFails, AnswersInProtocol, StageInv, ParserInv, cliVars,
     readVars, busVars, endVars
<1>10. ASSUME Sniff PROVE AnswersInProtocol'
  BY <1>10 DEF Sniff, Sniffed, classify_first_bytes, StartRead,
     AnswersInProtocol, StageInv, ParserInv, cliVars, readVars, busVars,
     endVars
<1>11. ASSUME PeekFails PROVE AnswersInProtocol'
  BY <1>11 DEF PeekFails, Close, AnswersInProtocol, StageInv, ParserInv,
     cliVars, readVars, busVars, endVars
<1>12. ASSUME HandshakeOk PROVE AnswersInProtocol'
  BY <1>12 DEF HandshakeOk, StartRead, AnswersInProtocol, StageInv,
     ParserInv, cliVars, readVars, busVars, endVars
<1>13. ASSUME HandshakeFails PROVE AnswersInProtocol'
  BY <1>13 DEF HandshakeFails, Close, AnswersInProtocol, StageInv, ParserInv,
     cliVars, readVars, busVars, endVars
<1>14. ASSUME UpgradeOk PROVE AnswersInProtocol'
  BY <1>14 DEF UpgradeOk, Bridge, AnswersInProtocol, StageInv, ParserInv,
     cliVars, readVars, busVars, endVars
<1>15. ASSUME UpgradeFails PROVE AnswersInProtocol'
  BY <1>15 DEF UpgradeFails, Close, AnswersInProtocol, StageInv, ParserInv,
     cliVars, readVars, busVars, endVars
<1>16. ASSUME NEW n \in 1..Chunk, ReadChunk(n) PROVE AnswersInProtocol'
  <2>1. parser # "ws"
    BY <1>16, ReadFrame DEF StageInv, HttpLike
  <2> QED
    BY <1>16, <2>1, ReadStep, ReadFrame DEF StartResolve, CloseUnread, Close,
       AnswersInProtocol, StageInv, ParserInv, cliVars, endVars
<1>17. ASSUME ReadFails PROVE AnswersInProtocol'
  BY <1>17 DEF ReadFails, CloseUnread, Close, AnswersInProtocol, StageInv,
     ParserInv, cliVars, readVars, busVars, endVars
<1>18. ASSUME ReadTimeout PROVE AnswersInProtocol'
  BY <1>18 DEF ReadTimeout, CloseUnread, Close, StartResolve,
     AnswersInProtocol, StageInv, ParserInv, cliVars, readVars, busVars,
     endVars
<1>19. ASSUME ProbeFails PROVE AnswersInProtocol'
  BY <1>19 DEF ProbeFails, Close, AnswersInProtocol, StageInv, ParserInv,
     cliVars, readVars, busVars, endVars
<1>20. ASSUME Resolved PROVE AnswersInProtocol'
  BY <1>20 DEF Resolved, Routes, Close, Bridge, AnswersInProtocol, StageInv,
     ParserInv, cliVars, readVars, busVars, endVars
<1>21. ASSUME UNCHANGED vars PROVE AnswersInProtocol'
  BY <1>21 DEF vars, AnswersInProtocol, StageInv, ParserInv, cliVars,
     readVars, busVars, endVars
<1> QED
  BY <1>1, <1>2, <1>3, <1>4, <1>5, <1>6, <1>7, <1>8, <1>9, <1>10, <1>11,
     <1>12, <1>13, <1>14, <1>15, <1>16, <1>17, <1>18, <1>19, <1>20, <1>21
  DEF Next

\* A connection is closed for a reason that is not the cut of its bytes.
LEMMA CauseStep ==
  ASSUME TypeOK, StageInv, ParserInv, BufferInv, FeedInv, ClosedForCause,
         [Next]_vars
  PROVE  ClosedForCause'
<1>1. ASSUME NEW n \in 1..MaxSend, Send(n) PROVE ClosedForCause'
  BY <1>1 DEF Send, ClosedForCause, routable, TooLarge, cliVars, readVars,
     busVars, endVars, Ended
<1>2. ASSUME HalfClose PROVE ClosedForCause'
  BY <1>2 DEF HalfClose, ClosedForCause, routable, TooLarge, cliVars,
     readVars, busVars, endVars, Ended
<1>3. ASSUME NEW t \in Token, Churn(t) PROVE ClosedForCause'
  BY <1>3 DEF Churn, Ended, ClosedForCause, routable, TooLarge, cliVars,
     readVars, busVars, endVars
<1>4. ASSUME NEW t \in Token, Probe(t) PROVE ClosedForCause'
  BY <1>4 DEF Probe, token_alive, ClosedForCause, routable, TooLarge,
     cliVars, readVars, busVars, endVars
<1>5. ASSUME ClassifyMore PROVE ClosedForCause'
  BY <1>5 DEF ClassifyMore, classify_first_bytes, Bridge, ClosedForCause,
     routable, TooLarge, cliVars, readVars, busVars, endVars
<1>6. ASSUME Classified PROVE ClosedForCause'
  BY <1>6 DEF Classified, classify_first_bytes, Bridge, StartRead,
     ClosedForCause, routable, TooLarge, cliVars, readVars, busVars, endVars
<1>7. ASSUME ClassifyTimeout PROVE ClosedForCause'
  BY <1>7 DEF ClassifyTimeout, classify_first_bytes, Bridge, Close,
     ClosedForCause, routable, TooLarge, cliVars, readVars, busVars, endVars
<1>8. ASSUME PeekHead PROVE ClosedForCause'
  BY <1>8 DEF PeekHead, StartResolve, Close, ClosedForCause, routable,
     TooLarge, cliVars, readVars, busVars, endVars, StageInv, Unread
<1>9. ASSUME PeekHeadFails PROVE ClosedForCause'
  BY <1>9 DEF PeekHeadFails, ClosedForCause, routable, TooLarge, cliVars,
     readVars, busVars, endVars
<1>10. ASSUME Sniff PROVE ClosedForCause'
  BY <1>10 DEF Sniff, Sniffed, classify_first_bytes, StartRead,
     ClosedForCause, routable, TooLarge, cliVars, readVars, busVars, endVars
<1>11. ASSUME PeekFails PROVE ClosedForCause'
  BY <1>11, ProfileFacts DEF PeekFails, Close, ClosedForCause, routable,
     TooLarge, cliVars, readVars, busVars, endVars
<1>12. ASSUME HandshakeOk PROVE ClosedForCause'
  BY <1>12 DEF HandshakeOk, StartRead, ClosedForCause, routable, TooLarge,
     cliVars, readVars, busVars, endVars
<1>13. ASSUME HandshakeFails PROVE ClosedForCause'
  BY <1>13 DEF HandshakeFails, Close, ClosedForCause, routable, TooLarge,
     cliVars, readVars, busVars, endVars, StageInv, Unread
<1>14. ASSUME UpgradeOk PROVE ClosedForCause'
  BY <1>14 DEF UpgradeOk, Bridge, ClosedForCause, routable, TooLarge,
     cliVars, readVars, busVars, endVars
<1>15. ASSUME UpgradeFails PROVE ClosedForCause'
  BY <1>15 DEF UpgradeFails, Close, ClosedForCause, routable, TooLarge,
     cliVars, readVars, busVars, endVars, StageInv
<1>16. ASSUME NEW n \in 1..Chunk, ReadChunk(n) PROVE ClosedForCause'
  <2>1. parser # "ws" /\ parser \in HttpLike
    BY <1>16, ReadFrame DEF StageInv, HttpLike
  <2> SUFFICES ASSUME stage' = "closed", upset' = "none" PROVE ClosedForCause'
    BY DEF ClosedForCause
  <2> DEFINE o == Parsed(fed', FALSE)
             buf == Mirror(buffer, Units(taken, n))
  <2>2. /\ \/ o = "head" /\ ~routable
           \/ o = "refused"
           \/ o = "more" /\ TooLarge(buf)
        /\ Len(buf) = taken' /\ buffer' = buf
        /\ fed' \in fed..taken' /\ taken' = taken + n
        /\ pending' = Units(fed', taken' - fed')
        /\ parser' = parser /\ cl' = cl /\ door' = door
    BY <1>16, <2>1, ReadStep, ReadFrame DEF StartResolve, cliVars, ReadChunk
  <2>3. taken' \in Nat /\ fed' \in Nat /\ fed' <= taken' /\ MaxHeader \in Nat
    BY <2>2, Counters, HeadAssumption
  <2> HIDE DEF o, buf
  <2>4. CASE ~routable
    BY <2>2, <2>4 DEF ClosedForCause, routable
  <2>5. CASE cl.proto # parser
    BY <2>1, <2>2, <2>5 DEF ClosedForCause, ParserInv, HttpLike
  <2>6. CASE cl.malformed \/ cl.head > MaxHeader
    BY <2>2, <2>6 DEF ClosedForCause
  <2>7. CASE /\ cl.proto = parser /\ ~cl.malformed
             /\ cl.head <= MaxHeader /\ routable
    <3>1. o # "refused" /\ (o = "more" => fed' < cl.head)
      <4>1. CASE parser = "http1"
        BY <2>3, <2>7, <4>1, HttpFacts DEF Parsed, o
      <4>2. CASE parser # "http1"
        BY <2>3, <2>7, <4>2, ProfileFacts DEF Parsed, o
      <4> QED
        BY <4>1, <4>2
    <3>2. TooLarge(buf) /\ fed' < cl.head
      BY <2>2, <2>7, <3>1
    <3>3. fed' < taken'
      BY <2>2, <2>3, <2>7, <3>2, ProfileFacts DEF TooLarge
    <3>4. pending' # <<>>
      <4>1. taken' - fed' \in Nat /\ taken' - fed' # 0
        <5>1. taken' \in Nat /\ fed' \in Nat
          BY <2>3
        <5> QED
          BY <3>3, <5>1, Distance
      <4>2. Len(pending') = taken' - fed'
        BY <2>2, <2>3, <4>1, UnitsFacts
      <4> QED
        BY <4>1, <4>2
    <3> QED
      BY <2>2, <3>2, <3>4 DEF ClosedForCause, TooLarge
  <2> QED
    BY <2>4, <2>5, <2>6, <2>7, ProfileFacts, <2>3
<1>17. ASSUME ReadFails PROVE ClosedForCause'
  <2> SUFFICES ASSUME stage' = "closed", upset' = "none" PROVE ClosedForCause'
    BY DEF ClosedForCause
  <2>1. /\ stage = "read" /\ taken = sent /\ fin
        /\ UNCHANGED <<cliVars, readVars, busVars>>
    BY <1>17 DEF ReadFails
  <2>2. CASE cl.proto # parser
    BY <2>1, <2>2 DEF ClosedForCause, StageInv, ParserInv, HttpLike, cliVars,
       readVars
  <2>3. CASE cl.malformed \/ cl.head > MaxHeader
    BY <2>1, <2>3 DEF ClosedForCause, cliVars
  <2>4. CASE cl.proto = parser /\ ~cl.malformed /\ cl.head <= MaxHeader
    <3>1. fed < cl.head
      BY <2>1, <2>4 DEF FeedInv
    <3>2. CASE fed = taken
      BY <2>1, <3>1, <3>2 DEF ClosedForCause, cliVars
    <3>3. CASE fed # taken
      <4>1. taken - fed \in Nat /\ taken - fed # 0
        BY <3>3, Counters
      <4>2. pending = Units(fed, taken - fed)
        BY <2>1 DEF FeedInv, StageInv, HttpLike
      <4>4. Len(pending) = taken - fed
        BY <4>1, <4>2, Counters, UnitsFacts
      <4>3. pending # <<>>
        BY <4>1, <4>4
      <4> QED
        BY <2>1, <4>3 DEF ClosedForCause, cliVars, readVars
    <3> QED
      BY <3>2, <3>3
  <2> QED
    BY <2>2, <2>3, <2>4, ProfileFacts, HeadAssumption
<1>18. ASSUME ReadTimeout PROVE ClosedForCause'
  BY <1>18 DEF ReadTimeout, CloseUnread, Close, StartResolve, ClosedForCause,
     routable, TooLarge, cliVars, readVars, busVars, endVars
<1>19. ASSUME ProbeFails PROVE ClosedForCause'
  BY <1>19 DEF ProbeFails, Close, ClosedForCause, routable, TooLarge,
     cliVars, readVars, busVars, endVars
<1>20. ASSUME Resolved PROVE ClosedForCause'
  BY <1>20 DEF Resolved, Routes, Close, Bridge, ClosedForCause, routable,
     TooLarge, cliVars, readVars, busVars, endVars
<1>21. ASSUME UNCHANGED vars PROVE ClosedForCause'
  BY <1>21 DEF vars, ClosedForCause, routable, TooLarge, cliVars, readVars,
     busVars, endVars
<1> QED
  BY <1>1, <1>2, <1>3, <1>4, <1>5, <1>6, <1>7, <1>8, <1>9, <1>10, <1>11,
     <1>12, <1>13, <1>14, <1>15, <1>16, <1>17, <1>18, <1>19, <1>20, <1>21
  DEF Next

-----------------------------------------------------------------------------
(* The theorems.                                                           *)

\* The inductive invariant: the connection starts in it and no step leaves it.
LEMMA HeadInvariant == Spec => [](TypeOK /\ HeadInv)
<1>1. Init => TypeOK /\ HeadInv
  <2> SUFFICES ASSUME Init PROVE TypeOK /\ HeadInv
    OBVIOUS
  <2>1. TypeOK
    <3>1. door \in Door
      BY HeadAssumption DEF Init
    <3>2. stage \in Stage
      BY <3>1 DEF Init, FirstStage, Stage, Door
    <3>3. sent \in 0..MaxSend /\ seen \in 0..sent /\ taken \in 0..sent
          /\ fed \in 0..taken
      BY HeadAssumption DEF Init
    <3>4. buffer \in Seq(Nat) /\ pending \in Seq(Nat)
      BY DEF Init
    <3> QED
      BY <3>2, <3>3, <3>4 DEF Init, TypeOK
  <2>2. buffer = Units(0, taken) /\ pending = Units(fed, taken - fed)
    BY UnitsEmpty DEF Init
  <2> QED
    BY <2>1, <2>2, HeadAssumption, ProfileFacts DEF Init, FirstStage, HeadInv,
       StageInv, ParserInv, BufferInv, FeedInv, ProbeInv, RoutedAsNamed,
          Opaque, AnswersInProtocol, ClosedForCause, Unread, HttpLike, Door
<1>2. TypeOK /\ HeadInv /\ [Next]_vars => TypeOK' /\ HeadInv'
  BY TypeStep, StageStep, BufferStep, ProbeStep, RouteStep, AnswerStep,
     CauseStep
  DEF HeadInv
<1> QED
  BY <1>1, <1>2, PTL DEF Spec

\* Every variable of the head reader keeps its type.
THEOREM HeadTypeCorrect == Spec => []TypeOK
BY HeadInvariant, PTL

\* What the head readers consumed reaches the backend, once and in order,
\* however it was read and refused (read_until, peek_full_http_head).
THEOREM HeadReplaysExactly == Spec => []ReplayExact
<1>1. HeadInv => ReplayExact
  BY DEF HeadInv, BufferInv, ReplayExact
<1> QED
  BY <1>1, HeadInvariant, PTL

\* A client that named a host is bridged to the host's backend, or to the
\* default once that is known not to live (handle_auto_import_connection,
\* resolve_backend).
THEOREM HeadRoutesAsNamed == Spec => []RoutedAsNamed
<1>1. HeadInv => RoutedAsNamed
  BY DEF HeadInv
<1> QED
  BY <1>1, HeadInvariant, PTL

\* Plaintext HTTP is never written to a client that does not speak it
\* (handle_import_connection, handle_tls_terminated_connection).
THEOREM HeadAnswersInProtocol == Spec => []AnswersInProtocol
<1>1. HeadInv => AnswersInProtocol
  BY DEF HeadInv
<1> QED
  BY <1>1, HeadInvariant, PTL

\* How the bytes of a client are cut into segments and what the parser holds
\* back is no reason to close it (concat_pending, http_head_parser).
THEOREM HeadClosesForCause == Spec => []ClosedForCause
<1>1. HeadInv => ClosedForCause
  BY DEF HeadInv
<1> QED
  BY <1>1, HeadInvariant, PTL

\* No client makes the bridge hold more than the cap and one read (read_until).
THEOREM HeadBufferBounded == Spec => []BoundedBuffer
<1>1. TypeOK /\ HeadInv => BoundedBuffer
  <2> SUFFICES ASSUME TypeOK, HeadInv PROVE BoundedBuffer
    OBVIOUS
  <2>1. CASE parser = "ws"
    BY <2>1, HeadAssumption DEF HeadInv, BufferInv, BoundedBuffer
  <2>2. CASE parser # "ws"
    <3>1. Len(buffer) = taken
      BY <2>2, Counters, UnitsFacts DEF HeadInv, BufferInv
    <3> QED
      BY <2>2, <3>1 DEF HeadInv, BufferInv, BoundedBuffer
  <2> QED
    BY <2>1, <2>2
<1> QED
  BY <1>1, HeadInvariant, PTL

=============================================================================
