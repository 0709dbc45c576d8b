--------------------------- MODULE ElectionProofs ---------------------------
(***************************************************************************)
(* TLAPS proofs about Election, for any number of exporters, any clock     *)
(* skew, any partitions, crashes, shutdowns and dead claim views.          *)
(***************************************************************************)
EXTENDS Election, TLAPS

\* Roles of an exporter whose claim is declared.
Claimed(x) == role[x] \in {"elect", "standby", "replay", "serving",
                           "draining", "closing"}

\* An exporter's view of the claims is what it has been told up to what still
\* waits in its channel, and an active exporter found itself elected in it.
ViewInv ==
  \A x \in Exporter :
    /\ Claimed(x) => x \in held
    /\ role[x] \in {"off", "minted"} => told[x] = {} /\ ~news[x]
    /\ role[x] = "subscribed" /\ ~news[x] => told[x] = {}
    /\ Claimed(x) /\ ~news[x] => claims[x] = told[x]
    /\ Serves(x) /\ x \notin blind => elect(claims[x], x)

\* Every variable of the election keeps its type.
THEOREM ElectionTypeCorrect == Spec => []TypeOK
<1>1. Init => TypeOK
  BY DEF Init, TypeOK, Role
<1>2. TypeOK /\ [Next]_vars => TypeOK'
  <2> SUFFICES ASSUME TypeOK, [Next]_vars PROVE TypeOK'
    OBVIOUS
  <2>1. ASSUME NEW x \in Exporter, Mint(x) PROVE TypeOK'
    BY <2>1 DEF Mint, TypeOK, Role, netVars, Become
  <2>2. ASSUME NEW x \in Exporter, Subscribe(x) PROVE TypeOK'
    BY <2>2 DEF Subscribe, TypeOK, Role, netVars, Become
  <2>3. ASSUME NEW x \in Exporter, Declare(x) PROVE TypeOK'
    BY <2>3 DEF Declare, TypeOK, Role, netVars, Become
  <2>4. ASSUME NEW x \in Exporter, Arrive(x) PROVE TypeOK'
    BY <2>4 DEF Arrive, TypeOK, Role, netVars, apply
  <2>5. ASSUME NEW x \in Exporter, GoBlind(x) PROVE TypeOK'
    BY <2>5 DEF GoBlind, TypeOK, Role, netVars
  <2>6. ASSUME NEW x \in Exporter, Elect(x) PROVE TypeOK'
    BY <2>6 DEF Elect, TypeOK, Role, netVars, Become, is_active
  <2>7. ASSUME NEW x \in Exporter, Wake(x) PROVE TypeOK'
    BY <2>7 DEF Wake, TypeOK, Role, netVars, Become, is_active
  <2>8. ASSUME NEW x \in Exporter, WakeBlind(x) PROVE TypeOK'
    BY <2>8 DEF WakeBlind, TypeOK, Role, netVars, Become
  <2>9. ASSUME NEW x \in Exporter, Replayed(x) PROVE TypeOK'
    BY <2>9 DEF Replayed, TypeOK, Role, netVars, Become
  <2>10. ASSUME NEW x \in Exporter, Changed(x) PROVE TypeOK'
    BY <2>10 DEF Changed, TypeOK, Role, netVars, Become, is_active
  <2>11. ASSUME NEW x \in Exporter, Drained(x) PROVE TypeOK'
    BY <2>11 DEF Drained, TypeOK, Role, netVars, Become
  <2>12. ASSUME NEW x \in Exporter, Shutdown(x) PROVE TypeOK'
    BY <2>12 DEF Shutdown, TypeOK, Role, netVars
  <2>13. ASSUME NEW x \in Exporter, StandbyStop(x) PROVE TypeOK'
    BY <2>13 DEF StandbyStop, TypeOK, Role, netVars, Become, Leave
  <2>14. ASSUME NEW x \in Exporter, ServeStop(x) PROVE TypeOK'
    BY <2>14 DEF ServeStop, TypeOK, Role, netVars, Become
  <2>15. ASSUME NEW x \in Exporter, Closed(x) PROVE TypeOK'
    BY <2>15 DEF Closed, TypeOK, Role, netVars, Become, Leave
  <2>16. ASSUME NEW x \in Exporter, Fail(x) PROVE TypeOK'
    BY <2>16 DEF Fail, TypeOK, Role, netVars, Become, Leave
  <2>17. ASSUME NEW x \in Exporter, Crash(x) PROVE TypeOK'
    BY <2>17 DEF Crash, TypeOK, Role, netVars, Become, Leave
  <2>18. ASSUME NEW x \in Exporter, NEW y \in Exporter, Cut(x, y) PROVE TypeOK'
    BY <2>18 DEF Cut, TypeOK, Role, netVars
  <2>19. ASSUME NEW x \in Exporter, NEW y \in Exporter, Heal(x, y) PROVE TypeOK'
    BY <2>19 DEF Heal, TypeOK, Role, netVars
  <2>20. ASSUME UNCHANGED vars PROVE TypeOK'
    BY <2>20 DEF TypeOK, Role, vars, netVars
  <2> QED
    BY <2>1, <2>2, <2>3, <2>4, <2>5, <2>6, <2>7, <2>8, <2>9, <2>10, <2>11,
       <2>12, <2>13, <2>14, <2>15, <2>16, <2>17, <2>18, <2>19, <2>20 DEF
       Next
<1>3. QED
  BY <1>1, <1>2, PTL DEF Spec

\* The view of every exporter stays sound (Claim in election.rs).
THEOREM ViewCorrect == Spec => []ViewInv
<1>1. Init => ViewInv
  BY DEF Init, ViewInv, Claimed, Serves
<1>2. TypeOK /\ ViewInv /\ [Next]_vars => ViewInv'
  <2> SUFFICES ASSUME TypeOK, ViewInv, [Next]_vars PROVE ViewInv'
    OBVIOUS
  <2>1. ASSUME NEW x \in Exporter, Mint(x) PROVE ViewInv'
    BY <2>1 DEF Mint, TypeOK, ViewInv, Claimed, Serves, Running, netVars,
       Become
  <2>2. ASSUME NEW x \in Exporter, Subscribe(x) PROVE ViewInv'
    BY <2>2 DEF Subscribe, TypeOK, ViewInv, Claimed, Serves, Running,
       netVars, Become
  <2>3. ASSUME NEW x \in Exporter, Declare(x) PROVE ViewInv'
    BY <2>3 DEF Declare, TypeOK, ViewInv, Claimed, Serves, Running, netVars,
       Become
  <2>4. ASSUME NEW x \in Exporter, Arrive(x) PROVE ViewInv'
    BY <2>4 DEF Arrive, TypeOK, ViewInv, Claimed, Serves, Running, netVars,
       apply
  <2>5. ASSUME NEW x \in Exporter, GoBlind(x) PROVE ViewInv'
    BY <2>5 DEF GoBlind, TypeOK, ViewInv, Claimed, Serves, Running, netVars
  <2>6. ASSUME NEW x \in Exporter, Elect(x) PROVE ViewInv'
    BY <2>6 DEF Elect, TypeOK, ViewInv, Claimed, Serves, Running, netVars,
       Become, is_active
  <2>7. ASSUME NEW x \in Exporter, Wake(x) PROVE ViewInv'
    BY <2>7 DEF Wake, TypeOK, ViewInv, Claimed, Serves, Running, netVars,
       Become, is_active
  <2>8. ASSUME NEW x \in Exporter, WakeBlind(x) PROVE ViewInv'
    BY <2>8 DEF WakeBlind, TypeOK, ViewInv, Claimed, Serves, Running,
       netVars, Become
  <2>9. ASSUME NEW x \in Exporter, Replayed(x) PROVE ViewInv'
    BY <2>9 DEF Replayed, TypeOK, ViewInv, Claimed, Serves, Running,
       netVars, Become
  <2>10. ASSUME NEW x \in Exporter, Changed(x) PROVE ViewInv'
    BY <2>10 DEF Changed, TypeOK, ViewInv, Claimed, Serves, Running,
       netVars, Become, is_active
  <2>11. ASSUME NEW x \in Exporter, Drained(x) PROVE ViewInv'
    BY <2>11 DEF Drained, TypeOK, ViewInv, Claimed, Serves, Running,
       netVars, Become
  <2>12. ASSUME NEW x \in Exporter, Shutdown(x) PROVE ViewInv'
    BY <2>12 DEF Shutdown, TypeOK, ViewInv, Claimed, Serves, Running,
       netVars
  <2>13. ASSUME NEW x \in Exporter, StandbyStop(x) PROVE ViewInv'
    BY <2>13 DEF StandbyStop, TypeOK, ViewInv, Claimed, Serves, Running,
       netVars, Become, Leave
  <2>14. ASSUME NEW x \in Exporter, ServeStop(x) PROVE ViewInv'
    BY <2>14 DEF ServeStop, TypeOK, ViewInv, Claimed, Serves, Running,
       netVars, Become
  <2>15. ASSUME NEW x \in Exporter, Closed(x) PROVE ViewInv'
    BY <2>15 DEF Closed, TypeOK, ViewInv, Claimed, Serves, Running, netVars,
       Become, Leave
  <2>16. ASSUME NEW x \in Exporter, Fail(x) PROVE ViewInv'
    BY <2>16 DEF Fail, TypeOK, ViewInv, Claimed, Serves, Running, netVars,
       Become, Leave
  <2>17. ASSUME NEW x \in Exporter, Crash(x) PROVE ViewInv'
    BY <2>17 DEF Crash, TypeOK, ViewInv, Claimed, Serves, Running, netVars,
       Become, Leave
  <2>18. ASSUME NEW x \in Exporter, NEW y \in Exporter, Cut(x, y) PROVE ViewInv'
    BY <2>18 DEF Cut, TypeOK, ViewInv, Claimed, Serves, Running, netVars
  <2>19. ASSUME NEW x \in Exporter, NEW y \in Exporter, Heal(x, y) PROVE ViewInv'
    BY <2>19 DEF Heal, TypeOK, ViewInv, Claimed, Serves, Running, netVars
  <2>20. ASSUME UNCHANGED vars PROVE ViewInv'
    BY <2>20 DEF TypeOK, ViewInv, Claimed, Serves, Running, vars, netVars
  <2> QED
    BY <2>1, <2>2, <2>3, <2>4, <2>5, <2>6, <2>7, <2>8, <2>9, <2>10, <2>11,
       <2>12, <2>13, <2>14, <2>15, <2>16, <2>17, <2>18, <2>19, <2>20 DEF
       Next
<1>3. QED
  BY <1>1, <1>2, ElectionTypeCorrect, PTL DEF Spec

\* Two exporters that have looked at all they can see both serve only across a
\* partition, for any number of exporters (election.rs, run_export_loop).
THEOREM ElectionAgrees == Spec => []AgreedActive
<1>1. TypeOK /\ ViewInv => AgreedActive
  <2> SUFFICES ASSUME TypeOK, ViewInv, NEW x \in Exporter, NEW y \in Exporter,
                      x # y, Serves(x), Serves(y), Settled(x), Settled(y),
                      {x, y} \notin cut
               PROVE  FALSE
    BY DEF AgreedActive
  <2>1. /\ x \in held /\ claims[x] = told[x] /\ elect(claims[x], x)
        /\ y \in held /\ claims[y] = told[y] /\ elect(claims[y], y)
    BY DEF ViewInv, Claimed, Serves, Settled
  <2>2. y \in Visible(x) /\ x \in Visible(y)
    <3>1. {y, x} = {x, y}
      OBVIOUS
    <3>2. QED
      BY <2>1, <3>1 DEF Visible
  <2>3. y \in claims[x] /\ x \in claims[y]
    BY <2>1, <2>2 DEF Settled
  <2>4. x <= y /\ y <= x
    BY <2>1, <2>3 DEF elect
  <2>5. QED
    BY <2>4, ElectionAssumption
<1>2. QED
  BY <1>1, ElectionTypeCorrect, ViewCorrect, PTL
=============================================================================
