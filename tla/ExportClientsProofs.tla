------------------------ MODULE ExportClientsProofs ------------------------
(***************************************************************************)
(* TLAPS proofs about ExportClients, for any set of clients and any number *)
(* of tasks, token flaps and terms as the active exporter.                 *)
(***************************************************************************)
EXTENDS ExportClients, SequenceTheorems, TLAPS

\* cancellation_senders holds running tasks under their own client, only while
\* the exporter is active; what a drain waits for is no longer in it.
TableInv ==
  /\ \A c \in Client :
       map[c] # 0 => who[map[c]] = c /\ task[map[c]] = "running"
  /\ mode \notin {"replay", "main"} => \A c \in Client : map[c] = 0
  /\ mode \notin {"draining", "closing"} => drain = {}
  /\ NoOrphan

LastEvent(c, e) == events[c] # <<>> /\ events[c][Len(events[c])] = e

\* What the subscriber has queued, what the query still owes and what the table
\* holds add up to the token as it is now.
EventInv ==
  /\ mode # "replay" => replies = {}
  /\ Subscribed => \A c \in Client :
       /\ token[c] \in {"lost", "gone"} =>
            \/ LastEvent(c, "del")
            \/ events[c] = <<>> /\ map[c] = 0 /\ c \notin replies
       /\ token[c] = "alive" =>
            \/ LastEvent(c, "put")
            \/ /\ events[c] = <<>>
               /\ mode = "subscribed" \/ stop \/ c \in replies \cup noticed

\* The liveliness subscriber queues a change behind the earlier ones.
LEMMA EmitLast ==
  ASSUME TypeOK, NEW c \in Client, NEW e \in {"put", "del"}, Emit(c, e)
  PROVE  /\ events' \in [Client -> Seq({"put", "del"})]
         /\ Subscribed => events'[c] # <<>> /\ events'[c][Len(events'[c])] = e
         /\ \A k \in Client \ {c} : events'[k] = events[k]
<1>1. CASE Subscribed
  <2>1. events[c] \in Seq({"put", "del"})
    BY DEF TypeOK
  <2>2. /\ Append(events[c], e) \in Seq({"put", "del"})
        /\ Len(Append(events[c], e)) = Len(events[c]) + 1
        /\ Append(events[c], e)[Len(events[c]) + 1] = e
        /\ Append(events[c], e) # <<>>
    BY <2>1
  <2> QED
    BY <1>1, <2>2 DEF Emit, TypeOK
<1>2. CASE ~Subscribed
  BY <1>2 DEF Emit, TypeOK
<1> QED
  BY <1>1, <1>2

\* The tail of a longer sequence ends as the sequence does.
LEMMA TailLast ==
  ASSUME NEW S, NEW s \in Seq(S), s # <<>>, Len(s) # 1
  PROVE  Tail(s) # <<>> /\ Tail(s)[Len(Tail(s))] = s[Len(s)]
<1>1. Len(s) \in Nat /\ Len(s) > 1
  <2>1. Len(s) \in Nat
    OBVIOUS
  <2>2. Len(s) # 0
    BY EmptySeq
  <2>3. \A n \in Nat : n # 0 /\ n # 1 => n > 1
    OBVIOUS
  <2> QED
    BY <2>1, <2>2, <2>3, Zenon
<1>2. Tail(s) \in Seq(S) /\ Len(Tail(s)) = Len(s) - 1
  BY <1>1
<1>3. Tail(s)[Len(s) - 1] = s[Len(s)]
  BY <1>1
<1>4. Tail(s) # <<>>
  BY <1>1, <1>2
<1> QED
  BY <1>2, <1>3, <1>4

\* Taking an event leaves the later ones.
LEMMA TakeLast ==
  ASSUME TypeOK, NEW c \in Client, NEW e \in {"put", "del"}, Next_event(c, e)
  PROVE  /\ \/ events'[c] = <<>> /\ LastEvent(c, e)
            \/ /\ events'[c] # <<>> /\ events[c] # <<>>
               /\ events'[c][Len(events'[c])] = events[c][Len(events[c])]
         /\ \A k \in Client \ {c} : events'[k] = events[k]
<1>1. events[c] \in Seq({"put", "del"}) /\ events[c] # <<>>
  BY DEF TypeOK, Next_event
<1>2. events'[c] = Tail(events[c]) /\ Head(events[c]) = e
  BY DEF TypeOK, Next_event
<1>3. \A k \in Client \ {c} : events'[k] = events[k]
  BY DEF TypeOK, Next_event
<1>4. CASE Len(events[c]) = 1
  BY <1>1, <1>2, <1>3, <1>4 DEF LastEvent
<1>5. CASE Len(events[c]) # 1
  BY <1>1, <1>2, <1>3, <1>5, TailLast
<1> QED
  BY <1>4, <1>5

\* Dispatching spawns a task, or none, and keeps the table's type.
LEMMA DispatchType ==
  ASSUME TypeOK, NEW c \in Client, dispatch(c)
  PROVE  /\ map' \in [Client -> Task \cup {0}]
         /\ who' \in [Task -> Client \cup {0}]
         /\ task' \in [Task -> {"free", "running", "ended", "aborted"}]
         /\ signal' = signal
         /\ noticed' = noticed \cup {c}
         /\ \A k \in Client \ {c} : map'[k] = map[k]
<1>1. CASE UNCHANGED taskVars
  BY <1>1 DEF dispatch, taskVars, TypeOK
<1>2. CASE map[c] = 0 /\ ~UNCHANGED taskVars
  <2>1. PICK t \in Free : /\ map' = [map EXCEPT ![c] = t]
                          /\ who' = [who EXCEPT ![t] = c]
                          /\ task' = [task EXCEPT ![t] = "running"]
                          /\ signal' = signal
    BY <1>2 DEF dispatch
  <2>2. t \in Task
    BY DEF Free
  <2>3. map' \in [Client -> Task \cup {0}]
    BY <2>1, <2>2 DEF TypeOK
  <2>4. who' \in [Task -> Client \cup {0}]
    BY <2>1, <2>2 DEF TypeOK
  <2>5. task' \in [Task -> {"free", "running", "ended", "aborted"}]
    BY <2>1, <2>2 DEF TypeOK
  <2>6. \A k \in Client \ {c} : map'[k] = map[k]
    BY <2>1 DEF TypeOK
  <2> QED
    BY <2>1, <2>3, <2>4, <2>5, <2>6 DEF dispatch
<1> QED
  BY <1>1, <1>2 DEF dispatch

\* Every variable of the client table keeps its type.
THEOREM ExportTypeCorrect == Spec => []TypeOK
<1>1. Init => TypeOK
  <2> SUFFICES ASSUME Init PROVE TypeOK
    OBVIOUS
  <2>1. events \in [Client -> Seq({"put", "del"})]
    <3>1. <<>> \in Seq({"put", "del"})
      OBVIOUS
    <3> QED
      BY <3>1 DEF Init
  <2>2. /\ map \in [Client -> Task \cup {0}]
        /\ who \in [Task -> Client \cup {0}]
        /\ task \in [Task -> {"free", "running", "ended", "aborted"}]
        /\ signal \in [Task -> BOOLEAN]
        /\ token \in [Client -> {"none", "alive", "lost", "gone"}]
    BY DEF Init
  <2> QED
    BY <2>1, <2>2 DEF Init, TypeOK, Mode
<1>2. TypeOK /\ [Next]_vars => TypeOK'
  <2> SUFFICES ASSUME TypeOK, [Next]_vars PROVE TypeOK'
    OBVIOUS
  <2>1. ASSUME NEW c \in Client, Appear(c) PROVE TypeOK'
    BY <2>1, EmitLast DEF Appear, Show, TypeOK, Mode, tokVars, taskVars
  <2>2. ASSUME NEW c \in Client, Vanish(c) PROVE TypeOK'
    <3>1. events' \in [Client -> Seq({"put", "del"})]
      BY <2>2, EmitLast DEF Vanish, TypeOK
    <3> QED
      BY <2>2, <3>1 DEF Vanish, Show, TypeOK, Mode, tokVars, taskVars
  <2>3. ASSUME NEW c \in Client, Hide(c) PROVE TypeOK'
    BY <2>3, EmitLast DEF Hide, Show, TypeOK, Mode, tokVars, taskVars
  <2>4. ASSUME NEW c \in Client, Return(c) PROVE TypeOK'
    BY <2>4, EmitLast DEF Return, Show, TypeOK, Mode, tokVars, taskVars
  <2>5. ASSUME NEW c \in Client, Reply(c) PROVE TypeOK'
    BY <2>5, DispatchType DEF Reply, TypeOK, Mode, tokVars
  <2>6. ASSUME NEW c \in Client, LivePut(c) PROVE TypeOK'
    <3>1. events' \in [Client -> Seq({"put", "del"})]
      BY <2>6 DEF LivePut, Next_event, TypeOK
    <3> QED
      BY <2>6, <3>1, DispatchType DEF LivePut, Next_event, TypeOK, Mode, tokVars
  <2>7. ASSUME NEW c \in Client, LiveDel(c) PROVE TypeOK'
    BY <2>7 DEF LiveDel, Next_event, disconnect, TypeOK, Mode, tokVars,
       taskVars
  <2>8. ASSUME NEW t \in Task, TaskEnd(t) PROVE TypeOK'
    BY <2>8 DEF TaskEnd, TypeOK, Mode, tokVars, taskVars
  <2>9. ASSUME NEW t \in Task, DrainDeadline(t) PROVE TypeOK'
    BY <2>9 DEF DrainDeadline, TypeOK, Mode, tokVars, taskVars
  <2>10. ASSUME Activate PROVE TypeOK'
    BY <2>10 DEF Activate, TypeOK, Mode, tokVars, taskVars
  <2>11. ASSUME Query PROVE TypeOK'
    BY <2>11 DEF Query, TypeOK, Mode, tokVars, taskVars
  <2>12. ASSUME ServeFail PROVE TypeOK'
    BY <2>12 DEF ServeFail, TypeOK, Mode, tokVars, taskVars
  <2>13. ASSUME ReplayEnd PROVE TypeOK'
    BY <2>13 DEF ReplayEnd, TypeOK, Mode, tokVars, taskVars
  <2>14. ASSUME Demoted PROVE TypeOK'
    BY <2>14 DEF Demoted, Retire, drain_all_clients, TypeOK, Mode, tokVars,
       taskVars
  <2>15. ASSUME ServeShutdown PROVE TypeOK'
    BY <2>15 DEF ServeShutdown, Retire, drain_all_clients, TypeOK, Mode,
       tokVars, taskVars
  <2>16. ASSUME StandbyShutdown PROVE TypeOK'
    BY <2>16 DEF StandbyShutdown, TypeOK, Mode, tokVars, taskVars
  <2>17. ASSUME ShutdownRequest PROVE TypeOK'
    BY <2>17 DEF ShutdownRequest, TypeOK, Mode, tokVars, taskVars
  <2>18. ASSUME Drained PROVE TypeOK'
    BY <2>18 DEF Drained, TypeOK, Mode, tokVars, taskVars
  <2>19. CASE UNCHANGED vars
    BY <2>19 DEF vars, tokVars, taskVars, TypeOK, Mode, tokVars, taskVars
  <2> QED
    BY <2>1, <2>2, <2>3, <2>4, <2>5, <2>6, <2>7, <2>8, <2>9, <2>10, <2>11,
       <2>12, <2>13, <2>14, <2>15, <2>16, <2>17, <2>18, <2>19 DEF Next
<1> QED
  BY <1>1, <1>2, PTL DEF Spec

\* Dispatching a client keeps the table consistent.
LEMMA DispatchTable ==
  ASSUME TypeOK, TableInv, NEW c \in Client, dispatch(c),
         mode \in {"replay", "main"}, UNCHANGED <<mode, drain>>
  PROVE  TableInv'
<1>1. CASE map[c] # 0
  BY <1>1 DEF dispatch, TableInv, NoOrphan, taskVars
<1>2. CASE map[c] = 0
  <2>1. PICK t \in Free : /\ map' = [map EXCEPT ![c] = t]
                          /\ who' = [who EXCEPT ![t] = c]
                          /\ task' = [task EXCEPT ![t] = "running"]
                          /\ signal' = signal
    BY <1>2 DEF dispatch
  <2>2. t \in Task /\ t # 0 /\ task[t] = "free"
    BY DEF Free, Task
  <2>3. ASSUME NEW k \in Client, map'[k] # 0
        PROVE  who'[map'[k]] = k /\ task'[map'[k]] = "running"
    BY <2>1, <2>2, <2>3 DEF TypeOK, TableInv
  <2>4. NoOrphan'
    BY <1>2, <2>1, <2>2 DEF TypeOK, TableInv, NoOrphan, Task
  <2> QED
    BY <2>3, <2>4 DEF TableInv
<1> QED
  BY <1>1, <1>2

\* Draining empties the table into the set the exporter waits for.
LEMMA DrainTable ==
  ASSUME TypeOK, TableInv, drain_all_clients, mode' \in {"draining", "closing"}
  PROVE  TableInv'
<1>1. \A c \in Client : map'[c] = 0
  BY DEF drain_all_clients
<1>2. NoOrphan'
  <2> SUFFICES ASSUME NEW t \in Task, task[t] = "running" PROVE signal'[t]
    BY DEF NoOrphan, drain_all_clients
  <2>1. signal'[t] = (signal[t] \/ t \in drain')
    BY DEF drain_all_clients
  <2>2. signal[t] \/ (who[t] \in Client /\ map[who[t]] = t)
    BY DEF TableInv, NoOrphan
  <2>3. CASE who[t] \in Client /\ map[who[t]] = t
    <3>1. t # 0
      BY DEF Task
    <3>2. t \in {map[c] : c \in Client}
      BY <2>3
    <3> QED
      BY <2>1, <3>1, <3>2 DEF drain_all_clients
  <2> QED
    BY <2>1, <2>2, <2>3
<1> QED
  BY <1>1, <1>2 DEF TableInv

\* The client table is consistent at all times, whatever order events, replies
\* and ends of tasks come in (dispatch_client_connect, remove_if_current,
\* handle_client_disconnect, drain_all_clients).
THEOREM TableCorrect == Spec => []TableInv
<1>1. Init => TableInv
  BY DEF Init, TableInv, NoOrphan
<1>2. TypeOK /\ TableInv /\ [Next]_vars => TableInv'
  <2> SUFFICES ASSUME TypeOK, TableInv, [Next]_vars PROVE TableInv'
    OBVIOUS
  <2>1. ASSUME NEW c \in Client, Appear(c) PROVE TableInv'
    BY <2>1 DEF Appear, Show, Emit, Subscribed, TypeOK, TableInv, NoOrphan,
       tokVars, taskVars, Task
  <2>2. ASSUME NEW c \in Client, Vanish(c) PROVE TableInv'
    BY <2>2 DEF Vanish, Show, Emit, Subscribed, TypeOK, TableInv, NoOrphan,
       tokVars, taskVars, Task
  <2>3. ASSUME NEW c \in Client, Hide(c) PROVE TableInv'
    BY <2>3 DEF Hide, Show, Emit, Subscribed, TypeOK, TableInv, NoOrphan,
       tokVars, taskVars, Task
  <2>4. ASSUME NEW c \in Client, Return(c) PROVE TableInv'
    BY <2>4 DEF Return, Show, Emit, Subscribed, TypeOK, TableInv, NoOrphan,
       tokVars, taskVars, Task
  <2>5. ASSUME NEW c \in Client, Reply(c) PROVE TableInv'
    BY <2>5, DispatchTable DEF Reply
  <2>6. ASSUME NEW c \in Client, LivePut(c) PROVE TableInv'
    BY <2>6, DispatchTable DEF LivePut, Next_event
  <2>7. ASSUME NEW c \in Client, LiveDel(c) PROVE TableInv'
    <3>1. \A t \in Task : signal'[t] = (signal[t] \/ t = map[c])
      BY <2>7 DEF LiveDel, disconnect
    <3>2. \A k \in Client : map'[k] = IF k = c THEN 0 ELSE map[k]
      BY <2>7 DEF LiveDel, disconnect, TypeOK
    <3>3. UNCHANGED <<who, task, mode, drain>>
      BY <2>7 DEF LiveDel, disconnect, Next_event
    <3>4. NoOrphan'
      <4> SUFFICES ASSUME NEW t \in Task, task[t] = "running"
                   PROVE  signal'[t] \/ (who[t] \in Client /\ map'[who[t]] = t)
        BY <3>3 DEF NoOrphan
      <4>1. signal[t] \/ (who[t] \in Client /\ map[who[t]] = t)
        BY DEF TableInv, NoOrphan
      <4> QED
        BY <3>1, <3>2, <4>1
    <3> QED
      BY <3>2, <3>3, <3>4 DEF TableInv
  <2>8. ASSUME NEW t \in Task, TaskEnd(t) PROVE TableInv'
    BY <2>8 DEF TaskEnd, TypeOK, TableInv, NoOrphan, tokVars, taskVars, Task
  <2>9. ASSUME NEW t \in Task, DrainDeadline(t) PROVE TableInv'
    BY <2>9 DEF DrainDeadline, TypeOK, TableInv, NoOrphan, tokVars, taskVars,
       Task
  <2>10. ASSUME Activate PROVE TableInv'
    BY <2>10 DEF Activate, TypeOK, TableInv, NoOrphan, tokVars, taskVars,
       Task
  <2>11. ASSUME Query PROVE TableInv'
    BY <2>11 DEF Query, TypeOK, TableInv, NoOrphan, tokVars, taskVars, Task
  <2>12. ASSUME ServeFail PROVE TableInv'
    BY <2>12 DEF ServeFail, TypeOK, TableInv, NoOrphan, tokVars, taskVars,
       Task
  <2>13. ASSUME ReplayEnd PROVE TableInv'
    BY <2>13 DEF ReplayEnd, TypeOK, TableInv, NoOrphan, tokVars, taskVars,
       Task
  <2>14. ASSUME Demoted PROVE TableInv'
    BY <2>14, DrainTable DEF Demoted, Retire
  <2>15. ASSUME ServeShutdown PROVE TableInv'
    BY <2>15, DrainTable DEF ServeShutdown, Retire
  <2>16. ASSUME StandbyShutdown PROVE TableInv'
    BY <2>16 DEF StandbyShutdown, TypeOK, TableInv, NoOrphan, tokVars,
       taskVars, Task
  <2>17. ASSUME ShutdownRequest PROVE TableInv'
    BY <2>17 DEF ShutdownRequest, TypeOK, TableInv, NoOrphan, tokVars,
       taskVars, Task
  <2>18. ASSUME Drained PROVE TableInv'
    BY <2>18 DEF Drained, TypeOK, TableInv, NoOrphan, tokVars, taskVars, Task
  <2>19. CASE UNCHANGED vars
    BY <2>19 DEF vars, tokVars, taskVars, TypeOK, TableInv, NoOrphan, tokVars, taskVars, Task
  <2> QED
    BY <2>1, <2>2, <2>3, <2>4, <2>5, <2>6, <2>7, <2>8, <2>9, <2>10, <2>11,
       <2>12, <2>13, <2>14, <2>15, <2>16, <2>17, <2>18, <2>19 DEF Next
<1> QED
  BY <1>1, <1>2, ExportTypeCorrect, PTL DEF Spec

\* For every number of clients and tasks, a running task is tracked or has been
\* told to stop (property NoOrphan).
THEOREM NoTaskOrphaned == Spec => []NoOrphan
<1>1. TableInv => NoOrphan
  BY DEF TableInv
<1> QED
  BY <1>1, TableCorrect, PTL

\* A standby or stopped exporter serves nobody (property IdleServesNobody).
THEOREM IdleIsIdle == Spec => []IdleServesNobody
<1>1. TableInv => IdleServesNobody
  BY DEF TableInv, NoOrphan, IdleServesNobody, Task
<1> QED
  BY <1>1, TableCorrect, PTL

\* Events, replies and the table account for every token (EventInv).
THEOREM EventsCorrect == Spec => []EventInv
<1>1. Init => EventInv
  BY DEF Init, EventInv, Subscribed
<1>2. TypeOK /\ TableInv /\ EventInv /\ [Next]_vars => EventInv'
  <2> SUFFICES ASSUME TypeOK, TableInv, EventInv, [Next]_vars PROVE EventInv'
    OBVIOUS
  <2>1. ASSUME NEW c \in Client, Appear(c) PROVE EventInv'
    BY <2>1, EmitLast DEF Appear, Show, TypeOK, EventInv, LastEvent, Subscribed,
       taskVars
  <2>2. ASSUME NEW c \in Client, Vanish(c) PROVE EventInv'
    BY <2>2 DEF Vanish, Show, Emit, Subscribed, TypeOK, TableInv, EventInv,
       LastEvent, Subscribed, tokVars, taskVars
  <2>3. ASSUME NEW c \in Client, Hide(c) PROVE EventInv'
    BY <2>3, EmitLast DEF Hide, Show, TypeOK, EventInv, LastEvent, Subscribed,
       taskVars
  <2>4. ASSUME NEW c \in Client, Return(c) PROVE EventInv'
    BY <2>4, EmitLast DEF Return, Show, TypeOK, EventInv, LastEvent, Subscribed,
       taskVars
  <2>5. ASSUME NEW c \in Client, Reply(c) PROVE EventInv'
    BY <2>5 DEF Reply, dispatch, Free, TypeOK, TableInv, EventInv, LastEvent,
       Subscribed, tokVars, taskVars
  <2>6. ASSUME NEW c \in Client, LivePut(c) PROVE EventInv'
    <3>1. /\ noticed' = noticed \cup {c}
          /\ \A k \in Client \ {c} : map'[k] = map[k]
      BY <2>6, DispatchType DEF LivePut
    <3>2. UNCHANGED <<mode, stop, token, replies>>
      BY <2>6 DEF LivePut, Next_event, tokVars
    <3>3. mode = "main" /\ replies = {}
      BY <2>6 DEF LivePut, Next_event, EventInv
    <3> QED
      BY <2>6, <3>1, <3>2, <3>3, TakeLast
         DEF LivePut, TypeOK, EventInv, LastEvent, Subscribed
  <2>7. ASSUME NEW c \in Client, LiveDel(c) PROVE EventInv'
    <3>1. \A k \in Client : map'[k] = IF k = c THEN 0 ELSE map[k]
      BY <2>7 DEF LiveDel, disconnect, TypeOK
    <3>2. UNCHANGED <<mode, stop, token, replies>> /\ noticed' = noticed \ {c}
      BY <2>7 DEF LiveDel, disconnect, Next_event, tokVars
    <3>3. mode = "main" /\ replies = {}
      BY <2>7 DEF LiveDel, Next_event, EventInv
    <3> QED
      BY <2>7, <3>1, <3>2, <3>3, TakeLast
         DEF LiveDel, TypeOK, EventInv, LastEvent, Subscribed
  <2>8. ASSUME NEW t \in Task, TaskEnd(t) PROVE EventInv'
    BY <2>8 DEF TaskEnd, TypeOK, TableInv, EventInv, LastEvent, Subscribed,
       tokVars, taskVars
  <2>9. ASSUME NEW t \in Task, DrainDeadline(t) PROVE EventInv'
    BY <2>9 DEF DrainDeadline, TypeOK, TableInv, EventInv, LastEvent,
       Subscribed, tokVars, taskVars
  <2>10. ASSUME Activate PROVE EventInv'
    BY <2>10 DEF Activate, TypeOK, TableInv, EventInv, LastEvent, Subscribed,
       tokVars, taskVars
  <2>11. ASSUME Query PROVE EventInv'
    BY <2>11 DEF Query, TypeOK, TableInv, EventInv, LastEvent, Subscribed,
       tokVars, taskVars
  <2>12. ASSUME ServeFail PROVE EventInv'
    BY <2>12 DEF ServeFail, TypeOK, TableInv, EventInv, LastEvent,
       Subscribed, tokVars, taskVars
  <2>13. ASSUME ReplayEnd PROVE EventInv'
    BY <2>13 DEF ReplayEnd, TypeOK, TableInv, EventInv, LastEvent,
       Subscribed, tokVars, taskVars
  <2>14. ASSUME Demoted PROVE EventInv'
    BY <2>14 DEF Demoted, Retire, drain_all_clients, TypeOK, TableInv,
       EventInv, LastEvent, Subscribed, tokVars, taskVars
  <2>15. ASSUME ServeShutdown PROVE EventInv'
    BY <2>15 DEF ServeShutdown, Retire, drain_all_clients, TypeOK, TableInv,
       EventInv, LastEvent, Subscribed, tokVars, taskVars
  <2>16. ASSUME StandbyShutdown PROVE EventInv'
    BY <2>16 DEF StandbyShutdown, TypeOK, TableInv, EventInv, LastEvent,
       Subscribed, tokVars, taskVars
  <2>17. ASSUME ShutdownRequest PROVE EventInv'
    BY <2>17 DEF ShutdownRequest, TypeOK, TableInv, EventInv, LastEvent,
       Subscribed, tokVars, taskVars
  <2>18. ASSUME Drained PROVE EventInv'
    BY <2>18 DEF Drained, TypeOK, TableInv, EventInv, LastEvent, Subscribed,
       tokVars, taskVars
  <2>19. CASE UNCHANGED vars
    BY <2>19 DEF vars, tokVars, taskVars, TypeOK, TableInv, EventInv, LastEvent, Subscribed, tokVars, taskVars
  <2> QED
    BY <2>1, <2>2, <2>3, <2>4, <2>5, <2>6, <2>7, <2>8, <2>9, <2>10, <2>11,
       <2>12, <2>13, <2>14, <2>15, <2>16, <2>17, <2>18, <2>19 DEF Next
<1> QED
  BY <1>1, <1>2, ExportTypeCorrect, TableCorrect, PTL DEF Spec

\* No live client falls between the subscriber and the query (property
\* NoMissedClient).
THEOREM NoClientMissed == Spec => []NoMissedClient
<1>1. EventInv => NoMissedClient
  BY DEF EventInv, LastEvent, Subscribed, NoMissedClient
<1> QED
  BY <1>1, EventsCorrect, PTL

\* A client whose token is gone is let go of (property GoneIsTornDown).
THEOREM GoneTornDown == Spec => []GoneIsTornDown
<1>1. TypeOK /\ TableInv /\ EventInv => GoneIsTornDown
  BY DEF TypeOK, TableInv, NoOrphan, EventInv, LastEvent, Subscribed,
         GoneIsTornDown, Task
<1> QED
  BY <1>1, ExportTypeCorrect, TableCorrect, EventsCorrect, PTL
=============================================================================
