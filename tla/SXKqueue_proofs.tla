--------------------------- MODULE SXKqueue_proofs ---------------------------
(***************************************************************************)
(* Theorems about SXKqueue, for every set of connections and any bounds.   *)
(***************************************************************************)
EXTENDS SXKqueue, FiniteSetTheorems, TLAPS

\* The case split of the proofs below: the program, the peers, the loop between two
\* events, and the loop in the event of a connection.
Between == Start \/ While \/ Kevent \/ BatchDone \/ Accept
InEvent == \/ Copy \/ Switch \/ Recv \/ HandlerReturns \/ Resume \/ Test
           \/ SuspendedRecv \/ SuspendedHandlerReturns

LEMMA NextCases ==
    ASSUME Next
    PROVE  \/ SXServerStart_kqueue \/ StatusStore \/ Terminate \/ OwnerRelease
           \/ \E o \in Managed : SXSuspendObject(o) \/ SXResumeObject(o)
           \/ \E c \in Conns : Connect(c) \/ Send(c) \/ Hangup(c)
           \/ Between
           \/ \E c \in Conns : Event(c)
           \/ InEvent
           \/ Exit
  BY DEF Next, Program, Peers, LoopStep, Between, InEvent

USE DEF Step, LoopMoves, netVars, Take, AtEof, Broken
USE DEF Status, Idle, Running, Resuming, Suspend, ShouldTerminate

-----------------------------------------------------------------------------
(* Types.  That count stays a natural number rests on GuestInv below.      *)

LoopOK == /\ stat \in [Objects -> Status]
          /\ owned \in BOOLEAN /\ freed \in BOOLEAN
          /\ pc \in LoopPc
          /\ batch \subseteq Objects
          /\ cur \in Objects
NetOK == /\ conn \in [Conns -> {"new", "backlog", "open", "closed", "lost"}]
         /\ inbox \in [Conns -> 0..MaxUnread]
         /\ peer \in [Conns -> {"open", "fin", "rst"}]
AppOK == app \in {<<>>} \cup (Objects \X {Suspend, Resuming})
LateOK == late \in [Conns -> Nat]

ControlOK == LoopOK /\ NetOK /\ AppOK /\ LateOK

LEMMA ControlInit == Init => ControlOK
<1> SUFFICES ASSUME Init PROVE ControlOK
  OBVIOUS
<1>1. LoopOK
  BY DEF Init, LoopOK, Objects, LoopPc
<1>2. NetOK
  BY SXKqueueAssumption DEF Init, NetOK
<1>3. AppOK /\ LateOK
  BY DEF Init, AppOK, LateOK
<1>4. QED
  BY <1>1, <1>2, <1>3 DEF ControlOK

\* What the program hands to StatusStore.
LEMMA AppNext == AppOK /\ [Next]_vars => AppOK'
<1> SUFFICES ASSUME AppOK, [Next]_vars PROVE AppOK'
  OBVIOUS
<1>1. CASE UNCHANGED app
  BY <1>1 DEF AppOK
<1>2. CASE StatusStore
  BY <1>2 DEF StatusStore, AppOK
<1>3. ASSUME NEW o \in Managed, SXSuspendObject(o) \/ SXResumeObject(o) PROVE AppOK'
  BY <1>3, SXKqueueAssumption DEF SXSuspendObject, SXResumeObject, AppOK
<1>4. CASE SXServerStart_kqueue \/ Terminate \/ OwnerRelease \/ Peers
  BY <1>1, <1>4 DEF SXServerStart_kqueue, Terminate, OwnerRelease, Peers, Connect, Send, Hangup
<1>5. CASE Start \/ While \/ Kevent \/ BatchDone \/ Accept \/ \E c \in Conns : Event(c)
  BY <1>1, <1>5 DEF Start, While, Kevent, BatchDone, Accept, Event
<1>6. CASE InEvent \/ Exit
  BY <1>1, <1>6 DEF InEvent, Exit, Copy, Switch, Recv, HandlerReturns, Resume, Test,
                    SuspendedRecv, SuspendedHandlerReturns
<1>7. CASE UNCHANGED vars
  BY <1>1, <1>7 DEF vars
<1>8. QED
  BY <1>2, <1>3, <1>4, <1>5, <1>6, <1>7, NextCases DEF Between, Peers

\* The two ends of every connection.
LEMMA NetNext == LoopOK /\ NetOK /\ [Next]_vars => NetOK'
<1> SUFFICES ASSUME LoopOK, NetOK, [Next]_vars PROVE NetOK'
  OBVIOUS
<1> USE SXKqueueAssumption DEF NetOK
<1>1. CASE UNCHANGED <<conn, inbox, peer>>
  BY <1>1
<1>2. CASE UNCHANGED vars \/ Program
  BY <1>1, <1>2 DEF vars, Program, SXServerStart_kqueue, Terminate, OwnerRelease,
                    SXSuspendObject, SXResumeObject, StatusStore
<1>3. ASSUME NEW c \in Conns, Connect(c) \/ Send(c) \/ Hangup(c) PROVE NetOK'
  <2>1. CASE Connect(c)
    BY <2>1 DEF Connect
  <2>2. CASE Send(c)
    BY <2>2 DEF Send
  <2>3. CASE Hangup(c)
    <3>1. conn' \in [Conns -> {"new", "backlog", "open", "closed", "lost"}]
      BY <2>3 DEF Hangup
    <3>2. inbox' \in [Conns -> 0..MaxUnread]
      BY <2>3 DEF Hangup
    <3>3. peer' \in [Conns -> {"open", "fin", "rst"}]
      BY <2>3 DEF Hangup
    <3>4. QED
      BY <3>1, <3>2, <3>3
  <2>4. QED
    BY <1>3, <2>1, <2>2, <2>3
<1>4. CASE Start \/ While \/ Kevent \/ BatchDone \/ \E c \in Conns : Event(c)
  BY <1>1, <1>4 DEF Start, While, Kevent, BatchDone, Event
<1>5. CASE Accept
  <2>1. conn' \in [Conns -> {"new", "backlog", "open", "closed", "lost"}] /\ UNCHANGED netVars
    BY <1>5 DEF Accept
  <2>2. QED
    BY <2>1
<1>6. CASE Copy \/ Switch \/ HandlerReturns \/ Resume \/ Test \/ SuspendedHandlerReturns
  BY <1>1, <1>6 DEF Copy, Switch, HandlerReturns, Resume, Test, SuspendedHandlerReturns
<1>7. CASE Recv \/ SuspendedRecv
  <2>1. UNCHANGED <<conn, peer>> /\ (UNCHANGED inbox \/ Take(cur))
    BY <1>7 DEF Recv, SuspendedRecv
  <2>2. QED
    BY <2>1
<1>8. CASE Exit
  BY <1>8 DEF Exit
<1>9. QED
  BY <1>2, <1>3, <1>4, <1>5, <1>6, <1>7, <1>8, NextCases DEF Between, InEvent, Program

\* The calls counted since a suspension.
LEMMA LateNext == LateOK /\ [Next]_vars => LateOK'
<1> SUFFICES ASSUME LateOK, [Next]_vars PROVE LateOK'
  OBVIOUS
<1> USE DEF LateOK
<1>1. CASE UNCHANGED late
  BY <1>1
<1>2. CASE StatusStore
  BY <1>2 DEF StatusStore
<1>3. CASE UNCHANGED vars \/ Peers \/ SXServerStart_kqueue \/ Terminate \/ OwnerRelease
  BY <1>1, <1>3 DEF vars, Peers, Connect, Send, Hangup, SXServerStart_kqueue, Terminate,
                    OwnerRelease
<1>4. ASSUME NEW o \in Managed, SXSuspendObject(o) \/ SXResumeObject(o) PROVE LateOK'
  BY <1>1, <1>4 DEF SXSuspendObject, SXResumeObject
<1>5. CASE Start \/ While \/ Kevent \/ BatchDone \/ Accept \/ \E c \in Conns : Event(c)
  BY <1>1, <1>5 DEF Start, While, Kevent, BatchDone, Accept, Event
<1>6. CASE Copy \/ Switch \/ HandlerReturns \/ Resume \/ Test \/ SuspendedHandlerReturns \/ Exit
  BY <1>1, <1>6 DEF Copy, Switch, HandlerReturns, Resume, Test, SuspendedHandlerReturns, Exit
<1>7. CASE Recv \/ SuspendedRecv
  <2>1. UNCHANGED late \/ Deliver(cur)
    BY <1>7 DEF Recv, SuspendedRecv
  <2>2. QED
    BY <2>1 DEF Deliver
<1>8. QED
  BY <1>2, <1>3, <1>4, <1>5, <1>6, <1>7, NextCases DEF Between, InEvent, Peers

\* The loop's own state and the status words.
LEMMA LoopNext == LoopOK /\ AppOK /\ [Next]_vars => LoopOK'
<1> SUFFICES ASSUME LoopOK, AppOK, [Next]_vars PROVE LoopOK'
  OBVIOUS
<1> USE DEF LoopOK, LoopPc, EventPc
<1> Conns \subseteq Objects /\ Server \in Objects
  BY DEF Objects
<1>1. CASE UNCHANGED <<stat, owned, freed, pc, batch, cur>>
  BY <1>1
<1>2. CASE UNCHANGED vars \/ Peers
  BY <1>1, <1>2 DEF vars, Peers, Connect, Send, Hangup
<1>3. CASE SXServerStart_kqueue \/ Terminate \/ OwnerRelease
  BY <1>3 DEF SXServerStart_kqueue, Terminate, OwnerRelease
<1>4. CASE StatusStore
  <2>1. app[2] \in Status
    BY <1>4 DEF StatusStore, AppOK
  <2>2. QED
    BY <1>4, <2>1 DEF StatusStore
<1>5. ASSUME NEW o \in Managed, SXSuspendObject(o) \/ SXResumeObject(o) PROVE LoopOK'
  BY <1>1, <1>5 DEF SXSuspendObject, SXResumeObject
<1>6. CASE Start \/ While \/ BatchDone
  BY <1>6 DEF Start, While, BatchDone
<1>7. CASE Kevent
  <2>1. Ready \subseteq Objects
    BY DEF Ready, Open
  <2>2. QED
    BY <1>7, <2>1 DEF Kevent
<1>8. CASE Accept
  <2>1. stat' \in [Objects -> Status]
    BY <1>8 DEF Accept
  <2>2. batch' \subseteq Objects /\ UNCHANGED <<owned, freed, pc, cur>>
    BY <1>8 DEF Accept
  <2>3. QED
    BY <2>1, <2>2
<1>9. ASSUME NEW c \in Conns, Event(c) PROVE LoopOK'
  BY <1>9 DEF Event
<1>10. CASE Copy \/ Resume
  BY <1>10 DEF Copy, Resume
<1>11. CASE Switch \/ HandlerReturns \/ Test \/ SuspendedHandlerReturns \/ Exit
  BY <1>11 DEF Switch, Branch, HandlerReturns, Test, SuspendedHandlerReturns, Exit
<1>12. CASE Recv \/ SuspendedRecv
  <2>1. pc' \in EventPc \cup {"batch"} /\ UNCHANGED <<stat, owned, freed, batch, cur>>
    BY <1>12 DEF Recv, SuspendedRecv, SuspendedTarget
  <2>2. QED
    BY <2>1
<1>13. QED
  BY <1>2, <1>3, <1>4, <1>5, <1>6, <1>7, <1>8, <1>9, <1>10, <1>11, <1>12, NextCases
     DEF Between, InEvent, Peers

LEMMA ControlNext == ControlOK /\ [Next]_vars => ControlOK'
  BY AppNext, NetNext, LateNext, LoopNext DEF ControlOK

-----------------------------------------------------------------------------
(* Guests and events.                                                      *)

\* EventsLive says nothing of Server, which is no connection: the loop works on one.
AtConn == pc \in EventPc => cur \in Conns

GuestInv == /\ count \in Nat /\ count = Cardinality(Open) /\ count <= MaxGuest
            /\ AtConn /\ EventsLive

LEMMA OpenFinite == IsFiniteSet(Open) /\ Cardinality(Open) \in Nat
  BY SXKqueueAssumption, FS_Subset, FS_CardinalityType DEF Open

\* A step of the loop within a connection's event opens and closes nothing.
LEMMA Working ==
    ASSUME ControlOK, InEvent
    PROVE  /\ pc \in EventPc /\ pc' \in EventPc \cup {"batch"}
           /\ UNCHANGED <<batch, cur, count, conn>>
<1> USE DEF EventPc
<1>1. CASE Copy \/ Switch \/ Resume
  BY <1>1 DEF Copy, Switch, Branch, Resume
<1>2. CASE HandlerReturns \/ Test \/ SuspendedHandlerReturns
  BY <1>2 DEF HandlerReturns, Test, SuspendedHandlerReturns
<1>3. CASE Recv
  BY <1>3 DEF Recv
<1>4. CASE SuspendedRecv
  BY <1>4 DEF SuspendedRecv, SuspendedTarget
<1>5. QED
  BY <1>1, <1>2, <1>3, <1>4 DEF InEvent

LEMMA GuestInit == Init => GuestInv
<1> SUFFICES ASSUME Init PROVE GuestInv
  OBVIOUS
<1>1. Open = {}
  BY DEF Init, Open
<1>2. QED
  BY <1>1, FS_EmptySet, SXKqueueAssumption DEF Init, GuestInv, AtConn, EventsLive, EventPc

LEMMA GuestNext == ControlOK /\ GuestInv /\ [Next]_vars => GuestInv'
<1> SUFFICES ASSUME ControlOK, GuestInv, [Next]_vars PROVE GuestInv'
  OBVIOUS
<1> USE SXKqueueAssumption DEF GuestInv, AtConn, EventsLive
<1>1. ASSUME UNCHANGED <<pc, batch, cur, count>>, Open' = Open PROVE GuestInv'
  BY <1>1 DEF Open
<1>2. CASE UNCHANGED vars
  BY <1>2, <1>1 DEF vars, Open
<1>3. CASE StatusStore \/ Terminate \/ OwnerRelease
  BY <1>3, <1>1 DEF StatusStore, Terminate, OwnerRelease, Open
<1>4. ASSUME NEW o \in Managed, SXSuspendObject(o) \/ SXResumeObject(o) PROVE GuestInv'
  BY <1>4, <1>1 DEF SXSuspendObject, SXResumeObject, Open
<1>5. ASSUME NEW c \in Conns, Connect(c) \/ Send(c) \/ Hangup(c) PROVE GuestInv'
  <2>1. Open' = Open
    BY <1>5 DEF Connect, Send, Hangup, ControlOK, NetOK, Open
  <2>2. QED
    BY <1>5, <1>1, <2>1 DEF Connect, Send, Hangup
<1>6. CASE SXServerStart_kqueue \/ Start \/ While \/ Kevent \/ BatchDone
  <2>1. Open' = Open /\ UNCHANGED <<count, conn>> /\ pc' \notin EventPc
    BY <1>6 DEF SXServerStart_kqueue, Start, While, Kevent, BatchDone, EventPc, Open
  <2>2. batch' \ {Server} \subseteq Open
    BY <1>6 DEF SXServerStart_kqueue, Start, While, Kevent, BatchDone, Ready
  <2>3. QED
    BY <2>1, <2>2
<1>7. CASE Accept
  <2>1. batch' \subseteq batch /\ pc' = "batch" /\ pc' \notin EventPc
    BY <1>7 DEF Accept, EventPc
  <2>2. CASE UNCHANGED <<count, conn>>
    BY <2>1, <2>2 DEF Open
  <2>3. ASSUME NEW c \in Conns, ~CountFull, conn[c] = "backlog",
               conn' = [conn EXCEPT ![c] = "open"], count' = count + 1
        PROVE  GuestInv'
    <3>1. c \notin Open /\ Open' = Open \cup {c}
      BY <2>3 DEF Open, ControlOK, NetOK
    <3>2. Cardinality(Open') = Cardinality(Open) + 1
      BY <3>1, OpenFinite, FS_AddElement
    <3>3. QED
      BY <2>1, <2>3, <3>1, <3>2 DEF CountFull
  <2>4. ASSUME NEW c \in Conns, conn[c] = "backlog",
               conn' = [conn EXCEPT ![c] = "lost"], UNCHANGED count
        PROVE  GuestInv'
    <3>1. Open' = Open
      BY <2>4 DEF Open, ControlOK, NetOK
    <3>2. QED
      BY <2>1, <2>4, <3>1
  <2>5. QED
    BY <1>7, <2>2, <2>3, <2>4 DEF Accept
\* The event of an open connection, taken out of the batch.
<1>8. ASSUME NEW c \in Conns, Event(c) PROVE GuestInv'
  BY <1>8 DEF Event, Open
<1>9. CASE InEvent
  BY <1>9, Working DEF Open
\* The connection that is closed has no event left in the batch.
<1>10. CASE Exit
  <2>1. cur \in Open /\ cur \notin batch
    BY <1>10 DEF Exit, EventPc, Open
  <2>2. Open' = Open \ {cur}
    BY <1>10, <2>1 DEF Exit, Open, ControlOK, NetOK
  <2>3. Cardinality(Open') = Cardinality(Open) - 1
    BY <2>1, <2>2, OpenFinite, FS_RemoveElement
  <2>4. Cardinality(Open') \in Nat
    BY <2>2, OpenFinite, FS_Subset, FS_CardinalityType
  <2>5. QED
    BY <1>10, <2>1, <2>2, <2>3, <2>4 DEF Exit, EventPc
<1>11. QED
  BY <1>2, <1>3, <1>4, <1>5, <1>6, <1>7, <1>8, <1>9, <1>10, NextCases DEF Between

LEMMA GuestInvariant == Spec => [](ControlOK /\ GuestInv)
<1>1. Init => ControlOK /\ GuestInv
  BY ControlInit, GuestInit
<1>2. ControlOK /\ GuestInv /\ [Next]_vars => (ControlOK /\ GuestInv)'
  BY ControlNext, GuestNext
<1>3. QED
  BY <1>1, <1>2, PTL DEF Spec

\* Every variable of the loop keeps its type.
THEOREM TypeCorrect == Spec => []TypeOK
<1>1. ControlOK /\ GuestInv => TypeOK
  BY DEF ControlOK, LoopOK, NetOK, AppOK, LateOK, GuestInv, TypeOK
<1>2. QED
  BY <1>1, GuestInvariant, PTL

\* For every max_guest and any number of connections the count is the connections that
\* are open, and the event array has room for every ready descriptor
\* (SXServer.c:353, 393, 414, 492).
THEOREM GuestsCountedHolds == Spec => []GuestsCounted
<1>1. ControlOK /\ GuestInv => GuestsCounted
  <2> SUFFICES ASSUME ControlOK, GuestInv PROVE GuestsCounted
    OBVIOUS
  <2>1. Server \notin Open /\ Ready \subseteq Open \cup {Server}
    BY SXKqueueAssumption DEF Ready, Open
  <2>2. /\ IsFiniteSet(Open \cup {Server})
        /\ Cardinality(Open \cup {Server}) = Cardinality(Open) + 1
    BY <2>1, OpenFinite, FS_AddElement
  <2>3. Cardinality(Ready) <= Cardinality(Open \cup {Server}) /\ Cardinality(Ready) \in Nat
    BY <2>1, <2>2, FS_Subset, FS_CardinalityType
  <2>4. QED
    BY <2>2, <2>3, OpenFinite, SXKqueueAssumption DEF GuestInv, GuestsCounted
<1>2. QED
  BY <1>1, GuestInvariant, PTL

\* No event is worked on for a connection that an earlier event of the batch has closed,
\* nor left in the batch for one (SXServer.c:388-492).
THEOREM EventsLiveHolds == Spec => []EventsLive
<1>1. GuestInv => EventsLive
  BY DEF GuestInv
<1>2. QED
  BY <1>1, GuestInvariant, PTL

-----------------------------------------------------------------------------
(* A suspended connection is handed data at most once more.                *)

\* Why the loop calls no second time: the connection, or the server it copies, says so.
Kept(c) == stat[c] = Suspend \/ stat[Server] \in {Suspend, Resuming, ShouldTerminate}

\* Nothing has happened to a connection that is not open yet; a server that has
\* started is never idle again.
Fresh == /\ IF pc \in {"off", "start"} THEN \A c \in Conns : conn[c] = "new"
                                       ELSE stat[Server] # Idle
         /\ \A c \in Conns : conn[c] \in {"new", "backlog"} =>
              late[c] = 0 /\ stat[c] = Idle /\ (app # <<>> => app[1] # c)

LateOnce == \A c \in Conns : late[c] \in {0, 1} /\ (late[c] = 1 => Kept(c))

\* Where the loop is not, or is only with a status that leads to no call.
LateAt == \A c \in Conns : late[c] = 1 /\ cur = c =>
            /\ pc # "recv"
            /\ pc = "srecv" => stat[c] \notin {Running, Resuming}
            /\ pc = "switch" => stat[c] # Running
            /\ pc = "resume" => stat[Server] \in {Suspend, Resuming, ShouldTerminate}

LateInv == Fresh /\ LateOnce /\ LateAt

LEMMA LateInit == Init => LateInv
<1> SUFFICES ASSUME Init PROVE LateInv
  OBVIOUS
<1>1. Fresh
  BY DEF Init, Fresh, Objects
<1>2. LateOnce /\ LateAt
  BY DEF Init, LateOnce, LateAt
<1>3. QED
  BY <1>1, <1>2 DEF LateInv

\* A step that leaves statuses, connections and counts alone and comes to no place of
\* LateAt.
LEMMA LateSame ==
    ASSUME LateInv, UNCHANGED <<stat, conn, late>>, {pc, pc'} \cap {"off", "start"} = {},
           app' \in {app, <<>>},
           UNCHANGED <<pc, cur>> \/ pc' \notin {"recv", "srecv", "switch", "resume"}
    PROVE  LateInv'
  BY DEF LateInv, Fresh, LateOnce, LateAt, Kept

\* The handler of a suspended connection is called only if that call is not counted yet.
LEMMA Calls ==
    ASSUME ControlOK, GuestInv, LateInv, Recv \/ SuspendedRecv
    PROVE  /\ UNCHANGED <<stat, cur, conn, app>> /\ pc \in {"recv", "srecv"}
           /\ cur \in Conns /\ conn[cur] = "open"
           /\ \/ pc' = "exit" /\ UNCHANGED late
              \/ pc' \in {"handler", "eof", "shandler"} /\ Deliver(cur) /\ late[cur] = 0
<1>1. pc \in {"recv", "srecv"} => cur \in Conns /\ conn[cur] = "open"
  BY DEF GuestInv, AtConn, EventsLive, EventPc
<1>2. CASE Recv
  BY <1>1, <1>2 DEF Recv, LateInv, LateOnce, LateAt
<1>3. CASE SuspendedRecv
  <2>1. /\ pc = "srecv" /\ UNCHANGED <<stat, cur, conn, app>>
        /\ \/ pc' = "exit" /\ UNCHANGED late
           \/ pc' = "shandler" /\ Deliver(cur) /\ stat[cur] \in {Running, Resuming}
    BY <1>3 DEF SuspendedRecv, SuspendedTarget
  <2>2. QED
    BY <1>1, <2>1 DEF LateInv, LateOnce, LateAt
<1>4. QED
  BY <1>2, <1>3

LEMMA LateInvNext == ControlOK /\ GuestInv /\ LateInv /\ [Next]_vars => LateInv'
<1> SUFFICES ASSUME ControlOK, GuestInv, LateInv, [Next]_vars PROVE LateInv'
  OBVIOUS
<1> USE SXKqueueAssumption DEF ControlOK, LoopOK, NetOK, AppOK, LateOK
<1> /\ Conns \subseteq Objects /\ Server \in Objects /\ Server \notin Conns
    /\ \A c \in Conns : late[c] \in Nat
  BY DEF Objects
<1> cur \in Conns /\ pc \in EventPc => conn[cur] = "open"
  BY DEF GuestInv, EventsLive
<1> pc \in EventPc => cur \in Conns
  BY DEF GuestInv, AtConn
<1> HIDE SXKqueueAssumption DEF ControlOK, LoopOK, NetOK, AppOK, LateOK
<1>1. CASE UNCHANGED vars
  BY <1>1 DEF vars, LateInv, Fresh, LateOnce, LateAt, Kept
<1>2. CASE SXServerStart_kqueue \/ OwnerRelease
  BY <1>2 DEF SXServerStart_kqueue, OwnerRelease, LateInv, Fresh, LateOnce, LateAt, Kept
<1>3. CASE StatusStore
  <2>1. PICK o \in Objects, s \in {Suspend, Resuming} :
          /\ stat' = [stat EXCEPT ![o] = s] /\ app = <<o, s>> /\ app' = <<>>
          /\ late' = [c \in Conns |-> IF s = Resuming /\ o \in {c, Server} THEN 0 ELSE late[c]]
          /\ UNCHANGED <<pc, cur, conn>>
    <3>1. PICK o \in Objects, s \in {Suspend, Resuming} : app = <<o, s>>
      BY <1>3 DEF StatusStore, ControlOK, AppOK
    <3>2. app[1] = o /\ app[2] = s
      BY <3>1
    <3>3. QED
      BY <1>3, <3>1, <3>2 DEF StatusStore
  <2>2. stat \in [Objects -> Status]
    BY DEF ControlOK, LoopOK
  <2>3. Fresh'
    BY <2>1, <2>2 DEF LateInv, Fresh
  <2>4. LateOnce'
    BY <2>1, <2>2 DEF LateInv, LateOnce, Kept
  <2>5. LateAt'
    BY <2>1, <2>2 DEF LateInv, LateAt
  <2>6. QED
    BY <2>3, <2>4, <2>5 DEF LateInv
<1>4. CASE Terminate
  BY <1>4 DEF Terminate, ControlOK, LoopOK, LateInv, Fresh, LateOnce, LateAt, Kept
<1>5. ASSUME NEW o \in Managed, SXSuspendObject(o) \/ SXResumeObject(o) PROVE LateInv'
  <2>1. /\ UNCHANGED <<stat, conn, late, pc, cur>>
        /\ o = Server \/ conn[o] = "open"
        /\ app' \in {<<o, Suspend>>, <<o, Resuming>>}
    BY <1>5 DEF SXSuspendObject, SXResumeObject, Usable
  <2>2. QED
    BY <2>1 DEF LateInv, Fresh, LateOnce, LateAt, Kept
<1>6. ASSUME NEW c \in Conns, Connect(c) \/ Send(c) \/ Hangup(c) PROVE LateInv'
  <2>1. UNCHANGED <<stat, late, pc, cur, app>>
    BY <1>6 DEF Connect, Send, Hangup
  <2>2. Fresh'
    <3>1. CASE Connect(c)
      BY <2>1, <3>1 DEF Connect, LateInv, Fresh, ControlOK, NetOK
    <3>2. CASE Send(c) \/ Hangup(c)
      BY <2>1, <3>2 DEF Send, Hangup, LateInv, Fresh, ControlOK, NetOK
    <3>3. QED
      BY <1>6, <3>1, <3>2
  <2>3. QED
    BY <2>1, <2>2 DEF LateInv, LateOnce, LateAt, Kept
<1>7. CASE Start
  <2>1. /\ \A c \in Conns : late[c] = 0 /\ conn[c] = "new" /\ stat'[c] = stat[c]
        /\ UNCHANGED <<conn, late, app>> /\ pc' \in {"while", "failed"}
        /\ stat'[Server] = Running
    BY <1>7 DEF Start, LateInv, Fresh, ControlOK, LoopOK
  <2>2. QED
    BY <2>1 DEF LateInv, Fresh, LateOnce, LateAt, Kept
<1>8. CASE While \/ Kevent \/ BatchDone
  BY <1>8, LateSame DEF While, Kevent, BatchDone
<1>9. CASE Accept
  <2>1. /\ UNCHANGED <<pc, cur, late, app>> /\ pc = "batch"
        /\ \A c \in Conns : stat'[c] = stat[c] \/ (late[c] = 0 /\ conn'[c] = "open")
        /\ \A c \in Conns : conn'[c] = conn[c] \/ conn'[c] \in {"open", "lost"}
        /\ stat'[Server] = stat[Server]
    BY <1>9 DEF Accept, LateInv, Fresh, ControlOK, LoopOK, NetOK
  <2>2. QED
    BY <2>1 DEF LateInv, Fresh, LateOnce, LateAt, Kept
<1>10. ASSUME NEW c \in Conns, Event(c) PROVE LateInv'
  BY <1>10, LateSame DEF Event
<1>11. CASE Copy
  <2>1. /\ stat' = [stat EXCEPT ![cur] = IF stat[Server] # Running THEN stat[Server] ELSE @]
        /\ pc' = "switch" /\ UNCHANGED <<cur, conn, late, app>>
    BY <1>11 DEF Copy
  <2>2. stat \in [Objects -> Status] /\ cur \in Conns /\ conn[cur] = "open"
    BY <1>11 DEF Copy, ControlOK, LoopOK, EventPc
  <2>3. /\ stat[Server] \in Status \ {Idle} /\ stat'[Server] = stat[Server]
        /\ \A c \in Conns \ {cur} : stat'[c] = stat[c]
        /\ stat'[cur] = IF stat[Server] # Running THEN stat[Server] ELSE stat[cur]
        /\ pc \notin {"off", "start"}
    BY <1>11, <2>1, <2>2 DEF Copy, LateInv, Fresh
  <2>4. Fresh' /\ LateOnce'
    BY <2>1, <2>2, <2>3 DEF LateInv, Fresh, LateOnce, Kept
  <2>5. LateAt'
    BY <2>1, <2>2, <2>3 DEF LateInv, LateOnce, LateAt, Kept
  <2>6. QED
    BY <2>4, <2>5 DEF LateInv
<1>12. CASE Switch
  <2>1. /\ pc = "switch" /\ UNCHANGED <<stat, cur, conn, late, app>> /\ cur \in Conns
        /\ pc' = "recv" <=> stat[cur] = Running
        /\ pc' = "srecv" <=> stat[cur] = Suspend
        /\ pc' = "resume" <=> stat[cur] = Resuming
        /\ pc' \notin {"off", "start", "switch"}
    BY <1>12 DEF Switch, Branch, EventPc
  <2>2. QED
    BY <2>1 DEF LateInv, Fresh, LateOnce, LateAt, Kept
<1>13. CASE Resume
  <2>1. /\ stat' = [stat EXCEPT ![cur] = Running] /\ pc = "resume"
        /\ pc' = "test" /\ UNCHANGED <<cur, conn, late, app>>
        /\ stat \in [Objects -> Status] /\ cur \in Conns /\ conn[cur] = "open"
    BY <1>13 DEF Resume, ControlOK, LoopOK, EventPc
  <2>2. QED
    BY <2>1 DEF LateInv, Fresh, LateOnce, LateAt, Kept
<1>14. CASE HandlerReturns \/ Test \/ SuspendedHandlerReturns
  BY <1>14, LateSame DEF HandlerReturns, Test, SuspendedHandlerReturns
\* The handler of a suspended connection is called: it was not counted before.
<1>15. CASE Recv \/ SuspendedRecv
  <2>1. /\ UNCHANGED <<stat, cur, conn, app>>
        /\ pc \in {"recv", "srecv"} /\ pc' \in {"handler", "eof", "exit", "shandler"}
        /\ cur \in Conns /\ conn[cur] = "open"
        /\ UNCHANGED late \/ (Deliver(cur) /\ late[cur] = 0)
    BY <1>15, Calls
  <2>2. CASE UNCHANGED late
    BY <2>1, <2>2, LateSame
  <2>3. CASE Deliver(cur) /\ late[cur] = 0
    <3>1. /\ \A c \in Conns \ {cur} : late'[c] = late[c]
          /\ late'[cur] \in {0, 1} /\ (late'[cur] = 1 => Suspended(cur))
      BY <2>1, <2>3 DEF Deliver, ControlOK, LateOK
    <3>2. QED
      BY <2>1, <3>1 DEF Suspended, LateInv, Fresh, LateOnce, LateAt, Kept
  <2>4. QED
    BY <2>1, <2>2, <2>3
<1>16. CASE Exit
  <2>1. UNCHANGED <<stat, cur, late, app>> /\ pc = "exit" /\ pc' = "batch"
        /\ \A c \in Conns : conn'[c] \in {conn[c], "closed"}
    BY <1>16 DEF Exit, ControlOK, NetOK
  <2>2. QED
    BY <2>1 DEF LateInv, Fresh, LateOnce, LateAt, Kept
<1>17. QED
  BY <1>1, <1>2, <1>3, <1>4, <1>5, <1>6, <1>7, <1>8, <1>9, <1>10, <1>11, <1>12, <1>13, <1>14,
     <1>15, <1>16, NextCases DEF Between, InEvent

-----------------------------------------------------------------------------
(* SXKqueue implements ConnLife.                                           *)

LoopInv == ControlOK /\ GuestInv /\ LateInv

SameHandling == \A c \in Conns : InHandler(c)' = InHandler(c)
SameQuiet    == \A c \in Conns : Suspended(c)' = Suspended(c)

LEMMA Phases == /\ PhaseOf("new") = "none" /\ PhaseOf("backlog") = "pending"
                /\ PhaseOf("open") = "live" /\ PhaseOf("lost") = "refused"
                /\ PhaseOf("closed") = "down"
  BY Zenon DEF PhaseOf

LEMMA Stutters ==
    ASSUME UNCHANGED <<conn, late>>, SameHandling, SameQuiet
    PROVE  UNCHANGED Life!vars
  BY Zenon DEF Life!vars, SameHandling, SameQuiet

\* The status of the server or of a connection changes, and nobody gains a call.
LEMMA Hushes ==
    ASSUME UNCHANGED <<conn, late>>, SameHandling
    PROVE  \E S \in SUBSET Conns : Life!Hush(S)
<1> DEFINE S == {c \in Conns : Suspended(c)'}
<1>1. [c \in Conns |-> Suspended(c)]' = [c \in Conns |-> c \in S]
  BY DEF Suspended
<1>2. Life!Hush(S)
  BY <1>1, Zenon DEF Life!Hush, SameHandling
<1>3. QED
  BY <1>2, Zenon

LEMMA InitImplements == Init => Life!Init
<1> SUFFICES ASSUME Init PROVE Life!Init
  OBVIOUS
<1>1. \A c \in Conns : conn[c] = "new" /\ ~InHandler(c) /\ ~Suspended(c) /\ late[c] = 0
  BY SXKqueueAssumption DEF Init, InHandler, Suspended, Objects
<1>2. [c \in Conns |-> PhaseOf(conn[c])] = [c \in Conns |-> "none"]
  BY <1>1, Phases
<1>3. [c \in Conns |-> InHandler(c)] = [c \in Conns |-> FALSE]
  BY <1>1 DEF InHandler
<1>4. [c \in Conns |-> Suspended(c)] = [c \in Conns |-> FALSE]
  <2>1. \A c \in Conns : Suspended(c) = FALSE
    BY <1>1 DEF Suspended
  <2>2. QED
    BY <2>1, Zenon
<1>5. [c \in Conns |-> 1 - late[c]] = [c \in Conns |-> 1]
  BY <1>1
<1>6. QED
  BY <1>2, <1>3, <1>4, <1>5, Zenon DEF Life!Init

LEMMA Becomes ==
    ASSUME NEW c \in Conns, NEW to, conn' = [conn EXCEPT ![c] = to],
           NetOK, SameHandling, SameQuiet, UNCHANGED late
    PROVE  Life!Becomes(c, PhaseOf(conn[c]), PhaseOf(to))
<1>1. [d \in Conns |-> PhaseOf(conn[d])]'
        = [[d \in Conns |-> PhaseOf(conn[d])] EXCEPT ![c] = PhaseOf(to)]
  BY DEF NetOK
<1>2. UNCHANGED <<[d \in Conns |-> InHandler(d)], [d \in Conns |-> Suspended(d)],
                  [d \in Conns |-> 1 - late[d]]>>
  BY Zenon DEF SameHandling, SameQuiet
<1>3. [d \in Conns |-> PhaseOf(conn[d])][c] = PhaseOf(conn[c])
  OBVIOUS
<1>4. QED
  BY <1>1, <1>2, <1>3, Zenon DEF Life!Becomes

\* A handler is called: the call is counted against a suspended connection.
LEMMA Begins ==
    ASSUME LoopInv, Recv \/ SuspendedRecv, pc' # "exit"
    PROVE  \E c \in Conns : Life!Begin(c)
<1>1. /\ UNCHANGED <<stat, cur, conn>> /\ cur \in Conns /\ conn[cur] = "open"
      /\ pc \in {"recv", "srecv"} /\ pc' \in {"handler", "eof", "shandler"}
      /\ Deliver(cur) /\ late[cur] = 0 /\ late \in [Conns -> Nat]
  BY Calls DEF LoopInv, ControlOK, LateOK
<1> PICK c \in Conns : c = cur
  BY <1>1, Zenon
<1>2. [d \in Conns |-> PhaseOf(conn[d])][c] = "live"
  BY <1>1, Phases
<1>3. [d \in Conns |-> InHandler(d)][c] = FALSE
  <2>1. InHandler(c) = FALSE
    BY <1>1 DEF InHandler
  <2>2. QED
    BY <1>1, <2>1, Zenon
<1>4. [d \in Conns |-> InHandler(d)]' = [[d \in Conns |-> InHandler(d)] EXCEPT ![c] = TRUE]
  BY <1>1 DEF InHandler
<1>5. UNCHANGED <<[d \in Conns |-> PhaseOf(conn[d])], [d \in Conns |-> Suspended(d)]>>
  BY <1>1, Zenon DEF Suspended
<1>6. [d \in Conns |-> Suspended(d)][c] = Suspended(c)
  BY <1>1, Zenon
<1>7. [d \in Conns |-> 1 - late[d]][c] = 1
  BY <1>1
<1>8. CASE Suspended(c)
  <2>1. [d \in Conns |-> 1 - late[d]]' = [[d \in Conns |-> 1 - late[d]] EXCEPT ![c] = 0]
    <3>1. late' = [late EXCEPT ![c] = 1]
      BY <1>1, <1>8 DEF Deliver
    <3>2. \A d \in Conns : 1 - late'[d] = IF d = c THEN 0 ELSE 1 - late[d]
      BY <1>1, <3>1
    <3>3. [d \in Conns |-> 1 - late'[d]] = [d \in Conns |-> IF d = c THEN 0 ELSE 1 - late[d]]
      BY <3>2
    <3>4. QED
      BY <1>1, <3>3
  <2>2. QED
    BY <1>1, <1>2, <1>3, <1>4, <1>5, <1>6, <1>7, <1>8, <2>1, Zenon DEF Life!Begin
<1>9. CASE ~Suspended(c)
  <2>1. [d \in Conns |-> 1 - late[d]]' = [d \in Conns |-> 1 - late[d]]
    BY <1>1, <1>9 DEF Deliver
  <2>2. QED
    BY <1>1, <1>2, <1>3, <1>4, <1>5, <1>6, <1>9, <2>1, Zenon DEF Life!Begin
<1>10. QED
  BY <1>8, <1>9, Zenon

\* A handler returns.
LEMMA Ends ==
    ASSUME LoopInv, HandlerReturns \/ SuspendedHandlerReturns
    PROVE  cur \in Conns /\ Life!End(cur)
<1>1. /\ UNCHANGED <<stat, cur, conn, late>> /\ cur \in Conns
      /\ pc \in {"handler", "eof", "shandler"} /\ pc' \in {"exit", "batch"}
  BY DEF HandlerReturns, SuspendedHandlerReturns, LoopInv, GuestInv, AtConn, EventPc
<1>2. [d \in Conns |-> InHandler(d)][cur] = TRUE
  <2>1. InHandler(cur) = TRUE
    BY <1>1 DEF InHandler
  <2>2. QED
    BY <1>1, <2>1, Zenon
<1>3. [d \in Conns |-> InHandler(d)]' = [[d \in Conns |-> InHandler(d)] EXCEPT ![cur] = FALSE]
  BY <1>1 DEF InHandler
<1>4. UNCHANGED <<[d \in Conns |-> PhaseOf(conn[d])], [d \in Conns |-> Suspended(d)],
                  [d \in Conns |-> 1 - late[d]]>>
  BY <1>1, Zenon DEF Suspended
<1>5. QED
  BY <1>1, <1>2, <1>3, <1>4, Zenon DEF Life!End

\* A resume of the server or of a connection gives each that is resumed a new call.
LEMMA Wakes ==
    ASSUME LoopInv, StatusStore, app[2] = Resuming
    PROVE  \E S \in SUBSET Conns : Life!Wake(S)
<1>0. {c \in Conns : app[1] \in {c, Server}} \in SUBSET Conns
  OBVIOUS
<1> PICK S \in SUBSET Conns : S = {c \in Conns : app[1] \in {c, Server}}
  BY <1>0, Zenon
<1>1. /\ stat' = [stat EXCEPT ![app[1]] = Resuming] /\ UNCHANGED <<pc, cur, conn>>
      /\ late' = [c \in Conns |-> IF app[1] \in {c, Server} THEN 0 ELSE late[c]]
  BY DEF StatusStore
<1>2. \A c \in Conns \ S : Suspended(c)' = Suspended(c)
  BY <1>1, SXKqueueAssumption DEF Suspended, LoopInv, ControlOK, LoopOK, Objects
<1>3. [c \in Conns |-> Suspended(c)]' \in [Conns -> BOOLEAN]
  BY DEF Suspended
<1>4. [c \in Conns |-> 1 - late[c]]'
        = [c \in Conns |-> IF c \in S THEN 1 ELSE [d \in Conns |-> 1 - late[d]][c]]
  BY <1>1
<1>5. UNCHANGED <<[c \in Conns |-> PhaseOf(conn[c])], [c \in Conns |-> InHandler(c)]>>
  BY <1>1, Zenon DEF InHandler
<1>6. \A c \in Conns \ S :
        [d \in Conns |-> Suspended(d)]'[c] = [d \in Conns |-> Suspended(d)][c]
  BY <1>2, Zenon
<1>7. Life!Wake(S)
  BY <1>3, <1>4, <1>5, <1>6 DEF Life!Wake
<1>8. QED
  BY <1>7, Zenon

LEMMA StepImplements == LoopInv /\ [Next]_vars => [Life!Next]_Life!vars
<1> SUFFICES ASSUME LoopInv, [Next]_vars PROVE Life!Next \/ UNCHANGED Life!vars
  BY Zenon
\* Steps that change the connection of no reader.
<1>1. CASE UNCHANGED vars \/ SXServerStart_kqueue \/ OwnerRelease \/ While \/ Kevent \/ BatchDone
  <2>1. UNCHANGED <<conn, late, stat>> /\ SameHandling
    BY <1>1 DEF vars, SXServerStart_kqueue, OwnerRelease, While, Kevent, BatchDone,
                SameHandling, InHandler
  <2>2. QED
    BY <2>1, Stutters DEF SameQuiet, Suspended
<1>2. ASSUME NEW o \in Managed, SXSuspendObject(o) \/ SXResumeObject(o)
      PROVE  UNCHANGED Life!vars
  BY <1>2, Stutters DEF SXSuspendObject, SXResumeObject, SameHandling, InHandler, SameQuiet, Suspended
<1>3. ASSUME NEW c \in Conns, Event(c) PROVE UNCHANGED Life!vars
  BY <1>3, Stutters DEF Event, SameHandling, InHandler, SameQuiet, Suspended
<1>4. CASE Switch \/ Test
  <2>1. pc' \notin {"handler", "eof", "shandler"} /\ UNCHANGED <<conn, late, stat>>
    BY <1>4 DEF Switch, Branch, Test
  <2>2. SameHandling
    BY <1>4, <2>1 DEF Switch, Test, SameHandling, InHandler
  <2>3. QED
    BY <2>1, <2>2, Stutters DEF SameQuiet, Suspended
\* Steps that change a status.
<1>5. CASE Terminate \/ Start \/ Copy \/ Resume
  <2>1. UNCHANGED <<conn, late>> /\ SameHandling
    BY <1>5 DEF Terminate, Start, Copy, Resume, SameHandling, InHandler
  <2>2. QED
    BY <2>1, Hushes DEF Life!Next
<1>6. CASE StatusStore
  <2>1. CASE app[2] = Resuming
    BY <1>6, <2>1, Wakes DEF Life!Next
  <2>2. CASE app[2] # Resuming
    <3>1. UNCHANGED conn /\ SameHandling
      BY <1>6 DEF StatusStore, SameHandling, InHandler
    <3>2. UNCHANGED late
      BY <1>6, <2>2 DEF StatusStore, LoopInv, ControlOK, LateOK
    <3>3. QED
      BY <3>1, <3>2, Hushes DEF Life!Next
  <2>3. QED
    BY <2>1, <2>2
\* Steps of a connection's life.
<1>7. ASSUME NEW c \in Conns, Connect(c) \/ Send(c) \/ Hangup(c)
      PROVE  Life!Next \/ UNCHANGED Life!vars
  <2>1. UNCHANGED late /\ SameHandling /\ SameQuiet
    BY <1>7 DEF Connect, Send, Hangup, SameHandling, InHandler, SameQuiet, Suspended
  <2>2. \/ UNCHANGED conn
        \/ conn[c] = "new" /\ conn' = [conn EXCEPT ![c] = "backlog"]
        \/ conn[c] = "backlog" /\ conn' = [conn EXCEPT ![c] = "lost"]
    BY <1>7 DEF Connect, Send, Hangup
  <2>3. CASE UNCHANGED conn
    BY <2>1, <2>3, Stutters
  <2>4. CASE conn[c] = "new" /\ conn' = [conn EXCEPT ![c] = "backlog"]
    <3>1. Life!Becomes(c, "none", "pending")
      BY <2>1, <2>4, Becomes, Phases DEF LoopInv, ControlOK
    <3>2. QED
      BY <3>1, Zenon DEF Life!Next, Life!Arrive
  <2>5. CASE conn[c] = "backlog" /\ conn' = [conn EXCEPT ![c] = "lost"]
    <3>1. Life!Becomes(c, "pending", "refused")
      BY <2>1, <2>5, Becomes, Phases DEF LoopInv, ControlOK
    <3>2. QED
      BY <3>1, Zenon DEF Life!Next, Life!Refuse
  <2>6. QED
    BY <2>2, <2>3, <2>4, <2>5
<1>8. CASE Accept
  <2>1. UNCHANGED late /\ SameHandling
    BY <1>8 DEF Accept, SameHandling, InHandler
  <2>2. CASE UNCHANGED <<conn, stat>>
    BY <2>1, <2>2, Stutters DEF SameQuiet, Suspended
  <2>3. ASSUME NEW c \in Conns, conn[c] = "backlog", conn' = [conn EXCEPT ![c] = "open"],
               stat' = [stat EXCEPT ![c] = Running]
        PROVE  Life!Next
    <3>1. stat[c] = Idle /\ stat \in [Objects -> Status] /\ c # Server /\ Conns \subseteq Objects
      BY <2>3, SXKqueueAssumption DEF LoopInv, LateInv, Fresh, ControlOK, LoopOK, Objects
    <3>2. SameQuiet
      BY <2>3, <3>1 DEF SameQuiet, Suspended
    <3>3. Life!Becomes(c, "pending", "live")
      BY <2>1, <2>3, <3>2, Becomes, Phases DEF LoopInv, ControlOK
    <3>4. QED
      BY <3>3, Zenon DEF Life!Next, Life!Admit
  <2>4. ASSUME NEW c \in Conns, conn[c] = "backlog", conn' = [conn EXCEPT ![c] = "lost"],
               UNCHANGED stat
        PROVE  Life!Next
    <3>1. SameQuiet
      BY <2>4 DEF SameQuiet, Suspended
    <3>2. Life!Becomes(c, "pending", "refused")
      BY <2>1, <2>4, <3>1, Becomes, Phases DEF LoopInv, ControlOK
    <3>3. QED
      BY <3>2, Zenon DEF Life!Next, Life!Refuse
  <2>5. QED
    BY <1>8, <2>2, <2>3, <2>4 DEF Accept
<1>9. CASE Exit
  <2>1. /\ UNCHANGED <<late, stat, cur>> /\ pc = "exit" /\ pc' = "batch"
        /\ conn' = [conn EXCEPT ![cur] = "closed"] /\ cur \in Conns /\ conn[cur] = "open"
    BY <1>9 DEF Exit, LoopInv, GuestInv, AtConn, EventsLive, EventPc
  <2>2. SameHandling /\ SameQuiet /\ InHandler(cur) = FALSE
    BY <2>1 DEF SameHandling, InHandler, SameQuiet, Suspended
  <2>3. Life!Becomes(cur, "live", "down")
    BY <2>1, <2>2, Becomes, Phases DEF LoopInv, ControlOK
  <2>4. [d \in Conns |-> InHandler(d)][cur] = FALSE
    BY <2>1, <2>2, Zenon
  <2>5. QED
    BY <2>1, <2>3, <2>4, Zenon DEF Life!Next, Life!Close
\* The calls of the data handler.
<1>10. CASE Recv \/ SuspendedRecv
  <2>1. CASE pc' = "exit"
    <3>1. UNCHANGED <<stat, cur, conn, late>> /\ pc \in {"recv", "srecv"}
      BY <1>10, <2>1, Calls DEF LoopInv
    <3>2. QED
      BY <2>1, <3>1, Stutters DEF SameHandling, InHandler, SameQuiet, Suspended
  <2>2. CASE pc' # "exit"
    BY <1>10, <2>2, Begins DEF Life!Next
  <2>3. QED
    BY <2>1, <2>2
<1>11. CASE HandlerReturns \/ SuspendedHandlerReturns
  BY <1>11, Ends, Zenon DEF Life!Next
<1>12. QED
  BY <1>1, <1>2, <1>3, <1>4, <1>5, <1>6, <1>7, <1>8, <1>9, <1>10, <1>11, NextCases
     DEF Between, InEvent

\* For every set of connections, every max_guest and whatever the program suspends, the
\* kqueue loop implements ConnLife: each connection is turned down or served once, its
\* handler runs one call at a time between open and close, and once suspended is called
\* at most once more until something resumes it (SXServer.c:336-499).
THEOREM KqueueImplementsConnLife == Spec => ImplementsConnLife
<1>1. Init => LoopInv
  BY ControlInit, GuestInit, LateInit DEF LoopInv
<1>2. LoopInv /\ [Next]_vars => LoopInv'
  BY ControlNext, GuestNext, LateInvNext DEF LoopInv
<1>3. QED
  BY <1>1, <1>2, InitImplements, StepImplements, PTL DEF Spec, ImplementsConnLife, Life!Spec
=============================================================================
