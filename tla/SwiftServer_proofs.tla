------------------------- MODULE SwiftServer_proofs -------------------------
(***************************************************************************)
(* Proofs about SwiftServer, for every set of connections and every        *)
(* maxGuest.                                                               *)
(***************************************************************************)
EXTENDS SwiftServer, FiniteSetTheorems, TLAPS

\* The disjuncts of Next, flattened.
LEMMA NextCases ==
    ASSUME Next
    PROVE  \/ Start \/ Terminate \/ DidStart \/ While \/ Check \/ Stop
           \/ \E o \in Managed : SuspendObject(o) \/ ResumeObject(o)
           \/ \E c \in Conns :
                \/ Connect(c) \/ Send(c) \/ Hangup(c)
                \/ Accept(c) \/ Refuse(c) \/ AcceptFails(c)
                \/ WorkerStart(c) \/ Top(c) \/ CopyStatus(c) \/ Switch(c) \/ Resume(c)
                \/ NoteLoad(c) \/ NoteStore(c) \/ Recv(c) \/ HandlerReturns(c)
                \/ SuspendedRecv(c) \/ Again(c) \/ WhileS(c) \/ Close(c)
                \/ LeaveLoad(c) \/ DecStore(c)
  BY DEF Next, Program, Peers, ListenerStep, WorkerStep

LEMMA Remembers == Next => Remember
  BY DEF Next

\* The part of TypeOK that the arguments below need.
Control ==
    /\ stat \in [Objects -> Status]
    /\ pc \in [Conns -> ConnPc]
    /\ reg \in [Conns -> Int] /\ note \in [Conns -> Status]
    /\ count \in Int /\ lost \in BOOLEAN
    /\ asked \subseteq Objects

\* Where a connection moves to in one step, and from where.
Ahead(c, S, T) == pc[c] \in S /\ \E l \in T : pc' = [pc EXCEPT ![c] = l]

Before == {"new", "backlog", "queued"}
Served == LoopPc \cup {"close", "leave", "decStore"}

LEMMA StatusCodes == {Idle, Running, Resuming, Suspend, ShouldTerminate} \subseteq Status
  BY DEF Status

LEMMA StatusesDiffer ==
    /\ Suspend # Running /\ Suspend # Resuming /\ Suspend # Idle /\ Suspend # ShouldTerminate
  BY DEF Idle, Running, Resuming, Suspend, ShouldTerminate

LEMMA StatusesDiffer2 ==
    /\ Running # Resuming /\ Running # Idle /\ Running # ShouldTerminate
    /\ Resuming # Idle /\ Resuming # ShouldTerminate
  BY DEF Idle, Running, Resuming, ShouldTerminate

LEMMA Branches == \A st, n : Branch(st, n) \in LoopPc
  BY DEF Branch, LoopPc

\* Every step moves no connection, or one: from before its place to after it.
LEMMA Places ==
    ASSUME Next
    PROVE  \/ UNCHANGED pc
           \/ \E c \in Conns :
                \/ Ahead(c, Before, {"backlog", "refused", "top"})
                \/ Ahead(c, LoopPc, LoopPc \cup {"close"})
                \/ Ahead(c, {"close", "leave"}, {"leave", "decStore"})
                \/ Accept(c) /\ Ahead(c, Before, {"queued", "dropped"})
                \/ DecStore(c) /\ Ahead(c, {"decStore"}, {"closed"})
<1> USE DEF At, Goto, Step, Ahead
<1>1. CASE Start \/ Terminate \/ DidStart \/ While \/ Check \/ Stop
  BY <1>1 DEF Start, Terminate, DidStart, While, Check, Stop
<1>2. ASSUME NEW o \in Managed, SuspendObject(o) \/ ResumeObject(o) PROVE UNCHANGED pc
  BY <1>2 DEF SuspendObject, ResumeObject
<1>3. ASSUME NEW c \in Conns, Send(c) \/ Hangup(c) PROVE UNCHANGED pc
  BY <1>3 DEF Send, Hangup
<1>4. ASSUME NEW c \in Conns,
             Connect(c) \/ Refuse(c) \/ AcceptFails(c) \/ WorkerStart(c)
      PROVE  Ahead(c, Before, {"backlog", "refused", "top"})
  BY <1>4 DEF Connect, Refuse, AcceptFails, WorkerStart, Before
<1>5. ASSUME NEW c \in Conns,
             \/ Top(c) \/ CopyStatus(c) \/ Resume(c) \/ NoteLoad(c) \/ NoteStore(c) \/ Recv(c)
             \/ HandlerReturns(c) \/ SuspendedRecv(c) \/ Again(c) \/ WhileS(c)
      PROVE  Ahead(c, LoopPc, LoopPc \cup {"close"})
  BY <1>5 DEF Top, CopyStatus, Resume, NoteLoad, NoteStore, Recv, HandlerReturns,
              SuspendedRecv, Again, SuspendedTarget, WhileS, LoopPc
<1>6. ASSUME NEW c \in Conns, Switch(c) PROVE Ahead(c, LoopPc, LoopPc \cup {"close"})
  <2>1. "switch" \in LoopPc
    BY DEF LoopPc
  <2>2. QED
    BY <1>6, <2>1, Branches DEF Switch
<1>7. ASSUME NEW c \in Conns, Close(c) \/ LeaveLoad(c)
      PROVE  Ahead(c, {"close", "leave"}, {"leave", "decStore"})
  BY <1>7 DEF Close, LeaveLoad
<1>8. ASSUME NEW c \in Conns, DecStore(c) PROVE Ahead(c, {"decStore"}, {"closed"})
  BY <1>8 DEF DecStore
<1>9. ASSUME NEW c \in Conns, Accept(c) PROVE Ahead(c, Before, {"queued", "dropped"})
  BY <1>9 DEF Accept, Before
<1>10. QED
  BY <1>1, <1>2, <1>3, <1>4, <1>5, <1>6, <1>7, <1>8, <1>9, NextCases

LEMMA ControlInit == Init => Control
<1> SUFFICES ASSUME Init PROVE Control
  OBVIOUS
<1>1. Idle \in Status
  BY StatusCodes
<1>2. QED
  <2>1. stat \in [Objects -> Status] /\ note \in [Conns -> Status] /\ reg \in [Conns -> Int]
    BY <1>1 DEF Init
  <2>2. pc \in [Conns -> ConnPc]
    BY DEF Init, ConnPc
  <2>3. count \in Int /\ asked \subseteq Objects
    BY DEF Init
  <2>4. lost \in BOOLEAN
    BY Zenon DEF Init
  <2>5. QED
    BY <2>1, <2>2, <2>3, <2>4 DEF Control

LEMMA ControlNext == Control /\ [Next]_vars => Control'
<1> SUFFICES ASSUME Control, [Next]_vars PROVE Control'
  OBVIOUS
<1> USE StatusCodes DEF Control, loopVars, countVars, appVars, ListenerMoves, WorkerMoves, Holds, Jump
<1> Server \in Objects /\ Conns \subseteq Objects
  BY DEF Objects
<1>1. CASE UNCHANGED vars
  BY <1>1 DEF vars
<1>2. ASSUME Next PROVE pc' \in [Conns -> ConnPc]
  <2>1. \A c \in Conns : \A S, T : Ahead(c, S, T) /\ T \subseteq ConnPc => pc' \in [Conns -> ConnPc]
    BY DEF Ahead
  <2>2. /\ {"backlog", "refused", "top"} \subseteq ConnPc /\ {"queued", "dropped"} \subseteq ConnPc
        /\ LoopPc \cup {"close"} \subseteq ConnPc
        /\ {"leave", "decStore"} \subseteq ConnPc /\ {"closed"} \subseteq ConnPc
    BY DEF ConnPc, LoopPc
  <2>3. QED
    BY <1>2, <2>1, <2>2, Places
<1> DEFINE Rest == /\ stat' \in [Objects -> Status] /\ reg' \in [Conns -> Int]
                   /\ note' \in [Conns -> Status]
                   /\ count' \in Int /\ lost' \in BOOLEAN /\ asked' \subseteq Objects
<1>3. CASE Start \/ Terminate \/ DidStart \/ While \/ Check \/ Stop
  BY <1>2, <1>3 DEF Start, Terminate, DidStart, While, Check, Stop, Next, Program, ListenerStep
<1>4. ASSUME NEW o \in Managed, SuspendObject(o) \/ ResumeObject(o) PROVE Control'
  BY <1>4, SwiftServerAssumption DEF SuspendObject, ResumeObject
<1>5. ASSUME NEW c \in Conns, Connect(c) \/ Send(c) \/ Hangup(c) \/ Refuse(c) \/ AcceptFails(c)
      PROVE  Rest
  BY <1>5 DEF Connect, Send, Hangup, Refuse, AcceptFails
<1>6. ASSUME NEW c \in Conns, Accept(c) PROVE Rest
  BY <1>6 DEF Accept
<1>7. ASSUME NEW c \in Conns, WorkerStart(c) \/ Top(c) \/ CopyStatus(c) \/ Switch(c) \/ Resume(c)
      PROVE  Rest
  BY <1>7 DEF WorkerStart, Top, CopyStatus, Switch, Resume
<1>8. ASSUME NEW c \in Conns, NoteLoad(c) \/ NoteStore(c) PROVE Rest
  BY <1>8 DEF NoteLoad, NoteStore
<1>9. ASSUME NEW c \in Conns,
             Recv(c) \/ HandlerReturns(c) \/ SuspendedRecv(c) \/ Again(c) \/ WhileS(c) \/ Close(c)
      PROVE  Rest
  BY <1>9 DEF Recv, HandlerReturns, SuspendedRecv, Again, WhileS, Close
<1>10. ASSUME NEW c \in Conns, LeaveLoad(c) \/ DecStore(c) PROVE Rest
  <2>1. UNCHANGED <<stat, note, asked>> /\ count' \in Int /\ reg' \in [Conns -> Int]
    BY <1>10 DEF LeaveLoad, DecStore, Count!Load, Count!Store, Count!Overwrite
  <2>2. lost' = lost \/ lost' = (lost \/ count # reg[c])
    BY <1>10, Zenon DEF LeaveLoad, DecStore, Count!Load, Count!Store, Count!Overwrite
  <2>3. lost' \in BOOLEAN
    BY <2>2, Zenon
  <2>4. QED
    BY <2>1, <2>3
<1>11. ASSUME Next, Rest PROVE Control'
  BY <1>2, <1>11
<1> HIDE DEF Rest
<1>12. QED
  BY <1>1, <1>3, <1>4, <1>5, <1>6, <1>7, <1>8, <1>9, <1>10, <1>11, NextCases

-----------------------------------------------------------------------------
(* The limit.                                                              *)

\* With room for one, nothing raises the count: it starts at 0, only a connection that is
\* turned away adds to it, and a block that is about to store has read no more.
RoomInv ==
    /\ maxGuest \in Nat
    /\ maxGuest > 0 =>
         /\ count <= 0
         /\ \A c \in Conns : pc[c] # "dropped" /\ (pc[c] = "decStore" => reg[c] <= 0)

LEMMA RoomNext == Control /\ RoomInv /\ [Next]_vars => RoomInv'
<1> SUFFICES ASSUME Control, RoomInv, [Next]_vars PROVE RoomInv'
  OBVIOUS
<1> USE DEF At, Goto, Step, loopVars, countVars, appVars, ListenerMoves, WorkerMoves, Holds, Jump
<1>0. ASSUME UNCHANGED <<maxGuest, count, reg>>,
             \A d \in Conns : pc'[d] = pc[d] \/ pc'[d] \notin {"dropped", "decStore"}
      PROVE  RoomInv'
  BY <1>0 DEF RoomInv
<1>1. CASE UNCHANGED vars
  BY <1>0, <1>1 DEF vars
<1>2. CASE Start \/ Terminate \/ DidStart \/ While \/ Check \/ Stop
  BY <1>0, <1>2 DEF Start, Terminate, DidStart, While, Check, Stop
<1>3. ASSUME NEW o \in Managed, SuspendObject(o) \/ ResumeObject(o) PROVE RoomInv'
  BY <1>0, <1>3 DEF SuspendObject, ResumeObject
<1>4. ASSUME NEW c \in Conns,
             \/ Connect(c) \/ Send(c) \/ Hangup(c) \/ Refuse(c) \/ AcceptFails(c) \/ WorkerStart(c)
      PROVE  RoomInv'
  BY <1>0, <1>4 DEF Connect, Send, Hangup, Refuse, AcceptFails, WorkerStart, Control
<1>5. ASSUME NEW c \in Conns,
             \/ Top(c) \/ CopyStatus(c) \/ Resume(c) \/ NoteLoad(c) \/ NoteStore(c) \/ Recv(c)
      PROVE  RoomInv'
  BY <1>0, <1>5 DEF Top, CopyStatus, Resume, NoteLoad, NoteStore, Recv, Control
<1>6. ASSUME NEW c \in Conns,
             \/ HandlerReturns(c) \/ SuspendedRecv(c) \/ Again(c) \/ WhileS(c) \/ Close(c)
      PROVE  RoomInv'
  BY <1>0, <1>6 DEF HandlerReturns, SuspendedRecv, Again, SuspendedTarget, WhileS, Close, Control
<1>7. ASSUME NEW c \in Conns, Switch(c) PROVE RoomInv'
  <2>1. \A st, n : Branch(st, n) \notin {"dropped", "decStore"}
    BY Branches DEF LoopPc
  <2>2. UNCHANGED <<maxGuest, count, reg>> /\ \E st, n : pc' = [pc EXCEPT ![c] = Branch(st, n)]
    BY <1>7 DEF Switch
  <2>3. QED
    BY <1>0, <2>1, <2>2 DEF Control
\* The test finds a count below the limit ...
<1>8. ASSUME NEW c \in Conns, Accept(c) PROVE RoomInv'
  BY <1>8 DEF Accept, Control, RoomInv
\* ... whatever the two threads of an update that is lost have read.
<1>9. ASSUME NEW c \in Conns, LeaveLoad(c) PROVE RoomInv'
  BY <1>9 DEF LeaveLoad, Count!Load, Control, RoomInv
<1>10. ASSUME NEW c \in Conns, DecStore(c) PROVE RoomInv'
  BY <1>10 DEF DecStore, Count!Store, Count!Overwrite, Control, RoomInv
<1>11. QED
  BY <1>1, <1>2, <1>3, <1>4, <1>5, <1>6, <1>7, <1>8, <1>9, <1>10, NextCases

\* A server with room for one guest or more never turns one away, and so may serve any
\* number at once, lost updates or not (SXServer.swift:136-137, 156).
THEOREM LimitNeverBitesHolds == Spec => []LimitNeverBites
<1>1. Init => RoomInv
  BY SwiftServerAssumption DEF Init, RoomInv
<1>2. RoomInv => LimitNeverBites
  <2> SUFFICES ASSUME RoomInv, maxGuest > 0 PROVE count <= 0 /\ In({"dropped"}) = 0
    BY DEF LimitNeverBites
  <2>1. {c \in Conns : pc[c] \in {"dropped"}} = {}
    BY DEF RoomInv
  <2>2. QED
    BY <2>1, FS_EmptySet DEF RoomInv, In
<1>3. QED
  BY <1>1, <1>2, ControlInit, ControlNext, RoomNext, PTL DEF Spec

-----------------------------------------------------------------------------
(* Suspension.                                                             *)

\* The program has met the connections it suspends, so that their blocks have started.
AskedStarted == \A c \in Conns :
    /\ c \in known => pc[c] \in Served \cup {"closed"}
    /\ c \in asked => c \in known

LEMMA Meets ==
    ASSUME Next
    PROVE  /\ known \subseteq known'
           /\ \A c \in Conns : /\ c \in known' => c \in known \/ pc[c] \in LoopPc
                               /\ c \in asked' => c \in asked \cup known
<1> USE DEF appVars, ListenerMoves, WorkerMoves, Holds, Jump
<1>0. ASSUME UNCHANGED <<known, asked>>
      PROVE  /\ known \subseteq known'
             /\ \A c \in Conns : /\ c \in known' => c \in known \/ pc[c] \in LoopPc
                                 /\ c \in asked' => c \in asked \cup known
  BY <1>0
<1>1. CASE Start \/ Terminate \/ DidStart \/ While \/ Check \/ Stop
  BY <1>0, <1>1 DEF Start, Terminate, DidStart, While, Check, Stop
<1>2. ASSUME NEW o \in Managed, SuspendObject(o)
      PROVE  known' = known /\ \A c \in Conns : c \in asked' => c \in asked \cup known
  BY <1>2, SwiftServerAssumption DEF SuspendObject, Usable
<1>3. ASSUME NEW o \in Managed, ResumeObject(o)
      PROVE  known' = known /\ \A c \in Conns : c \in asked' => c \in asked \cup known
  BY <1>3 DEF ResumeObject
<1>4. ASSUME NEW c \in Conns, HandlerReturns(c)
      PROVE  asked' = asked /\ known' = known \cup {c} /\ pc[c] \in LoopPc
  BY <1>4 DEF HandlerReturns, Step, At, LoopPc
<1>5. ASSUME NEW c \in Conns,
             \/ Connect(c) \/ Send(c) \/ Hangup(c) \/ Accept(c) \/ Refuse(c) \/ AcceptFails(c)
             \/ WorkerStart(c) \/ Top(c) \/ CopyStatus(c) \/ Switch(c) \/ Resume(c)
      PROVE  UNCHANGED <<known, asked>>
  BY <1>5 DEF Connect, Send, Hangup, Accept, Refuse, AcceptFails, WorkerStart, Top, CopyStatus,
              Switch, Resume
<1>6. ASSUME NEW c \in Conns,
             \/ NoteLoad(c) \/ NoteStore(c) \/ Recv(c) \/ SuspendedRecv(c) \/ Again(c)
             \/ WhileS(c) \/ Close(c) \/ LeaveLoad(c) \/ DecStore(c)
      PROVE  UNCHANGED <<known, asked>>
  BY <1>6 DEF NoteLoad, NoteStore, Recv, SuspendedRecv, Again, WhileS, Close, LeaveLoad, DecStore
<1>7. QED
  BY <1>0, <1>1, <1>2, <1>3, <1>4, <1>5, <1>6, NextCases

LEMMA AskedNext == Control /\ AskedStarted /\ [Next]_vars => AskedStarted'
<1> SUFFICES ASSUME Control, AskedStarted, [Next]_vars PROVE AskedStarted'
  OBVIOUS
<1>1. CASE UNCHANGED vars
  BY <1>1 DEF vars, AskedStarted
<1>2. ASSUME Next, NEW d \in Conns, pc[d] \in Served \cup {"closed"}
      PROVE  pc'[d] \in Served \cup {"closed"}
  BY <1>2, Places DEF Control, Ahead, Before, Served, LoopPc
<1>3. QED
  BY <1>1, <1>2, Meets DEF AskedStarted, Served

\* What a step does to the status of a connection that the program keeps suspended.
LEMMA StatusKept ==
    ASSUME Control, AskedStarted, Next, NEW c \in Conns, Settled(c), c \in asked',
           stat[Server] = Running, stat'[Server] = Running
    PROVE  Settled(c)'
<1> USE StatusesDiffer2 DEF At, Goto, Step, Settled, Control
<1> /\ Server \in Objects /\ Server \notin Conns /\ c \in Objects /\ c # Server
    /\ Conns \subseteq Objects
  BY SwiftServerAssumption DEF Objects
<1> pc[c] \in Served \cup {"closed"}
  BY DEF AskedStarted
<1>0. ASSUME UNCHANGED <<stat[c], pc[c], note[c]>> PROVE Settled(c)'
  BY <1>0
<1>1. CASE Start \/ Terminate \/ DidStart \/ While \/ Check \/ Stop
  BY <1>0, <1>1 DEF Start, Terminate, DidStart, While, Check, Stop, loopVars, ListenerMoves
<1>2. ASSUME NEW o \in Managed, SuspendObject(o) \/ ResumeObject(o) PROVE Settled(c)'
  BY <1>0, <1>2 DEF SuspendObject, ResumeObject, loopVars
<1>3. ASSUME NEW d \in Conns, Send(d) \/ Hangup(d) PROVE Settled(c)'
  BY <1>0, <1>3 DEF Send, Hangup, loopVars
\* Steps of another connection.
<1>4. ASSUME NEW d \in Conns, d # c,
             \/ Connect(d) \/ Accept(d) \/ Refuse(d) \/ AcceptFails(d)
             \/ WorkerStart(d) \/ Top(d) \/ CopyStatus(d) \/ Switch(d) \/ Resume(d)
      PROVE  Settled(c)'
  BY <1>0, <1>4 DEF Connect, Accept, Refuse, AcceptFails, WorkerStart, Top, CopyStatus, Switch,
                    Resume, loopVars, ListenerMoves, Holds, Jump
<1>5. ASSUME NEW d \in Conns, d # c,
             \/ NoteLoad(d) \/ NoteStore(d) \/ Recv(d) \/ HandlerReturns(d) \/ SuspendedRecv(d)
             \/ Again(d) \/ WhileS(d) \/ Close(d) \/ LeaveLoad(d) \/ DecStore(d)
      PROVE  Settled(c)'
  BY <1>0, <1>5 DEF NoteLoad, NoteStore, Recv, HandlerReturns, SuspendedRecv, Again, WhileS,
                    Close, LeaveLoad, DecStore, loopVars, Holds, Jump
\* Its own: a connection that has started is not accepted or started again ...
<1>6. ASSUME Connect(c) \/ Accept(c) \/ Refuse(c) \/ AcceptFails(c) \/ WorkerStart(c) PROVE FALSE
  BY <1>6 DEF Connect, Accept, Refuse, AcceptFails, WorkerStart, Served, LoopPc
\* ... a running server's status is not copied, and what is noted is the suspension.
<1>7. CASE Top(c)
  BY <1>7 DEF Top, loopVars, Holds, Jump
<1>8. ASSUME CopyStatus(c) \/ Resume(c) PROVE FALSE
  BY <1>8 DEF CopyStatus, Resume
<1>9. CASE Switch(c)
  <2>1. pc'[c] \in {"srecv", "snote"} /\ UNCHANGED stat
    BY <1>9, StatusesDiffer DEF Switch, Branch
  <2>2. QED
    BY <2>1
<1>10. CASE NoteLoad(c)
  <2>1. stat' = stat /\ note'[c] = Suspend /\ pc'[c] \in {"rstore", "sstore", "kstore"}
    BY <1>10 DEF NoteLoad
  <2>2. QED
    BY <2>1
<1>11. CASE NoteStore(c)
  <2>1. stat'[c] = Suspend /\ pc'[c] \in {"while", "srecv"}
    BY <1>11 DEF NoteStore
  <2>2. QED
    BY <2>1
<1>12. CASE \/ Recv(c) \/ HandlerReturns(c) \/ SuspendedRecv(c) \/ Again(c) \/ WhileS(c)
            \/ Close(c) \/ LeaveLoad(c) \/ DecStore(c)
  <2>1. /\ UNCHANGED stat
        /\ pc'[c] \in {"data", "eof", "while", "again", "recv", "top", "close", "leave", "decStore",
                       "closed"}
    BY <1>12 DEF Recv, HandlerReturns, SuspendedRecv, Again, SuspendedTarget, WhileS, Close,
                 LeaveLoad, DecStore, Holds, Jump
  <2>2. QED
    BY <2>1
<1>13. QED
  BY <1>1, <1>2, <1>3, <1>4, <1>5, <1>6, <1>7, <1>8, <1>9, <1>10, <1>11, <1>12, NextCases

\* For any number of connections: a suspension that the worker has met, or that was stored
\* while it had no store of its own ahead, stays until the program resumes the connection,
\* as long as the server runs (SXQueue.swift:87-89, 134-187).
THEOREM SettledSuspensionSticksHolds == Spec => SettledSuspensionSticks
<1>1. Init => Control /\ AskedStarted
  BY ControlInit DEF Init, AskedStarted
<1>2. Control /\ AskedStarted /\ [Next]_vars => (Control /\ AskedStarted)'
  BY ControlNext, AskedNext
<1>3. Control /\ AskedStarted /\ [Next]_vars
        => [\A c \in Conns :
              /\ Settled(c) /\ c \in asked' /\ stat[Server] = Running /\ stat'[Server] = Running
              => Settled(c)']_vars
  BY StatusKept
<1>4. QED
  BY <1>1, <1>2, <1>3, PTL DEF Spec, SettledSuspensionSticks

-----------------------------------------------------------------------------
(* A suspended connection is handed data at most once more.                *)

Live == {Running, Resuming}

\* What took effect is remembered until the program takes it back, and until then no
\* status of the object, and none that its worker has in hand, leads back to recv.
HeldOf(o) ==
    /\ o \in Conns =>
         /\ stat[o] \notin Live /\ stat[Server] # Resuming
         /\ pc[o] # "resume"
         /\ pc[o] = "copy" => stat[Server] \notin Live
         /\ pc[o] \in {"rstore", "sstore", "kstore"} => note[o] \notin Live
    /\ o = Server => lpc \notin {"off", "start"} /\ stat[Server] \notin Live

HeldInv ==
    /\ held \subseteq asked
    /\ \A o \in Objects : Settled(o) => o \in held
    /\ \A o \in held : HeldOf(o)

\* What settles is out of reach of any status that leads back to recv.
LEMMA SettledHolds == \A o \in Objects : Settled(o) => HeldOf(o)
  BY StatusesDiffer DEF Settled, HeldOf, Live

\* Only a resume by the program, or the server's start, lets go of an object.
LEMMA HeldKept ==
    ASSUME HeldInv, Next, UNCHANGED stat[Server] \/ stat'[Server] \notin Live,
           NEW o \in held, o \in asked'
    PROVE  o \in held'
  BY Remembers DEF Remember, Roused, Live

LEMMA HeldMoves ==
    ASSUME Control, HeldInv, Next, ~DidStart, ~\E o \in Managed : ResumeObject(o)
    PROVE  held \subseteq held'
<1> USE StatusesDiffer, StatusesDiffer2
    DEF Control, Live, appVars, ListenerMoves, WorkerMoves, Holds, Jump
<1> Server \in Objects /\ Server \notin Conns /\ Conns \subseteq Objects
  BY SwiftServerAssumption DEF Objects
<1>0. ASSUME asked \subseteq asked', UNCHANGED stat[Server] \/ stat'[Server] \notin Live
      PROVE  held \subseteq held'
  BY <1>0, HeldKept DEF HeldInv
<1>1. CASE Start \/ Terminate \/ While \/ Check \/ Stop
  BY <1>0, <1>1 DEF Start, Terminate, While, Check, Stop
<1>2. ASSUME NEW o \in Managed, SuspendObject(o) PROVE held \subseteq held'
  BY <1>0, <1>2 DEF SuspendObject
<1>3. ASSUME NEW c \in Conns,
             \/ Connect(c) \/ Send(c) \/ Hangup(c) \/ Accept(c) \/ Refuse(c) \/ AcceptFails(c)
             \/ WorkerStart(c) \/ Top(c) \/ CopyStatus(c) \/ Switch(c) \/ Resume(c)
      PROVE  held \subseteq held'
  BY <1>0, <1>3 DEF Connect, Send, Hangup, Accept, Refuse, AcceptFails, WorkerStart, Top,
                    CopyStatus, Switch, Resume
<1>4. ASSUME NEW c \in Conns,
             \/ NoteLoad(c) \/ NoteStore(c) \/ Recv(c) \/ HandlerReturns(c) \/ SuspendedRecv(c)
             \/ Again(c) \/ WhileS(c) \/ Close(c) \/ LeaveLoad(c) \/ DecStore(c)
      PROVE  held \subseteq held'
  BY <1>0, <1>4 DEF NoteLoad, NoteStore, Recv, HandlerReturns, SuspendedRecv, Again, WhileS,
                    Close, LeaveLoad, DecStore
<1>5. QED
  BY <1>1, <1>2, <1>3, <1>4, NextCases

\* A step that takes one connection from such a place to another settles nothing.
LEMMA HeldSame ==
    ASSUME Control, HeldInv, Next, UNCHANGED <<stat, note, asked>>,
           lpc' \in {"off", "start"} <=> lpc \in {"off", "start"},
           \A d \in Conns : pc'[d] = pc[d]
                \/ pc[d] \notin {"resume", "copy", "rstore", "sstore", "kstore"}
      PROVE  held' = held
<1>1. \A o \in Objects : Settled(o)' => Settled(o)
  BY DEF Settled, Objects
<1>2. held \subseteq held'
  BY HeldKept DEF HeldInv
<1>3. held' \subseteq held
  BY <1>1, Remembers DEF Remember, HeldInv, Control
<1>4. QED
  BY <1>2, <1>3

\* The server, once its suspension took effect.
LEMMA HeldServer ==
    ASSUME Control, HeldInv, Next, Server \in held, Server \in asked'
    PROVE  HeldOf(Server)'
<1> USE StatusesDiffer, StatusesDiffer2
    DEF Control, Live, Listener, ListenerMoves, WorkerMoves, Holds, Jump
<1> Server \in Objects /\ Server \notin Conns /\ Conns \subseteq Objects
  BY SwiftServerAssumption DEF Objects
<1>a. lpc \notin {"off", "start"} /\ stat[Server] \notin Live /\ Server \in asked
  BY DEF HeldInv, HeldOf
<1>0. ASSUME lpc' \notin {"off", "start"},
             stat'[Server] = stat[Server] \/ stat'[Server] \in {Idle, Suspend, ShouldTerminate}
      PROVE  HeldOf(Server)'
  BY <1>a, <1>0 DEF HeldOf
<1>1. CASE Start \/ Terminate \/ DidStart \/ While \/ Check \/ Stop
  BY <1>a, <1>0, <1>1 DEF Start, Terminate, DidStart, While, Check, Stop
<1>2. ASSUME NEW o \in Managed, SuspendObject(o) \/ ResumeObject(o) PROVE HeldOf(Server)'
  BY <1>a, <1>0, <1>2 DEF SuspendObject, ResumeObject
<1>3. ASSUME NEW c \in Conns,
             \/ Connect(c) \/ Send(c) \/ Hangup(c) \/ Accept(c) \/ Refuse(c) \/ AcceptFails(c)
             \/ WorkerStart(c) \/ Top(c) \/ CopyStatus(c) \/ Switch(c) \/ Resume(c)
      PROVE  HeldOf(Server)'
  BY <1>a, <1>0, <1>3 DEF Connect, Send, Hangup, Accept, Refuse, AcceptFails, WorkerStart, Top,
                          CopyStatus, Switch, Resume
<1>4. ASSUME NEW c \in Conns,
             \/ NoteLoad(c) \/ NoteStore(c) \/ Recv(c) \/ HandlerReturns(c) \/ SuspendedRecv(c)
             \/ Again(c) \/ WhileS(c) \/ Close(c) \/ LeaveLoad(c) \/ DecStore(c)
      PROVE  HeldOf(Server)'
  BY <1>a, <1>0, <1>4 DEF NoteLoad, NoteStore, Recv, HandlerReturns, SuspendedRecv, Again,
                          WhileS, Close, LeaveLoad, DecStore
<1>5. QED
  BY <1>1, <1>2, <1>3, <1>4, NextCases

\* A connection, once its suspension took effect.
LEMMA HeldConn ==
    ASSUME Control, AskedStarted, HeldInv, Next, NEW c \in Conns, c \in held, c \in asked', ~Roused
    PROVE  HeldOf(c)'
<1> USE StatusesDiffer, StatusesDiffer2
    DEF Control, Live, At, Goto, Step, ListenerMoves, WorkerMoves, Holds, Jump, loopVars
<1> /\ Server \in Objects /\ Server \notin Conns /\ Conns \subseteq Objects
    /\ c \in Objects /\ c # Server
  BY SwiftServerAssumption DEF Objects
<1>a. HeldOf(c) /\ c \in asked /\ pc[c] \in Served \cup {"closed"}
  BY DEF HeldInv, AskedStarted
<1>b. stat'[Server] \in Live => stat'[Server] = stat[Server]
  BY DEF Roused
<1>0. ASSUME UNCHANGED <<stat[c], pc[c], note[c]>> PROVE HeldOf(c)'
  BY <1>a, <1>b, <1>0 DEF HeldOf
<1>1. CASE Start \/ Terminate \/ DidStart \/ While \/ Check \/ Stop
  BY <1>0, <1>1 DEF Start, Terminate, DidStart, While, Check, Stop
<1>2. ASSUME NEW o \in Managed, SuspendObject(o) \/ ResumeObject(o) PROVE HeldOf(c)'
  BY <1>a, <1>0, <1>2 DEF SuspendObject, ResumeObject
<1>3. ASSUME NEW d \in Conns, Send(d) \/ Hangup(d) PROVE HeldOf(c)'
  BY <1>0, <1>3 DEF Send, Hangup
\* Steps of another connection.
<1>4. ASSUME NEW d \in Conns, d # c,
             \/ Connect(d) \/ Accept(d) \/ Refuse(d) \/ AcceptFails(d)
             \/ WorkerStart(d) \/ Top(d) \/ CopyStatus(d) \/ Switch(d) \/ Resume(d)
      PROVE  HeldOf(c)'
  BY <1>0, <1>4 DEF Connect, Accept, Refuse, AcceptFails, WorkerStart, Top, CopyStatus, Switch,
                    Resume
<1>5. ASSUME NEW d \in Conns, d # c,
             \/ NoteLoad(d) \/ NoteStore(d) \/ Recv(d) \/ HandlerReturns(d) \/ SuspendedRecv(d)
             \/ Again(d) \/ WhileS(d) \/ Close(d) \/ LeaveLoad(d) \/ DecStore(d)
      PROVE  HeldOf(c)'
  BY <1>0, <1>5 DEF NoteLoad, NoteStore, Recv, HandlerReturns, SuspendedRecv, Again, WhileS,
                    Close, LeaveLoad, DecStore
\* Its own: a connection that has started is not accepted or started again ...
<1>6. ASSUME Connect(c) \/ Accept(c) \/ Refuse(c) \/ AcceptFails(c) \/ WorkerStart(c) PROVE FALSE
  BY <1>a, <1>6 DEF Connect, Accept, Refuse, AcceptFails, WorkerStart, Served, LoopPc
\* ... and what the worker copies, reads and stores does not lead to recv.
<1>7. CASE Top(c)
  BY <1>a, <1>7 DEF Top, HeldOf
<1>8. CASE CopyStatus(c)
  BY <1>a, <1>8 DEF CopyStatus, HeldOf
<1>9. CASE Switch(c)
  <2>1. pc'[c] \in {"srecv", "snote", "knote"} /\ UNCHANGED <<stat, note>>
    BY <1>a, <1>9 DEF Switch, Branch, HeldOf
  <2>2. QED
    BY <1>a, <2>1 DEF HeldOf
<1>10. ASSUME Resume(c) PROVE FALSE
  BY <1>a, <1>10 DEF Resume, HeldOf
<1>11. CASE NoteLoad(c)
  <2>1. stat' = stat /\ note'[c] = stat[c] /\ pc'[c] \in {"rstore", "sstore", "kstore"}
    BY <1>11 DEF NoteLoad
  <2>2. QED
    BY <1>a, <2>1 DEF HeldOf
<1>12. CASE NoteStore(c)
  <2>1. /\ stat'[c] = note[c] /\ stat'[Server] = stat[Server] /\ pc'[c] \in {"while", "srecv"}
        /\ pc[c] \in {"rstore", "sstore", "kstore"}
    BY <1>12 DEF NoteStore
  <2>2. QED
    BY <1>a, <2>1 DEF HeldOf
<1>13. CASE \/ Recv(c) \/ HandlerReturns(c) \/ SuspendedRecv(c) \/ Again(c) \/ WhileS(c)
            \/ Close(c) \/ LeaveLoad(c) \/ DecStore(c)
  <2>1. /\ UNCHANGED stat
        /\ pc'[c] \in {"data", "eof", "while", "again", "recv", "top", "close", "leave", "decStore",
                       "closed"}
    BY <1>13 DEF Recv, HandlerReturns, SuspendedRecv, Again, SuspendedTarget, WhileS, Close,
                 LeaveLoad, DecStore
  <2>2. QED
    BY <1>a, <2>1 DEF HeldOf
<1>14. QED
  BY <1>1, <1>2, <1>3, <1>4, <1>5, <1>6, <1>7, <1>8, <1>9, <1>10, <1>11, <1>12, <1>13, NextCases

LEMMA HeldInit == Init => HeldInv
<1> SUFFICES ASSUME Init PROVE HeldInv
  OBVIOUS
<1>1. held = {} /\ asked = {}
  BY DEF Init
<1>2. QED
  BY <1>1 DEF HeldInv, Settled

LEMMA HeldNext == Control /\ AskedStarted /\ HeldInv /\ [Next]_vars => HeldInv'
<1> SUFFICES ASSUME Control, AskedStarted, HeldInv, [Next]_vars PROVE HeldInv'
  OBVIOUS
<1>1. CASE UNCHANGED vars
  BY <1>1 DEF vars, HeldInv, HeldOf, Settled
<1>2. CASE Next
  <2>1. /\ held' \subseteq asked'
        /\ \A o \in asked' : Settled(o)' => o \in held'
        /\ \A o \in held' : Settled(o)' \/ (o \in held /\ o \in asked' /\ (o = Server \/ ~Roused))
    BY <1>2, Remembers DEF Remember
  <2>2. \A o \in Objects : Settled(o)' => o \in held'
    BY <2>1 DEF Settled
  <2>3. held' \subseteq Objects
    BY <1>2, <2>1, ControlNext DEF Control
  <2>4. ASSUME NEW o \in held' PROVE HeldOf(o)'
    <3>1. CASE Settled(o)'
      <4>1. (\A u \in Objects : Settled(u) => HeldOf(u))'
        BY StatusesDiffer DEF Settled, HeldOf, Live
      <4>2. QED
        BY <2>3, <3>1, <4>1
    <3>2. CASE o = Server /\ o \in held /\ o \in asked'
      BY <1>2, <3>2, HeldServer
    <3>3. CASE o \in Conns /\ o \in held /\ o \in asked' /\ ~Roused
      BY <1>2, <3>3, HeldConn
    <3>4. QED
      BY <2>1, <2>3, <3>1, <3>2, <3>3 DEF Objects
  <2>5. QED
    BY <2>1, <2>2, <2>4 DEF HeldInv
<1>3. QED
  BY <1>1, <1>2

\* A call has been made since the suspension took effect.  The block is not in recv, and
\* where it goes by a status, or is about to store one, that status does not lead there;
\* a connection that is quiet for its server's sake copies the server's status.
LatePlace(c) ==
    /\ lpc \in {"off", "start"} => pc[c] = "new"
    /\ late[c] = 1 =>
         /\ pc[c] \notin Before \cup {"refused", "dropped", "recv"}
         /\ pc[c] = "switch" => stat[c] # Running
         /\ pc[c] \in {"snote", "srecv", "again"} => stat[c] \notin Live
         /\ pc[c] = "sstore" => note[c] \notin Live

LateOf(c) == LatePlace(c) /\ (late[c] = 1 => Quiet(c))

LateInv == late \in [Conns -> {0, 1}] /\ \A c \in Conns : LateOf(c)

LEMMA LateInit == Init => LateInv
  BY DEF Init, LateInv, LateOf, LatePlace

\* Data are handed to a connection where no call is counted.
LEMMA Calls ==
    ASSUME NEW c \in Conns, LateOf(c), late[c] \in {0, 1}, Recv(c)
    PROVE  /\ pc[c] = "recv" /\ late[c] = 0 /\ UNCHANGED <<stat, note, lpc>>
           /\ \/ Goto(c, "while") /\ UNCHANGED late
              \/ /\ Goto(c, "data") \/ Goto(c, "eof")
                 /\ late' = [late EXCEPT ![c] = IF Quiet(c) THEN @ + 1 ELSE @]
  BY DEF Recv, Holds, WorkerMoves, At, LateOf, LatePlace

\* Calls are counted in recv only.
LEMMA LateMoves ==
    ASSUME LateInv, Next, NEW d \in Conns
    PROVE  late'[d] = late[d] \/ Recv(d) \/ \E o \in Managed : ResumeObject(o)
<1> USE DEF ListenerMoves, Holds, Jump
<1>1. CASE Start \/ Terminate \/ DidStart \/ While \/ Check \/ Stop
  BY <1>1 DEF Start, Terminate, DidStart, While, Check, Stop
<1>2. ASSUME NEW o \in Managed, SuspendObject(o) PROVE UNCHANGED late
  BY <1>2 DEF SuspendObject
<1>3. ASSUME NEW c \in Conns, c # d, Recv(c) PROVE late'[d] = late[d]
  BY <1>3, Calls DEF LateInv
<1>4. ASSUME NEW c \in Conns,
             \/ Connect(c) \/ Send(c) \/ Hangup(c) \/ Accept(c) \/ Refuse(c) \/ AcceptFails(c)
             \/ WorkerStart(c) \/ Top(c) \/ CopyStatus(c) \/ Switch(c) \/ Resume(c)
      PROVE  UNCHANGED late
  BY <1>4 DEF Connect, Send, Hangup, Accept, Refuse, AcceptFails, WorkerStart, Top, CopyStatus,
              Switch, Resume
<1>5. ASSUME NEW c \in Conns,
             \/ NoteLoad(c) \/ NoteStore(c) \/ HandlerReturns(c) \/ SuspendedRecv(c) \/ Again(c)
             \/ WhileS(c) \/ Close(c) \/ LeaveLoad(c) \/ DecStore(c)
      PROVE  UNCHANGED late
  BY <1>5 DEF NoteLoad, NoteStore, HandlerReturns, SuspendedRecv, Again, WhileS, Close,
              LeaveLoad, DecStore
<1>6. QED
  BY <1>1, <1>2, <1>3, <1>4, <1>5, NextCases

LEMMA LateMap == ASSUME LateInv, Next PROVE late' \in [Conns -> {0, 1}]
<1> USE DEF ListenerMoves, Holds, Jump
<1>1. CASE Start \/ Terminate \/ DidStart \/ While \/ Check \/ Stop
  BY <1>1 DEF Start, Terminate, DidStart, While, Check, Stop, LateInv
<1>2. ASSUME NEW o \in Managed, SuspendObject(o) \/ ResumeObject(o)
      PROVE  late' \in [Conns -> {0, 1}]
  BY <1>2 DEF SuspendObject, ResumeObject, LateInv
<1>3. ASSUME NEW c \in Conns, Recv(c) PROVE late' \in [Conns -> {0, 1}]
  BY <1>3, Calls DEF LateInv
<1>4. ASSUME NEW c \in Conns,
             \/ Connect(c) \/ Send(c) \/ Hangup(c) \/ Accept(c) \/ Refuse(c) \/ AcceptFails(c)
             \/ WorkerStart(c) \/ Top(c) \/ CopyStatus(c) \/ Switch(c) \/ Resume(c)
      PROVE  UNCHANGED late
  BY <1>4 DEF Connect, Send, Hangup, Accept, Refuse, AcceptFails, WorkerStart, Top, CopyStatus,
              Switch, Resume
<1>5. ASSUME NEW c \in Conns,
             \/ NoteLoad(c) \/ NoteStore(c) \/ HandlerReturns(c) \/ SuspendedRecv(c) \/ Again(c)
             \/ WhileS(c) \/ Close(c) \/ LeaveLoad(c) \/ DecStore(c)
      PROVE  UNCHANGED late
  BY <1>5 DEF NoteLoad, NoteStore, HandlerReturns, SuspendedRecv, Again, WhileS, Close,
              LeaveLoad, DecStore
<1>6. QED
  BY <1>1, <1>2, <1>3, <1>4, <1>5, NextCases DEF LateInv

LEMMA LatePlaceNext ==
    ASSUME Control, HeldInv, LateInv, Next, NEW d \in Conns
    PROVE  LatePlace(d)'
<1> USE StatusesDiffer, StatusesDiffer2
    DEF Control, Live, At, Goto, Step, Listener, ListenerMoves, WorkerMoves, Holds, Jump, loopVars
<1> /\ Server \in Objects /\ Server \notin Conns /\ Conns \subseteq Objects
    /\ d \in Objects /\ d # Server
  BY SwiftServerAssumption DEF Objects
<1>a. LatePlace(d) /\ late[d] \in {0, 1}
  BY DEF LateInv, LateOf
\* The status that keeps it quiet is its own, or its server's.
<1>b. late[d] = 1 =>
         \/ stat[d] \notin Live /\ (pc[d] = "copy" => stat[Server] \notin Live)
         \/ stat[Server] \notin Live
  <2>1. late[d] = 1 => d \in held \/ Server \in held
    BY DEF LateInv, LateOf, Quiet
  <2>2. d \in held => stat[d] \notin Live /\ (pc[d] = "copy" => stat[Server] \notin Live)
    BY DEF HeldInv, HeldOf
  <2>3. Server \in held => stat[Server] \notin Live
    BY DEF HeldInv, HeldOf
  <2>4. QED
    BY <2>1, <2>2, <2>3
<1>0. ASSUME UNCHANGED <<pc[d], stat[d], note[d], late[d]>>,
             lpc' \in {"off", "start"} => lpc \in {"off", "start"}
      PROVE  LatePlace(d)'
  BY <1>a, <1>0 DEF LatePlace
<1>1. CASE Start \/ Terminate \/ While \/ Check \/ Stop
  BY <1>0, <1>1 DEF Start, Terminate, While, Check, Stop
<1>2. CASE DidStart
  <2>1. lpc = "start" /\ lpc' = "while" /\ UNCHANGED <<pc, late>>
    BY <1>2 DEF DidStart
  <2>2. QED
    BY <1>a, <2>1 DEF LatePlace, Before
<1>3. ASSUME NEW o \in Managed, SuspendObject(o) PROVE LatePlace(d)'
  <2>1. /\ UNCHANGED <<pc, note, late, lpc>> /\ stat' = [stat EXCEPT ![o] = Suspend]
    BY <1>3 DEF SuspendObject
  <2>2. stat'[d] \in {stat[d], Suspend} /\ stat'[Server] \in {stat[Server], Suspend}
    BY <2>1
  <2>3. QED
    BY <1>a, <2>1, <2>2 DEF LatePlace
<1>4. ASSUME NEW o \in Managed, ResumeObject(o) PROVE LatePlace(d)'
  <2>1. /\ UNCHANGED <<pc, note, lpc>> /\ \E st : stat' = [stat EXCEPT ![o] = st]
        /\ late' = [c \in Conns |-> IF o \in {c, Server} THEN 0 ELSE late[c]]
    BY <1>4 DEF ResumeObject
  <2>2. CASE o \in {d, Server}
    BY <1>a, <2>1, <2>2 DEF LatePlace
  <2>3. CASE o \notin {d, Server}
    BY <1>0, <2>1, <2>3
  <2>4. QED
    BY <2>2, <2>3
<1>5. ASSUME NEW c \in Conns, Send(c) \/ Hangup(c) PROVE LatePlace(d)'
  BY <1>0, <1>5 DEF Send, Hangup
\* Steps of another connection.
<1>6. ASSUME NEW c \in Conns, c # d,
             \/ Connect(c) \/ Accept(c) \/ Refuse(c) \/ AcceptFails(c)
             \/ WorkerStart(c) \/ Top(c) \/ CopyStatus(c) \/ Switch(c) \/ Resume(c)
      PROVE  LatePlace(d)'
  BY <1>0, <1>6 DEF Connect, Accept, Refuse, AcceptFails, WorkerStart, Top, CopyStatus, Switch,
                    Resume
<1>7. ASSUME NEW c \in Conns, c # d,
             \/ NoteLoad(c) \/ NoteStore(c) \/ Recv(c) \/ HandlerReturns(c) \/ SuspendedRecv(c)
             \/ Again(c) \/ WhileS(c) \/ Close(c) \/ LeaveLoad(c) \/ DecStore(c)
      PROVE  LatePlace(d)'
  <2>1. CASE NoteLoad(c) \/ NoteStore(c) \/ SuspendedRecv(c) \/ Again(c) \/ WhileS(c)
    BY <1>0, <1>7, <2>1 DEF NoteLoad, NoteStore, SuspendedRecv, Again, WhileS
  <2>2. CASE Recv(c) \/ HandlerReturns(c)
    <3>1. UNCHANGED <<lpc, stat, note>>
      BY <2>2 DEF Recv, HandlerReturns
    <3>2. \E l : pc' = [pc EXCEPT ![c] = l]
      BY <2>2 DEF Recv, HandlerReturns
    <3>3. late' = late \/ \E n : late' = [late EXCEPT ![c] = n]
      BY <2>2, Zenon DEF Recv, HandlerReturns
    <3>4. pc'[d] = pc[d] /\ late'[d] = late[d]
      <4>1. pc'[d] = pc[d]
        BY <1>7, <3>2
      <4>2. CASE late' = late
        BY <4>1, <4>2
      <4>3. ASSUME NEW n, late' = [late EXCEPT ![c] = n] PROVE late'[d] = late[d]
        BY <1>7, <4>3 DEF LateInv
      <4>4. QED
        BY <3>3, <4>1, <4>2, <4>3
    <3>5. QED
      BY <1>a, <3>1, <3>4 DEF LatePlace
  <2>3. CASE Close(c) \/ LeaveLoad(c) \/ DecStore(c)
    BY <1>0, <1>7, <2>3 DEF Close, LeaveLoad, DecStore
  <2>4. QED
    BY <1>7, <2>1, <2>2, <2>3
\* Its own, before data can have been handed to it ...
<1>8. CASE Connect(d) \/ Accept(d) \/ Refuse(d) \/ AcceptFails(d) \/ WorkerStart(d)
  <2>1. /\ pc[d] \in Before /\ UNCHANGED late
        /\ lpc' \notin {"off", "start"} \/ (pc[d] = "queued" /\ UNCHANGED lpc)
    BY <1>8 DEF Connect, Accept, Refuse, AcceptFails, WorkerStart, Before
  <2>2. QED
    BY <1>a, <2>1 DEF LatePlace
\* ... and in the loop.
<1>9. CASE Top(d)
  <2>1. /\ UNCHANGED <<stat, note, late, lpc>> /\ pc[d] = "top"
        /\ pc'[d] = IF stat[Server] = Running THEN "switch" ELSE "copy"
    BY <1>9 DEF Top
  <2>2. QED
    BY <1>a, <1>b, <2>1 DEF LatePlace, Before
<1>10. CASE CopyStatus(d)
  <2>1. /\ UNCHANGED <<note, late, lpc>> /\ pc[d] = "copy" /\ pc'[d] = "switch"
        /\ stat'[d] = stat[Server] /\ stat'[Server] = stat[Server]
    BY <1>10 DEF CopyStatus
  <2>2. QED
    BY <1>a, <1>b, <2>1 DEF LatePlace, Before
<1>11. CASE Switch(d)
  <2>1. /\ UNCHANGED <<stat, note, late, lpc>> /\ pc[d] = "switch"
        /\ pc'[d] \in {"recv", "resume", "srecv", "snote", "knote"}
        /\ stat[d] # Running => pc'[d] # "recv"
        /\ stat[d] = Suspend => pc'[d] \in {"srecv", "snote"}
        /\ stat[d] # Suspend => pc'[d] \notin {"srecv", "snote"}
    BY <1>11 DEF Switch, Branch
  <2>2. QED
    BY <1>a, <2>1 DEF LatePlace, Before
<1>12. CASE Resume(d)
  <2>1. /\ UNCHANGED <<note, late, lpc>> /\ pc[d] = "resume" /\ pc'[d] = "rnote"
        /\ stat'[Server] = stat[Server]
    BY <1>12 DEF Resume
  <2>2. QED
    BY <1>a, <2>1 DEF LatePlace, Before
<1>13. CASE NoteLoad(d)
  <2>1. /\ UNCHANGED <<stat, late, lpc>> /\ note'[d] = stat[d]
        /\ \/ pc[d] = "rnote" /\ pc'[d] = "rstore"
           \/ pc[d] = "snote" /\ pc'[d] = "sstore"
           \/ pc[d] = "knote" /\ pc'[d] = "kstore"
    BY <1>13 DEF NoteLoad
  <2>2. QED
    BY <1>a, <2>1 DEF LatePlace, Before
<1>14. CASE NoteStore(d)
  <2>1. /\ UNCHANGED <<note, late, lpc>> /\ stat'[d] = note[d] /\ stat'[Server] = stat[Server]
        /\ \/ pc[d] \in {"rstore", "kstore"} /\ pc'[d] = "while"
           \/ pc[d] = "sstore" /\ pc'[d] = "srecv"
    BY <1>14 DEF NoteStore
  <2>2. QED
    BY <1>a, <2>1 DEF LatePlace, Before
<1>15. CASE Recv(d)
  <2>1. /\ pc[d] = "recv" /\ UNCHANGED <<stat, note, lpc>> /\ late[d] = 0
        /\ \/ pc'[d] = "while" /\ UNCHANGED late
           \/ pc'[d] \in {"data", "eof"} /\ late'[d] = IF Quiet(d) THEN 1 ELSE 0
    BY <1>a, <1>15, Calls DEF LateInv
  <2>2. QED
    BY <1>a, <2>1 DEF LatePlace, Before, Quiet
<1>16. CASE HandlerReturns(d) \/ SuspendedRecv(d) \/ WhileS(d)
  <2>1. /\ UNCHANGED <<stat, note, late, lpc>>
        /\ \/ pc[d] \in {"data", "eof"} /\ pc'[d] = "while"
           \/ pc[d] = "srecv" /\ pc'[d] = "again"
           \/ pc[d] = "while" /\ pc'[d] \in {"top", "close"}
    BY <1>16 DEF HandlerReturns, SuspendedRecv, WhileS
  <2>2. QED
    BY <1>a, <2>1 DEF LatePlace, Before
<1>17. CASE Again(d)
  <2>1. /\ UNCHANGED <<stat, note, late, lpc>> /\ pc[d] = "again"
        /\ pc'[d] \in {"recv", "while"} /\ (stat[d] \notin Live => pc'[d] = "while")
    BY <1>17 DEF Again, SuspendedTarget
  <2>2. QED
    BY <1>a, <2>1 DEF LatePlace, Before
<1>18. CASE Close(d) \/ LeaveLoad(d) \/ DecStore(d)
  <2>1. /\ UNCHANGED <<stat, note, late, lpc>>
        /\ pc[d] \in {"close", "leave", "decStore"} /\ pc'[d] \in {"leave", "decStore", "closed"}
    BY <1>18 DEF Close, LeaveLoad, DecStore
  <2>2. QED
    BY <1>a, <2>1 DEF LatePlace, Before
<1>19. QED
  BY <1>1, <1>2, <1>3, <1>4, <1>5, <1>6, <1>7, <1>8, <1>9, <1>10, <1>11, <1>12, <1>13, <1>14,
     <1>15, <1>16, <1>17, <1>18, NextCases

LEMMA QuietKept ==
    ASSUME Control, HeldInv, LateInv, Next, NEW d \in Conns, late'[d] = 1
    PROVE  Quiet(d)'
<1> USE DEF Control
<1>1. ASSUME Recv(d) PROVE Quiet(d)
  <2>1. late[d] = 0 /\ (late' = late \/ late' = [late EXCEPT ![d] = IF Quiet(d) THEN @ + 1 ELSE @])
    BY <1>1, Calls DEF LateInv
  <2>2. QED
    BY <2>1 DEF LateInv
<1>2. ASSUME late[d] = 1 PROVE Quiet(d)
  BY <1>2 DEF LateInv, LateOf
<1>3. ASSUME NEW o \in Managed, ResumeObject(o) PROVE Quiet(d)'
  <2>1. /\ o \notin {d, Server} /\ late[d] = 1
    BY <1>3 DEF ResumeObject, LateInv
  <2>2. asked' = asked \ {o} /\ UNCHANGED stat[Server]
    BY <1>3, <2>1, SwiftServerAssumption DEF ResumeObject, Objects
  <2>3. \A u \in held \cap {d, Server} : u \in asked'
    BY <2>1, <2>2 DEF HeldInv
  <2>4. \A u \in held \cap {d, Server} : u \in held'
    BY <2>2, <2>3, HeldKept
  <2>5. QED
    BY <1>2, <2>1, <2>4 DEF Quiet
<1>4. ASSUME DidStart PROVE FALSE
  <2>1. UNCHANGED late /\ lpc = "start"
    BY <1>4 DEF DidStart, ListenerMoves, Listener
  <2>2. QED
    BY <2>1 DEF LateInv, LateOf, LatePlace, Before
<1>5. ASSUME Quiet(d), held \subseteq held' PROVE Quiet(d)'
  BY <1>5 DEF Quiet
<1>6. ASSUME ~\E o \in Managed : ResumeObject(o) PROVE Quiet(d)
  <2>1. CASE late[d] = 1
    BY <1>2, <2>1
  <2>2. CASE late'[d] # late[d]
    BY <1>1, <1>6, <2>2, LateMoves
  <2>3. QED
    BY <2>1, <2>2
<1>7. QED
  BY <1>3, <1>4, <1>5, <1>6, HeldMoves

LEMMA LateNext == Control /\ HeldInv /\ LateInv /\ [Next]_vars => LateInv'
<1> SUFFICES ASSUME Control, HeldInv, LateInv, [Next]_vars PROVE LateInv'
  OBVIOUS
<1>1. CASE UNCHANGED vars
  BY <1>1 DEF vars, LateInv, LateOf, LatePlace, Quiet
<1>2. CASE Next
  BY <1>2, LateMap, LatePlaceNext, QuietKept DEF LateInv, LateOf
<1>3. QED
  BY <1>1, <1>2

LifeInv == Control /\ AskedStarted /\ HeldInv /\ LateInv

LEMMA LifeInit == Init => LifeInv
  BY ControlInit, HeldInit, LateInit DEF Init, AskedStarted, LifeInv

LEMMA LifeNext == LifeInv /\ [Next]_vars => LifeInv'
  BY ControlNext, AskedNext, HeldNext, LateNext DEF LifeInv

-----------------------------------------------------------------------------
(* The remaining types: the accept loop, the locals, what is on the        *)
(* network, and whom the program knows.                                    *)

ListenerPc == {"off", "start", "while", "check", "accept", "stop", "done", "failed"}

DataOK == /\ maxGuest \in Limits /\ lpc \in ListenerPc /\ known \subseteq Conns
          /\ s \in [Conns -> {0, 1}] /\ suspended \in [Conns -> BOOLEAN]
          /\ inbox \in [Conns -> 0..MaxUnread]
          /\ peer \in [Conns -> {"open", "fin", "rst"}]

LEMMA ReadInbox ==
    ASSUME DataOK, NEW c \in Conns, Read(c) PROVE inbox' \in [Conns -> 0..MaxUnread]
<1>1. inbox[c] - 1 \in 0..MaxUnread
  BY SwiftServerAssumption DEF DataOK, Read
<1>2. QED
  BY <1>1 DEF DataOK, Read

LEMMA DataNext == DataOK /\ [Next]_vars => DataOK'
<1> SUFFICES ASSUME DataOK, [Next]_vars PROVE DataOK'
  OBVIOUS
<1> USE DEF loopVars, countVars, appVars, netVars, ListenerMoves, WorkerMoves, Holds, Jump
<1>1. CASE UNCHANGED vars
  BY <1>1 DEF vars, DataOK
<1>2. ASSUME lpc' \in ListenerPc, UNCHANGED <<maxGuest, known, s, suspended, inbox, peer>>
      PROVE  DataOK'
  BY <1>2 DEF DataOK
<1>3. lpc \in ListenerPc
  BY DEF DataOK
<1>4. CASE Start \/ Terminate \/ DidStart \/ While \/ Check \/ Stop
  BY <1>2, <1>3, <1>4
     DEF Start, Terminate, DidStart, While, Check, Stop, Listener, ListenerPc
<1>5. ASSUME NEW o \in Managed, SuspendObject(o) \/ ResumeObject(o) PROVE DataOK'
  BY <1>2, <1>3, <1>5 DEF SuspendObject, ResumeObject
<1>6. ASSUME NEW c \in Conns, Connect(c) \/ Accept(c) \/ Refuse(c) \/ AcceptFails(c) PROVE DataOK'
  BY <1>2, <1>3, <1>6 DEF Connect, Accept, Refuse, AcceptFails, Listener, ListenerPc
<1>7. ASSUME NEW c \in Conns, Send(c) \/ Hangup(c) PROVE DataOK'
  BY <1>7, SwiftServerAssumption DEF Send, Hangup, DataOK
<1>8. ASSUME NEW c \in Conns,
             \/ WorkerStart(c) \/ Top(c) \/ CopyStatus(c) \/ Resume(c) \/ NoteLoad(c)
             \/ NoteStore(c) \/ WhileS(c) \/ Close(c) \/ LeaveLoad(c) \/ DecStore(c)
      PROVE  DataOK'
  BY <1>2, <1>3, <1>8 DEF WorkerStart, Top, CopyStatus, Resume, NoteLoad, NoteStore, WhileS,
                          Close, LeaveLoad, DecStore
<1>9. ASSUME NEW c \in Conns, Switch(c) PROVE DataOK'
  <2>1. suspended' \in [Conns -> BOOLEAN]
    BY <1>9, Zenon DEF Switch, DataOK
  <2>2. UNCHANGED <<maxGuest, lpc, known, s, inbox, peer>>
    BY <1>9 DEF Switch
  <2>3. QED
    BY <2>1, <2>2 DEF DataOK
<1>10. ASSUME NEW c \in Conns, Recv(c) \/ SuspendedRecv(c) PROVE DataOK'
  <2>1. inbox' \in [Conns -> 0..MaxUnread]
    BY <1>10, ReadInbox DEF Recv, SuspendedRecv, AtEof, Broken, DataOK
  <2>2. /\ UNCHANGED <<maxGuest, lpc, known, suspended, peer>>
        /\ UNCHANGED s \/ s' = [s EXCEPT ![c] = 0]
    BY <1>10 DEF Recv, SuspendedRecv
  <2>3. QED
    BY <2>1, <2>2 DEF DataOK
<1>11. ASSUME NEW c \in Conns, HandlerReturns(c) \/ Again(c) PROVE DataOK'
  BY <1>11 DEF HandlerReturns, Again, DataOK
<1>12. QED
  BY <1>1, <1>4, <1>5, <1>6, <1>7, <1>8, <1>9, <1>10, <1>11, NextCases

\* In every reachable state every variable has its type; that late is 0 or 1 is half of
\* what ConnLife promises.
THEOREM TypeCorrect == Spec => []TypeOK
<1>1. Init => DataOK
  BY SwiftServerAssumption DEF Init, DataOK, ListenerPc
<1>2. Spec => [](DataOK /\ LifeInv)
  BY <1>1, DataNext, LifeInit, LifeNext, PTL DEF Spec
<1>3. DataOK /\ LifeInv => TypeOK
  BY DEF TypeOK, LifeInv, Control, HeldInv, LateInv, DataOK, ListenerPc
<1>4. QED
  BY <1>2, <1>3, PTL

-----------------------------------------------------------------------------
(* SwiftServer implements ConnLife.                                        *)

InHandler(c) == pc[c] \in {"data", "eof"}

SamePhase    == \A c \in Conns : Phase(c)' = Phase(c)
SameHandling == \A c \in Conns : InHandler(c)' = InHandler(c)
SameQuiet    == \A c \in Conns : Quiet(c)' = Quiet(c)

LivePc == LoopPc \cup {"queued", "close"}

\* What a reader of ConnLife sees at each place, before and after a step.
LEMMA Phases ==
    ASSUME NEW c
    PROVE  /\ pc[c] = "new" => Phase(c) = "none"
           /\ pc[c] = "backlog" => Phase(c) = "pending"
           /\ pc[c] \in {"refused", "dropped"} => Phase(c) = "refused"
           /\ pc[c] \in LivePc => Phase(c) = "live"
           /\ pc[c] \in {"leave", "decStore", "closed"} => Phase(c) = "down"
  BY DEF Phase, LivePc, LoopPc

LEMMA PhasesNext ==
    ASSUME NEW c
    PROVE  /\ pc'[c] = "backlog" => Phase(c)' = "pending"
           /\ pc'[c] \in {"refused", "dropped"} => Phase(c)' = "refused"
           /\ pc'[c] \in LivePc => Phase(c)' = "live"
           /\ pc'[c] \in {"leave", "decStore", "closed"} => Phase(c)' = "down"
  BY DEF Phase, LivePc, LoopPc

LEMMA Still ==
    ASSUME NEW c, pc'[c] = pc[c]
    PROVE  Phase(c)' = Phase(c) /\ InHandler(c)' = InHandler(c)
<1>1. InHandler(c)' = InHandler(c)
  BY DEF InHandler
<1>2. Phase(c)' = Phase(c)
  BY DEF Phase
<1>3. QED
  BY <1>1, <1>2

\* Any number of statuses change, or none, and nobody gains a call.
LEMMA Hushes ==
    ASSUME SamePhase, SameHandling, UNCHANGED late
    PROVE  Life!Next
<1> DEFINE S == {c \in Conns : Quiet(c)'}
<1>1. [c \in Conns |-> Quiet(c)]' = [c \in Conns |-> c \in S]
  BY DEF Quiet
<1>2. Life!Hush(S)
  BY <1>1, Zenon DEF Life!Hush, SamePhase, SameHandling, InHandler
<1>3. \E T \in SUBSET Conns : Life!Hush(T)
  BY <1>2, Zenon
<1>4. QED
  BY <1>3 DEF Life!Next

LEMMA Becomes ==
    ASSUME NEW c \in Conns, NEW from, NEW to, Phase(c) = from, Phase(c)' = to,
           \A d \in Conns \ {c} : Phase(d)' = Phase(d),
           SameHandling, SameQuiet, UNCHANGED late
    PROVE  Life!Becomes(c, from, to)
<1>1. [d \in Conns |-> Phase(d)]' = [[d \in Conns |-> Phase(d)] EXCEPT ![c] = to]
  OBVIOUS
<1>2. UNCHANGED <<[d \in Conns |-> InHandler(d)], [d \in Conns |-> Quiet(d)],
                  [d \in Conns |-> 1 - late[d]]>>
  BY Zenon DEF SameHandling, SameQuiet
<1>3. [d \in Conns |-> Phase(d)][c] = from
  OBVIOUS
<1>4. QED
  BY <1>1, <1>2, <1>3, Zenon DEF Life!Becomes, InHandler

LEMMA InitImplements == Init => Life!Init
<1> SUFFICES ASSUME Init PROVE Life!Init
  OBVIOUS
<1>1. held = {} /\ \A c \in Conns : pc[c] = "new" /\ late[c] = 0
  BY DEF Init
<1>2. [c \in Conns |-> Phase(c)] = [c \in Conns |-> "none"]
  BY <1>1, Phases
<1>3. [c \in Conns |-> pc[c] \in {"data", "eof"}] = [c \in Conns |-> FALSE]
  <2>1. \A c \in Conns : (pc[c] \in {"data", "eof"}) = FALSE
    BY <1>1
  <2>2. QED
    BY <2>1, Zenon
<1>4. [c \in Conns |-> Quiet(c)] = [c \in Conns |-> FALSE]
  <2>1. \A c \in Conns : Quiet(c) = FALSE
    BY <1>1 DEF Quiet
  <2>2. QED
    BY <2>1, Zenon
<1>5. [c \in Conns |-> 1 - late[c]] = [c \in Conns |-> 1]
  BY <1>1
<1>6. QED
  BY <1>2, <1>3, <1>4, <1>5, Zenon DEF Life!Init

\* Data are handed on, or the block learns that there are none to come.
LEMMA Receives ==
    ASSUME LifeInv, Next, NEW c \in Conns, Recv(c)
    PROVE  Life!Next
<1>0. /\ pc \in [Conns -> ConnPc] /\ late \in [Conns -> {0, 1}]
      /\ pc[c] = "recv" /\ late[c] = 0 /\ UNCHANGED stat
      /\ \/ pc' = [pc EXCEPT ![c] = "while"] /\ UNCHANGED late
         \/ /\ pc' = [pc EXCEPT ![c] = "data"] \/ pc' = [pc EXCEPT ![c] = "eof"]
            /\ late' = [late EXCEPT ![c] = IF Quiet(c) THEN @ + 1 ELSE @]
  BY Calls DEF LifeInv, LateInv, Control, Goto
<1>q. UNCHANGED held
  <2>1. UNCHANGED <<stat, note, asked, lpc>> /\ \A d \in Conns : d # c => pc'[d] = pc[d]
    BY <1>0 DEF Recv, Holds, WorkerMoves, appVars
  <2>2. QED
    BY <1>0, <2>1, HeldSame DEF LifeInv
<1>1. pc'[c] \in {"while", "data", "eof"} /\ \A d \in Conns \ {c} : pc'[d] = pc[d]
  BY <1>0
<1>2. Phase(c) = "live" /\ Phase(c)' = "live"
  BY <1>0, <1>1, Phases, PhasesNext DEF LivePc, LoopPc
<1>3. SamePhase
  BY <1>1, <1>2, Still DEF SamePhase
<1>4. CASE pc'[c] = "while"
  <2>1. UNCHANGED late
    BY <1>0, <1>4
  <2>2. SameHandling
    BY <1>0, <1>1, <1>4 DEF SameHandling, InHandler
  <2>3. QED
    BY <1>3, <2>1, <2>2, Hushes
<1>5. CASE pc'[c] \in {"data", "eof"}
  <2>1. [d \in Conns |-> InHandler(d)]' = [[d \in Conns |-> InHandler(d)] EXCEPT ![c] = TRUE]
    <3>1. InHandler(c)' = TRUE /\ \A d \in Conns \ {c} : InHandler(d)' = InHandler(d)
      BY <1>1, <1>5 DEF InHandler
    <3>2. QED
      BY <3>1
  <2>2. UNCHANGED <<[d \in Conns |-> Phase(d)], [d \in Conns |-> Quiet(d)]>>
    BY <1>q, <1>3, Zenon DEF SamePhase, Quiet
  <2>3. [d \in Conns |-> InHandler(d)][c] = FALSE
    <3>1. InHandler(c) = FALSE
      BY <1>0 DEF InHandler
    <3>2. QED
      BY <3>1, Zenon
  <2>4. /\ [d \in Conns |-> Phase(d)][c] = "live"
        /\ [d \in Conns |-> Quiet(d)][c] = Quiet(c)
    BY <1>2, Zenon
  <2>5. [d \in Conns |-> 1 - late[d]][c] = 1
    BY <1>0
  <2>6. late' = [late EXCEPT ![c] = IF Quiet(c) THEN 1 ELSE 0]
    BY <1>0, <1>5
  <2>7. CASE Quiet(c)
    <3>1. \A d \in Conns : 1 - late'[d] = IF d = c THEN 0 ELSE 1 - late[d]
      BY <1>0, <2>6, <2>7
    <3>2. [d \in Conns |-> 1 - late'[d]] = [d \in Conns |-> IF d = c THEN 0 ELSE 1 - late[d]]
      BY <3>1
    <3>3. [d \in Conns |-> 1 - late[d]]' = [[d \in Conns |-> 1 - late[d]] EXCEPT ![c] = 0]
      BY <3>2
    <3>4. Life!Begin(c)
      BY <2>1, <2>2, <2>3, <2>4, <2>5, <2>7, <3>3, Zenon DEF Life!Begin, InHandler
    <3>5. QED
      BY <3>4, Zenon DEF Life!Next
  <2>8. CASE ~Quiet(c)
    <3>1. [d \in Conns |-> 1 - late[d]]' = [d \in Conns |-> 1 - late[d]]
      BY <1>0, <2>6, <2>8
    <3>2. Life!Begin(c)
      BY <2>1, <2>2, <2>3, <2>4, <2>8, <3>1, Zenon DEF Life!Begin, InHandler
    <3>3. QED
      BY <3>2, Zenon DEF Life!Next
  <2>9. QED
    BY <2>7, <2>8, Zenon
<1>6. QED
  BY <1>1, <1>4, <1>5

\* A handler returns.
LEMMA Ends ==
    ASSUME LifeInv, Next, NEW c \in Conns, HandlerReturns(c)
    PROVE  Life!End(c)
<1>1. /\ pc[c] \in {"data", "eof"} /\ pc'[c] = "while"
      /\ \A d \in Conns \ {c} : pc'[d] = pc[d]
      /\ UNCHANGED <<stat, late>>
  BY DEF HandlerReturns, LifeInv, Control, Step, At, Goto
<1>q. UNCHANGED held
  <2>1. UNCHANGED <<stat, note, asked, lpc>>
    BY DEF HandlerReturns
  <2>2. QED
    BY <1>1, <2>1, HeldSame DEF LifeInv
<1>2. SamePhase
  <2>1. Phase(c)' = Phase(c)
    BY <1>1, Phases, PhasesNext DEF LivePc, LoopPc
  <2>2. QED
    BY <1>1, <2>1, Still DEF SamePhase
<1>3. [d \in Conns |-> InHandler(d)]' = [[d \in Conns |-> InHandler(d)] EXCEPT ![c] = FALSE]
  <2>1. InHandler(c)' = FALSE /\ \A d \in Conns \ {c} : InHandler(d)' = InHandler(d)
    BY <1>1 DEF InHandler
  <2>2. QED
    BY <2>1
<1>4. [d \in Conns |-> InHandler(d)][c] = TRUE
  <2>1. InHandler(c) = TRUE
    BY <1>1 DEF InHandler
  <2>2. QED
    BY <2>1, Zenon
<1>5. UNCHANGED <<[d \in Conns |-> Phase(d)], [d \in Conns |-> Quiet(d)],
                  [d \in Conns |-> 1 - late[d]]>>
  BY <1>1, <1>q, <1>2, Zenon DEF SamePhase, Quiet
<1>6. QED
  BY <1>3, <1>4, <1>5, Zenon DEF Life!End, InHandler

\* A resume of the server or of a connection gives each that is resumed a new call.
LEMMA Wakes ==
    ASSUME LifeInv, Next, NEW o \in Managed, ResumeObject(o)
    PROVE  Life!Next
<1> DEFINE S == {c \in Conns : o \in {c, Server}}
<1>1. /\ \E st : stat' = [stat EXCEPT ![o] = st]
      /\ UNCHANGED pc
      /\ late' = [c \in Conns |-> IF o \in {c, Server} THEN 0 ELSE late[c]]
  BY DEF ResumeObject
<1>2. ASSUME NEW c \in Conns \ S PROVE Quiet(c)' = Quiet(c)
  <2>1. /\ o \notin {c, Server} /\ asked' = asked \ {o} /\ UNCHANGED <<lpc, note>>
        /\ UNCHANGED stat[Server] /\ UNCHANGED stat[c]
    BY <1>1, <1>2, SwiftServerAssumption DEF ResumeObject, loopVars, LifeInv, Control, Objects
  <2>2. \A u \in {c, Server} : (u \in asked' <=> u \in asked) /\ (Settled(u)' <=> Settled(u))
    BY <1>1, <2>1, SwiftServerAssumption DEF Settled
  <2>3. \A u \in {c, Server} : u \in held => u \in held'
    BY <2>1, <2>2, HeldKept DEF LifeInv, HeldInv
  <2>4. \A u \in {c, Server} : u \in held' => u \in held
    BY <2>2, Remembers DEF Remember, LifeInv, HeldInv, Objects
  <2>5. QED
    BY <2>3, <2>4 DEF Quiet
<1>3. [c \in Conns |-> Quiet(c)]' \in [Conns -> BOOLEAN]
  BY DEF Quiet
<1>4. [c \in Conns |-> 1 - late[c]]'
        = [c \in Conns |-> IF c \in S THEN 1 ELSE [d \in Conns |-> 1 - late[d]][c]]
  BY <1>1
<1>5. SamePhase /\ SameHandling
  BY <1>1, Still DEF SamePhase, SameHandling
<1>6. UNCHANGED <<[c \in Conns |-> Phase(c)], [c \in Conns |-> pc[c] \in {"data", "eof"}]>>
  BY <1>1, <1>5, Zenon DEF SamePhase
<1>7. \A c \in Conns \ S :
        [d \in Conns |-> Quiet(d)]'[c] = [d \in Conns |-> Quiet(d)][c]
  BY <1>2, Zenon
<1> HIDE DEF S
<1>8. Life!Wake(S)
  BY <1>3, <1>4, <1>6, <1>7 DEF Life!Wake
<1>9. S \in SUBSET Conns
  BY DEF S
<1>10. \E T \in SUBSET Conns : Life!Wake(T)
  BY <1>8, <1>9, Zenon
<1>11. QED
  BY <1>10 DEF Life!Next

\* A step that takes one connection into or out of its life.
LEMMA EndsOfLife ==
    ASSUME LifeInv, Next, NEW c \in Conns,
           Connect(c) \/ Accept(c) \/ Refuse(c) \/ AcceptFails(c) \/ Close(c)
    PROVE  Life!Next
<1> USE DEF LifeInv, Control, At, Goto, Step, ListenerMoves, WorkerMoves, Holds, Jump
<1>1. /\ UNCHANGED <<late, stat>> /\ \A d \in Conns \ {c} : pc'[d] = pc[d]
      /\ \/ pc[c] = "new" /\ pc'[c] = "backlog"
         \/ pc[c] = "backlog" /\ pc'[c] \in {"queued", "refused", "dropped"}
         \/ pc[c] = "close" /\ pc'[c] = "leave"
  BY DEF Connect, Accept, Refuse, AcceptFails, Close
<1>2. InHandler(c) = FALSE /\ InHandler(c)' = FALSE
  BY <1>1 DEF InHandler
<1>3. SameQuiet
  <2>1. /\ UNCHANGED <<stat, note, asked>>
        /\ (lpc' \in {"off", "start"}) <=> (lpc \in {"off", "start"})
    BY DEF Connect, Accept, Refuse, AcceptFails, Close, Listener, loopVars, appVars
  <2>2. UNCHANGED held
    BY <1>1, <2>1, HeldSame
  <2>3. QED
    BY <2>2 DEF SameQuiet, Quiet
<1>4. \A d \in Conns \ {c} : Phase(d)' = Phase(d) /\ InHandler(d)' = InHandler(d)
  BY <1>1, Still
<1>5. SameHandling
  BY <1>2, <1>4, Zenon DEF SameHandling
<1>6. CASE pc[c] = "new" /\ pc'[c] = "backlog"
  <2>1. Life!Becomes(c, "none", "pending")
    BY <1>1, <1>3, <1>4, <1>5, <1>6, Phases, PhasesNext, Becomes
  <2>2. QED
    BY <2>1, Zenon DEF Life!Next, Life!Arrive
<1>7. CASE pc[c] = "backlog" /\ pc'[c] = "queued"
  <2>1. Life!Becomes(c, "pending", "live")
    BY <1>1, <1>3, <1>4, <1>5, <1>7, Phases, PhasesNext, Becomes DEF LivePc
  <2>2. QED
    BY <2>1, Zenon DEF Life!Next, Life!Admit
<1>8. CASE pc[c] = "backlog" /\ pc'[c] \in {"refused", "dropped"}
  <2>1. Life!Becomes(c, "pending", "refused")
    BY <1>1, <1>3, <1>4, <1>5, <1>8, Phases, PhasesNext, Becomes
  <2>2. QED
    BY <2>1, Zenon DEF Life!Next, Life!Refuse
<1>9. CASE pc[c] = "close" /\ pc'[c] = "leave"
  <2>1. Life!Becomes(c, "live", "down")
    BY <1>1, <1>3, <1>4, <1>5, <1>9, Phases, PhasesNext, Becomes DEF LivePc
  <2>2. [d \in Conns |-> InHandler(d)][c] = FALSE
    BY <1>2, Zenon
  <2>3. QED
    BY <2>1, <2>2, Zenon DEF Life!Next, Life!Close, InHandler
<1>10. QED
  BY <1>1, <1>6, <1>7, <1>8, <1>9

\* A step of a block within its life, or after it.
LEMMA WithinLife ==
    ASSUME LifeInv, NEW c \in Conns,
           \/ WorkerStart(c) \/ Top(c) \/ CopyStatus(c) \/ Switch(c) \/ Resume(c) \/ NoteLoad(c)
           \/ NoteStore(c) \/ SuspendedRecv(c) \/ Again(c) \/ WhileS(c)
           \/ LeaveLoad(c) \/ DecStore(c)
    PROVE  Life!Next
<1> USE DEF LifeInv, Control, At, Goto, Step, WorkerMoves, Holds, Jump
<1> DEFINE Quick == LivePc \ {"data", "eof"}
           Gone  == {"leave", "decStore", "closed"}
<1>1. UNCHANGED late
  BY DEF WorkerStart, Top, CopyStatus, Switch, Resume, NoteLoad, NoteStore, SuspendedRecv, Again,
         WhileS, LeaveLoad, DecStore
<1>2. \E l : /\ pc' = [pc EXCEPT ![c] = l]
             /\ \/ pc[c] \in Quick /\ l \in Quick
                \/ pc[c] \in Gone /\ l \in Gone
  <2>1. Branch(stat[c], suspended[c]) \in Quick /\ SuspendedTarget(stat[c]) \in Quick
    BY DEF Branch, SuspendedTarget, LivePc, LoopPc
  <2>2. CASE WorkerStart(c) \/ Top(c) \/ CopyStatus(c) \/ Resume(c) \/ WhileS(c)
    BY <2>2 DEF WorkerStart, Top, CopyStatus, Resume, WhileS, LivePc, LoopPc
  <2>3. CASE Switch(c) \/ Again(c)
    <3>1. "switch" \in Quick /\ "again" \in Quick
      BY DEF LivePc, LoopPc
    <3>2. QED
      BY <2>1, <2>3, <3>1 DEF Switch, Again
  <2>4. CASE NoteLoad(c) \/ NoteStore(c) \/ SuspendedRecv(c)
    BY <2>4 DEF NoteLoad, NoteStore, SuspendedRecv, LivePc, LoopPc
  <2>5. CASE LeaveLoad(c) \/ DecStore(c)
    BY <2>5 DEF LeaveLoad, DecStore
  <2>6. QED
    BY <2>2, <2>3, <2>4, <2>5
<1>3. /\ \A d \in Conns \ {c} : pc'[d] = pc[d]
      /\ \/ pc[c] \in Quick /\ pc'[c] \in Quick
         \/ pc[c] \in Gone /\ pc'[c] \in Gone
  BY <1>2
<1>4. Phase(c)' = Phase(c) /\ InHandler(c)' = InHandler(c)
  <2>1. Phase(c)' = Phase(c)
    BY <1>3, Phases, PhasesNext
  <2>2. InHandler(c)' = FALSE /\ InHandler(c) = FALSE
    BY <1>3 DEF InHandler
  <2>3. QED
    BY <2>1, <2>2
<1>5. SamePhase /\ SameHandling
  BY <1>3, <1>4, Still DEF SamePhase, SameHandling
<1>6. QED
  BY <1>1, <1>5, Hushes

LEMMA StepImplements == LifeInv /\ [Next]_vars => [Life!Next]_Life!vars
<1> SUFFICES ASSUME LifeInv, [Next]_vars PROVE Life!Next
  BY Zenon
<1>0. ASSUME UNCHANGED <<pc, late>> PROVE Life!Next
  BY <1>0, Still, Hushes DEF SamePhase, SameHandling
<1>1. CASE UNCHANGED vars
  BY <1>0, <1>1 DEF vars
<1>2. CASE Start \/ Terminate \/ DidStart \/ While \/ Check \/ Stop
  BY <1>0, <1>2 DEF Start, Terminate, DidStart, While, Check, Stop, ListenerMoves
<1>3. ASSUME NEW o \in Managed, SuspendObject(o) PROVE Life!Next
  BY <1>0, <1>3 DEF SuspendObject
<1>4. ASSUME Next, NEW o \in Managed, ResumeObject(o) PROVE Life!Next
  BY <1>4, Wakes
<1>5. ASSUME NEW c \in Conns, Send(c) \/ Hangup(c) PROVE Life!Next
  BY <1>0, <1>5 DEF Send, Hangup
<1>6. ASSUME Next, NEW c \in Conns, HandlerReturns(c) PROVE Life!Next
  BY <1>6, Ends, Zenon DEF Life!Next
<1>7. QED
  BY <1>1, <1>2, <1>3, <1>4, <1>5, <1>6, Receives, EndsOfLife, WithinLife, NextCases

\* For any number of connections and any maxGuest, the Swift accept loop and its blocks
\* implement ConnLife: one handler call at a time, and at most one more from when a
\* suspension has taken effect until the program takes it back, whatever the worker stores
\* in the status word meanwhile (SXServer.swift:88-160, SXQueue.swift:130-194).
THEOREM SwiftImplementsConnLife == Spec => ImplementsConnLife
<1>1. QED
  BY LifeInit, LifeNext, InitImplements, StepImplements, PTL DEF Spec, ImplementsConnLife, Life!Spec
=============================================================================
