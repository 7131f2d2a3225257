------------------------- MODULE ProxyServer_proofs -------------------------
(***************************************************************************)
(* Theorems about the older server of the HTTP proxy, for every number of  *)
(* connections and places.  Most of its steps are steps of SXServer, so    *)
(* that the invariants proved there carry over and only the steps of its   *)
(* own are left to look at.                                                *)
(***************************************************************************)
EXTENDS ProxyServer, SXServer_proofs

USE DEF At, Goto, Step, Status, Idle, Running, Resuming, Suspend, ShouldTerminate

\* The steps of SXServer the older server takes as they are.
MovingStep ==
    \/ \E t \in Threads : ReleaseActs(t)
    \/ SXServerStart \/ StatusStore \/ OwnerRelease
    \/ While \/ Check \/ Guests \/ IncLoad \/ IncStore \/ Stop \/ DidKill
    \/ \E c \in Conns : \/ Connect(c) \/ Send(c) \/ Hangup(c) \/ Accept(c) \/ Refuse(c)
                        \/ WorkerStart(c) \/ RetainStore(c) \/ Top(c) \/ Switch(c) \/ Resume(c)
                        \/ HandlerReturns(c) \/ CloseSocket(c) \/ DecStore(c)
ReceiveStep(c) == Recv(c) \/ SuspendedRecv(c)
SharedStep == MovingStep \/ \E c \in Conns : ReceiveStep(c)

\* SXKillServer but for the close of the listening socket, and the program's calls on the
\* server: no thread of the server moves.
CallStep == \/ KillBegins \/ KillResumes \/ KillChecks \/ KillStores \/ KillBinds
            \/ SXSuspendObject(Server) \/ SXResumeObject(Server)

\* The steps in which the older accept loop and workers differ.
OwnStep == \/ ProxyDidStart \/ AcceptOnClosed \/ KillCloses
           \/ \E c \in Conns : AcceptOnGone(c) \/ LeaveFreed(c)

\* What a step does to the calls counted since the kill.
TailKept == UNCHANGED tail
TailCounts(c) ==
    tail' = [tail EXCEPT ![c] = IF killAsked /\ pc'[c] \in {"data", "eof"} THEN @ + 1 ELSE @]

LEMMA ProxyCases ==
    ASSUME [ProxyNext]_proxyVars
    PROVE  \/ UNCHANGED proxyVars
           \/ (MovingStep \/ CallStep \/ OwnStep) /\ TailKept
           \/ \E c \in Conns : ReceiveStep(c) /\ TailCounts(c)
<1> USE DEF TailKept, Threads, ReleaseActs, SXRelease, ReceiveStep
<1>1. CASE UNCHANGED proxyVars
  BY <1>1
<1>2. CASE ProxyProgram
  BY <1>2 DEF ProxyProgram, KillBegins, MovingStep, CallStep
<1>3. CASE Kill
  BY <1>3 DEF Kill, KillResumes, KillChecks, KillStores, KillCloses, KillBinds, CallStep, OwnStep
<1>4. CASE ProxyPeers
  BY <1>4 DEF ProxyPeers, ProxyConnect, ProxySend, MovingStep
<1>5. CASE ProxyListenerStep
  BY <1>5 DEF ProxyListenerStep, ProxyDidStart, ListenAndCheck, AcceptOnClosed, AcceptOnGone,
              MovingStep, OwnStep
<1>6. ASSUME NEW c \in Conns, ProxyWorkerStep(c)
      PROVE  \/ (MovingStep \/ CallStep \/ OwnStep) /\ TailKept
             \/ ReceiveStep(c) /\ TailCounts(c)
  BY <1>6 DEF ProxyWorkerStep, Receives, LeaveFreed, MovingStep, OwnStep, TailCounts
<1>7. QED
  BY <1>1, <1>2, <1>3, <1>4, <1>5, <1>6 DEF ProxyNext

LEMMA SharedIsNext == SharedStep => Next
  BY DEF SharedStep, MovingStep, ReceiveStep, ReleaseActs, Next, Program, Peers, ListenerStep, WorkerStep, SXRelease,
         Threads

\* What a call leaves alone, and what it may store.
LEMMA CallsStand ==
    ASSUME DataOK, CallStep
    PROVE  /\ UNCHANGED <<pc, reg, refVars, freed, countVars, leaked, suspended, queues,
                          netVars, late>>
           /\ stat' \in [Objects -> Status] /\ \A c \in Conns : stat'[c] = stat[c]
           /\ stat'[Server] \in {stat[Server], Resuming, ShouldTerminate}
           /\ app' = app \/ (app' \in Objects \X {Suspend, Resuming} /\ app'[1] = Server)
           /\ killAsked' = killAsked \/ (killAsked' = TRUE /\ stat'[Server] = ShouldTerminate)
<1> USE Names DEF DataOK, KillStep, KillMoves, appVars
<1>1. CASE KillBegins \/ KillChecks \/ KillBinds
  BY <1>1 DEF KillBegins, KillChecks, KillBinds
<1>2. CASE KillResumes
  BY <1>2 DEF KillResumes
<1>3. CASE KillStores
  BY <1>3 DEF KillStores
<1>4. CASE SXSuspendObject(Server) \/ SXResumeObject(Server)
  BY <1>4 DEF SXSuspendObject, SXResumeObject
<1>5. QED
  BY <1>1, <1>2, <1>3, <1>4 DEF CallStep

-----------------------------------------------------------------------------
(* Type correctness.                                                       *)

LEMMA ProxyTypeNext == TypeOK /\ [ProxyNext]_proxyVars => TypeOK'
<1> SUFFICES ASSUME TypeOK, [ProxyNext]_proxyVars PROVE TypeOK'
  OBVIOUS
<1> USE Names DEF TypeOK, PcOK, FlagsOK, NetOK, DataOK
<1>1. CASE UNCHANGED proxyVars \/ SharedStep
  <2>1. [Next]_vars
    BY <1>1, SharedIsNext DEF proxyVars
  <2>2. QED
    BY <2>1, PcNext, FlagsNext, NetNext, DataNext
\* One thread moves, and what else changes keeps its type.
<1>m. ASSUME NEW t \in Threads, NEW l, pc' = [pc EXCEPT ![t] = l],
             t = Listener => l \in ListenerPc, t \in Conns => l \in WorkerPc, t # Owner
      PROVE  PcOK'
  BY <1>m
<1>2. CASE CallStep
  <2>1. killAsked' \in BOOLEAN /\ app' \in {<<>>} \cup (Objects \X {Suspend, Resuming})
    BY <1>2, CallsStand
  <2>2. QED
    BY <1>2, <2>1, CallsStand DEF refVars, countVars, netVars
<1>3. CASE ProxyDidStart \/ AcceptOnClosed
  <2>1. PcOK'
    <3>1. "while" \in ListenerPc /\ Listener # Owner
      BY SXServerAssumption DEF ListenerPc
    <3>2. pc' = [pc EXCEPT ![Listener] = "while"]
      BY <1>3 DEF ProxyDidStart, AcceptOnClosed
    <3>3. QED
      BY <1>m, <3>1, <3>2
  <2>2. FlagsOK' /\ NetOK'
    BY <1>3 DEF ProxyDidStart, AcceptOnClosed, refVars, countVars, netVars, appVars
  <2>3. CASE ProxyDidStart
    BY <2>1, <2>2, <2>3 DEF ProxyDidStart, refVars, countVars
  <2>4. CASE AcceptOnClosed
    BY <2>1, <2>2, <2>4 DEF AcceptOnClosed, refVars, countVars, appVars
  <2>5. QED
    BY <1>3, <2>3, <2>4
<1>4. CASE KillCloses
  <2>1. PcOK'
    BY <1>4 DEF KillCloses, WorkerPc, OwnerPc, ListenerPc, ReleasePc
  <2>2. FlagsOK' /\ NetOK' /\ DataOK'
    BY <1>4 DEF KillCloses, KillMoves, refVars, countVars, netVars
  <2>3. QED
    BY <2>1, <2>2
<1>5. ASSUME NEW c \in Conns, AcceptOnGone(c) PROVE TypeOK'
  <2>1. PcOK'
    BY <1>5, SXServerAssumption DEF AcceptOnGone, ListenerPc, WorkerPc
  <2>2. FlagsOK' /\ NetOK' /\ DataOK'
    BY <1>5 DEF AcceptOnGone, refVars, countVars, netVars, appVars
  <2>3. QED
    BY <2>1, <2>2
<1>6. ASSUME NEW c \in Conns, LeaveFreed(c) PROVE TypeOK'
  <2>1. PcOK'
    BY <1>6, <1>m DEF LeaveFreed, WorkerPc
  <2>2. FlagsOK' /\ NetOK' /\ DataOK'
    BY <1>6 DEF LeaveFreed, Count!Load, refVars, netVars, appVars
  <2>3. QED
    BY <2>1, <2>2
<1>7. QED
  BY <1>1, <1>2, <1>3, <1>4, <1>5, <1>6, ProxyCases DEF OwnStep, SharedStep

-----------------------------------------------------------------------------
(* The reference count and the guest slots.                                *)

LEMMA ProxyRefNext == TypeOK /\ RefInv /\ [ProxyNext]_proxyVars => RefInv'
<1> SUFFICES ASSUME TypeOK, RefInv, [ProxyNext]_proxyVars PROVE RefInv'
  OBVIOUS
<1>a. PcOK /\ reg \in [Threads -> Int]
  BY DEF TypeOK, DataOK
<1>1. CASE UNCHANGED proxyVars \/ SharedStep
  <2>1. [Next]_vars
    BY <1>1, SharedIsNext DEF proxyVars
  <2>2. QED
    BY <2>1, RefNext
<1>2. CASE CallStep
  <2>1. UNCHANGED <<pc, reg, ref, refLost, freed>>
    BY <1>2, CallsStand DEF TypeOK, refVars
  <2>2. QED
    BY <2>1 DEF RefInv, RefAccounting, Holders
<1>3. CASE ProxyDidStart \/ AcceptOnClosed
  BY <1>3, <1>a, Names, QuietMove DEF ProxyDidStart, AcceptOnClosed, HoldingPc
\* A peer that is turned down held nothing.
<1>4. CASE KillCloses
  <2>1. /\ UNCHANGED <<reg, ref, refLost, freed>>
        /\ pc' = [t \in Threads |-> IF pc[t] = "backlog" THEN "refused" ELSE pc[t]]
    BY <1>4 DEF KillCloses, KillMoves, refVars
  <2>2. Holders' = Holders
    BY <1>a, <2>1 DEF Holders, HoldingPc, LoopPc
  <2>3. QED
    BY <1>a, <2>1, <2>2, Names DEF RefInv, RefAccounting, PcOK
<1>5. ASSUME NEW c \in Conns, AcceptOnGone(c) PROVE RefInv'
  <2>1. /\ pc[Listener] = "accept" /\ pc[c] = "backlog"
        /\ pc' = [pc EXCEPT ![Listener] = "while", ![c] = "refused"]
        /\ UNCHANGED <<ref, refLost, freed, reg>>
    BY <1>5 DEF AcceptOnGone, refVars
  <2>2. Holders' = Holders
    BY <1>a, <2>1, Names DEF Holders, HoldingPc, LoopPc, PcOK
  <2>3. QED
    BY <1>a, <2>1, <2>2, Names, SXServerAssumption DEF RefInv, RefAccounting, PcOK
<1>6. ASSUME NEW c \in Conns, LeaveFreed(c) PROVE RefInv'
  <2>1. \A u \in Threads \ {c} : reg'[u] = reg[u]
    BY <1>6, <1>a DEF LeaveFreed, Count!Load
  <2>2. QED
    BY <1>6, <1>a, <2>1, Names, QuietMove DEF LeaveFreed, HoldingPc, LoopPc
<1>7. QED
  BY <1>1, <1>2, <1>3, <1>4, <1>5, <1>6, ProxyCases DEF OwnStep, SharedStep

LEMMA ProxySlotNext == TypeOK /\ RefInv /\ SlotInv /\ [ProxyNext]_proxyVars => SlotInv'
<1> SUFFICES ASSUME TypeOK, RefInv, SlotInv, [ProxyNext]_proxyVars PROVE SlotInv'
  OBVIOUS
<1>a. PcOK /\ count \in Int /\ leaked \in Nat /\ MaxGuest \in Nat
  BY SXServerAssumption DEF TypeOK, DataOK
<1>b. Owner # Listener
  BY SXServerAssumption
<1>1. CASE UNCHANGED proxyVars \/ SharedStep
  <2>1. [Next]_vars
    BY <1>1, SharedIsNext DEF proxyVars
  <2>2. QED
    BY <2>1, SlotNext
<1>2. CASE CallStep
  <2>1. UNCHANGED <<pc, count, countLost, leaked>>
    BY <1>2, CallsStand DEF TypeOK, countVars
  <2>2. QED
    BY <2>1, SlotQuiet DEF SlotHolders
<1>3. CASE ProxyDidStart
  <2>1. /\ UNCHANGED <<count, countLost, leaked>> /\ pc[Listener] = "start"
        /\ Goto(Listener, "while")
    BY <1>3 DEF ProxyDidStart, countVars
  <2>2. QED
    BY <1>a, <2>1, SlotListener, SlotQuiet
\* A failed accept leaks the slot of the listener.
<1>4. ASSUME SlotHolders' = SlotHolders \ {Listener}, UNCHANGED <<count, countLost>>,
             pc[Listener] = "accept", leaked' = leaked + 1, pc'[Listener] = "while"
      PROVE  SlotInv'
  <2>1. Listener \in SlotHolders
    BY <1>4 DEF SlotHolders
  <2>2. Cardinality(SlotHolders') = Cardinality(SlotHolders) - 1
    BY <1>4, <2>1, SlotHoldersFinite, FS_RemoveElement
  <2>3. QED
    BY <1>4, <1>a, <2>2, SlotHoldersFinite DEF SlotInv, SlotAccounting, GuestLimit
<1>5. CASE AcceptOnClosed
  <2>1. /\ UNCHANGED <<count, countLost>> /\ leaked' = leaked + 1 /\ pc[Listener] = "accept"
        /\ pc' = [pc EXCEPT ![Listener] = "while"]
    BY <1>5 DEF AcceptOnClosed, countVars
  <2>2. SlotHolders' = SlotHolders \ {Listener} /\ pc'[Listener] = "while"
    BY <1>a, <2>1, Names DEF SlotHolders, PcOK
  <2>3. QED
    BY <1>4, <2>1, <2>2
<1>6. ASSUME NEW c \in Conns, AcceptOnGone(c) PROVE SlotInv'
  <2>1. /\ UNCHANGED <<count, countLost>> /\ leaked' = leaked + 1
        /\ pc[Listener] = "accept" /\ pc[c] = "backlog"
        /\ pc' = [pc EXCEPT ![Listener] = "while", ![c] = "refused"]
    BY <1>6 DEF AcceptOnGone, countVars
  <2>2. SlotHolders' = SlotHolders \ {Listener} /\ pc'[Listener] = "while"
    BY <1>a, <2>1, Names DEF SlotHolders, PcOK, Done
  <2>3. QED
    BY <1>4, <2>1, <2>2
<1>7. CASE KillCloses
  <2>1. /\ UNCHANGED <<count, countLost, leaked>>
        /\ pc' = [t \in Threads |-> IF pc[t] = "backlog" THEN "refused" ELSE pc[t]]
    BY <1>7 DEF KillCloses, KillMoves, countVars
  <2>2. SlotHolders' = SlotHolders /\ pc'[Listener] = pc[Listener]
    BY <1>a, <2>1, Names DEF SlotHolders, PcOK, Done, ListenerPc, ReleasePc
  <2>3. QED
    BY <2>1, <2>2, SlotQuiet
<1>8. ASSUME NEW c \in Conns, LeaveFreed(c) PROVE SlotInv'
  <2>1. Goto(c, "decStore") /\ pc[c] = "leave" /\ UNCHANGED <<count, countLost, leaked>>
    BY <1>8 DEF LeaveFreed, Count!Load
  <2>2. QED
    BY <1>a, <2>1, SlotMove, SlotQuiet DEF Done
<1>9. QED
  BY <1>1, <1>2, <1>3, <1>5, <1>6, <1>7, <1>8, ProxyCases DEF OwnStep, SharedStep

LEMMA ProxyEndNext == TypeOK /\ RefInv /\ EndInv /\ [ProxyNext]_proxyVars => EndInv'
<1> SUFFICES ASSUME TypeOK, RefInv, EndInv, [ProxyNext]_proxyVars PROVE EndInv'
  OBVIOUS
<1>a. PcOK /\ reg \in [Threads -> Int]
  BY DEF TypeOK, DataOK
<1>b. Owner # Listener
  BY SXServerAssumption
<1>1. CASE UNCHANGED proxyVars \/ SharedStep
  <2>1. [Next]_vars
    BY <1>1, SharedIsNext DEF proxyVars
  <2>2. QED
    BY <2>1, EndNext
<1>2. CASE CallStep
  <2>1. UNCHANGED <<pc, reg, ref, refLost, freed>>
    BY <1>2, CallsStand DEF TypeOK, refVars
  <2>2. QED
    BY <2>1 DEF EndInv, Last, LetGo
<1>3. CASE ProxyDidStart \/ AcceptOnClosed
  <2>1. /\ pc[Listener] \in {"start", "accept"} /\ pc' = [pc EXCEPT ![Listener] = "while"]
        /\ UNCHANGED <<ref, refLost, freed, reg>>
    BY <1>3 DEF ProxyDidStart, AcceptOnClosed, refVars
  <2>2. QED
    BY <1>a, <1>b, <2>1, Names, EndQuiet DEF PcOK, Last, LetGo
<1>4. CASE KillCloses
  <2>1. /\ UNCHANGED <<reg, ref, refLost, freed>>
        /\ pc' = [t \in Threads |-> IF pc[t] = "backlog" THEN "refused" ELSE pc[t]]
    BY <1>4 DEF KillCloses, KillMoves, refVars
  <2>2. QED
    BY <1>a, <2>1, Names, EndQuiet DEF PcOK, Last, LetGo
<1>5. ASSUME NEW c \in Conns, AcceptOnGone(c) PROVE EndInv'
  <2>1. /\ pc[Listener] = "accept" /\ pc[c] = "backlog"
        /\ pc' = [pc EXCEPT ![Listener] = "while", ![c] = "refused"]
        /\ UNCHANGED <<ref, refLost, freed, reg>>
    BY <1>5 DEF AcceptOnGone, refVars
  <2>2. QED
    BY <1>a, <1>b, <2>1, Names, EndQuiet DEF PcOK, Last, LetGo
<1>6. ASSUME NEW c \in Conns, LeaveFreed(c) PROVE EndInv'
  <2>1. /\ pc[c] = "leave" /\ pc' = [pc EXCEPT ![c] = "decStore"]
        /\ UNCHANGED <<ref, refLost, freed>> /\ \A u \in Threads \ {c} : reg'[u] = reg[u]
    BY <1>6, <1>a DEF LeaveFreed, Count!Load, refVars
  <2>2. QED
    BY <1>a, <2>1, Names, EndQuiet DEF PcOK, Last, LetGo
<1>7. QED
  BY <1>1, <1>2, <1>3, <1>4, <1>5, <1>6, ProxyCases DEF OwnStep, SharedStep

LEMMA ProxyCounted == ProxySpec => [](TypeOK /\ RefInv /\ SlotInv /\ EndInv)
<1>1. ProxyInit => TypeOK /\ RefInv /\ SlotInv /\ EndInv
  BY TypeInit, RefInit, SlotInit, EndInit DEF ProxyInit
<1>2. TypeOK /\ RefInv /\ SlotInv /\ EndInv /\ [ProxyNext]_proxyVars
        => (TypeOK /\ RefInv /\ SlotInv /\ EndInv)'
  BY ProxyTypeNext, ProxyRefNext, ProxySlotNext, ProxyEndNext
<1>3. QED
  BY <1>1, <1>2, PTL DEF ProxySpec

\* For any number of connections and any place of a kill: while no update of them is lost,
\* the older server's reference count is the number of its holders (or sx_weak_object) and
\* its count of guests the number of slots in use, at most max_guest
\* (HTTP-proxy/SXServer.c:198-219, 341-482).
THEOREM ProxyCountsHold == ProxySpec => [](RefAccounting /\ SlotAccounting /\ GuestLimit)
<1>1. RefInv /\ SlotInv => RefAccounting /\ SlotAccounting /\ GuestLimit
  BY DEF RefInv, SlotInv
<1>2. QED
  BY <1>1, ProxyCounted, PTL

\* For any number of connections: when owner, accept loop and workers have let go of the
\* older server and the counting was exact, it has been freed, and didKill is given a freed
\* server only when the owner has let go of it (HTTP-proxy/SXServer.c:198-219, 478-482).
THEOREM ProxyEndHolds == ProxySpec => [](NoServerLeak /\ DidKillAlive)
<1>1. TypeOK /\ RefInv /\ EndInv => NoServerLeak
  <2> SUFFICES ASSUME TypeOK, RefInv, EndInv, ~freed, ~refLost, ref # Weak,
                      pc[Owner] = "gone", pc[Listener] = "done", \A c \in Conns : pc[c] \in Done
               PROVE  FALSE
    BY DEF NoServerLeak
  <2>1. Holders = {}
    BY DEF Holders, HoldingPc, LoopPc, Done, Threads
  <2>2. ref = 0
    BY <2>1, FS_EmptySet DEF RefInv, RefAccounting
  <2>3. PICK t \in Threads : Last(t)
    BY <2>2 DEF EndInv
  <2>4. QED
    BY <2>3 DEF Last, Done, Threads
<1>2. EndInv => DidKillAlive
  BY DEF EndInv, LetGo, DidKillAlive
<1>3. QED
  BY <1>1, <1>2, ProxyCounted, PTL

-----------------------------------------------------------------------------
(* A queue has its own status from its start on, and only its worker       *)
(* changes it: the program handles the server alone.                       *)

IdleInv == /\ app # <<>> => app[1] = Server
           /\ \A c \in Conns : pc[c] \in Unstarted => stat[c] = Idle

\* A step of the shared kind changes a queue's status only as its worker's.
LEMMA StatusOf ==
    ASSUME TypeOK, IdleInv, SharedStep, NEW c \in Conns,
           ~(WorkerStart(c) \/ Top(c) \/ Resume(c))
    PROVE  stat'[c] = stat[c]
<1> USE Names DEF TypeOK, DataOK
<1>1. ASSUME NEW t \in Threads, ReleaseActs(t) PROVE stat' = stat
  BY <1>1 DEF ReleaseActs, SXReleaseLoad, SXReleaseStore, SXReleaseTest
<1>2. CASE SXServerStart \/ OwnerRelease
  BY <1>2 DEF SXServerStart, OwnerRelease
<1>3. CASE StatusStore
  BY <1>3 DEF StatusStore, IdleInv
<1>4. CASE While \/ Check \/ Guests \/ IncLoad \/ IncStore \/ DidKill
  BY <1>4 DEF While, Check, Guests, IncLoad, IncStore, DidKill
<1>5. CASE Stop
  BY <1>5 DEF Stop
<1>6. ASSUME NEW d \in Conns,
             \/ Connect(d) \/ Send(d) \/ Hangup(d) \/ Accept(d) \/ Refuse(d) \/ RetainStore(d)
             \/ Switch(d) \/ Recv(d) \/ SuspendedRecv(d) \/ HandlerReturns(d) \/ CloseSocket(d)
             \/ DecStore(d)
      PROVE  stat' = stat
  BY <1>6 DEF Connect, Send, Hangup, Accept, Refuse, RetainStore, Switch, Recv, SuspendedRecv,
              HandlerReturns, CloseSocket, DecStore
<1>7. ASSUME NEW d \in Conns, d # c, WorkerStart(d) \/ Top(d) \/ Resume(d)
      PROVE  stat'[c] = stat[c]
  BY <1>7 DEF WorkerStart, Top, Resume
<1>8. QED
  BY <1>1, <1>2, <1>3, <1>4, <1>5, <1>6, <1>7 DEF SharedStep, MovingStep, ReceiveStep

LEMMA AppOfServer ==
    ASSUME IdleInv, SharedStep PROVE app' # <<>> => app'[1] = Server
<1>1. ASSUME NEW t \in Threads, ReleaseActs(t) PROVE app' = app
  BY <1>1 DEF ReleaseActs, SXReleaseLoad, SXReleaseStore, SXReleaseTest, appVars
<1>2. CASE SXServerStart \/ OwnerRelease
  BY <1>2 DEF SXServerStart, OwnerRelease, IdleInv, appVars
<1>3. CASE StatusStore
  BY <1>3 DEF StatusStore
<1>4. CASE While \/ Check \/ Guests \/ IncLoad \/ IncStore \/ Stop \/ DidKill
  BY <1>4 DEF While, Check, Guests, IncLoad, IncStore, Stop, DidKill, ListenerMoves, IdleInv,
              appVars
<1>5. ASSUME NEW c \in Conns, Connect(c) \/ Send(c) \/ Hangup(c) \/ Accept(c) \/ Refuse(c)
      PROVE  app' = app
  BY <1>5 DEF Connect, Send, Hangup, Accept, Refuse, ListenerMoves, appVars
<1>6. ASSUME NEW c \in Conns, WorkerActs(c) PROVE app' = app
  BY <1>6 DEF WorkerActs, WorkerStart, RetainStore, Top, Switch, Resume, Recv, SuspendedRecv,
              HandlerReturns, CloseSocket, Leave, DecStore, WorkerMoves, appVars
<1>7. QED
  BY <1>1, <1>2, <1>3, <1>4, <1>5, <1>6
     DEF SharedStep, MovingStep, ReceiveStep, WorkerActs, IdleInv

\* Nobody goes back to where a queue has not started.
LEMMA StartsOnce ==
    ASSUME PcOK, DataOK, SharedStep \/ CallStep \/ OwnStep, NEW c \in Conns, pc'[c] \in Unstarted
    PROVE  pc[c] \in Unstarted
<1> USE Names DEF PcOK, Unstarted
<1>1. ASSUME NEW t \in Threads, ReleaseActs(t) PROVE pc[c] \in Unstarted
  <2>1. PICK l \in {"gone", "didKill", "leave", "relStore", "relTest"} : pc' = [pc EXCEPT ![t] = l]
    BY <1>1 DEF ReleaseActs, SXReleaseLoad, SXReleaseStore, SXReleaseTest, AfterRelease
  <2>2. QED
    BY <2>1
<1>2. CASE SXServerStart \/ StatusStore \/ OwnerRelease
  BY <1>2 DEF SXServerStart, StatusStore, OwnerRelease
<1>3. CASE While \/ Check \/ Guests \/ IncLoad \/ IncStore \/ Stop \/ DidKill
  BY <1>3 DEF While, Check, Guests, IncLoad, IncStore, Stop, DidKill
<1>4. ASSUME NEW d \in Conns,
             \/ Connect(d) \/ Send(d) \/ Hangup(d) \/ Accept(d) \/ Refuse(d) \/ AcceptOnGone(d)
      PROVE  pc[c] \in Unstarted
  BY <1>4 DEF Connect, Send, Hangup, Accept, Refuse, AcceptOnGone
<1>5. ASSUME NEW d \in Conns, WorkerActs(d) \/ LeaveFreed(d) PROVE pc[c] \in Unstarted
  <2>1. Branch(stat[d]) \in {"recv", "resume", "srecv", "close"}
    BY DEF Branch
  <2>2. SuspendedTarget(stat[d]) \in {"close", "data", "top"}
    BY DEF SuspendedTarget
  <2>3. \E l \in {"top", "retStore", "switch", "recv", "resume", "srecv", "close", "data", "eof",
                  "release", "decStore", "closed"} : pc' = [pc EXCEPT ![d] = l]
    <3>1. CASE WorkerStart(d) \/ RetainStore(d) \/ Top(d) \/ Resume(d)
      BY <3>1 DEF WorkerStart, RetainStore, Top, Resume
    <3>2. CASE Switch(d)
      BY <2>1, <3>2 DEF Switch
    <3>3. CASE Recv(d) \/ SuspendedRecv(d)
      BY <2>2, <3>3 DEF Recv, SuspendedRecv
    <3>4. CASE HandlerReturns(d) \/ CloseSocket(d) \/ Leave(d) \/ LeaveFreed(d) \/ DecStore(d)
      BY <3>4 DEF HandlerReturns, CloseSocket, Leave, LeaveFreed, DecStore
    <3>5. QED
      BY <1>5, <3>1, <3>2, <3>3, <3>4 DEF WorkerActs
  <2>4. QED
    BY <2>3
<1>6. CASE CallStep
  BY <1>6, CallsStand
<1>7. CASE ProxyDidStart \/ AcceptOnClosed \/ KillCloses
  BY <1>7 DEF ProxyDidStart, AcceptOnClosed, KillCloses
<1>8. QED
  BY <1>1, <1>2, <1>3, <1>4, <1>5, <1>6, <1>7
     DEF SharedStep, MovingStep, ReceiveStep, OwnStep, WorkerActs

\* A worker that starts leaves the places where its queue has not.
LEMMA StartsOf ==
    ASSUME PcOK, NEW c \in Conns, WorkerStart(c) \/ Top(c) \/ Resume(c)
    PROVE  pc'[c] \notin Unstarted
  BY Names DEF PcOK, WorkerStart, Top, Resume, Unstarted

\* The steps of its own leave the queues' statuses and the program's store alone.
LEMMA OwnStands ==
    ASSUME DataOK, OwnStep
    PROVE  /\ \A c \in Conns : stat'[c] = stat[c]
           /\ UNCHANGED <<app, late>>
  BY Names DEF DataOK, OwnStep, ProxyDidStart, AcceptOnClosed, KillCloses, KillMoves,
               AcceptOnGone, LeaveFreed, appVars

LEMMA IdleNext == TypeOK /\ IdleInv /\ [ProxyNext]_proxyVars => IdleInv'
<1> SUFFICES ASSUME TypeOK, IdleInv, [ProxyNext]_proxyVars PROVE IdleInv'
  OBVIOUS
<1>1. CASE UNCHANGED proxyVars
  BY <1>1 DEF proxyVars, vars, IdleInv
<1>2. CASE SharedStep
  <2>1. ASSUME NEW c \in Conns, pc'[c] \in Unstarted PROVE stat'[c] = Idle
    <3>1. pc[c] \in Unstarted
      BY <1>2, <2>1, StartsOnce DEF TypeOK
    <3>2. stat'[c] = stat[c]
      BY <1>2, <2>1, StatusOf, StartsOf DEF TypeOK
    <3>3. QED
      BY <3>1, <3>2 DEF IdleInv
  <2>2. QED
    BY <1>2, <2>1, AppOfServer DEF IdleInv
<1>3. CASE CallStep
  BY <1>3, CallsStand DEF TypeOK, IdleInv
<1>4. CASE OwnStep
  BY <1>4, OwnStands, StartsOnce DEF TypeOK, IdleInv
<1>5. QED
  BY <1>1, <1>2, <1>3, <1>4, ProxyCases DEF SharedStep

-----------------------------------------------------------------------------
(* After a kill a connection is handed data at most once more.             *)

\* The call after the kill has been made: the worker is not about to receive as a running
\* one, and what it looks at next does not say running.
TailOf(c) ==
    tail[c] = 1 =>
      /\ killAsked
      /\ pc[c] \notin {"new", "backlog", "queued", "retStore", "refused", "recv"}
      /\ pc[c] = "switch" => stat[c] # Running
      /\ pc[c] = "srecv" => stat[c] = Suspend

\* A server whose kill stands is never running again.
TailInv == /\ tail \in [Conns -> {0, 1}]
           /\ killAsked => stat[Server] # Running
           /\ \A c \in Conns : TailOf(c)

LEMMA TailInit == ProxyInit => TailInv
  BY DEF ProxyInit, Init, TailInv, TailOf

LEMMA KilledNext ==
    ASSUME TypeOK, TailInv, SharedStep
    PROVE  killAsked' = killAsked /\ (killAsked => stat'[Server] # Running)
<1> USE Names, StatusesDiffer DEF TypeOK, DataOK, TailInv, appVars, ListenerMoves, WorkerMoves
<1>1. ASSUME NEW t \in Threads, ReleaseActs(t) PROVE UNCHANGED <<killAsked, stat>>
  BY <1>1 DEF ReleaseActs, SXReleaseLoad, SXReleaseStore, SXReleaseTest
<1>2. CASE SXServerStart \/ OwnerRelease
  BY <1>2 DEF SXServerStart, OwnerRelease
<1>3. CASE StatusStore
  BY <1>3 DEF StatusStore
<1>4. CASE While \/ Check \/ Guests \/ IncLoad \/ IncStore \/ Stop \/ DidKill
  BY <1>4 DEF While, Check, Guests, IncLoad, IncStore, Stop, DidKill
<1>5. ASSUME NEW c \in Conns,
             \/ Connect(c) \/ Send(c) \/ Hangup(c) \/ Accept(c) \/ Refuse(c) \/ RetainStore(c)
             \/ Switch(c) \/ Recv(c) \/ SuspendedRecv(c) \/ HandlerReturns(c) \/ CloseSocket(c)
             \/ DecStore(c)
      PROVE  UNCHANGED <<killAsked, stat>>
  BY <1>5 DEF Connect, Send, Hangup, Accept, Refuse, RetainStore, Switch, Recv, SuspendedRecv,
              HandlerReturns, CloseSocket, DecStore
<1>6. ASSUME NEW c \in Conns, WorkerStart(c) \/ Top(c) \/ Resume(c)
      PROVE  killAsked' = killAsked /\ stat'[Server] = stat[Server]
  BY <1>6 DEF WorkerStart, Top, Resume
<1>7. QED
  BY <1>1, <1>2, <1>3, <1>4, <1>5, <1>6 DEF SharedStep, MovingStep, ReceiveStep

\* A connection whose one call is made, in a step that counts no other.
LEMMA TailOfNext ==
    ASSUME TypeOK, IdleInv, TailInv, NEW d \in Conns, tail[d] = 1,
           MovingStep \/ \E c \in Conns \ {d} : ReceiveStep(c)
    PROVE  /\ pc'[d] \notin {"new", "backlog", "queued", "retStore", "refused", "recv"}
           /\ pc'[d] = "switch" => stat'[d] # Running
           /\ pc'[d] = "srecv" => stat'[d] = Suspend
<1> DEFINE P == /\ pc'[d] \notin {"new", "backlog", "queued", "retStore", "refused", "recv"}
                /\ pc'[d] = "switch" => stat'[d] # Running
                /\ pc'[d] = "srecv" => stat'[d] = Suspend
<1> USE Names, StatusesDiffer DEF TypeOK, PcOK, DataOK
<1>0. /\ killAsked /\ stat[Server] # Running
      /\ pc[d] \notin {"new", "backlog", "queued", "retStore", "refused", "recv"}
      /\ pc[d] = "switch" => stat[d] # Running
      /\ pc[d] = "srecv" => stat[d] = Suspend
  BY DEF TailInv, TailOf
<1>1. ASSUME pc'[d] = pc[d], stat'[d] = stat[d] PROVE P
  BY <1>0, <1>1
<1>2. ASSUME NEW t \in Threads, ReleaseActs(t) PROVE P
  <2>1. UNCHANGED stat /\ pc[t] \in ReleasePc
    BY <1>2 DEF ReleaseActs, SXReleaseLoad, SXReleaseStore, SXReleaseTest, ReleasePc
  <2>2. \E l \in {"gone", "didKill", "leave", "relStore", "relTest"} : pc' = [pc EXCEPT ![t] = l]
    BY <1>2 DEF ReleaseActs, SXReleaseLoad, SXReleaseStore, SXReleaseTest, AfterRelease
  <2>3. QED
    BY <1>0, <2>1, <2>2
<1>3. CASE SXServerStart \/ OwnerRelease
  BY <1>1, <1>3 DEF SXServerStart, OwnerRelease
<1>4. CASE StatusStore
  BY <1>1, <1>4 DEF StatusStore, IdleInv
<1>5. CASE While \/ Check \/ Guests \/ IncLoad \/ IncStore \/ Stop \/ DidKill
  BY <1>1, <1>5 DEF While, Check, Guests, IncLoad, IncStore, Stop, DidKill
<1>6. ASSUME NEW c \in Conns, Connect(c) \/ Send(c) \/ Hangup(c) \/ Accept(c) \/ Refuse(c)
      PROVE  P
  <2>1. stat' = stat /\ (c = d => pc'[d] = pc[d])
    BY <1>0, <1>6 DEF Connect, Send, Hangup, Accept, Refuse, ListenerMoves
  <2>2. c # d => pc'[d] = pc[d]
    BY <1>6 DEF Connect, Send, Hangup, Accept, Refuse, ListenerMoves
  <2>3. QED
    BY <1>1, <2>1, <2>2
<1>7. ASSUME NEW c \in Conns, c # d, WorkerActs(c) PROVE P
  <2>1. pc'[d] = pc[d]
    BY <1>7 DEF WorkerActs, WorkerStart, RetainStore, Top, Switch, Resume, Recv, SuspendedRecv,
                HandlerReturns, CloseSocket, Leave, DecStore
  <2>2. stat'[d] = stat[d]
    BY <1>7 DEF WorkerActs, WorkerStart, RetainStore, Top, Switch, Resume, Recv, SuspendedRecv,
                HandlerReturns, CloseSocket, Leave, DecStore, WorkerMoves
  <2>3. QED
    BY <1>1, <2>1, <2>2
<1>8. CASE WorkerStart(d) \/ RetainStore(d)
  BY <1>0, <1>8 DEF WorkerStart, RetainStore
<1>9. CASE Top(d)
  BY <1>0, <1>9 DEF Top
<1>10. CASE Switch(d)
  <2>1. UNCHANGED stat /\ pc'[d] = Branch(stat[d]) /\ stat[d] # Running
    BY <1>0, <1>10 DEF Switch
  <2>2. /\ Branch(stat[d]) \in {"resume", "srecv", "close"}
        /\ stat[d] # Suspend => Branch(stat[d]) # "srecv"
    BY <2>1 DEF Branch
  <2>3. QED
    BY <2>1, <2>2
<1>11. CASE Resume(d)
  BY <1>11 DEF Resume
<1>12. CASE HandlerReturns(d) \/ CloseSocket(d) \/ DecStore(d)
  <2>1. UNCHANGED stat /\ pc'[d] \in {"top", "close", "release", "closed"}
    BY <1>12 DEF HandlerReturns, CloseSocket, DecStore
  <2>2. QED
    BY <2>1
<1>13. QED
  BY <1>2, <1>3, <1>4, <1>5, <1>6, <1>7, <1>8, <1>9, <1>10, <1>11, <1>12
     DEF MovingStep, ReceiveStep, WorkerActs

\* recv and what follows it, for a connection whose call is not made or made.
LEMMA TailReceives ==
    ASSUME TypeOK, TailInv, NEW c \in Conns, ReceiveStep(c), TailCounts(c)
    PROVE  tail'[c] \in {0, 1} /\ (tail'[c] = 1 => killAsked /\ pc'[c] \in {"top", "close", "data", "eof"})
<1> USE Names, StatusesDiffer DEF TypeOK, PcOK, ReceiveStep
<1>0. tail[c] \in {0, 1} /\ TailOf(c) /\ tail \in [Conns -> {0, 1}]
  BY DEF TailInv
<1>1. pc'[c] \in {"top", "close", "data", "eof"}
  <2>1. SuspendedTarget(stat[c]) \in {"close", "data", "top"}
    BY DEF SuspendedTarget
  <2>2. QED
    BY <2>1 DEF Recv, SuspendedRecv
<1>2. ASSUME tail[c] = 1 PROVE pc'[c] \notin {"data", "eof"}
  <2>1. SuspendedRecv(c) /\ stat[c] = Suspend
    BY <1>0, <1>2 DEF TailOf, Recv, SuspendedRecv
  <2>2. SuspendedTarget(stat[c]) = "top"
    BY <2>1 DEF SuspendedTarget
  <2>3. QED
    BY <2>1, <2>2 DEF SuspendedRecv
<1>3. tail'[c] = IF killAsked /\ pc'[c] \in {"data", "eof"} THEN tail[c] + 1 ELSE tail[c]
  BY <1>0 DEF TailCounts
<1>4. QED
  BY <1>0, <1>1, <1>2, <1>3 DEF TailOf

LEMMA TailNext ==
    TypeOK /\ RefInv /\ IdleInv /\ TailInv /\ [ProxyNext]_proxyVars => TailInv'
<1> SUFFICES ASSUME TypeOK, RefInv, IdleInv, TailInv, [ProxyNext]_proxyVars PROVE TailInv'
  OBVIOUS
<1> USE Names, StatusesDiffer
<1>1. CASE UNCHANGED proxyVars
  BY <1>1 DEF proxyVars, vars, TailInv, TailOf
<1>2. CASE MovingStep /\ TailKept
  BY <1>2, KilledNext, TailOfNext DEF SharedStep, TailKept, TailInv, TailOf
<1>3. ASSUME NEW c \in Conns, ReceiveStep(c), TailCounts(c) PROVE TailInv'
  <2>1. SharedStep
    BY <1>3 DEF SharedStep
  <2>2. /\ tail \in [Conns -> {0, 1}]
        /\ tail' = [tail EXCEPT ![c] = tail'[c]] /\ tail'[c] \in {0, 1}
        /\ tail'[c] = 1 => killAsked /\ pc'[c] \in {"top", "close", "data", "eof"}
    BY <1>3, TailReceives DEF TailInv, TailCounts
  <2>3. killAsked' = killAsked /\ (killAsked => stat'[Server] # Running)
    BY <2>1, KilledNext
  <2>4. ASSUME NEW d \in Conns, d # c PROVE TailOf(d)'
    <3>1. tail'[d] = tail[d]
      BY <2>2, <2>4
    <3>2. QED
      BY <1>3, <2>3, <2>4, <3>1, TailOfNext DEF TailOf, TailInv
  <2>5. TailOf(c)'
    BY <2>2, <2>3 DEF TailOf
  <2>6. QED
    BY <2>2, <2>3, <2>4, <2>5 DEF TailInv
<1>4. CASE CallStep /\ TailKept
  <2>1. /\ UNCHANGED <<pc, tail>> /\ \A c \in Conns : stat'[c] = stat[c]
        /\ stat'[Server] \in {stat[Server], Resuming, ShouldTerminate}
        /\ killAsked' = killAsked \/ (killAsked' = TRUE /\ stat'[Server] = ShouldTerminate)
    BY <1>4, CallsStand DEF TypeOK, TailKept
  <2>2. killAsked => killAsked'
    BY <2>1
  <2>3. killAsked' => stat'[Server] # Running
    BY <2>1 DEF TailInv
  <2>4. QED
    BY <2>1, <2>2, <2>3 DEF TailInv, TailOf
\* The block that stores running over a kill starts before the first connection.
<1>5. CASE ProxyDidStart /\ TailKept
  <2>1. /\ \A c \in Conns : pc[c] = "new" /\ pc'[c] = "new"
        /\ killAsked' = FALSE
    BY <1>5 DEF ProxyDidStart, RefInv, TypeOK, PcOK
  <2>2. QED
    BY <1>5, <2>1 DEF TailKept, TailInv, TailOf
<1>6. CASE AcceptOnClosed /\ TailKept
  BY <1>6 DEF AcceptOnClosed, TypeOK, PcOK, TailKept, TailInv, TailOf, appVars
<1>7. CASE KillCloses /\ TailKept
  <2>1. /\ \A c \in Conns : pc'[c] = IF pc[c] = "backlog" THEN "refused" ELSE pc[c]
        /\ UNCHANGED <<stat, killAsked, tail>>
    BY <1>7 DEF KillCloses, TailKept
  <2>2. QED
    BY <2>1 DEF TailInv, TailOf
<1>8. ASSUME NEW c \in Conns, AcceptOnGone(c), TailKept PROVE TailInv'
  <2>1. /\ \A d \in Conns \ {c} : pc'[d] = pc[d]
        /\ UNCHANGED <<stat, killAsked, tail>> /\ pc[c] = "backlog"
    BY <1>8 DEF AcceptOnGone, TypeOK, PcOK, TailKept, appVars
  <2>2. QED
    BY <2>1 DEF TailInv, TailOf
<1>9. ASSUME NEW c \in Conns, LeaveFreed(c), TailKept PROVE TailInv'
  <2>1. /\ \A d \in Conns \ {c} : pc'[d] = pc[d]
        /\ UNCHANGED <<stat, killAsked, tail>> /\ pc'[c] = "decStore"
    BY <1>9 DEF LeaveFreed, TypeOK, PcOK, TailKept, appVars
  <2>2. QED
    BY <2>1 DEF TailInv, TailOf
<1>10. QED
  BY <1>1, <1>2, <1>3, <1>4, <1>5, <1>6, <1>7, <1>8, <1>9, ProxyCases DEF OwnStep

\* For any number of connections, and whatever the program does to the server's status after
\* SXKillServer, no connection's data handler is called more than once more
\* (HTTP-proxy/SXServer.c:252-256, 407-423).
THEOREM OneMoreAtMostHolds == ProxySpec => []OneMoreAtMost
<1>1. ProxyInit => TypeOK /\ RefInv /\ IdleInv /\ TailInv
  BY TypeInit, RefInit, TailInit DEF ProxyInit, Init, IdleInv, Objects
<1>2. TypeOK /\ RefInv /\ IdleInv /\ TailInv /\ [ProxyNext]_proxyVars
        => (TypeOK /\ RefInv /\ IdleInv /\ TailInv)'
  BY ProxyTypeNext, ProxyRefNext, IdleNext, TailNext
<1>3. TailInv => OneMoreAtMost
  BY DEF TailInv, OneMoreAtMost
<1>4. QED
  BY <1>1, <1>2, <1>3, PTL DEF ProxySpec

-----------------------------------------------------------------------------
(* The older server implements ConnLife.                                   *)

LEMMA ProxyLateNext == TypeOK /\ RefInv /\ LateInv /\ [ProxyNext]_proxyVars => LateInv'
<1> SUFFICES ASSUME TypeOK, RefInv, LateInv, [ProxyNext]_proxyVars PROVE LateInv'
  OBVIOUS
<1> USE Names, StatusesDiffer
<1>1. CASE UNCHANGED proxyVars \/ SharedStep
  <2>1. [Next]_vars
    BY <1>1, SharedIsNext DEF proxyVars
  <2>2. QED
    BY <2>1, LateNext
<1>2. CASE CallStep
  <2>1. /\ UNCHANGED <<pc, late>> /\ \A c \in Conns : stat'[c] = stat[c]
        /\ stat'[Server] = stat[Server] \/ stat'[Server] # Running
    BY <1>2, CallsStand DEF TypeOK
  <2>2. QED
    BY <2>1 DEF LateInv, LateOf
<1>3. CASE ProxyDidStart
  <2>1. \A c \in Conns : pc[c] = "new" /\ pc'[c] = "new" /\ late'[c] = late[c]
    BY <1>3 DEF ProxyDidStart, RefInv, TypeOK, PcOK
  <2>2. QED
    BY <2>1 DEF LateInv, LateOf
<1>4. CASE AcceptOnClosed
  BY <1>4 DEF AcceptOnClosed, TypeOK, PcOK, LateInv, LateOf
<1>5. CASE KillCloses
  <2>1. /\ \A c \in Conns : pc'[c] = IF pc[c] = "backlog" THEN "refused" ELSE pc[c]
        /\ UNCHANGED <<stat, late>>
    BY <1>5 DEF KillCloses, KillMoves
  <2>2. QED
    BY <2>1 DEF LateInv, LateOf
<1>6. ASSUME NEW c \in Conns, AcceptOnGone(c) PROVE LateInv'
  <2>1. /\ \A d \in Conns \ {c} : pc'[d] = pc[d]
        /\ UNCHANGED <<stat, late>> /\ pc[c] = "backlog"
    BY <1>6 DEF AcceptOnGone, TypeOK, PcOK
  <2>2. QED
    BY <2>1 DEF LateInv, LateOf
<1>7. ASSUME NEW c \in Conns, LeaveFreed(c) PROVE LateInv'
  <2>1. /\ \A d \in Conns \ {c} : pc'[d] = pc[d]
        /\ UNCHANGED <<stat, late>> /\ pc[c] = "leave" /\ pc'[c] = "decStore"
    BY <1>7 DEF LeaveFreed, TypeOK, PcOK
  <2>2. QED
    BY <2>1 DEF LateInv, LateOf
<1>8. QED
  BY <1>1, <1>2, <1>3, <1>4, <1>5, <1>6, <1>7, ProxyCases DEF OwnStep, SharedStep

ProxyLifeInv == TypeOK /\ RefInv /\ IdleInv /\ LateInv

SameProxyPhase == \A c \in Conns : ProxyPhase(c)' = ProxyPhase(c)

EndPc == DownPc \cup {"closed"}

\* What a reader of ConnLife sees at each place, before and after a step.
LEMMA ProxyPhases ==
    ASSUME NEW c
    PROVE  /\ pc[c] = "new" => ProxyPhase(c) = "none"
           /\ pc[c] \in {"backlog", "queued"} => ProxyPhase(c) = "pending"
           /\ pc[c] \in LivePc => ProxyPhase(c) = "live"
           /\ pc[c] = "refused" => ProxyPhase(c) = "refused"
           /\ pc[c] \in EndPc => ProxyPhase(c) = "down"
  BY DEF ProxyPhase, LivePc, LoopPc, EndPc, DownPc, ReleasePc

LEMMA ProxyPhasesNext ==
    ASSUME NEW c
    PROVE  /\ pc'[c] = "new" => ProxyPhase(c)' = "none"
           /\ pc'[c] \in {"backlog", "queued"} => ProxyPhase(c)' = "pending"
           /\ pc'[c] \in LivePc => ProxyPhase(c)' = "live"
           /\ pc'[c] = "refused" => ProxyPhase(c)' = "refused"
           /\ pc'[c] \in EndPc => ProxyPhase(c)' = "down"
  BY DEF ProxyPhase, LivePc, LoopPc, EndPc, DownPc, ReleasePc

\* A connection that stays at its place looks the same.
LEMMA ProxyStill ==
    ASSUME NEW c, pc'[c] = pc[c]
    PROVE  ProxyPhase(c)' = ProxyPhase(c) /\ InHandler(c)' = InHandler(c)
<1>1. InHandler(c)' = InHandler(c)
  BY DEF InHandler
<1>2. ProxyPhase(c)' = ProxyPhase(c)
  BY DEF ProxyPhase
<1>3. QED
  BY <1>1, <1>2

LEMMA ProxyStutters ==
    ASSUME SameProxyPhase, SameHandling, SameQuiet, UNCHANGED late
    PROVE  UNCHANGED ProxyLife!vars
  BY Zenon DEF ProxyLife!vars, SameProxyPhase, SameHandling, SameQuiet, InHandler

\* The status of the server or of a connection changes, and nobody gains a call.
LEMMA ProxyHushes ==
    ASSUME SameProxyPhase, SameHandling, UNCHANGED late
    PROVE  \E S \in SUBSET Conns : ProxyLife!Hush(S)
<1> DEFINE S == {c \in Conns : Suspended(c)'}
<1>1. [c \in Conns |-> Suspended(c)]' = [c \in Conns |-> c \in S]
  BY DEF Suspended
<1>2. ProxyLife!Hush(S)
  BY <1>1, Zenon DEF ProxyLife!Hush, SameProxyPhase, SameHandling, InHandler
<1>3. QED
  BY <1>2, Zenon

LEMMA ProxyBecomes ==
    ASSUME NEW c \in Conns, NEW from, NEW to, ProxyPhase(c) = from, ProxyPhase(c)' = to,
           \A d \in Conns \ {c} : ProxyPhase(d)' = ProxyPhase(d),
           SameHandling, SameQuiet, UNCHANGED late
    PROVE  ProxyLife!Becomes(c, from, to)
<1>1. [d \in Conns |-> ProxyPhase(d)]' = [[d \in Conns |-> ProxyPhase(d)] EXCEPT ![c] = to]
  OBVIOUS
<1>2. UNCHANGED <<[d \in Conns |-> InHandler(d)], [d \in Conns |-> Suspended(d)],
                  [d \in Conns |-> 1 - late[d]]>>
  BY Zenon DEF SameHandling, SameQuiet
<1>3. [d \in Conns |-> ProxyPhase(d)][c] = from
  OBVIOUS
<1>4. QED
  BY <1>1, <1>2, <1>3, Zenon DEF ProxyLife!Becomes, InHandler

LEMMA ProxyInitImplements == ProxyInit => ProxyLife!Init
<1> SUFFICES ASSUME ProxyInit PROVE ProxyLife!Init
  OBVIOUS
<1>1. \A c \in Conns : pc[c] = "new" /\ stat[c] = Idle /\ stat[Server] = Idle /\ late[c] = 0
  BY Names DEF ProxyInit, Init
<1>2. [c \in Conns |-> ProxyPhase(c)] = [c \in Conns |-> "none"]
  BY <1>1, ProxyPhases
<1>3. [c \in Conns |-> pc[c] \in {"data", "eof"}] = [c \in Conns |-> FALSE]
  <2>1. \A c \in Conns : (pc[c] \in {"data", "eof"}) = FALSE
    BY <1>1
  <2>2. QED
    BY <2>1, Zenon
<1>4. [c \in Conns |-> Suspended(c)] = [c \in Conns |-> FALSE]
  <2>1. \A c \in Conns : Suspended(c) = FALSE
    BY <1>1, StatusesDiffer DEF Suspended
  <2>2. QED
    BY <2>1, Zenon
<1>5. [c \in Conns |-> 1 - late[c]] = [c \in Conns |-> 1]
  BY <1>1
<1>6. QED
  BY <1>2, <1>3, <1>4, <1>5, Zenon DEF ProxyLife!Init

\* A handler is called: the call is counted against a suspended connection.
LEMMA ProxyBegins ==
    ASSUME ProxyLifeInv, NEW c \in Conns, pc[c] \in {"recv", "srecv"},
           Goto(c, "data") \/ Goto(c, "eof"), Deliver(c), late[c] = 0, UNCHANGED stat
    PROVE  ProxyLife!Begin(c)
<1>0. /\ pc \in [Threads -> OwnerPc \cup ListenerPc \cup WorkerPc \cup ReleasePc]
      /\ late \in [Conns -> Nat] /\ c \in Threads
  BY Names DEF ProxyLifeInv, TypeOK, PcOK, DataOK
<1>1. pc'[c] \in {"data", "eof"} /\ \A d \in Conns \ {c} : pc'[d] = pc[d]
  BY <1>0, Names
<1>2. ProxyPhase(c) = "live" /\ ProxyPhase(c)' = "live"
  BY <1>1, ProxyPhases, ProxyPhasesNext DEF LivePc, LoopPc
<1>3. SameProxyPhase
  BY <1>1, <1>2, ProxyStill DEF SameProxyPhase
<1>4. [d \in Conns |-> InHandler(d)]' = [[d \in Conns |-> InHandler(d)] EXCEPT ![c] = TRUE]
  BY <1>1 DEF InHandler
<1>5. UNCHANGED <<[d \in Conns |-> ProxyPhase(d)], [d \in Conns |-> Suspended(d)]>>
  BY <1>3, Zenon DEF SameProxyPhase, Suspended
<1>6. [d \in Conns |-> InHandler(d)][c] = FALSE
  <2>1. InHandler(c) = FALSE
    BY DEF InHandler
  <2>2. QED
    BY <2>1, Zenon
<1>7. /\ [d \in Conns |-> ProxyPhase(d)][c] = "live"
      /\ [d \in Conns |-> Suspended(d)][c] = Suspended(c)
  BY <1>2, Zenon
<1>8. [d \in Conns |-> 1 - late[d]][c] = 1
  OBVIOUS
<1>9. CASE Suspended(c)
  <2>1. late' = [late EXCEPT ![c] = 1]
    BY <1>0, <1>9 DEF Deliver
  <2>2. \A d \in Conns : 1 - late'[d] = IF d = c THEN 0 ELSE 1 - late[d]
    BY <1>0, <2>1
  <2>3. [d \in Conns |-> 1 - late'[d]] = [d \in Conns |-> IF d = c THEN 0 ELSE 1 - late[d]]
    BY <2>2
  <2>4. [d \in Conns |-> 1 - late[d]]' = [[d \in Conns |-> 1 - late[d]] EXCEPT ![c] = 0]
    BY <2>3
  <2>5. QED
    BY <1>4, <1>5, <1>6, <1>7, <1>8, <1>9, <2>4, Zenon DEF ProxyLife!Begin, InHandler
<1>10. CASE ~Suspended(c)
  <2>1. [d \in Conns |-> 1 - late[d]]' = [d \in Conns |-> 1 - late[d]]
    BY <1>0, <1>10 DEF Deliver
  <2>2. QED
    BY <1>4, <1>5, <1>6, <1>7, <1>10, <2>1, Zenon DEF ProxyLife!Begin, InHandler
<1>11. QED
  BY <1>9, <1>10, Zenon

\* A handler returns.
LEMMA ProxyEnds ==
    ASSUME ProxyLifeInv, NEW c \in Conns, HandlerReturns(c)
    PROVE  ProxyLife!End(c)
<1>1. /\ pc[c] \in {"data", "eof"} /\ pc'[c] \in {"top", "close"}
      /\ \A d \in Conns \ {c} : pc'[d] = pc[d]
      /\ UNCHANGED <<stat, late>>
  BY Names DEF HandlerReturns, WorkerMoves, ProxyLifeInv, TypeOK, PcOK
<1>2. SameProxyPhase
  <2>1. ProxyPhase(c)' = ProxyPhase(c)
    BY <1>1, ProxyPhases, ProxyPhasesNext DEF LivePc, LoopPc
  <2>2. QED
    BY <1>1, <2>1, ProxyStill DEF SameProxyPhase
<1>3. [d \in Conns |-> InHandler(d)]' = [[d \in Conns |-> InHandler(d)] EXCEPT ![c] = FALSE]
  <2>1. InHandler(c)' = FALSE /\ \A d \in Conns \ {c} : InHandler(d)' = InHandler(d)
    BY <1>1 DEF InHandler
  <2>2. QED
    BY <2>1
<1>4. [d \in Conns |-> InHandler(d)][c] = TRUE
  <2>1. InHandler(c) = TRUE
    BY <1>1 DEF InHandler
  <2>2. QED
    BY <2>1, Zenon
<1>5. UNCHANGED <<[d \in Conns |-> ProxyPhase(d)], [d \in Conns |-> Suspended(d)],
                  [d \in Conns |-> 1 - late[d]]>>
  BY <1>1, <1>2, Zenon DEF SameProxyPhase, Suspended
<1>6. QED
  BY <1>3, <1>4, <1>5, Zenon DEF ProxyLife!End, InHandler

\* A resume of the server gives every connection a new call.
LEMMA ProxyWakes ==
    ASSUME ProxyLifeInv, StatusStore, app[2] = Resuming
    PROVE  \E S \in SUBSET Conns : ProxyLife!Wake(S)
<1>1. /\ UNCHANGED pc /\ late' = [c \in Conns |-> 0]
  BY DEF StatusStore, ProxyLifeInv, IdleInv
<1>2. [c \in Conns |-> Suspended(c)]' \in [Conns -> BOOLEAN]
  BY DEF Suspended
<1>3. [c \in Conns |-> 1 - late[c]]'
        = [c \in Conns |-> IF c \in Conns THEN 1 ELSE [d \in Conns |-> 1 - late[d]][c]]
  BY <1>1
<1>4. SameProxyPhase /\ SameHandling
  BY <1>1, ProxyStill DEF SameProxyPhase, SameHandling
<1>5. UNCHANGED <<[c \in Conns |-> ProxyPhase(c)], [c \in Conns |-> pc[c] \in {"data", "eof"}]>>
  BY <1>1, <1>4, Zenon DEF SameProxyPhase
<1>6. ProxyLife!Wake(Conns)
  BY <1>2, <1>3, <1>5 DEF ProxyLife!Wake
<1>7. QED
  BY <1>6, Zenon

\* The listening socket is closed: all that wait at it are turned down at once.
LEMMA ProxyResets ==
    ASSUME ProxyLifeInv, KillCloses
    PROVE  \E S \in SUBSET Conns : ProxyLife!RefuseAll(S)
<1> DEFINE S == {c \in Conns : pc[c] = "backlog"}
<1>1. /\ \A c \in Conns : pc'[c] = IF c \in S THEN "refused" ELSE pc[c]
      /\ UNCHANGED <<stat, late>>
  BY Names DEF KillCloses, KillMoves
<1>2. \A c \in S : ProxyPhase(c) = "pending" /\ ProxyPhase(c)' = "refused"
  BY <1>1, ProxyPhases, ProxyPhasesNext
<1>3. \A c \in Conns \ S : ProxyPhase(c)' = ProxyPhase(c)
  BY <1>1, ProxyStill
<1>4. SameHandling
  BY <1>1 DEF SameHandling, InHandler
<1>5. [c \in Conns |-> ProxyPhase(c)]'
        = [c \in Conns |-> IF c \in S THEN "refused" ELSE [d \in Conns |-> ProxyPhase(d)][c]]
  BY <1>2, <1>3
<1>6. UNCHANGED <<[c \in Conns |-> pc[c] \in {"data", "eof"}], [c \in Conns |-> Suspended(c)],
                  [c \in Conns |-> 1 - late[c]]>>
  BY <1>1, <1>4, Zenon DEF SameHandling, InHandler, Suspended
<1>7. \A c \in S : [d \in Conns |-> ProxyPhase(d)][c] = "pending"
  BY <1>2
<1>8. ProxyLife!RefuseAll(S)
  BY <1>5, <1>6, <1>7 DEF ProxyLife!RefuseAll
<1>9. QED
  BY <1>8, Zenon

\* One connection's step with no call before it or after it.
LEMMA ProxyMoves ==
    ASSUME NEW c \in Conns, \A d \in Conns \ {c} : pc'[d] = pc[d],
           InHandler(c) = FALSE, InHandler(c)' = FALSE
    PROVE  SameHandling /\ \A d \in Conns \ {c} : ProxyPhase(d)' = ProxyPhase(d)
<1>1. \A d \in Conns \ {c} : ProxyPhase(d)' = ProxyPhase(d) /\ InHandler(d)' = InHandler(d)
  BY ProxyStill
<1>2. QED
  BY <1>1, Zenon DEF SameHandling

\* The steps at the two ends of a connection's life.
LEMMA ProxyEndsOfLife ==
    ASSUME ProxyLifeInv, NEW c \in Conns,
           Connect(c) \/ Refuse(c) \/ AcceptOnGone(c) \/ WorkerStart(c) \/ CloseSocket(c)
    PROVE  ProxyLife!Next
<1> USE Names DEF ProxyLifeInv, TypeOK, PcOK, DataOK
<1>0. UNCHANGED late
  BY DEF Connect, Refuse, AcceptOnGone, WorkerStart, CloseSocket
<1>1. \A d \in Conns \ {c} : pc'[d] = pc[d]
  BY DEF Connect, Refuse, AcceptOnGone, WorkerStart, CloseSocket
<1>2. /\ pc[c] \in {"new", "backlog", "queued", "close"}
      /\ pc'[c] \in {"backlog", "refused", "top", "retStore", "release"}
  BY DEF Connect, Refuse, AcceptOnGone, WorkerStart, CloseSocket
<1>3. InHandler(c) = FALSE /\ InHandler(c)' = FALSE
  BY <1>2 DEF InHandler
<1>4. SameHandling /\ \A d \in Conns \ {c} : ProxyPhase(d)' = ProxyPhase(d)
  BY <1>1, <1>3, ProxyMoves
<1>5. SameQuiet
  <2>1. CASE UNCHANGED stat
    BY <2>1 DEF SameQuiet, Suspended
  <2>2. CASE WorkerStart(c)
    <3>1. stat[c] = Idle /\ stat' = [stat EXCEPT ![c] = Running]
      BY <2>2 DEF WorkerStart, IdleInv, Unstarted
    <3>2. QED
      BY <3>1, StatusesDiffer DEF SameQuiet, Suspended
  <2>3. QED
    BY <2>1, <2>2 DEF Connect, Refuse, AcceptOnGone, CloseSocket
<1>6. CASE Connect(c)
  <2>1. ProxyPhase(c) = "none" /\ ProxyPhase(c)' = "pending"
    BY <1>6, ProxyPhases, ProxyPhasesNext DEF Connect
  <2>2. ProxyLife!Becomes(c, "none", "pending")
    BY <1>0, <1>4, <1>5, <2>1, ProxyBecomes
  <2>3. QED
    BY <2>2, Zenon DEF ProxyLife!Next, ProxyLife!Arrive
<1>7. CASE Refuse(c) \/ AcceptOnGone(c)
  <2>1. pc[c] = "backlog" /\ pc'[c] = "refused"
    BY <1>7 DEF Refuse, AcceptOnGone
  <2>2. ProxyPhase(c) = "pending" /\ ProxyPhase(c)' = "refused"
    BY <2>1, ProxyPhases, ProxyPhasesNext
  <2>3. ProxyLife!Becomes(c, "pending", "refused")
    BY <1>0, <1>4, <1>5, <2>2, ProxyBecomes
  <2>4. QED
    BY <2>3, Zenon DEF ProxyLife!Next, ProxyLife!Refuse
<1>8. CASE WorkerStart(c)
  <2>1. pc[c] = "queued" /\ pc'[c] \in {"top", "retStore"}
    BY <1>8 DEF WorkerStart
  <2>2. ProxyPhase(c) = "pending" /\ ProxyPhase(c)' = "live"
    BY <2>1, ProxyPhases, ProxyPhasesNext DEF LivePc, LoopPc
  <2>3. ProxyLife!Becomes(c, "pending", "live")
    BY <1>0, <1>4, <1>5, <2>2, ProxyBecomes
  <2>4. QED
    BY <2>3, Zenon DEF ProxyLife!Next, ProxyLife!Admit
<1>9. CASE CloseSocket(c)
  <2>1. pc[c] = "close" /\ pc'[c] = "release"
    BY <1>9 DEF CloseSocket
  <2>2. ProxyPhase(c) = "live" /\ ProxyPhase(c)' = "down"
    BY <2>1, ProxyPhases, ProxyPhasesNext DEF LivePc, EndPc, DownPc, ReleasePc
  <2>3. ProxyLife!Becomes(c, "live", "down")
    BY <1>0, <1>4, <1>5, <2>2, ProxyBecomes
  <2>4. [d \in Conns |-> InHandler(d)][c] = FALSE
    BY <1>3, Zenon
  <2>5. QED
    BY <2>3, <2>4, Zenon DEF ProxyLife!Next, ProxyLife!Close, InHandler
<1>10. QED
  BY <1>6, <1>7, <1>8, <1>9

\* A step of a worker within its life, or after it.
LEMMA ProxyWithinLife ==
    ASSUME ProxyLifeInv, NEW c \in Conns,
           \/ Accept(c) \/ RetainStore(c) \/ Top(c) \/ Switch(c) \/ Resume(c)
           \/ LeaveFreed(c) \/ DecStore(c) \/ ReleaseActs(c)
    PROVE  SameProxyPhase /\ SameHandling /\ UNCHANGED late
<1> USE Names DEF ProxyLifeInv, TypeOK, PcOK, DataOK
<1>0. UNCHANGED late
  BY DEF Accept, ListenerMoves, RetainStore, Top, Switch, Resume, LeaveFreed, DecStore,
         ReleaseActs, SXReleaseLoad, SXReleaseStore, SXReleaseTest
<1>1. \A d \in Conns \ {c} : pc'[d] = pc[d]
  BY DEF Accept, RetainStore, Top, Switch, Resume, LeaveFreed, DecStore, ReleaseActs,
         SXReleaseLoad, SXReleaseStore, SXReleaseTest
<1>2. InHandler(c) = FALSE /\ InHandler(c)' = FALSE /\ ProxyPhase(c)' = ProxyPhase(c)
  <2>1. CASE Accept(c)
    <3>1. pc[c] = "backlog" /\ pc'[c] = "queued"
      BY <2>1 DEF Accept
    <3>2. QED
      BY <3>1, ProxyPhases, ProxyPhasesNext DEF InHandler
  <2>2. CASE RetainStore(c) \/ Top(c) \/ Switch(c) \/ Resume(c)
    <3>1. Branch(stat[c]) \in {"recv", "resume", "srecv", "close"}
      BY DEF Branch
    <3>2. /\ pc[c] \in {"retStore", "top", "switch", "resume"}
          /\ pc'[c] \in {"top", "switch", "recv", "resume", "srecv", "close"}
      BY <2>2, <3>1 DEF RetainStore, Top, Switch, Resume
    <3>3. ProxyPhase(c) = "live" /\ ProxyPhase(c)' = "live"
      BY <3>2, ProxyPhases, ProxyPhasesNext DEF LivePc, LoopPc
    <3>4. QED
      BY <3>2, <3>3 DEF InHandler
  <2>3. CASE LeaveFreed(c) \/ DecStore(c) \/ ReleaseActs(c)
    <3>1. pc[c] \in EndPc /\ pc'[c] \in EndPc
      BY <2>3 DEF LeaveFreed, DecStore, ReleaseActs, SXReleaseLoad, SXReleaseStore,
                  SXReleaseTest, AfterRelease, EndPc, DownPc, ReleasePc
    <3>2. ProxyPhase(c) = "down" /\ ProxyPhase(c)' = "down"
      BY <3>1, ProxyPhases, ProxyPhasesNext
    <3>3. QED
      BY <3>1, <3>2 DEF InHandler, EndPc, DownPc, ReleasePc
  <2>4. QED
    BY <2>1, <2>2, <2>3
<1>3. SameHandling /\ \A d \in Conns \ {c} : ProxyPhase(d)' = ProxyPhase(d)
  BY <1>1, <1>2, ProxyMoves
<1>4. QED
  BY <1>0, <1>2, <1>3 DEF SameProxyPhase

LEMMA ProxyStepImplements ==
    ProxyLifeInv /\ [ProxyNext]_proxyVars => [ProxyLife!Next]_ProxyLife!vars
<1> SUFFICES ASSUME ProxyLifeInv, [ProxyNext]_proxyVars
             PROVE  ProxyLife!Next \/ UNCHANGED ProxyLife!vars
  BY Zenon
<1> USE Names
<1>0. ASSUME \A c \in Conns : pc'[c] = pc[c] PROVE SameProxyPhase /\ SameHandling
  BY <1>0, ProxyStill DEF SameProxyPhase, SameHandling
<1>1. ASSUME SameProxyPhase, SameHandling, UNCHANGED late PROVE ProxyLife!Next
  BY <1>1, ProxyHushes DEF ProxyLife!Next
<1>2. CASE UNCHANGED proxyVars
  BY <1>0, <1>1, <1>2 DEF proxyVars, vars
\* Steps of the program and of the accept loop alone.
<1>3. CASE SXServerStart \/ OwnerRelease
  BY <1>0, <1>1, <1>3 DEF SXServerStart, OwnerRelease, ProxyLifeInv, TypeOK, PcOK
<1>4. CASE StatusStore
  <2>1. CASE app[2] = Resuming
    BY <1>4, <2>1, ProxyWakes DEF ProxyLife!Next
  <2>2. CASE app[2] # Resuming
    <3>1. UNCHANGED <<pc, late>>
      BY <1>4, <2>2 DEF StatusStore, ProxyLifeInv, TypeOK, DataOK
    <3>2. QED
      BY <1>0, <1>1, <3>1
  <2>3. QED
    BY <2>1, <2>2
<1>5. CASE CallStep
  BY <1>0, <1>1, <1>5, CallsStand DEF ProxyLifeInv, TypeOK
<1>6. CASE KillCloses
  BY <1>6, ProxyResets DEF ProxyLife!Next
<1>7. CASE \/ While \/ Check \/ Guests \/ IncLoad \/ IncStore \/ Stop \/ DidKill
           \/ ProxyDidStart \/ AcceptOnClosed
  <2>1. /\ \E l : pc' = [pc EXCEPT ![Listener] = l]
        /\ UNCHANGED late
    BY <1>7 DEF While, Check, Guests, IncLoad, IncStore, Stop, DidKill, ListenerMoves,
                ProxyDidStart, AcceptOnClosed
  <2>2. QED
    BY <1>0, <1>1, <2>1 DEF ProxyLifeInv, TypeOK, PcOK
<1>8. ASSUME NEW t \in Threads \ Conns, ReleaseActs(t) PROVE ProxyLife!Next
  <2>1. /\ \E l : pc' = [pc EXCEPT ![t] = l]
        /\ UNCHANGED late
    BY <1>8 DEF ReleaseActs, SXReleaseLoad, SXReleaseStore, SXReleaseTest
  <2>2. QED
    BY <1>0, <1>1, <2>1 DEF ProxyLifeInv, TypeOK, PcOK
\* Steps of a peer and of a worker.
<1>9. ASSUME NEW c \in Conns, Send(c) \/ Hangup(c) PROVE ProxyLife!Next
  BY <1>0, <1>1, <1>9 DEF Send, Hangup
<1>10. ASSUME NEW c \in Conns,
              Connect(c) \/ Refuse(c) \/ AcceptOnGone(c) \/ WorkerStart(c) \/ CloseSocket(c)
       PROVE  ProxyLife!Next
  BY <1>10, ProxyEndsOfLife
<1>11. ASSUME NEW c \in Conns,
              \/ Accept(c) \/ RetainStore(c) \/ Top(c) \/ Switch(c) \/ Resume(c)
              \/ LeaveFreed(c) \/ DecStore(c) \/ ReleaseActs(c)
       PROVE  ProxyLife!Next
  BY <1>1, <1>11, ProxyWithinLife
<1>12. ASSUME NEW c \in Conns, ReceiveStep(c) PROVE ProxyLife!Next
  <2>1. /\ UNCHANGED stat /\ pc[c] \in {"recv", "srecv"}
        /\ \/ (Goto(c, "close") \/ Goto(c, "top")) /\ UNCHANGED late
           \/ (Goto(c, "data") \/ Goto(c, "eof")) /\ Deliver(c) /\ late[c] = 0
    BY <1>12, Calls DEF ReceiveStep, ProxyLifeInv, TypeOK, LateInv
  <2>2. CASE (Goto(c, "close") \/ Goto(c, "top")) /\ UNCHANGED late
    <3>1. pc'[c] \in {"close", "top"} /\ \A d \in Conns \ {c} : pc'[d] = pc[d]
      BY <2>2 DEF ProxyLifeInv, TypeOK, PcOK
    <3>2. InHandler(c) = FALSE /\ InHandler(c)' = FALSE
      BY <2>1, <3>1 DEF InHandler
    <3>3. SameHandling /\ \A d \in Conns \ {c} : ProxyPhase(d)' = ProxyPhase(d)
      BY <3>1, <3>2, ProxyMoves
    <3>4. ProxyPhase(c)' = ProxyPhase(c)
      BY <2>1, <3>1, ProxyPhases, ProxyPhasesNext DEF LivePc, LoopPc
    <3>5. QED
      BY <1>1, <2>2, <3>3, <3>4 DEF SameProxyPhase
  <2>3. CASE (Goto(c, "data") \/ Goto(c, "eof")) /\ Deliver(c) /\ late[c] = 0
    BY <2>1, <2>3, ProxyBegins, Zenon DEF ProxyLife!Next
  <2>4. QED
    BY <2>1, <2>2, <2>3
<1>13. ASSUME NEW c \in Conns, HandlerReturns(c) PROVE ProxyLife!Next
  BY <1>13, ProxyEnds, Zenon DEF ProxyLife!Next
<1>14. CASE MovingStep
  BY <1>3, <1>4, <1>7, <1>8, <1>9, <1>10, <1>11, <1>13, <1>14 DEF MovingStep
<1>15. CASE OwnStep
  BY <1>6, <1>7, <1>10, <1>11, <1>15 DEF OwnStep
<1>16. QED
  BY <1>2, <1>5, <1>12, <1>14, <1>15, ProxyCases

\* For any number of connections, any max_guest and whatever is suspended, resumed and
\* killed, accept loop and workers of the older server implement ConnLife
\* (HTTP-proxy/SXServer.c:333-482).
THEOREM ProxyImplementsConnLifeHolds == ProxySpec => ProxyImplementsConnLife
<1>1. ProxyInit => ProxyLifeInv
  BY TypeInit, RefInit, LateInit DEF ProxyInit, Init, ProxyLifeInv, IdleInv, Objects
<1>2. ProxyLifeInv /\ [ProxyNext]_proxyVars => ProxyLifeInv'
  BY ProxyTypeNext, ProxyRefNext, IdleNext, ProxyLateNext DEF ProxyLifeInv
<1>3. QED
  BY <1>1, <1>2, ProxyInitImplements, ProxyStepImplements, PTL
     DEF ProxySpec, ProxyImplementsConnLife, ProxyLife!Spec
=============================================================================
